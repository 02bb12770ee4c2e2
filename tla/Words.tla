------------------------------- MODULE Words --------------------------------
(***************************************************************************)
(* C's &, | and ^ on integers of up to 16 bits, by tables of their         *)
(* nibbles: what Bitwise defines, without its recursion.                   *)
(***************************************************************************)
EXTENDS Integers

Nibbles == 0..15

OfBits(op(_, _), x, y) ==
    op(x % 2, y % 2) + 2 * op((x \div 2) % 2, (y \div 2) % 2)
    + 4 * op((x \div 4) % 2, (y \div 4) % 2) + 8 * op((x \div 8) % 2, (y \div 8) % 2)

NibbleAnd == [x \in Nibbles |-> [y \in Nibbles |-> OfBits(LAMBDA a, b : a * b, x, y)]]
NibbleOr == [x \in Nibbles |-> [y \in Nibbles |-> OfBits(LAMBDA a, b : a + b - a * b, x, y)]]
NibbleXor == [x \in Nibbles |-> [y \in Nibbles |-> OfBits(LAMBDA a, b : (a + b) % 2, x, y)]]

OfNibbles(table, x, y) ==
    table[x % 16][y % 16] + 16 * table[(x \div 16) % 16][(y \div 16) % 16]
    + 256 * table[(x \div 256) % 16][(y \div 256) % 16]
    + 4096 * table[(x \div 4096) % 16][(y \div 4096) % 16]

x & y == OfNibbles(NibbleAnd, x, y)
x | y == OfNibbles(NibbleOr, x, y)
x (+) y == OfNibbles(NibbleXor, x, y)
=============================================================================
