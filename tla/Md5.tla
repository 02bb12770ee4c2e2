-------------------------------- MODULE Md5 ---------------------------------
(***************************************************************************)
(* MD5 of src/src/iwand.c: a message goes through md5_update in pieces, by *)
(* way of the buffer of md5_ctx_t, and md5_final pads it.  A 32-bit word   *)
(* is a pair of 16-bit halves, the high one first.  The words state[0..3]  *)
(* are the result of the blocks handed to md5_transform so far, and these  *)
(* are what the context keeps here.                                        *)
(***************************************************************************)
EXTENDS Integers, Sequences, Words

CONSTANT Pieces  \* lengths of the pieces given to md5_update

VARIABLES
    message, fed,  \* the message, and how much of it was given to md5_update
    ctx,           \* its count, buffer and the blocks transformed
    digest         \* <<>> until md5_final

hashing == <<message, fed, ctx, digest>>

-----------------------------------------------------------------------------
(* Words *)

Add(x, y) ==
    LET low == x[2] + y[2]
    IN  <<(x[1] + y[1] + (low \div 65536)) % 65536, low % 65536>>

WNot(x) == <<65535 - x[1], 65535 - x[2]>>
WAnd(x, y) == <<x[1] & y[1], x[2] & y[2]>>
WOr(x, y) == <<x[1] | y[1], x[2] | y[2]>>
WXor(x, y) == <<x[1] (+) y[1], x[2] (+) y[2]>>

Power == <<2, 4, 8, 16, 32, 64, 128, 256, 512, 1024, 2048, 4096, 8192, 16384, 32768>>

MD5_ROT(x, n) ==
    LET Turned(a, b, k) ==
            IF k = 0 THEN a ELSE ((a * Power[k]) % 65536) + (b \div Power[16 - k])
    IN  IF n < 16 THEN <<Turned(x[1], x[2], n), Turned(x[2], x[1], n)>>
        ELSE <<Turned(x[2], x[1], n - 16), Turned(x[1], x[2], n - 16)>>

(* MD5_F, MD5_G, MD5_H, MD5_I *)
Mixed(r, x, y, z) ==
    CASE r = 0 -> WOr(WAnd(x, y), WAnd(WNot(x), z))
      [] r = 1 -> WOr(WAnd(x, z), WAnd(y, WNot(z)))
      [] r = 2 -> WXor(WXor(x, y), z)
      [] r = 3 -> WXor(y, WOr(x, WNot(z)))

Constants == <<
    <<55146, 42104>>, <<59591, 46934>>, <<9248, 28891>>, <<49597, 52974>>, <<62844, 4015>>,
    <<18311, 50730>>, <<43056, 17939>>, <<64838, 38145>>, <<27008, 39128>>, <<35652, 63407>>,
    <<65535, 23473>>, <<35164, 55230>>, <<27536, 4386>>, <<64920, 29075>>, <<42617, 17294>>,
    <<18868, 2081>>, <<63006, 9570>>, <<49216, 45888>>, <<9822, 23121>>, <<59830, 51114>>,
    <<54831, 4189>>, <<580, 5203>>, <<55457, 59009>>, <<59347, 64456>>, <<8673, 52710>>,
    <<49975, 2006>>, <<62677, 3463>>, <<17754, 5357>>, <<43491, 59653>>, <<64751, 41976>>,
    <<26479, 729>>, <<36138, 19594>>, <<65530, 14658>>, <<34673, 63105>>, <<28061, 24866>>,
    <<64997, 14348>>, <<42174, 59972>>, <<19422, 53161>>, <<63163, 19296>>, <<48831, 48240>>,
    <<10395, 32454>>, <<60065, 10234>>, <<54511, 12421>>, <<1160, 7429>>, <<55764, 53305>>,
    <<59099, 39397>>, <<8098, 31992>>, <<50348, 22117>>, <<62505, 8772>>, <<17194, 65431>>,
    <<43924, 9127>>, <<64659, 41017>>, <<25947, 22979>>, <<36620, 52370>>, <<65519, 62589>>,
    <<34180, 24017>>, <<28584, 32335>>, <<65068, 59104>>, <<41729, 17172>>, <<19976, 4513>>,
    <<63315, 32386>>, <<48442, 62005>>, <<10967, 53947>>, <<60294, 54161>> >>

Shift == << <<7, 12, 17, 22>>, <<5, 9, 14, 20>>, <<4, 11, 16, 23>>, <<6, 10, 15, 21>> >>

(* Which word of the block step i of round r takes *)
WordOf(r, i) ==
    CASE r = 0 -> i % 16 [] r = 1 -> (5 * i + 1) % 16
      [] r = 2 -> (3 * i + 5) % 16 [] r = 3 -> (7 * i) % 16

(* One of the 64 lines MD5_FF to MD5_II.  The roles of a, b, c and d move  *)
(* on by one from each line to the next.                                   *)
Line(block, w, i) ==
    LET r == i \div 16
        j == 4 * WordOf(r, i)
        x == <<block[j + 3] + 256 * block[j + 4], block[j + 1] + 256 * block[j + 2]>>
        sum == Add(Add(w[1], Mixed(r, w[2], w[3], w[4])), Add(x, Constants[i + 1]))
    IN  <<w[4], Add(MD5_ROT(sum, Shift[r + 1][(i % 4) + 1]), w[2]), w[2], w[3]>>

md5_transform(state, block) ==
    LET w[i \in 0..64] == IF i = 0 THEN state ELSE Line(block, w[i - 1], i - 1)
        v == w[64]
    IN  <<Add(state[1], v[1]), Add(state[2], v[2]), Add(state[3], v[3]), Add(state[4], v[4])>>

InitialState ==
    << <<26437, 8961>>, <<61389, 43913>>, <<39098, 56574>>, <<4146, 21622>> >>

-----------------------------------------------------------------------------
(* The context.  md5_init leaves the buffer as it is. *)

BlockLen == 64

(* Faulty variant: a buffer that is just full is left. *)
FillsBeyond(len, part) == len > part

Fills(len, part) == len >= part

(* A full buffer is transformed, then whole blocks straight from the       *)
(* input; the rest goes to the buffer.                                     *)
md5_update(c, input) ==
    LET idx == c.count % BlockLen
        part == BlockLen - idx
        len == Len(input)
        whole == (len - part) \div BlockLen
        i == IF Fills(len, part) THEN part + BlockLen * whole ELSE 0
        kept == IF Fills(len, part) THEN 0 ELSE idx
        Block(k) == SubSeq(input, part + BlockLen * (k - 1) + 1, part + BlockLen * k)
    IN  [count |-> c.count + len,
         blocks |-> IF Fills(len, part)
                    THEN c.blocks \o <<SubSeq(c.buffer, 1, idx) \o SubSeq(input, 1, part)>>
                                 \o [k \in 1..whole |-> Block(k)]
                    ELSE c.blocks,
         buffer |-> SubSeq(c.buffer, 1, kept) \o SubSeq(input, i + 1, len)
                    \o SubSeq(c.buffer, kept + len - i + 1, BlockLen)]

(* The length in bits, as eight bytes, the lowest first *)
Length(n) ==
    LET bits == 8 * n
        high == bits \div 16777216
        top == high \div 16777216
    IN  <<bits % 256, (bits \div 256) % 256, (bits \div 65536) % 256,
          high % 256, (high \div 256) % 256, (high \div 65536) % 256,
          top % 256, (top \div 256) % 256>>

Padding(n) == [k \in 1..n |-> IF k = 1 THEN 128 ELSE 0]

PadLen(idx) == IF idx < 56 THEN 56 - idx ELSE 120 - idx

Padded(c) == md5_update(md5_update(c, Padding(PadLen(c.count % BlockLen))), Length(c.count))

(* The state after all blocks *)
Transformed(blocks) ==
    LET state[k \in 0..Len(blocks)] ==
            IF k = 0 THEN InitialState ELSE md5_transform(state[k - 1], blocks[k])
    IN  state[Len(blocks)]

(* Four bytes of each word, the lowest first *)
DigestOf(state) ==
    [b \in 1..16 |->
        LET half == state[((b - 1) \div 4) + 1][IF (b - 1) % 4 < 2 THEN 2 ELSE 1]
        IN  IF b % 2 = 1 THEN half % 256 ELSE half \div 256]

-----------------------------------------------------------------------------
Md5Init(bytes) ==
    /\ message = bytes /\ fed = 0
    /\ ctx = [count |-> 0, blocks |-> <<>>, buffer |-> [k \in 1..BlockLen |-> 255]]
    /\ digest = <<>>

Update(n) ==
    /\ digest = <<>> /\ fed + n <= Len(message)
    /\ ctx' = md5_update(ctx, SubSeq(message, fed + 1, fed + n))
    /\ fed' = fed + n
    /\ UNCHANGED <<message, digest>>

md5_final ==
    /\ digest = <<>> /\ fed = Len(message)
    /\ ctx' = Padded(ctx)
    /\ digest' = DigestOf(Transformed(ctx'.blocks))
    /\ UNCHANGED <<message, fed>>

Md5Next == (\E n \in Pieces : Update(n)) \/ md5_final
=============================================================================
