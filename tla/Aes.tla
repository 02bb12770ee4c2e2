-------------------------------- MODULE Aes ---------------------------------
(***************************************************************************)
(* AES-128 of src/src/iwand.c, round by round: a block is encrypted        *)
(* (aes_encrypt_block) and then decrypted (aes_decrypt_block).  Bytes are  *)
(* integers, blocks functions on 0..15, and words of the key schedule      *)
(* quadruples of bytes.                                                    *)
(***************************************************************************)
EXTENDS Integers, Sequences, Words, AesTables

VARIABLES
    input,  \* the block and the key, 16 bytes each
    rk, dk, \* the key schedules (aes_key_t) of encryption and of decryption
    mode,   \* "idle", "expand", "encrypt", "decrypt" or "done"
    round,
    s,      \* the state of the cipher
    trace   \* the states encryption went through

ciphering == <<input, rk, dk, mode, round, s, trace>>

Bytes == 0..255

Sub(table, b) == table[b + 1]

(* uint8_t arithmetic of the macros xtime, mul9, ... is done in int, and   *)
(* only the result is cut to a byte.                                       *)
xtime(x) == (2 * x) (+) (((x \div 128) % 2) * 27)

mul9(x) == xtime(xtime(xtime(x))) (+) x
mul11(x) == xtime(xtime(xtime(x)) (+) x) (+) x
mul13(x) == xtime(xtime(xtime(x) (+) x)) (+) x
mul14(x) == xtime(xtime(xtime(x) (+) x) (+) x)

XT(x) == Sub(xtime_table, x)

-----------------------------------------------------------------------------
aes_rcon == <<1, 2, 4, 8, 16, 32, 64, 128, 27, 54>>

aes_sub_word(w) == [b \in 1..4 |-> Sub(aes_sbox, w[b])]

(* Word i from those before it, 0 to i - 1; the constant goes to the first *)
(* byte.                                                                   *)
NextWord(words, i) ==
    LET t == words[i]
        u == aes_sub_word(<<t[2], t[3], t[4], t[1]>>)
        v == IF i % 4 = 0 THEN [u EXCEPT ![1] = @ (+) aes_rcon[i \div 4]] ELSE t
    IN  [b \in 1..4 |-> words[i - 3][b] (+) v[b]]

KeyWords(key) == [i \in 1..4 |-> [b \in 1..4 |-> key[4 * (i - 1) + b]]]

(* The same words, the rounds in reverse *)
Swapped(words) ==
    [i \in 1..44 |-> words[4 * (10 - ((i - 1) \div 4)) + ((i - 1) % 4) + 1]]

AddRoundKey(b, words, r) ==
    [i \in 0..15 |-> b[i] (+) words[4 * r + (i \div 4) + 1][(i % 4) + 1]]

ShiftRows(b) == [i \in 0..15 |-> b[(i + 4 * (i % 4)) % 16]]
InvShiftRows(b) == [i \in 0..15 |-> b[(i + 12 * (i % 4)) % 16]]

SubBytes(b) == [i \in 0..15 |-> Sub(aes_sbox, b[i])]
InvSubBytes(b) == [i \in 0..15 |-> Sub(aes_inv_sbox, b[i])]

(* Byte j of the column that i is in, counted from i *)
From(b, i, j) == b[4 * (i \div 4) + ((i + j) % 4)]

MixColumns(b) ==
    [i \in 0..15 |-> XT(From(b, i, 0)) (+) XT(From(b, i, 1)) (+) From(b, i, 1)
                     (+) From(b, i, 2) (+) From(b, i, 3)]

(* Faulty variant: two factors swapped. *)
InvMixColumnsSwapped(b) ==
    [i \in 0..15 |-> (mul14(From(b, i, 0)) (+) mul13(From(b, i, 1))
                      (+) mul11(From(b, i, 2)) (+) mul9(From(b, i, 3))) % 256]

InvMixColumns(b) ==
    [i \in 0..15 |-> (mul14(From(b, i, 0)) (+) mul11(From(b, i, 1))
                      (+) mul13(From(b, i, 2)) (+) mul9(From(b, i, 3))) % 256]

-----------------------------------------------------------------------------
AesInit ==
    /\ input = <<>> /\ rk = <<>> /\ dk = <<>> /\ mode = "idle" /\ round = 0
    /\ s = [i \in 0..15 |-> 0] /\ trace = <<>>

(* A key is set, and a block is to be encrypted with it. *)
Begin(block, key) ==
    /\ mode = "idle" /\ mode' = "expand"
    /\ input' = <<block, key>> /\ rk' = KeyWords(key)
    /\ UNCHANGED <<dk, round, s, trace>>

(* The loop of aes_set_encrypt_key *)
aes_set_encrypt_key ==
    /\ mode = "expand" /\ Len(rk) < 44
    /\ rk' = Append(rk, NextWord(rk, Len(rk)))
    /\ UNCHANGED <<input, dk, mode, round, s, trace>>

(* sr_setup_keys sets the key for both directions. *)
aes_set_decrypt_key ==
    /\ mode = "expand" /\ Len(rk) = 44 /\ dk = <<>>
    /\ dk' = Swapped(rk)
    /\ UNCHANGED <<input, rk, mode, round, s, trace>>

StartEncrypt ==
    /\ mode = "expand" /\ dk # <<>>
    /\ mode' = "encrypt" /\ round' = 1
    /\ s' = AddRoundKey([i \in 0..15 |-> input[1][i + 1]], rk, 0)
    /\ trace' = <<s'>>
    /\ UNCHANGED <<input, rk, dk>>

EncryptRound ==
    /\ mode = "encrypt" /\ round <= 10
    /\ LET t == ShiftRows(SubBytes(s))
       IN  s' = AddRoundKey(IF round < 10 THEN MixColumns(t) ELSE t, rk, round)
    /\ trace' = Append(trace, s')
    /\ round' = round + 1
    /\ UNCHANGED <<input, rk, dk, mode>>

StartDecrypt ==
    /\ mode = "encrypt" /\ round = 11
    /\ mode' = "decrypt" /\ round' = 1
    /\ s' = AddRoundKey(s, dk, 0)
    /\ UNCHANGED <<input, rk, dk, trace>>

DecryptRound ==
    /\ mode = "decrypt"
    /\ LET t == AddRoundKey(InvSubBytes(InvShiftRows(s)), dk, round)
       IN  s' = IF round < 10 THEN InvMixColumns(t) ELSE t
    /\ round' = round + 1
    /\ mode' = IF round = 10 THEN "done" ELSE mode
    /\ UNCHANGED <<input, rk, dk, trace>>

AesNext ==
    \/ aes_set_encrypt_key \/ aes_set_decrypt_key
    \/ StartEncrypt \/ EncryptRound \/ StartDecrypt \/ DecryptRound

-----------------------------------------------------------------------------
(* Multiplication in the field of AES, and the inverse and affine map that *)
(* define its S-box                                                        *)
Times[x \in Bytes, y \in Bytes] ==
    IF y = 0 THEN 0
    ELSE (IF y % 2 = 1 THEN x ELSE 0) (+) Times[XT(x), y \div 2]

RotLeft(x, n) == ((x * 2^n) % 256) + (x \div 2^(8 - n))

Affine(x) ==
    x (+) RotLeft(x, 1) (+) RotLeft(x, 2) (+) RotLeft(x, 3) (+) RotLeft(x, 4) (+) 99
=============================================================================
