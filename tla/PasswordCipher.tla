--------------------------- MODULE PasswordCipher ---------------------------
(***************************************************************************)
(* How build_open_pkt (src/src/iwand.c) enciphers a password: MD5 of "mw"  *)
(* and the username is the AES key of a block that holds the password.     *)
(* The server does the same with Go's library (encryptedPassword) and      *)
(* compares the two.  Other messages are hashed here as well, as pkt_sign  *)
(* and derive_xor_key do, and other blocks enciphered, as SEGRT peers do.  *)
(***************************************************************************)
EXTENDS Md5, Aes

CONSTANTS
    Credentials,  \* pairs of a username and a password
    Messages,     \* other sequences of bytes that are hashed
    Digests,      \* the digest of a message, where known
    Blocks,       \* other pairs of a block and a key
    Published     \* what such a pair is enciphered to, where known

ASSUME CipherAssumption ==
    /\ Credentials \subseteq Seq(Bytes) \X Seq(Bytes) /\ Messages \subseteq Seq(Bytes)
    /\ Pieces \subseteq Nat /\ Blocks \subseteq [1..16 -> Bytes] \X [1..16 -> Bytes]

VARIABLE login  \* the credentials, or <<>>

Keybuf(username) == <<109, 119>> \o username

vars == <<login, hashing, ciphering>>

(* Faulty variant: the password is not cut, and the end of it is kept. *)
PassBlockEnd(password) ==
    [b \in 1..16 |->
        LET cut == IF Len(password) > 16 THEN Len(password) - 16 ELSE 0
        IN  IF b <= Len(password) THEN password[b + cut] ELSE 0]

PassBlock(password) ==
    [b \in 1..16 |-> IF b <= Len(password) THEN password[b] ELSE 0]

Init ==
    /\ \/ login \in Credentials /\ Md5Init(Keybuf(login[1]))
       \/ login = <<>> /\ \E m \in Messages : Md5Init(m)
    /\ AesInit

(* md5_hash takes the key material in one piece. *)
HashLogin ==
    /\ login # <<>>
    /\ (fed = 0 /\ Update(Len(message))) \/ md5_final
    /\ UNCHANGED ciphering

HashOther ==
    /\ login = <<>> /\ mode = "idle"
    /\ Md5Next
    /\ UNCHANGED ciphering

EncipherPassword ==
    /\ login # <<>> /\ digest # <<>>
    /\ Begin(PassBlock(login[2]), digest)
    /\ UNCHANGED hashing

EncipherOther ==
    /\ login = <<>> /\ message = <<>> /\ digest = <<>>
    /\ \E b \in Blocks : Begin(b[1], b[2])
    /\ UNCHANGED hashing

Next ==
    /\ \/ HashLogin \/ EncipherPassword
       \/ HashOther \/ EncipherOther
       \/ AesNext /\ UNCHANGED hashing
    /\ UNCHANGED login

Spec == Init /\ [][Next]_vars

-----------------------------------------------------------------------------
(* However the message was cut into pieces (a signature takes two), the    *)
(* blocks md5_transform is given are the message, one byte 128, as few     *)
(* zeros as fill a block, and the length of the message in bits.           *)
BlocksArePaddedMessage ==
    digest # <<>> =>
        LET n == Len(message)
            len == BlockLen * Len(ctx.blocks)
            padded == message \o Padding(len - n - 8) \o Length(n)
        IN  /\ len - n \in 9..72
            /\ \A k \in 1..Len(ctx.blocks) :
                  ctx.blocks[k] = SubSeq(padded, BlockLen * (k - 1) + 1, BlockLen * k)

(* The digests are those of RFC 1321: the server uses another              *)
(* implementation and must agree on signatures and keys.                   *)
DigestsAgree == digest # <<>> /\ message \in DOMAIN Digests => digest = Digests[message]

(* The enciphered block is the one FIPS 197 gives or, for a login, the one *)
(* an independent implementation makes of the first 16 characters of the   *)
(* password: Serve refuses any other.                                      *)
CiphertextsAgree ==
    LET known == IF login = <<>> THEN input ELSE login
    IN  mode = "encrypt" /\ round = 11 /\ known \in DOMAIN Published =>
            s = [i \in 0..15 |-> Published[known][i + 1]]

(* Decryption goes back through the states of encryption, round by round,  *)
(* and ends with the block.  SEGRT packets depend on it.                   *)
DecryptUndoes ==
    /\ mode = "decrypt" => s = ShiftRows(SubBytes(trace[11 - round]))
    /\ mode = "done" => s = [i \in 0..15 |-> input[1][i + 1]]

(* The S-box is what its mathematical definition says, for each byte that  *)
(* comes up in a block.                                                    *)
SboxRight ==
    mode # "idle" =>
        \A i \in 0..15 : \E y \in Bytes :
            /\ Times[s[i], y] = IF s[i] = 0 THEN 0 ELSE 1
            /\ Sub(aes_sbox, s[i]) = Affine(y)

(* The client's MD5, AES and S-box are the standard ones: the server uses *)
(* other implementations, and the two must agree on every signature, key   *)
(* and enciphered password.                                                *)
AgreesWithStandards == DigestsAgree /\ CiphertextsAgree /\ SboxRight
=============================================================================
