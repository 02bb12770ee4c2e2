-------------------------- MODULE MCPasswordCipher --------------------------
(* Messages of RFC 1321 and some as long as a signed header and, nearly, a *)
(* block or two; the examples of FIPS 197 (appendices B and C.1) and       *)
(* blocks of one repeated byte under a key of zeros; logins whose digests  *)
(* and blocks OpenSSL computed.                                            *)
EXTENDS PasswordCipher, TLC

Alphabet == [k \in 1..26 |-> 96 + k]
Digits80 == [k \in 1..80 |-> 48 + (k % 10)]
Mixed62 ==
    [k \in 1..62 |-> IF k <= 26 THEN 64 + k ELSE IF k <= 52 THEN 70 + k ELSE k - 5]

Short == << <<97>>, <<98>> >>
Long == << [k \in 1..31 |-> 97], [k \in 1..17 |-> 97 + k] >>

MCCredentials == {Short, Long}

MCDigests ==
    (<<>> :>
         <<212, 29, 140, 217, 143, 0, 178, 4, 233, 128, 9, 152, 236, 248, 66, 126>>)
    @@ (Alphabet :>
         <<195, 252, 211, 215, 97, 146, 228, 0, 125, 251, 73, 108, 202, 103, 225, 59>>)
    @@ (Mixed62 :>
         <<209, 116, 171, 152, 210, 119, 217, 245, 165, 97, 28, 44, 159, 65, 157, 159>>)
    @@ (Digits80 :>
         <<87, 237, 244, 162, 43, 227, 201, 85, 172, 73, 218, 46, 33, 7, 182, 122>>)
    @@ (Keybuf(Short[1]) :>
         <<95, 240, 160, 202, 255, 106, 173, 110, 100, 155, 105, 105, 217, 176, 232, 189>>)
    @@ (Keybuf(Long[1]) :>
         <<61, 193, 207, 59, 154, 187, 48, 218, 58, 196, 82, 25, 218, 115, 27, 192>>)

MCMessages ==
    {<<>>, Alphabet, Mixed62, Digits80}
    \cup {[k \in 1..n |-> k] : n \in {10, 55, 56, 63, 64, 65}}

ExampleB ==
    << <<50, 67, 246, 168, 136, 90, 48, 141, 49, 49, 152, 162, 224, 55, 7, 52>>,
       <<43, 126, 21, 22, 40, 174, 210, 166, 171, 247, 21, 136, 9, 207, 79, 60>> >>

ExampleC1 ==
    << [i \in 1..16 |-> 17 * (i - 1)], [i \in 1..16 |-> i - 1] >>

MCPublished ==
    (ExampleB :>
        <<57, 37, 132, 29, 2, 220, 9, 251, 220, 17, 133, 151, 25, 106, 11, 50>>)
    @@ (ExampleC1 :>
        <<105, 196, 224, 216, 106, 123, 4, 48, 216, 205, 183, 128, 112, 180, 197, 90>>)
    @@ (Short :>
        <<159, 224, 93, 187, 113, 101, 242, 43, 141, 208, 32, 169, 174, 4, 163, 242>>)
    @@ (Long :>
        <<92, 15, 47, 5, 168, 254, 197, 159, 148, 28, 34, 107, 74, 131, 132, 193>>)

MCBlocks ==
    {ExampleB, ExampleC1} \cup {<<[i \in 1..16 |-> b], [i \in 1..16 |-> 0]>> : b \in {0, 1, 128, 255}}
=============================================================================
