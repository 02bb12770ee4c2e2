------------------------ MODULE ClientCryptoProofs --------------------------
(***************************************************************************)
(* Theorems about how the client unwraps packets (SegmentRouting), for     *)
(* payloads of every length, any number of links and every algorithm a     *)
(* packet may name, and about MD5 and AES (PasswordCipher), for messages   *)
(* of every length in pieces of any size and for every block and key.      *)
(***************************************************************************)
EXTENDS
    SegmentRouting, PasswordCipher, TLAPS, SequenceTheorems, WellFoundedInduction

(* sr_setup_keys leaves AES-128 as the only mode a client decrypts with. *)
SrInv ==
    /\ sr_count \in 0..1 /\ sr_encrypt_mode \in 0..2
    /\ Configured => sr_encrypt_mode = 1
    /\ packet \in Packets \cup {NoPacket}

LEMMA SrInvariant == SrSpec => []SrInv
  <1>1. SrInit => SrInv
    BY DEF SrInit, SrInv, Configured
  <1>2. SrInv /\ [SrNext]_srvars => SrInv'
    BY DEF SrInv, Configured, SrNext, handle_segrt, Arrives, Forget, Opens, Closes,
           srvars, g_cfg
  <1> QED BY <1>1, <1>2, PTL DEF SrSpec

(* The fields of a datagram have their widths, whatever they say. *)
LEMMA PacketShape ==
    ASSUME NEW p \in Packets
    PROVE  /\ p.len \in Int /\ p.links \in Int /\ p.algo \in Int
           /\ p.padlen \in Int /\ p.n \in Int /\ p.type \in Types
           /\ 8 <= p.len /\ p.len <= 2048 /\ 0 <= p.links
           /\ 0 <= p.algo /\ 0 <= p.padlen /\ 0 <= p.n
           /\ Inner(p) \in Int /\ Inner(p) = p.len - 12 - 4 * p.links
           /\ Overhead(p.type) \in {8, 24}
  <1>1. /\ p.len \in Lengths /\ p.links \in Links /\ p.algo \in Algos
        /\ p.padlen \in Paddings /\ p.n \in Payloads /\ p.type \in Types
    BY DEF Packets
  <1>2. p.len \in Int /\ 8 <= p.len /\ p.len <= 2048
    <2>1. p.len \in HdrSize..MaxPktSize
      BY <1>1, SegmentAssumption
    <2>2. HdrSize \in Int /\ MaxPktSize \in Int
      BY DEF HdrSize, MaxPktSize
    <2>3. p.len \in Int /\ HdrSize <= p.len /\ p.len <= MaxPktSize
      BY ONLY <2>1, <2>2
    <2> QED BY ONLY <2>3 DEF HdrSize, MaxPktSize
  <1>3. p.links \in Int /\ 0 <= p.links
    <2>1. p.links \in 0..255
      BY <1>1, SegmentAssumption, ZenonT(40)
    <2> QED BY ONLY <2>1
  <1>4. p.algo \in Int /\ 0 <= p.algo
    <2>1. p.algo \in 0..7
      BY <1>1, SegmentAssumption, ZenonT(40)
    <2> QED BY ONLY <2>1
  <1>5. p.padlen \in Int /\ 0 <= p.padlen
    <2>1. p.padlen \in 0..31
      BY <1>1, SegmentAssumption, ZenonT(40)
    <2> QED BY ONLY <2>1
  <1>6. p.n \in Int /\ 0 <= p.n
    <2>1. p.n \in 0..(MaxPktSize - 1)
      BY <1>1, SegmentAssumption
    <2>2. MaxPktSize - 1 \in Int
      BY DEF MaxPktSize
    <2> QED BY ONLY <2>1, <2>2
  <1>7. Inner(p) = p.len - 8 - (4 + 4 * p.links)
    BY DEF Inner, SrHdrLen, HdrSize
  <1>8. Inner(p) \in Int /\ Inner(p) = p.len - 12 - 4 * p.links
    BY <1>2, <1>3, <1>7
  <1>9. Overhead(p.type) \in {8, 24}
    BY DEF Overhead, HdrSize, EthpktSize
  <1> QED BY <1>1, <1>2, <1>3, <1>4, <1>5, <1>6, <1>8, <1>9

(* Rounding a number up to a multiple of 16 that it is already *)
LEMMA RoundedUp ==
    ASSUME NEW x \in Int, x % 16 = 0
    PROVE  16 * ((x + 15) \div 16) = x
  OBVIOUS

(* What is still there after the tests of handle_segrt, for any datagram.  *)
LEMMA AfterTests ==
    ASSUME SrInv, NEW p \in Packets, ~DropsEarly(p)
    PROVE  /\ InnerLen(p) \in Int /\ 0 < InnerLen(p) /\ InnerLen(p) <= Inner(p)
           /\ Deciphered(p) = IF Decrypts(p) THEN Inner(p) ELSE 0
           /\ Legible(p) = (p.cipher = IF Decrypts(p) THEN "ours" ELSE "none")
           /\ Configured => p.algo = 0 \/ Decrypts(p)
  <1>1. Inner(p) \in Int /\ 0 < Inner(p)
    BY PacketShape DEF DropsEarly
  <1>2. InnerLen(p) \in Int /\ 0 < InnerLen(p) /\ InnerLen(p) <= Inner(p)
    BY <1>1, PacketShape DEF InnerLen
  <1>3. Deciphered(p) = IF Decrypts(p) THEN Inner(p) ELSE 0
    <2>1. CASE Decrypts(p)
      <3>1. p.algo = 1 /\ BlockSize(p.algo) = 16
        BY <2>1 DEF Decrypts, SrInv, BlockSize
      <3>2. Inner(p) % 16 = 0
        BY <2>1, <3>1 DEF DropsEarly
      <3>3. 16 * ((Inner(p) + 15) \div 16) = Inner(p)
        BY ONLY <1>1, <3>2, RoundedUp
      <3> QED BY <2>1, <3>1, <3>3 DEF Deciphered
    <2>2. CASE ~Decrypts(p)
      BY <2>2 DEF Deciphered
    <2> QED BY <2>1, <2>2
  <1>4. Legible(p) = (p.cipher = IF Decrypts(p) THEN "ours" ELSE "none")
    BY <1>1, <1>3 DEF Legible
  <1>5. Configured => p.algo = 0 \/ Decrypts(p)
    BY DEF DropsEarly, Decrypts
  <1> QED BY <1>2, <1>3, <1>4, <1>5

(* The three outcomes of handle_segrt *)
LEMMA OutcomeCases ==
    ASSUME NEW p, NEW type, NEW fraglen
    PROVE  \/ Outcome(p, type, fraglen) = Dropped
           \/ /\ ~DropsEarly(p) /\ type = "IPFRAG_SR" /\ fraglen > 0
              /\ InnerLen(p) = fraglen + 8 + 16
              /\ Outcome(p, type, fraglen) = Taken(p, "fragment", 24, FALSE)
           \/ /\ ~DropsEarly(p) /\ type \in {"DATA", "DATA_ENC"} /\ InnerLen(p) > 8
              /\ Outcome(p, type, fraglen) = Taken(p, "tun", 8, type = "DATA_ENC")
  <1>1. HdrSize + EthpktSize = 24
    BY DEF HdrSize, EthpktSize
  <1> DEFINE
        A == /\ ~DropsEarly(p) /\ type = "IPFRAG_SR" /\ fraglen > 0
             /\ InnerLen(p) = fraglen + 8 + 16
        B == ~DropsEarly(p) /\ type \in {"DATA", "DATA_ENC"} /\ InnerLen(p) > 8
        x == Taken(p, "fragment", 24, FALSE)
        y == Taken(p, "tun", 8, type = "DATA_ENC")
  <1>2. Outcome(p, type, fraglen) = CASE A -> x [] B -> y [] OTHER -> Dropped
    BY <1>1, Zenon DEF Outcome, HdrSize, EthpktSize
  <1>3. ~(A /\ B)
    OBVIOUS
  <1> HIDE DEF A, B, x, y
  <1>4. \/ Outcome(p, type, fraglen) = Dropped
        \/ A /\ Outcome(p, type, fraglen) = x
        \/ B /\ Outcome(p, type, fraglen) = y
    BY <1>2, <1>3
  <1> QED BY <1>4 DEF A, B, x, y

(* What handle_segrt makes of a packet it can read: what the peer wrapped. *)
LEMMA ReadableUnwrapped ==
    ASSUME SrInv, NEW p \in Packets, Conforming(p), p.algo = 0 \/ Decrypts(p)
    PROVE  /\ InnerLen(p) = Overhead(p.type) + p.n
           /\ DropsEarly(p) <=> ~established
           /\ ~DropsEarly(p) =>
                Legible(p) /\ TypesRead(p) = {p.type} /\ FraglensRead(p) = {p.n}
  <1>1. Inner(p) = Overhead(p.type) + p.n + p.padlen
    <2>1. p.len = 8 + (4 + 4 * p.links) + Overhead(p.type) + p.n + p.padlen
      BY DEF Conforming, SrHdrLen, HdrSize
    <2> QED BY <2>1, PacketShape
  <1>2. /\ Overhead(p.type) \in {8, 24} /\ p.n \in Int /\ 0 <= p.n
        /\ p.padlen \in Int /\ 0 <= p.padlen
    BY PacketShape
  <1>3. 0 < Inner(p) /\ p.padlen < Inner(p) /\ Inner(p) \in Int
    BY <1>1, <1>2
  <1>4. /\ Inner(p) <= MaxPktSize /\ ~(p.len < HdrSize + 4)
        /\ ~(p.len < HdrSize + SrHdrLen(p))
    BY <1>3, PacketShape DEF MaxPktSize, HdrSize, SrHdrLen
  <1>5. CASE p.algo = 0
    <2>1. ~Decrypts(p)
      BY <1>5 DEF Decrypts, Configured
    <2>2. p.padlen = 0 /\ p.cipher = "none"
      BY <1>5 DEF Conforming, Truthful
    <2>3. InnerLen(p) = Overhead(p.type) + p.n
      BY <1>1, <1>2, <2>1, <2>2 DEF InnerLen
    <2>4. DropsEarly(p) <=> ~established
      <3>1. ~(Inner(p) <= 0) /\ ~(Inner(p) > MaxPktSize)
        BY <1>3, <1>4 DEF MaxPktSize
      <3> QED BY <1>4, <1>5, <2>1, <3>1, Zenon DEF DropsEarly
    <2>5. ~DropsEarly(p) => Legible(p)
      BY <2>1, <2>2, AfterTests
    <2> QED BY <2>3, <2>4, <2>5 DEF TypesRead, FraglensRead
  <1>6. CASE Decrypts(p)
    <2>1. p.algo = 1 /\ sr_encrypt_mode = 1
      BY <1>6 DEF Decrypts, SrInv
    <2>2. p.cipher = "ours" /\ Inner(p) % BlockSize(p.algo) = 0
      BY <1>1, <2>1 DEF Conforming, Truthful
    <2>3. InnerLen(p) = Overhead(p.type) + p.n
      BY <1>1, <1>2, <1>3, <1>6 DEF InnerLen
    <2>4. DropsEarly(p) <=> ~established
      <3>1. ~(Inner(p) <= 0) /\ ~(Inner(p) > MaxPktSize)
        BY <1>3, <1>4 DEF MaxPktSize
      <3> QED BY <1>4, <2>1, <2>2, <3>1, Zenon DEF DropsEarly
    <2>5. ~DropsEarly(p) => Legible(p)
      BY <1>6, <2>2, AfterTests
    <2> QED BY <2>3, <2>4, <2>5 DEF TypesRead, FraglensRead
  <1> QED BY <1>5, <1>6

(* A step that handles a packet is handle_segrt, and tells what came out. *)
LEMMA HandlingStep ==
    ASSUME SrInv, [SrNext]_srvars, Handled
    PROVE  /\ packet \in Packets
           /\ \E type \in TypesRead(packet), fraglen \in FraglensRead(packet) :
                  out' = Outcome(packet, type, fraglen)
  <1>1. packet \in Packets /\ packet' # packet
    BY DEF SrInv, Handled
  <1>2. ~Arrives
    BY DEF Arrives, Handled
  <1> QED BY <1>1, <1>2 DEF SrNext, handle_segrt, Forget, Opens, Closes, srvars

(* A packet in the clear, or encrypted as the client is configured, is     *)
(* unwrapped to the byte, whatever its length and padding.                 *)
THEOREM PayloadsDelivered == SrSpec => DeliversPayload
  <1> DEFINE
        Readable == Handled /\ Conforming(packet) /\ (packet.algo = 0 \/ Decrypts(packet))
        Exact == /\ out'.kind = IF packet.type = "IPFRAG_SR" THEN "fragment" ELSE "tun"
                 /\ out'.start = Overhead(packet.type) /\ out'.n = packet.n
                 /\ out'.clear /\ out'.xor = (packet.type = "DATA_ENC")
        Due == established /\ packet.n > 0 /\ packet.type # "other"
        Delivers == Readable => /\ out'.kind # "dropped" => Exact
                                /\ Due => out'.kind # "dropped"
  <1>1. SrInv /\ [SrNext]_srvars => [Delivers]_srvars
    <2> SUFFICES ASSUME SrInv, [SrNext]_srvars, Readable
                 PROVE  (out'.kind # "dropped" => Exact) /\ (Due => out'.kind # "dropped")
      OBVIOUS
    <2> DEFINE p == packet
    <2>1. p \in Packets
      BY HandlingStep
    <2>2. /\ InnerLen(p) = Overhead(p.type) + p.n
          /\ DropsEarly(p) <=> ~established
          /\ ~DropsEarly(p) =>
               Legible(p) /\ TypesRead(p) = {p.type} /\ FraglensRead(p) = {p.n}
      BY <2>1, ReadableUnwrapped
    <2>3. p.n \in Int /\ 0 <= p.n /\ p.type \in Types
      BY <2>1, PacketShape
    <2>4. CASE DropsEarly(p)
      <3>1. out' = Dropped
        BY <2>4, HandlingStep DEF Outcome
      <3> QED BY <2>2, <2>4, <3>1 DEF Dropped
    <2>5. CASE ~DropsEarly(p)
      <3>1. out' = Outcome(p, p.type, p.n)
        BY <2>2, <2>5, HandlingStep
      <3>2. Legible(p) = TRUE
        BY <2>2, <2>5 DEF Legible
      <3>3. CASE p.type = "other"
        BY <3>1, <3>3 DEF Outcome, Dropped
      <3>4. CASE p.type = "IPFRAG_SR"
        <4>1. InnerLen(p) = p.n + HdrSize + EthpktSize /\ Overhead(p.type) = 24
          BY <2>2, <2>3, <3>4 DEF Overhead, HdrSize, EthpktSize
        <4>2. out' = IF p.n > 0 THEN Taken(p, "fragment", 24, FALSE) ELSE Dropped
          BY <2>5, <3>1, <3>4, <4>1 DEF Outcome, HdrSize, EthpktSize
        <4>3. InnerLen(p) - 24 = p.n
          BY <2>2, <2>3, <4>1
        <4> QED BY <2>3, <3>2, <3>4, <4>1, <4>2, <4>3 DEF Taken, Dropped
      <3>5. CASE p.type \in {"DATA", "DATA_ENC"}
        <4>1. InnerLen(p) = 8 + p.n /\ Overhead(p.type) = 8
          BY <2>2, <3>5 DEF Overhead, HdrSize
        <4>2. out' = IF p.n > 0 THEN Taken(p, "tun", 8, p.type = "DATA_ENC") ELSE Dropped
          <5>1. InnerLen(p) > 8 <=> p.n > 0
            BY <2>3, <4>1
          <5> QED BY <2>5, <3>1, <3>5, <5>1 DEF Outcome, HdrSize
        <4>3. InnerLen(p) - 8 = p.n
          BY <2>3, <4>1
        <4> QED BY <2>3, <3>2, <3>5, <4>1, <4>2, <4>3 DEF Taken, Dropped
      <3> QED BY <2>3, <3>3, <3>4, <3>5 DEF Types
    <2> QED BY <2>4, <2>5
  <1> QED BY <1>1, SrInvariant, PTL DEF SrSpec, DeliversPayload

(* Whatever the length of a datagram and the fields of its header, nothing *)
(* but received bytes goes on, the cipher is applied to all of them or     *)
(* none, and a client with SR encryption passes nothing enciphered on      *)
(* unless the header lies about the cipher.                                *)
THEOREM MalformedPacketsHarmless == SrSpec => MalformedHarmless
  <1> DEFINE
        Inside == HdrSize + SrHdrLen(packet) + out'.start + out'.n <= packet.len
        Whole == out'.deciphered \in {0, Inner(packet)}
        Open == Configured /\ Truthful(packet) => out'.clear
        Harmless == Handled /\ out'.kind # "dropped" =>
                      /\ out'.n > 0 /\ Inside /\ Whole /\ Open
  <1>1. SrInv /\ [SrNext]_srvars => [Harmless]_srvars
    <2> SUFFICES ASSUME SrInv, [SrNext]_srvars, Handled, out'.kind # "dropped"
                 PROVE  out'.n > 0 /\ Inside /\ Whole /\ Open
      OBVIOUS
    <2> DEFINE p == packet
    <2>1. p \in Packets
      BY HandlingStep
    <2>2. PICK type \in TypesRead(p), fraglen \in FraglensRead(p) :
              out' = Outcome(p, type, fraglen)
      BY HandlingStep
    <2>3. out' # Dropped
      BY DEF Dropped
    <2>4. PICK start \in {8, 24}, kind \in {"fragment", "tun"}, xor \in BOOLEAN :
            /\ ~DropsEarly(p) /\ out' = Taken(p, kind, start, xor)
            /\ start < InnerLen(p)
      <3> DEFINE
            o == Outcome(p, type, fraglen)
            A == /\ ~DropsEarly(p) /\ type = "IPFRAG_SR" /\ fraglen > 0
                 /\ InnerLen(p) = fraglen + 8 + 16
                 /\ o = Taken(p, "fragment", 24, FALSE)
            B == /\ ~DropsEarly(p) /\ type \in {"DATA", "DATA_ENC"} /\ InnerLen(p) > 8
                 /\ o = Taken(p, "tun", 8, type = "DATA_ENC")
      <3>3. o = Dropped \/ A \/ B
        BY OutcomeCases
      <3>1. CASE A
        <4>1. fraglen \in Int
          <5>1. InnerLen(p) \in Int /\ p.n \in Int
            BY <2>1, <3>1, AfterTests, PacketShape
          <5> QED BY <5>1 DEF FraglensRead, HdrSize, EthpktSize
        <4>2. 24 < InnerLen(p)
          BY <3>1, <4>1
        <4> QED BY <2>2, <3>1, <4>2
      <3>2. CASE B
        <4>1. 8 < InnerLen(p)
          BY <2>1, <3>2, AfterTests
        <4> QED BY <2>2, <3>2, <4>1
      <3>4. A \/ B
        BY <2>2, <2>3, <3>3
      <3> HIDE DEF A, B
      <3> QED BY <3>1, <3>2, <3>4, Zenon
    <2>5. /\ InnerLen(p) \in Int /\ InnerLen(p) <= Inner(p)
          /\ Deciphered(p) = IF Decrypts(p) THEN Inner(p) ELSE 0
          /\ Legible(p) = (p.cipher = IF Decrypts(p) THEN "ours" ELSE "none")
          /\ Configured => p.algo = 0 \/ Decrypts(p)
      BY <2>1, <2>4, AfterTests
    <2>6. /\ out'.start = start /\ out'.n = InnerLen(p) - start
          /\ out'.clear = Legible(p) /\ out'.deciphered = Deciphered(p)
      BY <2>4 DEF Taken
    <2>7. out'.n > 0
      BY <2>4, <2>5, <2>6
    <2>8. Inside
      <3>1. /\ Inner(p) = p.len - 12 - 4 * p.links
            /\ p.len \in Int /\ p.links \in Int
        BY <2>1, PacketShape
      <3>2. HdrSize + SrHdrLen(p) = 12 + 4 * p.links
        BY <3>1 DEF HdrSize, SrHdrLen
      <3> QED BY <2>4, <2>5, <2>6, <3>1, <3>2
    <2>9. Whole
      BY <2>5, <2>6
    <2>10. Open
      <3> SUFFICES ASSUME Configured, Truthful(p)
                   PROVE  Legible(p)
        BY <2>6
      <3>1. CASE Decrypts(p)
        <4>1. p.algo = 1
          BY <3>1 DEF Decrypts, SrInv
        <4>2. p.cipher = "ours"
          BY <4>1 DEF Truthful
        <4> QED BY ONLY <2>5, <3>1, <4>2, Zenon
      <3>2. CASE ~Decrypts(p)
        <4>1. p.algo = 0
          BY <2>5, <3>2
        <4>2. p.cipher = "none"
          BY <4>1 DEF Truthful
        <4> QED BY ONLY <2>5, <3>2, <4>2, Zenon
      <3> QED BY <3>1, <3>2
    <2> QED BY <2>7, <2>8, <2>9, <2>10
  <1> QED BY <1>1, SrInvariant, PTL DEF SrSpec, MalformedHarmless

-----------------------------------------------------------------------------
(* MD5: what md5_update keeps and md5_final adds *)


(* Parts of a sequence of bytes, and two of them in a row                  *)
LEMMA Piece ==
    ASSUME NEW u \in Seq(Bytes), NEW first \in Nat, NEW last \in Nat,
           0 < first, first <= last + 1, last <= Len(u)
    PROVE  /\ SubSeq(u, first, last) \in Seq(Bytes)
           /\ Len(SubSeq(u, first, last)) = last - first + 1
           /\ \A j \in 1..(last - first + 1) : SubSeq(u, first, last)[j] = u[first + j - 1]
  <1>1. \A i \in first..last : u[i] \in Bytes
    BY ElementOfSeq, LenProperties
  <1>2. /\ SubSeq(u, first, last) \in Seq(Bytes)
        /\ Len(SubSeq(u, first, last)) = IF first <= last THEN last - first + 1 ELSE 0
        /\ \A i \in 1..(last - first + 1) : SubSeq(u, first, last)[i] = u[first + i - 1]
    BY <1>1, SubSeqProperties
  <1> QED BY <1>2

LEMMA Prefix ==
    ASSUME NEW u \in Seq(Bytes), NEW n \in Nat, n <= Len(u)
    PROVE  /\ SubSeq(u, 1, n) \in Seq(Bytes)
           /\ Len(SubSeq(u, 1, n)) = n
           /\ \A j \in 1..n : SubSeq(u, 1, n)[j] = u[j]
  <1> DEFINE one == 1
  <1>1. one \in Nat /\ 0 < one /\ one <= n + 1 /\ one = 1
    OBVIOUS
  <1> HIDE DEF one
  <1>2. /\ SubSeq(u, one, n) \in Seq(Bytes)
        /\ Len(SubSeq(u, one, n)) = n - one + 1
        /\ \A j \in 1..(n - one + 1) : SubSeq(u, one, n)[j] = u[one + j - 1]
    BY <1>1, Piece
  <1> QED BY <1>1, <1>2

LEMMA Joined ==
    ASSUME NEW u \in Seq(Bytes), NEW v \in Seq(Bytes)
    PROVE  /\ u \o v \in Seq(Bytes)
           /\ Len(u \o v) = Len(u) + Len(v)
           /\ \A j \in 1..Len(u) : (u \o v)[j] = u[j]
           /\ \A j \in 1..Len(v) : (u \o v)[Len(u) + j] = v[j]
  <1>1. /\ Len(u) \in Nat /\ Len(v) \in Nat
        /\ u \o v \in Seq(Bytes) /\ Len(u \o v) = Len(u) + Len(v)
        /\ \A i \in 1..(Len(u) + Len(v)) :
              (u \o v)[i] = IF i <= Len(u) THEN u[i] ELSE v[i - Len(u)]
    BY ConcatProperties, LenProperties
  <1> QED BY <1>1

(* The buffer after md5_update: kept of its bytes, those of the input from *)
(* i on, and what was in it behind them                                    *)
Refilled(b, u, kept, i) ==
    SubSeq(b, 1, kept) \o SubSeq(u, i + 1, Len(u)) \o SubSeq(b, kept + Len(u) - i + 1, 64)

(* What is put into the buffer fits.                                       *)
Fits(b, u, kept, i) ==
    /\ b \in Seq(Bytes) /\ Len(b) = 64 /\ u \in Seq(Bytes)
    /\ kept \in Nat /\ i \in Nat /\ i <= Len(u) /\ kept + Len(u) - i <= 64

(* memcpy at the end of md5_update keeps the buffer's first bytes and writes *)
(* the rest of the input behind them.                                      *)
LEMMA BufferAfter ==
    ASSUME NEW b, NEW u, NEW kept, NEW i, Fits(b, u, kept, i)
    PROVE  /\ Refilled(b, u, kept, i) \in Seq(Bytes) /\ Len(Refilled(b, u, kept, i)) = 64
           /\ \A j \in 1..kept : Refilled(b, u, kept, i)[j] = b[j]
           /\ \A j \in 1..(Len(u) - i) : Refilled(b, u, kept, i)[kept + j] = u[i + j]
  <1> USE DEF Fits
  <1> DEFINE x == SubSeq(b, 1, kept)
             y == SubSeq(u, i + 1, Len(u))
             end == kept + Len(u) - i
             z == SubSeq(b, end + 1, 64)
  <1>0. Len(u) \in Nat /\ i + 1 \in Nat /\ end \in Nat /\ end + 1 \in Nat
        /\ end <= 64 /\ kept <= 64
    BY LenProperties
  <1>1. x \in Seq(Bytes) /\ Len(x) = kept /\ \A j \in 1..kept : x[j] = b[j]
    <2>1. kept <= Len(b)
      BY <1>0
    <2>2. /\ SubSeq(b, 1, kept) \in Seq(Bytes) /\ Len(SubSeq(b, 1, kept)) = kept
          /\ \A j \in 1..kept : SubSeq(b, 1, kept)[j] = b[j]
      BY ONLY <2>1, b \in Seq(Bytes), kept \in Nat, Prefix
    <2> QED BY <2>2
  <1>2. y \in Seq(Bytes) /\ Len(y) = Len(u) - i /\ \A j \in 1..(Len(u) - i) : y[j] = u[i + j]
    <2> DEFINE first == i + 1
               last == Len(u)
    <2>1. /\ first \in Nat /\ last \in Nat /\ 0 < first /\ first <= last + 1
          /\ last <= Len(u) /\ last - first + 1 = last - i
          /\ \A j \in 1..(last - i) : first + j - 1 = i + j
      BY <1>0
    <2>2. y = SubSeq(u, first, last) /\ last = Len(u)
      OBVIOUS
    <2> HIDE DEF first, last, y
    <2>3. /\ SubSeq(u, first, last) \in Seq(Bytes)
          /\ Len(SubSeq(u, first, last)) = last - first + 1
          /\ \A j \in 1..(last - first + 1) : SubSeq(u, first, last)[j] = u[first + j - 1]
      BY ONLY <2>1, u \in Seq(Bytes), Piece
    <2> QED BY ONLY <2>1, <2>2, <2>3
  <1>3. z \in Seq(Bytes) /\ Len(z) = 64 - end
    <2> DEFINE first == end + 1
               last == Len(b)
    <2>1. first \in Nat /\ last \in Nat /\ 0 < first /\ first <= last + 1 /\ last <= Len(b)
      BY <1>0
    <2> HIDE DEF first, last, end
    <2>2. /\ SubSeq(b, first, last) \in Seq(Bytes)
          /\ Len(SubSeq(b, first, last)) = last - first + 1
      BY ONLY <2>1, b \in Seq(Bytes), Piece
    <2> QED BY <1>0, <2>2 DEF first, last
  <1> HIDE DEF x, y, z
  <1>4. /\ x \o y \in Seq(Bytes) /\ Len(x \o y) = Len(x) + Len(y)
        /\ \A j \in 1..Len(x) : (x \o y)[j] = x[j]
        /\ \A j \in 1..Len(y) : (x \o y)[Len(x) + j] = y[j]
    <2>1. x \in Seq(Bytes) /\ y \in Seq(Bytes)
      BY <1>1, <1>2
    <2> QED BY ONLY <2>1, Joined
  <1> DEFINE xy == x \o y
  <1>4a. xy \in Seq(Bytes) /\ z \in Seq(Bytes)
    BY <1>3, <1>4
  <1> HIDE DEF xy
  <1>5. /\ xy \o z \in Seq(Bytes) /\ Len(xy \o z) = Len(xy) + Len(z)
        /\ \A j \in 1..Len(xy) : (xy \o z)[j] = xy[j]
    BY ONLY <1>4a, Joined
  <1>6. Len(xy) = end /\ Len(x) = kept /\ Len(y) = Len(u) - i
    BY <1>0, <1>1, <1>2, <1>4 DEF xy
  <1>7. xy \o z \in Seq(Bytes) /\ Len(xy \o z) = 64
    <2>1. Len(xy) + Len(z) = 64
      BY <1>0, <1>3, <1>6
    <2> QED BY ONLY <1>5, <2>1
  <1>8. ASSUME NEW j \in 1..kept PROVE (xy \o z)[j] = b[j]
    <2>1. j \in 1..Len(x) /\ j \in 1..Len(xy)
      BY <1>0, <1>6
    <2>2. (xy \o z)[j] = xy[j]
      BY ONLY <1>5, <2>1
    <2>3. xy[j] = x[j]
      BY ONLY <1>4, <2>1 DEF xy
    <2> QED BY ONLY <1>1, <2>2, <2>3, j \in 1..kept
  <1>9. ASSUME NEW j \in 1..(Len(u) - i) PROVE (xy \o z)[kept + j] = u[i + j]
    <2>1. kept + j \in 1..Len(xy)
      BY <1>0, <1>6
    <2>2. (xy \o z)[kept + j] = xy[kept + j]
      BY <1>5, <2>1
    <2>3. xy[kept + j] = y[j]
      BY <1>4, <1>6 DEF xy
    <2> QED BY <1>2, <2>2, <2>3
  <1>10. xy \o z = Refilled(b, u, kept, i)
    BY DEF xy, x, y, z, Refilled
  <1> HIDE DEF end
  <1> QED BY <1>7, <1>8, <1>9, <1>10

(* A sequence of blocks, a block and more blocks *)
Between(B, x, F) == B \o <<x>> \o F

InARow(G, B, x, F) ==
    /\ G \in Seq(Seq(Bytes)) /\ Len(G) = Len(B) + 1 + Len(F)
    /\ \A k \in 1..Len(B) : G[k] = B[k]
    /\ G[Len(B) + 1] = x
    /\ \A k \in 1..Len(F) : G[Len(B) + 1 + k] = F[k]

LEMMA BlocksJoined ==
    ASSUME NEW B \in Seq(Seq(Bytes)), NEW x \in Seq(Bytes), NEW F \in Seq(Seq(Bytes))
    PROVE  InARow(Between(B, x, F), B, x, F)
  <1> DEFINE Bx == B \o <<x>>
  <1>1. <<x>> \in Seq(Seq(Bytes)) /\ Len(<<x>>) = 1 /\ <<x>>[1] = x
    OBVIOUS
  <1>2. /\ Bx \in Seq(Seq(Bytes)) /\ Len(Bx) = Len(B) + 1 /\ Len(B) \in Nat
        /\ \A k \in 1..Len(B) : Bx[k] = B[k]
        /\ Bx[Len(B) + 1] = x
    <2> DEFINE y == <<x>>
    <2>0. y \in Seq(Seq(Bytes)) /\ Len(y) = 1 /\ y[1] = x
      BY <1>1
    <2> HIDE DEF y
    <2>1. /\ B \o y \in Seq(Seq(Bytes)) /\ Len(B \o y) = Len(B) + Len(y) /\ Len(B) \in Nat
          /\ \A i \in 1..(Len(B) + Len(y)) :
                (B \o y)[i] = IF i <= Len(B) THEN B[i] ELSE y[i - Len(B)]
      BY <2>0, ConcatProperties, LenProperties
    <2>2. /\ \A k \in 1..Len(B) : (B \o y)[k] = B[k]
          /\ (B \o y)[Len(B) + 1] = y[1]
      BY <2>0, <2>1
    <2> QED BY <2>0, <2>1, <2>2 DEF y
  <1> HIDE DEF Bx
  <1>3. /\ Bx \o F \in Seq(Seq(Bytes)) /\ Len(Bx \o F) = Len(Bx) + Len(F) /\ Len(F) \in Nat
        /\ \A i \in 1..(Len(Bx) + Len(F)) :
              (Bx \o F)[i] = IF i <= Len(Bx) THEN Bx[i] ELSE F[i - Len(Bx)]
    BY <1>2, ConcatProperties, LenProperties
  <1>4. /\ \A k \in 1..Len(B) : (Bx \o F)[k] = B[k]
        /\ (Bx \o F)[Len(B) + 1] = x
        /\ \A k \in 1..Len(F) : (Bx \o F)[Len(B) + 1 + k] = F[k]
    <2> DEFINE m == Len(B)
               n == Len(F)
               G == Bx \o F
    <2>1. /\ m \in Nat /\ n \in Nat /\ Bx[m + 1] = x /\ \A k \in 1..m : Bx[k] = B[k]
          /\ \A i \in 1..(m + 1 + n) : G[i] = IF i <= m + 1 THEN Bx[i] ELSE F[i - (m + 1)]
      BY <1>2, <1>3
    <2> HIDE DEF m, n, G
    <2>2. ASSUME NEW k \in 1..m PROVE G[k] = B[k]
      <3>1. k \in 1..(m + 1 + n) /\ k <= m + 1
        BY ONLY <2>1, k \in 1..m
      <3> QED BY ONLY <2>1, <3>1, k \in 1..m
    <2>3. G[m + 1] = x
      <3>1. m + 1 \in 1..(m + 1 + n) /\ m + 1 <= m + 1
        BY ONLY <2>1
      <3> QED BY ONLY <2>1, <3>1
    <2>4. ASSUME NEW k \in 1..n PROVE G[m + 1 + k] = F[k]
      <3>1. /\ m + 1 + k \in 1..(m + 1 + n) /\ ~(m + 1 + k <= m + 1)
            /\ (m + 1 + k) - (m + 1) = k
        BY ONLY <2>1, k \in 1..n
      <3> QED BY ONLY <2>1, <3>1
    <2> QED BY <2>2, <2>3, <2>4 DEF m, n, G
  <1>5. InARow(Bx \o F, B, x, F)
    BY <1>2, <1>3, <1>4 DEF InARow
  <1> QED BY <1>5 DEF Bx, Between

(* The blocks hold data from its start, 64 bytes each. *)
CutAs(blocks, data) ==
    /\ blocks \in Seq(Seq(Bytes)) /\ 64 * Len(blocks) <= Len(data)
    /\ \A k \in 1..Len(blocks) :
          /\ Len(blocks[k]) = 64
          /\ \A j \in 1..64 : blocks[k][j] = data[64 * (k - 1) + j]

(* The context of a message of which data was given to md5_update: whole   *)
(* blocks of it were transformed, the rest is in the buffer.               *)
Holds(c, data) ==
    /\ c.count = Len(data) /\ CutAs(c.blocks, data)
    /\ Len(data) - 64 * Len(c.blocks) < 64
    /\ c.buffer \in Seq(Bytes) /\ Len(c.buffer) = 64
    /\ \A j \in 1..(Len(data) - 64 * Len(c.blocks)) :
          c.buffer[j] = data[64 * Len(c.blocks) + j]

LEMMA Remainder ==
    ASSUME NEW n \in Nat, NEW q \in Nat, 64 * q <= n, n - 64 * q < 64
    PROVE  n % 64 = n - 64 * q
  OBVIOUS

LEMMA Quotient ==
    ASSUME NEW n \in Nat
    PROVE  n \div 64 \in Nat /\ 64 * (n \div 64) <= n /\ n - 64 * (n \div 64) < 64
  OBVIOUS

(* Input that fills the buffer: what md5_update hands to md5_transform     *)
First(b, u, idx, part) == SubSeq(b, 1, idx) \o SubSeq(u, 1, part)

Others(u, part, whole) ==
    [k \in 1..whole |-> SubSeq(u, part + 64 * (k - 1) + 1, part + 64 * k)]

More(B, b, u, idx, part, whole) == B \o <<First(b, u, idx, part)>> \o Others(u, part, whole)

(* The buffer holds the last idx bytes of data, and the input completes it *)
(* and whole blocks more.                                                  *)
Filling(B, b, data, u, idx, part, whole) ==
    /\ CutAs(B, data) /\ b \in Seq(Bytes) /\ Len(b) = 64
    /\ data \in Seq(Bytes) /\ u \in Seq(Bytes)
    /\ idx \in Nat /\ idx = Len(data) - 64 * Len(B) /\ idx < 64
    /\ \A j \in 1..idx : b[j] = data[64 * Len(B) + j]
    /\ part \in Nat /\ part = 64 - idx /\ whole \in Nat /\ part + 64 * whole <= Len(u)

(* The block completed in the buffer and those taken from the input go on  *)
(* where the blocks before them ended.                                     *)
LEMMA CutFurther ==
    ASSUME NEW B, NEW b, NEW data, NEW u, NEW idx, NEW part, NEW whole,
           Filling(B, b, data, u, idx, part, whole)
    PROVE  /\ CutAs(More(B, b, u, idx, part, whole), data \o u)
           /\ Len(More(B, b, u, idx, part, whole)) = Len(B) + 1 + whole
  <1> DEFINE all == data \o u
             q == Len(B)
             F == Others(u, part, whole)
             x == First(b, u, idx, part)
  <1> USE DEF Filling
  <1>0. /\ idx \in Nat /\ idx = Len(data) - 64 * q /\ idx < 64 /\ part \in Nat /\ part = 64 - idx
        /\ whole \in Nat /\ part + 64 * whole <= Len(u)
    OBVIOUS
  <1>b. \A j \in 1..idx : b[j] = data[64 * q + j]
    OBVIOUS
  <1>1. /\ Len(data) \in Nat /\ Len(u) \in Nat /\ q \in Nat
        /\ all \in Seq(Bytes) /\ Len(all) = Len(data) + Len(u)
        /\ \A j \in 1..Len(data) : all[j] = data[j]
        /\ \A j \in 1..Len(u) : all[Len(data) + j] = u[j]
    BY Joined, LenProperties DEF CutAs
  <1> HIDE DEF all
  <1>2. /\ x \in Seq(Bytes) /\ Len(x) = 64
        /\ \A j \in 1..64 : x[j] = all[64 * q + j]
    <2> DEFINE v == SubSeq(b, 1, idx)
               w == SubSeq(u, 1, part)
    <2>1. idx <= Len(b) /\ part <= Len(u)
      BY <1>1
    <2>2. v \in Seq(Bytes) /\ Len(v) = idx /\ \A j \in 1..idx : v[j] = b[j]
      BY ONLY <2>1, b \in Seq(Bytes), idx \in Nat, Prefix
    <2>3. w \in Seq(Bytes) /\ Len(w) = part /\ \A j \in 1..part : w[j] = u[j]
      BY ONLY <2>1, u \in Seq(Bytes), part \in Nat, Prefix
    <2> HIDE DEF v, w
    <2>4. /\ v \o w \in Seq(Bytes) /\ Len(v \o w) = Len(v) + Len(w)
          /\ \A j \in 1..Len(v) : (v \o w)[j] = v[j]
          /\ \A j \in 1..Len(w) : (v \o w)[Len(v) + j] = w[j]
      BY ONLY <2>2, <2>3, Joined
    <2>5. x = v \o w
      BY DEF v, w, First
    <2>6. Len(x) = 64
      <3>1. Len(x) = Len(v) + Len(w) /\ Len(v) = idx /\ Len(w) = part
        BY ONLY <2>2, <2>3, <2>4, <2>5
      <3>2. idx \in Nat /\ part = 64 - idx
        BY <1>0
      <3> QED BY ONLY <3>1, <3>2
    <2>7. ASSUME NEW j \in 1..64 PROVE x[j] = all[64 * q + j]
      <3>1. CASE j <= idx
        <4>0. j \in 1..idx /\ j \in 1..Len(v)
          BY ONLY <1>0, <2>2, <3>1, j \in 1..64
        <4>1. x[j] = data[64 * q + j]
          BY ONLY <1>b, <2>2, <2>4, <2>5, <4>0
        <4>2. 64 * q + j \in 1..Len(data)
          BY <1>1, <3>1
        <4> QED BY <1>1, <4>1, <4>2
      <3>2. CASE j > idx
        <4> DEFINE l == j - idx
        <4>1. l \in 1..part /\ j = idx + l /\ l \in 1..Len(u) /\ Len(data) + l = 64 * q + j
          BY <1>1, <2>1, <3>2
        <4> HIDE DEF l
        <4>2. x[j] = w[l]
          BY <2>2, <2>3, <2>4, <2>5, <4>1
        <4>3. w[l] = u[l] /\ u[l] = all[Len(data) + l]
          BY <1>1, <2>3, <4>1
        <4> QED BY <4>1, <4>2, <4>3
      <3> QED BY ONLY <1>0, j \in 1..64, <3>1, <3>2
    <2> QED BY <2>4, <2>5, <2>6, <2>7
  <1>3. ASSUME NEW k \in 1..whole
        PROVE  /\ F[k] \in Seq(Bytes) /\ Len(F[k]) = 64
               /\ \A j \in 1..64 : F[k][j] = all[64 * (q + k) + j]
    <2> DEFINE first == part + 64 * (k - 1) + 1
               last == part + 64 * k
    <2>1. /\ first \in Nat /\ last \in Nat /\ 0 < first /\ first <= last + 1
          /\ last <= Len(u) /\ last - first + 1 = 64
      BY <1>1
    <2>2. F[k] = SubSeq(u, first, last)
      BY DEF Others
    <2>3. \A j \in 1..64 : /\ first + j - 1 \in 1..Len(u)
                            /\ Len(data) + (first + j - 1) = 64 * (q + k) + j
      <3> DEFINE m == Len(data)
                 n == Len(u)
      <3>1. /\ m \in Nat /\ n \in Nat /\ q \in Nat /\ idx = m - 64 * q
            /\ part = 64 - idx /\ part \in Nat /\ whole \in Nat /\ part + 64 * whole <= n
        BY <1>0, <1>1
      <3> HIDE DEF m, n, q
      <3>2. \A j \in 1..64 : first + j - 1 \in 1..n /\ m + (first + j - 1) = 64 * (q + k) + j
        BY ONLY <3>1, k \in 1..whole
      <3> QED BY <3>2 DEF m, n, q
    <2> HIDE DEF first, last
    <2>4. /\ SubSeq(u, first, last) \in Seq(Bytes)
          /\ Len(SubSeq(u, first, last)) = last - first + 1
          /\ \A j \in 1..(last - first + 1) : SubSeq(u, first, last)[j] = u[first + j - 1]
      BY ONLY <2>1, u \in Seq(Bytes), Piece
    <2>5. ASSUME NEW j \in 1..64 PROVE F[k][j] = all[64 * (q + k) + j]
      <3>1. F[k][j] = u[first + j - 1]
        <4>1. j \in 1..(last - first + 1)
          BY <2>1
        <4> QED BY ONLY <2>2, <2>4, <4>1
      <3> DEFINE m == first + j - 1
      <3>2. /\ F[k][j] = u[m] /\ m \in 1..Len(u) /\ Len(data) + m = 64 * (q + k) + j
        BY ONLY <2>3, <3>1, j \in 1..64
      <3> HIDE DEF m
      <3>3. all[Len(data) + m] = u[m]
        BY ONLY <1>1, <3>2
      <3> QED BY ONLY <3>2, <3>3
    <2> QED BY <2>1, <2>2, <2>4, <2>5
  <1>4. F \in Seq(Seq(Bytes)) /\ Len(F) = whole
    <2>1. F \in [1..whole -> Seq(Bytes)]
      BY <1>3 DEF Others
    <2> QED BY <2>1
  <1>5. B \in Seq(Seq(Bytes)) /\ x \in Seq(Bytes)
    BY <1>2 DEF CutAs
  <1> DEFINE G == Between(B, x, F)
  <1>6. /\ G \in Seq(Seq(Bytes)) /\ Len(G) = q + 1 + whole
        /\ \A k \in 1..q : G[k] = B[k]
        /\ G[q + 1] = x
        /\ \A k \in 1..whole : G[q + 1 + k] = F[k]
    <2> HIDE DEF F, x
    <2>0. B \in Seq(Seq(Bytes)) /\ x \in Seq(Bytes) /\ F \in Seq(Seq(Bytes))
      BY <1>4, <1>5
    <2>1. InARow(G, B, x, F)
      BY ONLY <2>0, BlocksJoined
    <2> HIDE DEF G
    <2>2. q = Len(B) /\ Len(F) = whole
      BY <1>4
    <2> QED BY ONLY <2>1, <2>2 DEF InARow
  <1> HIDE DEF G, q, F, x
  <1>7. 64 * Len(G) <= Len(all)
    <2>1. /\ Len(G) = q + 1 + whole /\ Len(all) = Len(data) + Len(u)
          /\ Len(data) \in Nat /\ Len(u) \in Nat /\ q \in Nat
      BY <1>1, <1>6 DEF q
    <2> QED BY ONLY <1>0, <2>1
  <1>8. ASSUME NEW k \in 1..Len(G)
        PROVE  Len(G[k]) = 64 /\ \A j \in 1..64 : G[k][j] = all[64 * (k - 1) + j]
    <2>1. CASE k \in 1..q
      <3>1. Len(B[k]) = 64 /\ \A j \in 1..64 : B[k][j] = data[64 * (k - 1) + j]
        BY <2>1 DEF CutAs, q
      <3>2. 64 * q <= Len(data)
        BY DEF CutAs, q
      <3>a. Len(data) \in Nat /\ q \in Nat
        BY <1>1 DEF q
      <3>3. \A j \in 1..64 : 64 * (k - 1) + j \in 1..Len(data)
        BY ONLY <2>1, <3>a, <3>2
      <3> QED BY ONLY <1>1, <1>6, <2>1, <3>1, <3>3
    <2>2. CASE k = q + 1
      <3>1. k - 1 = q
        BY <1>1, <2>2
      <3> QED BY ONLY <1>2, <1>6, <2>2, <3>1
    <2>3. CASE k > q + 1
      <3> DEFINE l == k - (q + 1)
      <3>1. l \in 1..whole /\ k = q + 1 + l /\ k - 1 = q + l
        BY <1>1, <1>6, <2>3
      <3> HIDE DEF l
      <3>2. G[k] = F[l]
        BY ONLY <1>6, <3>1
      <3>3. Len(F[l]) = 64 /\ \A j \in 1..64 : F[l][j] = all[64 * (q + l) + j]
        BY ONLY <1>3, <3>1
      <3> QED BY ONLY <3>1, <3>2, <3>3
    <2>4. k \in 1..q \/ k = q + 1 \/ k > q + 1
      <3>1. k \in Nat /\ k >= 1 /\ q \in Nat
        BY <1>0, <1>1, <1>6 DEF q
      <3> QED BY ONLY <3>1
    <2> QED BY ONLY <2>1, <2>2, <2>3, <2>4
  <1>9. CutAs(G, all)
    BY <1>6, <1>7, <1>8 DEF CutAs
  <1>10. G = More(B, b, u, idx, part, whole) /\ q = Len(B) /\ all = data \o u
    BY DEF G, q, all, F, x, More, Between
  <1> QED BY ONLY <1>6, <1>9, <1>10

(* Data in blocks remains so, whatever follows. *)
LEMMA CutLonger ==
    ASSUME NEW B, NEW data \in Seq(Bytes), NEW u \in Seq(Bytes), CutAs(B, data)
    PROVE  CutAs(B, data \o u)
  <1> DEFINE all == data \o u
  <1>1. /\ Len(data) \in Nat /\ Len(u) \in Nat /\ Len(B) \in Nat
        /\ Len(all) = Len(data) + Len(u)
        /\ \A j \in 1..Len(data) : all[j] = data[j]
    BY Joined, LenProperties DEF CutAs
  <1> HIDE DEF all
  <1>2. 64 * Len(B) <= Len(data) /\ B \in Seq(Seq(Bytes))
    BY DEF CutAs
  <1>3. ASSUME NEW k \in 1..Len(B)
        PROVE  Len(B[k]) = 64 /\ \A j \in 1..64 : B[k][j] = all[64 * (k - 1) + j]
    <2>0. k \in 1..Len(B) /\ Len(data) \in Nat /\ Len(B) \in Nat
      BY <1>1
    <2>1. \A j \in 1..64 : 64 * (k - 1) + j \in 1..Len(data)
      BY ONLY <1>2, <2>0
    <2> QED BY <1>1, <2>1 DEF CutAs
  <1>4. 64 * Len(B) <= Len(all)
    BY ONLY <1>1, <1>2
  <1> QED BY <1>2, <1>3, <1>4 DEF CutAs, all

(* md5_update goes on where the context is, wherever a message is cut. *)
LEMMA UpdateHolds ==
    ASSUME NEW c, NEW data \in Seq(Bytes), NEW u \in Seq(Bytes), Holds(c, data)
    PROVE  Holds(md5_update(c, u), data \o u)
  <1> DEFINE all == data \o u
             n == Len(data)
             len == Len(u)
             q == Len(c.blocks)
             idx == c.count % 64
             part == 64 - idx
             whole == (len - part) \div 64
             i == IF len >= part THEN part + 64 * whole ELSE 0
             kept == IF len >= part THEN 0 ELSE idx
             more == More(c.blocks, c.buffer, u, idx, part, whole)
             blocks == IF len >= part THEN more ELSE c.blocks
             buffer == Refilled(c.buffer, u, kept, i)
  <1>1. md5_update(c, u) = [count |-> c.count + len, blocks |-> blocks, buffer |-> buffer]
    BY DEF md5_update, Fills, BlockLen, More, First, Others, Refilled
  <1>2. /\ n \in Nat /\ len \in Nat /\ q \in Nat /\ c.count = n
        /\ 64 * q <= n /\ n - 64 * q < 64
    BY LenProperties DEF Holds, CutAs
  <1>3. idx = n - 64 * q /\ idx \in Nat /\ idx < 64 /\ part \in Nat /\ part = 64 - idx
    BY <1>2, Remainder
  <1>4. /\ CutAs(c.blocks, data) /\ c.buffer \in Seq(Bytes) /\ Len(c.buffer) = 64
        /\ \A j \in 1..idx : c.buffer[j] = data[64 * q + j]
    BY <1>3 DEF Holds
  <1>5. /\ all \in Seq(Bytes) /\ Len(all) = n + len
        /\ \A j \in 1..n : all[j] = data[j]
        /\ \A j \in 1..len : all[n + j] = u[j]
    BY Joined
  <1> HIDE DEF all, n, len, q, idx, part
  <1>6. /\ CutAs(blocks, all) /\ i \in Nat /\ kept \in Nat /\ i <= len
        /\ n + i = 64 * Len(blocks) + kept /\ kept + len - i < 64
        /\ \A j \in 1..kept : c.buffer[j] = all[64 * Len(blocks) + j]
    <2>1. CASE len >= part
      <3>1. len - part \in Nat
        BY <1>2, <1>3, <2>1
      <3>2. whole \in Nat /\ 64 * whole <= len - part /\ len - part - 64 * whole < 64
        BY <3>1, Quotient
      <3> HIDE DEF whole
      <3>3. part + 64 * whole <= len
        BY <1>2, <1>3, <3>2
      <3>4. Filling(c.blocks, c.buffer, data, u, idx, part, whole)
        BY <1>3, <1>4, <3>2, <3>3 DEF Filling, q, n, len
      <3> HIDE DEF more
      <3>5. CutAs(more, all) /\ Len(more) = q + 1 + whole
        BY ONLY <3>4, CutFurther DEF more, all, q
      <3>6. i = part + 64 * whole /\ kept = 0 /\ blocks = more
        BY <2>1
      <3> HIDE DEF i, kept, blocks
      <3>7. n + i = 64 * Len(blocks) + kept /\ kept + len - i < 64 /\ i \in Nat /\ i <= len
        BY ONLY <1>2, <1>3, <3>2, <3>3, <3>5, <3>6
      <3> QED BY ONLY <3>5, <3>6, <3>7
    <2>2. CASE ~(len >= part)
      <3>1. i = 0 /\ kept = idx /\ blocks = c.blocks
        BY <2>2
      <3> HIDE DEF i, kept, blocks
      <3>2. CutAs(c.blocks, all)
        BY <1>4, CutLonger DEF all
      <3>3. ASSUME NEW j \in 1..idx PROVE c.buffer[j] = all[64 * q + j]
        BY <1>2, <1>3, <1>4, <1>5
      <3>4. Len(blocks) = q
        BY <3>1 DEF q
      <3> QED BY ONLY <1>2, <1>3, <2>2, <3>1, <3>2, <3>3, <3>4
    <2> QED BY <2>1, <2>2
  <1>7. /\ buffer \in Seq(Bytes) /\ Len(buffer) = 64
        /\ \A j \in 1..kept : buffer[j] = c.buffer[j]
        /\ \A j \in 1..(len - i) : buffer[kept + j] = u[i + j]
    <2> HIDE DEF i, kept
    <2>1. kept + Len(u) - i <= 64 /\ i <= Len(u)
      BY <1>2, <1>6 DEF len
    <2>2. Fits(c.buffer, u, kept, i)
      BY <1>4, <1>6, <2>1 DEF Fits
    <2> HIDE DEF buffer
    <2> QED BY ONLY <2>2, BufferAfter DEF len, buffer
  <1> HIDE DEF i, kept, blocks, buffer
  <1>8. \A j \in 1..(Len(all) - 64 * Len(blocks)) : buffer[j] = all[64 * Len(blocks) + j]
    <2> TAKE j \in 1..(Len(all) - 64 * Len(blocks))
    <2>0. Len(blocks) \in Nat
      BY <1>6, LenProperties DEF CutAs
    <2>1. CASE j <= kept
      BY <1>2, <1>6, <1>7, <2>1
    <2>2. CASE j > kept
      <3> DEFINE l == j - kept
      <3>1. l \in 1..(len - i) /\ j = kept + l /\ i + l \in 1..len
            /\ n + (i + l) = 64 * Len(blocks) + j
        <4>1. /\ j \in 1..(Len(all) - 64 * Len(blocks)) /\ Len(all) = n + len
              /\ i \in Nat /\ kept \in Nat /\ n + i = 64 * Len(blocks) + kept
              /\ n \in Nat /\ len \in Nat
          BY <1>2, <1>5, <1>6
        <4> DEFINE m == Len(blocks)
                   a == Len(all)
        <4>2. /\ m \in Nat /\ j \in 1..(a - 64 * m) /\ a = n + len /\ n + i = 64 * m + kept
          BY ONLY <2>0, <4>1
        <4> HIDE DEF m, a, n, len
        <4>3. /\ l \in 1..(len - i) /\ j = kept + l /\ i + l \in 1..len
              /\ n + (i + l) = 64 * m + j
          BY ONLY <2>2, <4>1, <4>2
        <4> QED BY ONLY <4>3 DEF m
      <3> HIDE DEF l
      <3>2. buffer[j] = u[i + l]
        BY ONLY <1>7, <3>1
      <3>3. u[i + l] = all[n + (i + l)]
        BY ONLY <1>5, <3>1
      <3> QED BY ONLY <3>1, <3>2, <3>3
    <2> QED BY <1>6, <2>0, <2>1, <2>2
  <1>9. Len(all) = c.count + len /\ Len(all) - 64 * Len(blocks) < 64
    <2>0. Len(blocks) \in Nat
      BY <1>6, LenProperties DEF CutAs
    <2> QED BY <1>2, <1>5, <1>6, <2>0
  <1>10. /\ md5_update(c, u).count = Len(all) /\ md5_update(c, u).blocks = blocks
         /\ md5_update(c, u).buffer = buffer /\ CutAs(blocks, all)
    BY <1>1, <1>6, <1>9
  <1> QED BY ONLY <1>7, <1>8, <1>9, <1>10 DEF Holds, all

LEMMA WholeBlocks ==
    ASSUME NEW a \in Nat, NEW b \in Nat, 64 * a <= 64 * b, 64 * b - 64 * a < 64
    PROVE  a = b
  OBVIOUS

(* pad_len leaves room for the length, and is at least one byte.           *)
LEMMA PadLength ==
    ASSUME NEW n \in Nat, NEW q \in Nat, 64 * q <= n, n - 64 * q < 64
    PROVE  /\ PadLen(n % BlockLen) \in 1..64
           /\ \E b \in Nat : n + PadLen(n % BlockLen) + 8 = 64 * b
  <1>1. n % BlockLen = n - 64 * q
    BY Remainder DEF BlockLen
  <1>2. CASE n - 64 * q < 56
    <2>1. PadLen(n % BlockLen) = 56 - (n - 64 * q)
      BY <1>1, <1>2 DEF PadLen
    <2>2. n + (56 - (n - 64 * q)) + 8 = 64 * (q + 1) /\ q + 1 \in Nat
      OBVIOUS
    <2>3. 56 - (n - 64 * q) \in 1..64
      BY <1>2
    <2> QED BY <2>1, <2>2, <2>3
  <1>3. CASE ~(n - 64 * q < 56)
    <2>1. PadLen(n % BlockLen) = 120 - (n - 64 * q)
      BY <1>1, <1>3 DEF PadLen
    <2>2. n + (120 - (n - 64 * q)) + 8 = 64 * (q + 2) /\ q + 2 \in Nat
      OBVIOUS
    <2>3. 120 - (n - 64 * q) \in 1..64
      BY <1>3
    <2> QED BY <2>1, <2>2, <2>3
  <1> QED BY <1>2, <1>3

(* md5_final pads to whole blocks. *)
LEMMA PaddedHolds ==
    ASSUME NEW c, NEW data \in Seq(Bytes), Holds(c, data)
    PROVE  \E p \in 1..64 :
              /\ Holds(Padded(c), data \o Padding(p) \o Length(Len(data)))
              /\ Len(data) + p + 8 = 64 * Len(Padded(c).blocks)
              /\ Padding(p) \in Seq(Bytes) /\ Len(Padding(p)) = p
              /\ Length(Len(data)) \in Seq(Bytes) /\ Len(Length(Len(data))) = 8
  <1> DEFINE n == Len(data)
             q == Len(c.blocks)
             p == PadLen(c.count % BlockLen)
             c1 == md5_update(c, Padding(p))
             d1 == data \o Padding(p)
             c2 == md5_update(c1, Length(n))
             d2 == d1 \o Length(n)
  <1>1. /\ n \in Nat /\ q \in Nat /\ c.count = n /\ 64 * q <= n /\ n - 64 * q < 64
    BY LenProperties DEF Holds, CutAs
  <1>3. p \in 1..64 /\ \E b \in Nat : n + p + 8 = 64 * b
    BY ONLY <1>1, PadLength
  <1>4. Padding(p) \in Seq(Bytes) /\ Len(Padding(p)) = p
    <2> HIDE DEF p
    <2>1. Padding(p) \in [1..p -> Bytes]
      BY DEF Padding, Bytes
    <2>2. p \in Nat
      BY <1>3
    <2> QED BY <2>1, <2>2
  <1>5. Length(n) \in Seq(Bytes) /\ Len(Length(n)) = 8
    <2> DEFINE bits == 8 * n
               high == bits \div 16777216
               top == high \div 16777216
    <2>1. bits \in Int
      BY ONLY <1>1
    <2> HIDE DEF bits
    <2>2. high \in Int
      BY ONLY <2>1 DEF high
    <2> HIDE DEF high
    <2>3. top \in Int
      BY ONLY <2>2 DEF top
    <2> HIDE DEF top
    <2>4. \A x \in Int : /\ x % 256 \in Bytes /\ (x \div 256) % 256 \in Bytes
                         /\ (x \div 65536) % 256 \in Bytes
      BY DEF Bytes
    <2>5. /\ bits % 256 \in Bytes /\ (bits \div 256) % 256 \in Bytes
          /\ (bits \div 65536) % 256 \in Bytes
          /\ high % 256 \in Bytes /\ (high \div 256) % 256 \in Bytes
          /\ (high \div 65536) % 256 \in Bytes
          /\ top % 256 \in Bytes /\ (top \div 256) % 256 \in Bytes
      BY ONLY <2>1, <2>2, <2>3, <2>4
    <2>6. Length(n) = <<bits % 256, (bits \div 256) % 256, (bits \div 65536) % 256,
                        high % 256, (high \div 256) % 256, (high \div 65536) % 256,
                        top % 256, (top \div 256) % 256>>
      BY DEF Length, bits, high, top
    <2> QED BY ONLY <2>5, <2>6
  <1>6. Padded(c) = c2
    BY <1>1 DEF Padded
  <1> HIDE DEF p
  <1>7. Holds(c1, d1)
    BY <1>4, UpdateHolds
  <1>8. d1 \in Seq(Bytes) /\ Len(d1) = n + p
    <2>1. data \in Seq(Bytes) /\ Padding(p) \in Seq(Bytes)
      BY <1>4
    <2>2. d1 \in Seq(Bytes) /\ Len(d1) = Len(data) + Len(Padding(p))
      BY ONLY <2>1, Joined
    <2> QED BY <1>4, <2>2
  <1> HIDE DEF c1, d1, n
  <1>9. Holds(c2, d2)
    BY <1>5, <1>7, <1>8, UpdateHolds
  <1>10. Len(d2) = n + p + 8
    <2>1. d1 \in Seq(Bytes) /\ Length(n) \in Seq(Bytes)
      BY <1>5, <1>8
    <2>2. Len(d2) = Len(d1) + Len(Length(n))
      BY ONLY <2>1, Joined
    <2> QED BY <1>5, <1>8, <2>2
  <1> HIDE DEF c2, d2
  <1>11. n + p + 8 = 64 * Len(c2.blocks)
    <2>1. /\ Len(c2.blocks) \in Nat /\ 64 * Len(c2.blocks) <= Len(d2)
          /\ Len(d2) - 64 * Len(c2.blocks) < 64
      BY <1>9, LenProperties DEF Holds, CutAs
    <2>2. PICK b \in Nat : n + p + 8 = 64 * b
      BY <1>3
    <2> DEFINE L == Len(c2.blocks)
    <2>3. L \in Nat /\ 64 * L <= 64 * b /\ 64 * b - 64 * L < 64
      BY ONLY <1>10, <2>1, <2>2
    <2> HIDE DEF L
    <2>4. L = b
      BY ONLY <2>3, WholeBlocks
    <2> QED BY <2>2, <2>4 DEF L
  <1>12. p \in 1..64
    BY <1>3
  <1> WITNESS p \in 1..64
  <1> QED BY <1>4, <1>5, <1>6, <1>9, <1>11 DEF d2, d1, n

(* What md5_transform was given once md5_final is done *)
PadCut(blocks, data) ==
    LET n == Len(data)
        len == BlockLen * Len(blocks)
        padded == data \o Padding(len - n - 8) \o Length(n)
    IN  /\ len - n \in 9..72 /\ blocks \in Seq(Seq(Bytes))
        /\ \A k \in 1..Len(blocks) :
              /\ Len(blocks[k]) = 64
              /\ blocks[k] = SubSeq(padded, BlockLen * (k - 1) + 1, BlockLen * k)

(* After md5_final the blocks are the padded message, cut.                 *)
LEMMA FinalBlocks ==
    ASSUME NEW c, NEW data \in Seq(Bytes), Holds(c, data)
    PROVE  PadCut(Padded(c).blocks, data)
  <1> PICK p \in 1..64 :
          /\ Holds(Padded(c), data \o Padding(p) \o Length(Len(data)))
          /\ Len(data) + p + 8 = 64 * Len(Padded(c).blocks)
          /\ Padding(p) \in Seq(Bytes) /\ Len(Padding(p)) = p
          /\ Length(Len(data)) \in Seq(Bytes) /\ Len(Length(Len(data))) = 8
    BY PaddedHolds
  <1> DEFINE n == Len(data)
             B == Padded(c).blocks
             all == data \o Padding(p) \o Length(n)
  <1>1. n \in Nat /\ B \in Seq(Seq(Bytes)) /\ CutAs(B, all) /\ Len(B) \in Nat
    BY LenProperties DEF Holds, CutAs
  <1>2. 64 * Len(B) = n + p + 8
    OBVIOUS
  <1>3. all \in Seq(Bytes)
    <2>1. data \o Padding(p) \in Seq(Bytes)
      BY Joined
    <2> DEFINE d == data \o Padding(p)
               l == Length(n)
    <2>2. d \in Seq(Bytes) /\ l \in Seq(Bytes)
      BY <2>1
    <2> HIDE DEF d, l
    <2>3. d \o l \in Seq(Bytes)
      BY ONLY <2>2, Joined
    <2> QED BY <2>3 DEF d, l
  <1> HIDE DEF B, all, n
  <1>4. 64 * Len(B) - n \in 9..72 /\ 64 * Len(B) - n - 8 = p
    <2>1. p \in Int /\ 1 <= p /\ p <= 64 /\ n \in Int
      BY <1>1
    <2> DEFINE L == 64 * Len(B)
    <2>2. L = n + p + 8
      BY ONLY <1>2
    <2> HIDE DEF L
    <2>3. L - n \in 9..72 /\ L - n - 8 = p
      BY ONLY <2>1, <2>2
    <2> QED BY ONLY <2>3 DEF L
  <1>5. ASSUME NEW k \in 1..Len(B)
        PROVE  Len(B[k]) = 64 /\ B[k] = SubSeq(all, 64 * (k - 1) + 1, 64 * k)
    <2> DEFINE first == 64 * (k - 1) + 1
               last == 64 * k
               t == SubSeq(all, first, last)
    <2>1. /\ Len(B[k]) = 64 /\ \A j \in 1..64 : B[k][j] = all[64 * (k - 1) + j]
          /\ 64 * Len(B) <= Len(all) /\ B[k] \in Seq(Bytes) /\ Len(all) \in Nat
      BY <1>1, <1>3, LenProperties, ElementOfSeq DEF CutAs
    <2>2. /\ first \in Nat /\ last \in Nat /\ 0 < first /\ first <= last + 1
          /\ last <= Len(all) /\ last - first + 1 = 64
      <3>1. k \in Nat /\ k >= 1 /\ k <= Len(B) /\ Len(B) \in Nat
        BY <1>1
      <3>2. 64 * Len(B) <= Len(all) /\ Len(all) \in Nat
        BY <2>1
      <3> QED BY ONLY <3>1, <3>2
    <2>3. \A j \in 1..64 : first + j - 1 = 64 * (k - 1) + j
      OBVIOUS
    <2> HIDE DEF first, last
    <2>4. /\ t \in Seq(Bytes) /\ Len(t) = last - first + 1
          /\ \A j \in 1..(last - first + 1) : t[j] = all[first + j - 1]
      BY ONLY <1>3, <2>2, Piece
    <2> HIDE DEF t
    <2>5. Len(t) = Len(B[k]) /\ \A j \in 1..Len(B[k]) : B[k][j] = t[j]
      <3>1. Len(t) = 64
        BY ONLY <2>2, <2>4
      <3>2. \A j \in 1..64 : t[j] = all[first + j - 1]
        BY ONLY <2>2, <2>4
      <3>3. \A j \in 1..64 : t[j] = all[64 * (k - 1) + j]
        BY ONLY <2>3, <3>2
      <3>4. Len(B[k]) = 64
        BY <2>1
      <3>5. \A j \in 1..64 : B[k][j] = all[64 * (k - 1) + j]
        BY <2>1
      <3>6. \A j \in 1..64 : B[k][j] = t[j]
        BY ONLY <3>3, <3>5
      <3> QED BY ONLY <3>1, <3>4, <3>6
    <2>6. B[k] = t
      BY ONLY <2>1, <2>4, <2>5, SeqEqual
    <2> QED BY <2>1, <2>6 DEF t, first, last
  <1> QED BY <1>1, <1>4, <1>5 DEF B, all, n, BlockLen, PadCut

-----------------------------------------------------------------------------
(* The hash of a message *)


(* What md5_update was given so far                                        *)
Fed == SubSeq(message, 1, fed)

(* The inductive invariant of the hash: between calls the context holds what *)
(* was fed to it, and at the end the blocks are the padded message.        *)
HashInv ==
    /\ message \in Seq(Bytes) /\ fed \in 0..Len(message)
    /\ digest = <<>> => Holds(ctx, Fed)
    /\ BlocksArePaddedMessage

LEMMA Finite ==
    ASSUME NEW S, NEW n \in Nat, NEW f \in [1..n -> S]
    PROVE  f \in Seq(S) /\ Len(f) = n
  OBVIOUS

(* One lemma for each step                                                 *)
LEMMA NothingFed ==
    ASSUME NEW bytes \in Seq(Bytes), Md5Init(bytes)
    PROVE  HashInv
  <1>1. message \in Seq(Bytes) /\ fed = 0 /\ Len(message) \in Nat /\ digest = <<>>
    BY LenProperties DEF Md5Init
  <1>2. Fed = <<>>
    BY <1>1, SubSeqEmpty DEF Fed
  <1>3. /\ ctx.count = 0 /\ ctx.blocks = <<>> /\ ctx.buffer = [k \in 1..64 |-> 255]
    BY DEF Md5Init, BlockLen
  <1>4. ctx.buffer \in Seq(Bytes) /\ Len(ctx.buffer) = 64
    <2>1. ctx.buffer \in [1..64 -> Bytes]
      BY <1>3 DEF Bytes
    <2> DEFINE n == 64
    <2>2. n \in Nat /\ ctx.buffer \in [1..n -> Bytes]
      BY <2>1
    <2> HIDE DEF n
    <2>3. ctx.buffer \in Seq(Bytes) /\ Len(ctx.buffer) = n
      BY ONLY <2>2, Finite
    <2> QED BY <2>3 DEF n
  <1>5. CutAs(<<>>, <<>>)
    BY EmptySeq DEF CutAs
  <1>6. Holds(ctx, <<>>)
    BY <1>3, <1>4, <1>5, EmptySeq DEF Holds
  <1> QED BY <1>1, <1>2, <1>6 DEF HashInv, BlocksArePaddedMessage

LEMMA UpdateInv ==
    ASSUME HashInv, NEW n \in Nat, Update(n)
    PROVE  HashInv'
  <1> DEFINE u == SubSeq(message, fed + 1, fed + n)
  <1>1. /\ message \in Seq(Bytes) /\ fed \in Nat /\ Len(message) \in Nat /\ fed + n <= Len(message)
        /\ digest = <<>> /\ Holds(ctx, Fed) /\ fed <= Len(message)
    BY LenProperties DEF HashInv, Update
  <1>2. /\ message' = message /\ digest' = <<>> /\ fed' = fed + n /\ ctx' = md5_update(ctx, u)
    BY <1>1 DEF Update
  <1>3. Fed \in Seq(Bytes)
    BY ONLY <1>1, Prefix DEF Fed
  <1>4. u \in Seq(Bytes)
    <2> DEFINE first == fed + 1
               last == fed + n
    <2>1. first \in Nat /\ last \in Nat /\ 0 < first /\ first <= last + 1 /\ last <= Len(message)
      BY ONLY <1>1
    <2> HIDE DEF first, last
    <2>2. SubSeq(message, first, last) \in Seq(Bytes)
      BY ONLY <1>1, <2>1, Piece
    <2> QED BY ONLY <2>2 DEF first, last
  <1> HIDE DEF u
  <1>5. Holds(md5_update(ctx, u), Fed \o u)
    BY ONLY <1>1, <1>3, <1>4, UpdateHolds
  <1>6. Fed' = Fed \o u
    <2> DEFINE one == 1
    <2>1. /\ one \in 1..(Len(message) + 1) /\ fed \in (one - 1)..Len(message)
          /\ fed + n \in fed..Len(message)
      BY ONLY <1>1
    <2> HIDE DEF one
    <2>2. SubSeq(message, one, fed) \o SubSeq(message, fed + 1, fed + n) = SubSeq(message, one, fed + n)
      BY ONLY <1>1, <2>1, ConcatAdjacentSubSeq
    <2> QED BY <1>2, <2>2 DEF Fed, u, one
  <1>7. fed' \in 0..Len(message')
    BY ONLY <1>1, <1>2
  <1> QED BY <1>1, <1>2, <1>5, <1>6, <1>7 DEF HashInv, BlocksArePaddedMessage

LEMMA FinalInv ==
    ASSUME HashInv, md5_final
    PROVE  HashInv'
  <1>1. /\ message \in Seq(Bytes) /\ fed = Len(message) /\ Holds(ctx, Fed)
        /\ fed \in 0..Len(message) /\ Len(message) \in Nat
    BY LenProperties DEF HashInv, md5_final
  <1>2. Fed = message
    BY ONLY <1>1, SubSeqFull DEF Fed
  <1>3. Holds(ctx, message)
    BY <1>1, <1>2
  <1>4. message' = message /\ fed' = fed /\ ctx' = Padded(ctx) /\ digest' # <<>>
    <2>1. digest' = DigestOf(Transformed(ctx'.blocks))
      BY DEF md5_final
    <2>2. DOMAIN digest' = 1..16
      BY <2>1 DEF DigestOf
    <2>3. DOMAIN <<>> # 1..16
      OBVIOUS
    <2>4. digest' # <<>>
      BY ONLY <2>2, <2>3
    <2> QED BY <2>4 DEF md5_final
  <1>5. PadCut(Padded(ctx).blocks, message)
    BY ONLY <1>1, <1>3, FinalBlocks
  <1>6. BlocksArePaddedMessage'
    BY <1>4, <1>5 DEF BlocksArePaddedMessage, PadCut
  <1> QED BY <1>1, <1>4, <1>6 DEF HashInv

LEMMA HashKept ==
    ASSUME HashInv, UNCHANGED hashing
    PROVE  HashInv'
  BY DEF HashInv, hashing, Fed, BlocksArePaddedMessage

LEMMA KeybufBytes ==
    ASSUME NEW u \in Seq(Bytes)
    PROVE  Keybuf(u) \in Seq(Bytes)
  <1>1. <<109, 119>> \in Seq(Bytes)
    BY DEF Bytes
  <1> DEFINE mw == <<109, 119>>
  <1>2. mw \in Seq(Bytes)
    BY <1>1
  <1> HIDE DEF mw
  <1>3. mw \o u \in Seq(Bytes)
    BY ONLY <1>2, Joined
  <1> QED BY <1>3 DEF Keybuf, mw

LEMMA Hashing == Spec => []HashInv
  <1>1. Init => HashInv
    <2> SUFFICES ASSUME Init PROVE HashInv
      OBVIOUS
    <2>1. CASE login \in Credentials /\ Md5Init(Keybuf(login[1]))
      <3>1. login[1] \in Seq(Bytes)
        BY <2>1, CipherAssumption
      <3> QED BY <2>1, <3>1, KeybufBytes, NothingFed
    <2>2. CASE login = <<>> /\ \E m \in Messages : Md5Init(m)
      <3>1. PICK m \in Messages : Md5Init(m)
        BY <2>2
      <3>2. m \in Seq(Bytes)
        BY CipherAssumption
      <3> QED BY <3>1, <3>2, NothingFed
    <2> QED BY <2>1, <2>2 DEF Init
  <1>2. HashInv /\ [Next]_vars => HashInv'
    <2> SUFFICES ASSUME HashInv, [Next]_vars PROVE HashInv'
      OBVIOUS
    <2>1. CASE HashLogin
      <3>1. Len(message) \in Nat
        BY LenProperties DEF HashInv
      <3> QED BY <2>1, <3>1, UpdateInv, FinalInv DEF HashLogin
    <2>2. CASE HashOther
      BY <2>2, UpdateInv, FinalInv, CipherAssumption DEF HashOther, Md5Next
    <2>3. CASE UNCHANGED hashing
      BY <2>3, HashKept
    <2>4. CASE UNCHANGED vars
      BY <2>4, HashKept DEF vars
    <2> QED BY <2>1, <2>2, <2>3, <2>4 DEF Next, EncipherPassword, EncipherOther
  <1> QED BY <1>1, <1>2, PTL DEF Spec

(* For every message, cut into pieces of any sizes (md5_update), what      *)
(* md5_transform is given by the end of md5_final is the message, the byte *)
(* 128, as few zeros as fill a block and the length of the message in      *)
(* bits: no byte is lost, repeated or left over in the buffer.             *)
THEOREM HashesPaddedMessage == Spec => []BlocksArePaddedMessage
  <1>1. HashInv => BlocksArePaddedMessage
    BY DEF HashInv
  <1> QED BY <1>1, Hashing, PTL

-----------------------------------------------------------------------------
(* Exclusive or *)


(* (+) bit by bit                                                          *)
Bit == 0..1
Halves == {x \in Int : 0 <= x /\ x <= 65535}

BitSum(a, b) == (a + b) % 2
B1(x) == x % 2
B2(x) == (x \div 2) % 2
B4(x) == (x \div 4) % 2
B8(x) == (x \div 8) % 2

LEMMA BitXor ==
    /\ \A a, b \in Bit : BitSum(a, b) \in Bit /\ BitSum(a, b) = BitSum(b, a)
    /\ \A a, b, c \in Bit : BitSum(BitSum(a, b), c) = BitSum(a, BitSum(b, c))
    /\ \A a \in Bit : BitSum(a, a) = 0 /\ BitSum(a, 0) = a
  BY DEF Bit, BitSum

LEMMA BitsOf ==
    \A x \in Nibbles : B1(x) \in Bit /\ B2(x) \in Bit /\ B4(x) \in Bit /\ B8(x) \in Bit
  BY DEF Bit, Nibbles, B1, B2, B4, B8

LEMMA BitsTell ==
    ASSUME NEW x \in Nibbles, NEW y \in Nibbles,
           B1(x) = B1(y), B2(x) = B2(y), B4(x) = B4(y), B8(x) = B8(y)
    PROVE  x = y
  BY DEF Bit, Nibbles, B1, B2, B4, B8

LEMMA ZeroBits ==
    0 \in Nibbles /\ 0 \in Bit /\ B1(0) = 0 /\ B2(0) = 0 /\ B4(0) = 0 /\ B8(0) = 0
  BY DEF Bit, Nibbles, B1, B2, B4, B8

LEMMA OfFourBits ==
    ASSUME NEW a \in Bit, NEW b \in Bit, NEW c \in Bit, NEW d \in Bit, NEW x, x = a + 2 * b + 4 * c + 8 * d
    PROVE  x \in Nibbles /\ B1(x) = a /\ B2(x) = b /\ B4(x) = c /\ B8(x) = d
  BY DEF Bit, Nibbles, B1, B2, B4, B8

LEMMA NibbleBits ==
    \A x, y \in Nibbles :
        /\ NibbleXor[x][y] \in Nibbles
        /\ B1(NibbleXor[x][y]) = BitSum(B1(x), B1(y))
        /\ B2(NibbleXor[x][y]) = BitSum(B2(x), B2(y))
        /\ B4(NibbleXor[x][y]) = BitSum(B4(x), B4(y))
        /\ B8(NibbleXor[x][y]) = BitSum(B8(x), B8(y))
  <1> TAKE x, y \in Nibbles
  <1> DEFINE z == NibbleXor[x][y]
             a == BitSum(B1(x), B1(y))
             b == BitSum(B2(x), B2(y))
             c == BitSum(B4(x), B4(y))
             d == BitSum(B8(x), B8(y))
  <1>1. a \in Bit /\ b \in Bit /\ c \in Bit /\ d \in Bit
    BY BitsOf, BitXor
  <1>2. z = a + 2 * b + 4 * c + 8 * d
    BY DEF NibbleXor, OfBits, BitSum, B1, B2, B4, B8
  <1> HIDE DEF a, b, c, d, z
  <1>3. z \in Nibbles /\ B1(z) = a /\ B2(z) = b /\ B4(z) = c /\ B8(z) = d
    BY ONLY <1>1, <1>2, OfFourBits
  <1> QED BY <1>3 DEF z, a, b, c, d

(* Nibbles are a commutative group, in which each is its own inverse.      *)
LEMMA NibbleSum ==
    /\ \A x, y \in Nibbles : NibbleXor[x][y] \in Nibbles /\ NibbleXor[x][y] = NibbleXor[y][x]
    /\ \A x, y, z \in Nibbles : NibbleXor[NibbleXor[x][y]][z] = NibbleXor[x][NibbleXor[y][z]]
    /\ \A x \in Nibbles : NibbleXor[x][x] = 0 /\ NibbleXor[x][0] = x
  <1>1. ASSUME NEW x \in Nibbles, NEW y \in Nibbles
        PROVE  NibbleXor[x][y] = NibbleXor[y][x]
    <2> DEFINE l == NibbleXor[x][y]
               r == NibbleXor[y][x]
    <2>1. l \in Nibbles /\ r \in Nibbles
      BY NibbleBits
    <2>2. B1(l) = B1(r) /\ B2(l) = B2(r) /\ B4(l) = B4(r) /\ B8(l) = B8(r)
      BY NibbleBits, BitsOf, BitXor
    <2> HIDE DEF l, r
    <2>3. l = r
      BY <2>1, <2>2, BitsTell
    <2> QED BY <2>3 DEF l, r
  <1>2. ASSUME NEW x \in Nibbles, NEW y \in Nibbles, NEW z \in Nibbles
        PROVE  NibbleXor[NibbleXor[x][y]][z] = NibbleXor[x][NibbleXor[y][z]]
    <2> DEFINE m == NibbleXor[x][y]
               l == NibbleXor[m][z]
               n == NibbleXor[y][z]
               r == NibbleXor[x][n]
    <2>1. /\ m \in Nibbles /\ B1(m) = BitSum(B1(x), B1(y)) /\ B2(m) = BitSum(B2(x), B2(y))
          /\ B4(m) = BitSum(B4(x), B4(y)) /\ B8(m) = BitSum(B8(x), B8(y))
      BY NibbleBits
    <2>2. /\ n \in Nibbles /\ B1(n) = BitSum(B1(y), B1(z)) /\ B2(n) = BitSum(B2(y), B2(z))
          /\ B4(n) = BitSum(B4(y), B4(z)) /\ B8(n) = BitSum(B8(y), B8(z))
      BY NibbleBits
    <2> HIDE DEF m, n
    <2>3. /\ l \in Nibbles /\ B1(l) = BitSum(B1(m), B1(z)) /\ B2(l) = BitSum(B2(m), B2(z))
          /\ B4(l) = BitSum(B4(m), B4(z)) /\ B8(l) = BitSum(B8(m), B8(z))
      BY <2>1, NibbleBits
    <2>4. /\ r \in Nibbles /\ B1(r) = BitSum(B1(x), B1(n)) /\ B2(r) = BitSum(B2(x), B2(n))
          /\ B4(r) = BitSum(B4(x), B4(n)) /\ B8(r) = BitSum(B8(x), B8(n))
      BY <2>2, NibbleBits
    <2> HIDE DEF l, r
    <2>5. B1(l) = B1(r) /\ B2(l) = B2(r) /\ B4(l) = B4(r) /\ B8(l) = B8(r)
      <3>1. /\ B1(x) \in Bit /\ B1(y) \in Bit /\ B1(z) \in Bit
            /\ B2(x) \in Bit /\ B2(y) \in Bit /\ B2(z) \in Bit
            /\ B4(x) \in Bit /\ B4(y) \in Bit /\ B4(z) \in Bit
            /\ B8(x) \in Bit /\ B8(y) \in Bit /\ B8(z) \in Bit
        BY BitsOf
      <3>2. B1(l) = B1(r)
        BY ONLY <2>1, <2>2, <2>3, <2>4, <3>1, BitXor
      <3>3. B2(l) = B2(r)
        BY ONLY <2>1, <2>2, <2>3, <2>4, <3>1, BitXor
      <3>4. B4(l) = B4(r)
        BY ONLY <2>1, <2>2, <2>3, <2>4, <3>1, BitXor
      <3>5. B8(l) = B8(r)
        BY ONLY <2>1, <2>2, <2>3, <2>4, <3>1, BitXor
      <3> QED BY ONLY <3>2, <3>3, <3>4, <3>5
    <2>6. l = r
      BY <2>3, <2>4, <2>5, BitsTell
    <2> QED BY <2>6 DEF l, r, m, n
  <1>3. ASSUME NEW x \in Nibbles
        PROVE  NibbleXor[x][x] = 0 /\ NibbleXor[x][0] = x
    <2> DEFINE l == NibbleXor[x][x]
               r == NibbleXor[x][0]
    <2>1. l \in Nibbles /\ r \in Nibbles
      BY NibbleBits, ZeroBits
    <2>2. B1(l) = B1(0) /\ B2(l) = B2(0) /\ B4(l) = B4(0) /\ B8(l) = B8(0)
      BY NibbleBits, BitsOf, BitXor, ZeroBits
    <2>3. B1(r) = B1(x) /\ B2(r) = B2(x) /\ B4(r) = B4(x) /\ B8(r) = B8(x)
      BY NibbleBits, BitsOf, BitXor, ZeroBits
    <2> HIDE DEF l, r
    <2>4. l = 0 /\ r = x
      BY <2>1, <2>2, <2>3, BitsTell, ZeroBits
    <2> QED BY <2>4 DEF l, r
  <1> QED BY <1>1, <1>2, <1>3, NibbleBits

Low(x) == x % 16
High(x) == (x \div 16) % 16

LEMMA NibblesOf ==
    ASSUME NEW x \in Bytes
    PROVE  Low(x) \in Nibbles /\ High(x) \in Nibbles /\ x = Low(x) + 16 * High(x)
           /\ (x \div 256) % 16 = 0 /\ (x \div 4096) % 16 = 0
  BY DEF Low, High, Nibbles, Bytes

LEMMA NibblesTyped == \A x \in Bytes : Low(x) \in Nibbles /\ High(x) \in Nibbles
  BY NibblesOf

LEMMA NibblesTell ==
    ASSUME NEW x \in Bytes, NEW y \in Bytes, Low(x) = Low(y), High(x) = High(y)
    PROVE  x = y
  BY NibblesOf

LEMMA OfTwoNibbles ==
    ASSUME NEW a \in Nibbles, NEW b \in Nibbles
    PROVE  a + 16 * b \in Bytes /\ Low(a + 16 * b) = a /\ High(a + 16 * b) = b
  BY DEF Low, High, Nibbles, Bytes

LEMMA ByteNibbles ==
    \A x, y \in Bytes : /\ x (+) y \in Bytes
                        /\ Low(x (+) y) = NibbleXor[Low(x)][Low(y)]
                        /\ High(x (+) y) = NibbleXor[High(x)][High(y)]
  <1> TAKE x, y \in Bytes
  <1> DEFINE a == NibbleXor[Low(x)][Low(y)]
             b == NibbleXor[High(x)][High(y)]
  <1>1. a \in Nibbles /\ b \in Nibbles
    BY NibblesTyped, NibbleSum
  <1>2. NibbleXor[0][0] = 0
    BY ONLY NibbleSum, ZeroBits
  <1>3. x (+) y = a + 16 * b + 256 * NibbleXor[0][0] + 4096 * NibbleXor[0][0]
    BY NibblesOf DEF (+), OfNibbles, Low, High
  <1> HIDE DEF a, b
  <1>4. x (+) y = a + 16 * b
    BY <1>1, <1>2, <1>3 DEF Nibbles
  <1>5. a + 16 * b \in Bytes /\ Low(a + 16 * b) = a /\ High(a + 16 * b) = b
    BY ONLY <1>1, OfTwoNibbles
  <1> QED BY <1>4, <1>5 DEF a, b

(* And so are bytes.                                                       *)
LEMMA Xor ==
    /\ \A x, y \in Bytes : x (+) y \in Bytes /\ x (+) y = y (+) x
    /\ \A x, y, z \in Bytes : (x (+) y) (+) z = x (+) (y (+) z)
    /\ \A x \in Bytes : x (+) x = 0 /\ x (+) 0 = x
  <1>1. ASSUME NEW x \in Bytes, NEW y \in Bytes
        PROVE  x (+) y = y (+) x
    <2> DEFINE l == x (+) y
               r == y (+) x
    <2>1. l \in Bytes /\ Low(l) = NibbleXor[Low(x)][Low(y)] /\ High(l) = NibbleXor[High(x)][High(y)]
      BY ByteNibbles
    <2>2. r \in Bytes /\ Low(r) = NibbleXor[Low(y)][Low(x)] /\ High(r) = NibbleXor[High(y)][High(x)]
      BY ByteNibbles
    <2> HIDE DEF l, r
    <2>3. Low(l) = Low(r) /\ High(l) = High(r)
      BY <2>1, <2>2, NibblesTyped, NibbleSum
    <2>4. l = r
      BY <2>1, <2>2, <2>3, NibblesTell
    <2> QED BY <2>4 DEF l, r
  <1>2. ASSUME NEW x \in Bytes, NEW y \in Bytes, NEW z \in Bytes
        PROVE  (x (+) y) (+) z = x (+) (y (+) z)
    <2> DEFINE m == x (+) y
               l == m (+) z
               n == y (+) z
               r == x (+) n
    <2>1. m \in Bytes /\ Low(m) = NibbleXor[Low(x)][Low(y)] /\ High(m) = NibbleXor[High(x)][High(y)]
      BY ByteNibbles
    <2>2. n \in Bytes /\ Low(n) = NibbleXor[Low(y)][Low(z)] /\ High(n) = NibbleXor[High(y)][High(z)]
      BY ByteNibbles
    <2> HIDE DEF m, n
    <2>3. l \in Bytes /\ Low(l) = NibbleXor[Low(m)][Low(z)] /\ High(l) = NibbleXor[High(m)][High(z)]
      BY <2>1, ByteNibbles
    <2>4. r \in Bytes /\ Low(r) = NibbleXor[Low(x)][Low(n)] /\ High(r) = NibbleXor[High(x)][High(n)]
      BY <2>2, ByteNibbles
    <2> HIDE DEF l, r
    <2>5. Low(l) = Low(r)
      BY <2>1, <2>2, <2>3, <2>4, NibblesTyped, NibbleSum
    <2>6. High(l) = High(r)
      BY <2>1, <2>2, <2>3, <2>4, NibblesTyped, NibbleSum
    <2>7. l = r
      BY <2>3, <2>4, <2>5, <2>6, NibblesTell
    <2> QED BY <2>7 DEF l, r, m, n
  <1>3. ASSUME NEW x \in Bytes
        PROVE  x (+) x = 0 /\ x (+) 0 = x
    <2> DEFINE l == x (+) x
               r == x (+) 0
    <2>1. 0 \in Bytes /\ Low(0) = 0 /\ High(0) = 0
      BY DEF Bytes, Low, High
    <2>2. l \in Bytes /\ Low(l) = NibbleXor[Low(x)][Low(x)] /\ High(l) = NibbleXor[High(x)][High(x)]
      BY ByteNibbles
    <2>3. r \in Bytes /\ Low(r) = NibbleXor[Low(x)][0] /\ High(r) = NibbleXor[High(x)][0]
      BY <2>1, ByteNibbles
    <2> HIDE DEF l, r
    <2>4. Low(l) = 0 /\ High(l) = 0 /\ Low(r) = Low(x) /\ High(r) = High(x)
      BY <2>2, <2>3, NibblesTyped, NibbleSum
    <2>5. l = 0
      BY <2>1, <2>2, <2>4, NibblesTell
    <2>6. r = x
      BY <2>3, <2>4, NibblesTell
    <2> QED BY <2>5, <2>6 DEF l, r
  <1> QED BY <1>1, <1>2, <1>3, ByteNibbles

(* Sums are cut to bytes term by term. *)
LowByte(x) == x % 256
Third(x) == (x \div 256) % 16
Fourth(x) == (x \div 4096) % 16

LEMMA CutNibbles ==
    \A x \in Int :
        /\ LowByte(x) \in Bytes /\ Low(LowByte(x)) = Low(x) /\ High(LowByte(x)) = High(x)
        /\ Low(x) \in Nibbles /\ High(x) \in Nibbles /\ Third(x) \in Nibbles
        /\ Fourth(x) \in Nibbles
  BY DEF Bytes, Low, High, Nibbles, LowByte, Third, Fourth

LEMMA ByteRemainder ==
    ASSUME NEW n \in Nat, NEW q \in Nat, 256 * q <= n, n - 256 * q < 256
    PROVE  n % 256 = n - 256 * q
  OBVIOUS

LEMMA HalfRange ==
    ASSUME NEW x \in Nat, x <= 65535
    PROVE  x \in Halves
  BY DEF Halves

LEMMA FourNibbles ==
    ASSUME NEW a \in 0..15, NEW b \in 0..15, NEW c \in 0..15, NEW d \in 0..15
    PROVE  LET x == a + 16 * b + 256 * c + 4096 * d
               q == c + 16 * d
           IN  /\ q \in Nat /\ x \in Nat /\ x <= 65535
               /\ 256 * q <= x /\ x - 256 * q < 256 /\ x - 256 * q = a + 16 * b
  OBVIOUS

LEMMA OfFourNibbles ==
    ASSUME NEW a \in Nibbles, NEW b \in Nibbles, NEW c \in Nibbles, NEW d \in Nibbles
    PROVE  LET x == a + 16 * b + 256 * c + 4096 * d
           IN  x \in Halves /\ x % 256 = a + 16 * b
  <1> DEFINE x == a + 16 * b + 256 * c + 4096 * d
             q == c + 16 * d
             r == a + 16 * b
  <1>1. a \in 0..15 /\ b \in 0..15 /\ c \in 0..15 /\ d \in 0..15
    BY DEF Nibbles
  <1>2. /\ q \in Nat /\ x \in Nat /\ x <= 65535
        /\ 256 * q <= x /\ x - 256 * q < 256 /\ x - 256 * q = r
    BY ONLY <1>1, FourNibbles
  <1> HIDE DEF x, q, r
  <1>3. x % 256 = x - 256 * q
    BY ONLY <1>2, ByteRemainder
  <1>4. x \in Halves
    BY ONLY <1>2, HalfRange
  <1> QED BY <1>2, <1>3, <1>4 DEF x, r

LEMMA XorCut ==
    ASSUME NEW x \in Int, NEW y \in Int
    PROVE  /\ x (+) y \in Halves
           /\ LowByte(x (+) y) = LowByte(x) (+) LowByte(y)
  <1> DEFINE a == NibbleXor[Low(x)][Low(y)]
             b == NibbleXor[High(x)][High(y)]
             c == NibbleXor[Third(x)][Third(y)]
             d == NibbleXor[Fourth(x)][Fourth(y)]
             u == LowByte(x)
             v == LowByte(y)
             w == u (+) v
             z == x (+) y
  <1>1. a \in Nibbles /\ b \in Nibbles /\ c \in Nibbles /\ d \in Nibbles
    BY CutNibbles, NibbleSum
  <1>2. z = a + 16 * b + 256 * c + 4096 * d
    BY DEF (+), OfNibbles, Low, High, Third, Fourth
  <1>3. /\ u \in Bytes /\ v \in Bytes /\ Low(u) = Low(x) /\ High(u) = High(x)
        /\ Low(v) = Low(y) /\ High(v) = High(y)
    BY CutNibbles
  <1>4. w \in Bytes /\ Low(w) = a /\ High(w) = b
    BY <1>3, ByteNibbles
  <1> HIDE DEF a, b, c, d, z, w
  <1>5. w = a + 16 * b
    BY ONLY <1>4, NibblesOf
  <1>6. z \in Halves /\ z % 256 = a + 16 * b
    BY ONLY <1>1, <1>2, OfFourNibbles
  <1> QED BY <1>5, <1>6 DEF z, w, LowByte

-----------------------------------------------------------------------------
(* The tables and macros of AES *)


(* The tables, entry by entry: aes_inv_sbox undoes aes_sbox, and each bit  *)
(* of an entry of xtime_table is a bit of the index or the sum of two.     *)
LEMMA SboxInverse ==
    \A x \in Bytes : Sub(aes_sbox, x) \in Bytes /\ Sub(aes_inv_sbox, Sub(aes_sbox, x)) = x
  <1>1. \A x \in 0..255 : aes_sbox[x + 1] \in 0..255
    BY DEF aes_sbox
  <1>2. \A x \in 0..255 : aes_inv_sbox[aes_sbox[x + 1] + 1] = x
    BY DEF aes_sbox, aes_inv_sbox
  <1> QED BY <1>1, <1>2 DEF Bytes, Sub

LEMMA TableBytes == \A x \in Bytes : XT(x) \in Bytes
  <1>1. \A x \in 0..255 : xtime_table[x + 1] \in 0..255
    BY DEF xtime_table
  <1> QED BY <1>1 DEF Bytes, Sub, XT

LEMMA TableHigh ==
    \A x \in 0..255 :
        LET y == xtime_table[x + 1]
        IN  /\ y \div 128 = (x \div 64) % 2 /\ (y \div 64) % 2 = (x \div 32) % 2
            /\ (y \div 32) % 2 = (x \div 16) % 2
            /\ (y \div 4) % 2 = (x \div 2) % 2
            /\ y % 2 = x \div 128
  BY SMTT(60) DEF xtime_table

LEMMA TableLow ==
    \A x \in 0..255 :
        LET y == xtime_table[x + 1]
            b == x \div 128
        IN  /\ (y \div 16) % 2 = (((x \div 8) % 2) + b) % 2
            /\ (y \div 8) % 2 = (((x \div 4) % 2) + b) % 2
            /\ (y \div 2) % 2 = ((x % 2) + b) % 2
  BY SMTT(60) DEF xtime_table

LEMMA ByteBits ==
    \A x \in 0..255 :
        /\ B1(Low(x)) = x % 2 /\ B2(Low(x)) = (x \div 2) % 2
        /\ B4(Low(x)) = (x \div 4) % 2 /\ B8(Low(x)) = (x \div 8) % 2
        /\ B1(High(x)) = (x \div 16) % 2 /\ B2(High(x)) = (x \div 32) % 2
        /\ B4(High(x)) = (x \div 64) % 2 /\ B8(High(x)) = x \div 128
  BY DEF B1, B2, B4, B8, Low, High

(* The bits of XT(x), in those of x *)
LEMMA TableBits ==
    \A x \in Bytes :
        LET b == B8(High(x))
            y == XT(x)
        IN  /\ B1(Low(y)) = b /\ B2(Low(y)) = BitSum(B1(Low(x)), b)
            /\ B4(Low(y)) = B2(Low(x)) /\ B8(Low(y)) = BitSum(B4(Low(x)), b)
            /\ B1(High(y)) = BitSum(B8(Low(x)), b) /\ B2(High(y)) = B1(High(x))
            /\ B4(High(y)) = B2(High(x)) /\ B8(High(y)) = B4(High(x))
  <1> TAKE x \in Bytes
  <1>1. x \in 0..255
    BY DEF Bytes
  <1> DEFINE y == xtime_table[x + 1]
  <1>2. XT(x) = y
    BY DEF XT, Sub
  <1>3. y \in 0..255
    BY <1>2, TableBytes DEF Bytes
  <1>4. /\ y \div 128 = (x \div 64) % 2 /\ (y \div 64) % 2 = (x \div 32) % 2
        /\ (y \div 32) % 2 = (x \div 16) % 2 /\ (y \div 4) % 2 = (x \div 2) % 2
        /\ y % 2 = x \div 128
    BY <1>1, TableHigh
  <1>5. /\ (y \div 16) % 2 = (((x \div 8) % 2) + (x \div 128)) % 2
        /\ (y \div 8) % 2 = (((x \div 4) % 2) + (x \div 128)) % 2
        /\ (y \div 2) % 2 = ((x % 2) + (x \div 128)) % 2
    BY <1>1, TableLow
  <1> HIDE DEF y
  <1>6. /\ B1(Low(x)) = x % 2 /\ B2(Low(x)) = (x \div 2) % 2
        /\ B4(Low(x)) = (x \div 4) % 2 /\ B8(Low(x)) = (x \div 8) % 2
        /\ B1(High(x)) = (x \div 16) % 2 /\ B2(High(x)) = (x \div 32) % 2
        /\ B4(High(x)) = (x \div 64) % 2 /\ B8(High(x)) = x \div 128
    BY <1>1, ByteBits
  <1>7. /\ B1(Low(y)) = y % 2 /\ B2(Low(y)) = (y \div 2) % 2
        /\ B4(Low(y)) = (y \div 4) % 2 /\ B8(Low(y)) = (y \div 8) % 2
        /\ B1(High(y)) = (y \div 16) % 2 /\ B2(High(y)) = (y \div 32) % 2
        /\ B4(High(y)) = (y \div 64) % 2 /\ B8(High(y)) = y \div 128
    BY <1>3, ByteBits
  <1> QED BY ONLY <1>2, <1>4, <1>5, <1>6, <1>7 DEF BitSum

(* The bits of a sum *)
LEMMA SumBits ==
    \A x, y \in Bytes :
        LET z == x (+) y
        IN  /\ z \in Bytes
            /\ B1(Low(z)) = BitSum(B1(Low(x)), B1(Low(y)))
            /\ B2(Low(z)) = BitSum(B2(Low(x)), B2(Low(y)))
            /\ B4(Low(z)) = BitSum(B4(Low(x)), B4(Low(y)))
            /\ B8(Low(z)) = BitSum(B8(Low(x)), B8(Low(y)))
            /\ B1(High(z)) = BitSum(B1(High(x)), B1(High(y)))
            /\ B2(High(z)) = BitSum(B2(High(x)), B2(High(y)))
            /\ B4(High(z)) = BitSum(B4(High(x)), B4(High(y)))
            /\ B8(High(z)) = BitSum(B8(High(x)), B8(High(y)))
  <1> TAKE x, y \in Bytes
  <1>1. /\ x (+) y \in Bytes /\ Low(x (+) y) = NibbleXor[Low(x)][Low(y)]
        /\ High(x (+) y) = NibbleXor[High(x)][High(y)]
    BY ByteNibbles
  <1>2. Low(x) \in Nibbles /\ Low(y) \in Nibbles /\ High(x) \in Nibbles /\ High(y) \in Nibbles
    BY NibblesTyped
  <1> QED BY <1>1, <1>2, NibbleBits

SameBits(u, v) ==
    /\ B1(Low(u)) = B1(Low(v)) /\ B2(Low(u)) = B2(Low(v)) /\ B4(Low(u)) = B4(Low(v))
    /\ B8(Low(u)) = B8(Low(v))
    /\ B1(High(u)) = B1(High(v)) /\ B2(High(u)) = B2(High(v))
    /\ B4(High(u)) = B4(High(v)) /\ B8(High(u)) = B8(High(v))

LEMMA BytesTell ==
    ASSUME NEW x \in Bytes, NEW y \in Bytes, SameBits(x, y)
    PROVE  x = y
  <1>1. Low(x) \in Nibbles /\ Low(y) \in Nibbles /\ High(x) \in Nibbles /\ High(y) \in Nibbles
    BY NibblesTyped
  <1>2. Low(x) = Low(y)
    BY <1>1, BitsTell DEF SameBits
  <1>3. High(x) = High(y)
    BY <1>1, BitsTell DEF SameBits
  <1> QED BY <1>2, <1>3, NibblesTell

LEMMA BitInterchange ==
    ASSUME NEW a \in Bit, NEW b \in Bit, NEW c \in Bit, NEW d \in Bit
    PROVE  BitSum(BitSum(a, b), BitSum(c, d)) = BitSum(BitSum(a, c), BitSum(b, d))
  BY DEF BitSum, Bit

(* So xtime is linear.                                                     *)
LEMMA XTLinear ==
    /\ \A x \in Bytes : XT(x) \in Bytes
    /\ \A x, y \in Bytes : XT(x (+) y) = XT(x) (+) XT(y)
  <1>1. ASSUME NEW x \in Bytes, NEW y \in Bytes
        PROVE  XT(x (+) y) = XT(x) (+) XT(y)
    <2> DEFINE z == x (+) y
               l == XT(z)
               p == XT(x)
               q == XT(y)
               r == p (+) q
               bx == B8(High(x))
               by == B8(High(y))
               bz == B8(High(z))
    <2>1. z \in Bytes /\ p \in Bytes /\ q \in Bytes
      BY Xor, TableBytes
    <2>2. l \in Bytes /\ r \in Bytes
      BY <2>1, Xor, TableBytes
    <2>3. /\ B1(Low(z)) = BitSum(B1(Low(x)), B1(Low(y)))
          /\ B2(Low(z)) = BitSum(B2(Low(x)), B2(Low(y)))
          /\ B4(Low(z)) = BitSum(B4(Low(x)), B4(Low(y)))
          /\ B8(Low(z)) = BitSum(B8(Low(x)), B8(Low(y)))
          /\ B1(High(z)) = BitSum(B1(High(x)), B1(High(y)))
          /\ B2(High(z)) = BitSum(B2(High(x)), B2(High(y)))
          /\ B4(High(z)) = BitSum(B4(High(x)), B4(High(y))) /\ bz = BitSum(bx, by)
      BY SumBits
    <2> HIDE DEF z
    <2>4. /\ B1(Low(p)) = bx /\ B2(Low(p)) = BitSum(B1(Low(x)), bx)
          /\ B4(Low(p)) = B2(Low(x)) /\ B8(Low(p)) = BitSum(B4(Low(x)), bx)
          /\ B1(High(p)) = BitSum(B8(Low(x)), bx) /\ B2(High(p)) = B1(High(x))
          /\ B4(High(p)) = B2(High(x)) /\ B8(High(p)) = B4(High(x))
      BY TableBits
    <2>5. /\ B1(Low(q)) = by /\ B2(Low(q)) = BitSum(B1(Low(y)), by)
          /\ B4(Low(q)) = B2(Low(y)) /\ B8(Low(q)) = BitSum(B4(Low(y)), by)
          /\ B1(High(q)) = BitSum(B8(Low(y)), by) /\ B2(High(q)) = B1(High(y))
          /\ B4(High(q)) = B2(High(y)) /\ B8(High(q)) = B4(High(y))
      BY TableBits
    <2>6. /\ B1(Low(l)) = bz /\ B2(Low(l)) = BitSum(B1(Low(z)), bz)
          /\ B4(Low(l)) = B2(Low(z)) /\ B8(Low(l)) = BitSum(B4(Low(z)), bz)
          /\ B1(High(l)) = BitSum(B8(Low(z)), bz) /\ B2(High(l)) = B1(High(z))
          /\ B4(High(l)) = B2(High(z)) /\ B8(High(l)) = B4(High(z))
      BY <2>1, TableBits
    <2> HIDE DEF p, q, l
    <2>7. /\ B1(Low(r)) = BitSum(B1(Low(p)), B1(Low(q)))
          /\ B2(Low(r)) = BitSum(B2(Low(p)), B2(Low(q)))
          /\ B4(Low(r)) = BitSum(B4(Low(p)), B4(Low(q)))
          /\ B8(Low(r)) = BitSum(B8(Low(p)), B8(Low(q)))
          /\ B1(High(r)) = BitSum(B1(High(p)), B1(High(q)))
          /\ B2(High(r)) = BitSum(B2(High(p)), B2(High(q)))
          /\ B4(High(r)) = BitSum(B4(High(p)), B4(High(q)))
          /\ B8(High(r)) = BitSum(B8(High(p)), B8(High(q)))
      BY <2>1, SumBits
    <2> HIDE DEF r
    <2>8. /\ bx \in Bit /\ by \in Bit /\ B1(Low(x)) \in Bit /\ B1(Low(y)) \in Bit
          /\ B4(Low(x)) \in Bit
          /\ B4(Low(y)) \in Bit /\ B8(Low(x)) \in Bit /\ B8(Low(y)) \in Bit
      BY NibblesTyped, BitsOf
    <2> HIDE DEF bx, by, bz
    <2>9. /\ B2(Low(l)) = B2(Low(r)) /\ B8(Low(l)) = B8(Low(r)) /\ B1(High(l)) = B1(High(r))
      BY ONLY <2>3, <2>4, <2>5, <2>6, <2>7, <2>8, BitInterchange
    <2>10. SameBits(l, r)
      BY ONLY <2>3, <2>4, <2>5, <2>6, <2>7, <2>9 DEF SameBits
    <2>11. l = r
      BY ONLY <2>2, <2>10, BytesTell
    <2> QED BY <2>11 DEF l, r, z, p, q
  <1> QED BY <1>1, TableBytes

(* xtime cut to a byte is the table's, whatever its argument was *)
Double(y) == LowByte(2 * y)

LEMMA DoubleCut ==
    ASSUME NEW y \in Int
    PROVE  Double(y) = Double(LowByte(y)) /\ (y \div 128) % 2 = LowByte(y) \div 128
  BY DEF LowByte, Double

LEMMA DoubleBits ==
    \A u \in 0..255 :
        LET d == Double(u)
        IN  /\ d \in 0..255 /\ d % 2 = 0 /\ (d \div 2) % 2 = u % 2 /\ (d \div 4) % 2 = (u \div 2) % 2
            /\ (d \div 8) % 2 = (u \div 4) % 2 /\ (d \div 16) % 2 = (u \div 8) % 2
            /\ (d \div 32) % 2 = (u \div 16) % 2 /\ (d \div 64) % 2 = (u \div 32) % 2
            /\ d \div 128 = (u \div 64) % 2
  BY DEF LowByte, Double

LEMMA Bits27 ==
    \A c \in Bit :
        LET e == LowByte(c * 27)
        IN  /\ e \in Bytes /\ B1(Low(e)) = c /\ B2(Low(e)) = c /\ B4(Low(e)) = 0 /\ B8(Low(e)) = c
            /\ B1(High(e)) = c /\ B2(High(e)) = 0 /\ B4(High(e)) = 0 /\ B8(High(e)) = 0
  BY DEF Bit, LowByte, B1, B2, B4, B8, Low, High, Bytes

LEMMA XtimeCut ==
    ASSUME NEW y \in Int
    PROVE  LowByte(xtime(y)) = XT(LowByte(y))
  <1> DEFINE u == LowByte(y)
             c == (y \div 128) % 2
             d == Double(y)
             e == LowByte(c * 27)
             l == d (+) e
             r == XT(u)
             b == B8(High(u))
  <1>1. u \in 0..255 /\ u \in Bytes
    BY CutNibbles DEF Bytes
  <1>2. c \in Bit /\ 2 * y \in Int /\ c * 27 \in Int
    BY DEF Bit
  <1>3. LowByte(xtime(y)) = l
    <2> DEFINE f == 2 * y
               g == c * 27
    <2>1. f \in Int /\ g \in Int
      BY <1>2
    <2>2. xtime(y) = f (+) g
      BY DEF xtime
    <2> HIDE DEF f, g
    <2>3. LowByte(f (+) g) = LowByte(f) (+) LowByte(g)
      BY <2>1, XorCut
    <2> QED BY <2>2, <2>3 DEF f, g, Double
  <1>4. d = Double(u) /\ c = u \div 128
    BY DoubleCut
  <1>5. b = u \div 128
    BY <1>1, ByteBits
  <1>6. /\ e \in Bytes /\ B1(Low(e)) = c /\ B2(Low(e)) = c /\ B4(Low(e)) = 0 /\ B8(Low(e)) = c
        /\ B1(High(e)) = c /\ B2(High(e)) = 0 /\ B4(High(e)) = 0 /\ B8(High(e)) = 0
    BY <1>2, Bits27
  <1> HIDE DEF u, c, e, b
  <1>7. /\ d \in 0..255 /\ d % 2 = 0 /\ (d \div 2) % 2 = u % 2 /\ (d \div 4) % 2 = (u \div 2) % 2
        /\ (d \div 8) % 2 = (u \div 4) % 2 /\ (d \div 16) % 2 = (u \div 8) % 2
        /\ (d \div 32) % 2 = (u \div 16) % 2 /\ (d \div 64) % 2 = (u \div 32) % 2
        /\ d \div 128 = (u \div 64) % 2
    <2>1. u \in 0..255 /\ d = Double(u)
      BY <1>1, <1>4
    <2> DEFINE f == Double(u)
    <2>2. /\ f \in 0..255 /\ f % 2 = 0 /\ (f \div 2) % 2 = u % 2 /\ (f \div 4) % 2 = (u \div 2) % 2
          /\ (f \div 8) % 2 = (u \div 4) % 2 /\ (f \div 16) % 2 = (u \div 8) % 2
          /\ (f \div 32) % 2 = (u \div 16) % 2 /\ (f \div 64) % 2 = (u \div 32) % 2
          /\ f \div 128 = (u \div 64) % 2
      BY ONLY <2>1, DoubleBits
    <2>3. d = f
      BY <2>1
    <2> HIDE DEF d, f
    <2> QED BY ONLY <2>2, <2>3
  <1> HIDE DEF d
  <1>8. /\ B1(Low(d)) = 0 /\ B2(Low(d)) = B1(Low(u)) /\ B4(Low(d)) = B2(Low(u))
        /\ B8(Low(d)) = B4(Low(u))
        /\ B1(High(d)) = B8(Low(u)) /\ B2(High(d)) = B1(High(u)) /\ B4(High(d)) = B2(High(u))
        /\ B8(High(d)) = B4(High(u)) /\ d \in Bytes
    <2>1. /\ B1(Low(u)) = u % 2 /\ B2(Low(u)) = (u \div 2) % 2
          /\ B4(Low(u)) = (u \div 4) % 2 /\ B8(Low(u)) = (u \div 8) % 2
          /\ B1(High(u)) = (u \div 16) % 2 /\ B2(High(u)) = (u \div 32) % 2
          /\ B4(High(u)) = (u \div 64) % 2
      BY <1>1, ByteBits
    <2>2. /\ B1(Low(d)) = d % 2 /\ B2(Low(d)) = (d \div 2) % 2
          /\ B4(Low(d)) = (d \div 4) % 2 /\ B8(Low(d)) = (d \div 8) % 2
          /\ B1(High(d)) = (d \div 16) % 2 /\ B2(High(d)) = (d \div 32) % 2
          /\ B4(High(d)) = (d \div 64) % 2 /\ B8(High(d)) = d \div 128
      BY <1>7, ByteBits
    <2> QED BY ONLY <1>7, <2>1, <2>2 DEF Bytes
  <1>9. /\ l \in Bytes
        /\ B1(Low(l)) = BitSum(B1(Low(d)), B1(Low(e)))
        /\ B2(Low(l)) = BitSum(B2(Low(d)), B2(Low(e)))
        /\ B4(Low(l)) = BitSum(B4(Low(d)), B4(Low(e)))
        /\ B8(Low(l)) = BitSum(B8(Low(d)), B8(Low(e)))
        /\ B1(High(l)) = BitSum(B1(High(d)), B1(High(e)))
        /\ B2(High(l)) = BitSum(B2(High(d)), B2(High(e)))
        /\ B4(High(l)) = BitSum(B4(High(d)), B4(High(e)))
        /\ B8(High(l)) = BitSum(B8(High(d)), B8(High(e)))
    BY <1>6, <1>8, SumBits
  <1> HIDE DEF l
  <1>10. /\ B1(Low(r)) = b /\ B2(Low(r)) = BitSum(B1(Low(u)), b)
         /\ B4(Low(r)) = B2(Low(u)) /\ B8(Low(r)) = BitSum(B4(Low(u)), b)
         /\ B1(High(r)) = BitSum(B8(Low(u)), b) /\ B2(High(r)) = B1(High(u))
         /\ B4(High(r)) = B2(High(u)) /\ B8(High(r)) = B4(High(u)) /\ r \in Bytes
    BY <1>1, TableBits, TableBytes DEF b
  <1> HIDE DEF r
  <1>11. b = c
    BY <1>4, <1>5
  <1>12. /\ B2(Low(u)) \in Bit /\ B1(High(u)) \in Bit /\ B2(High(u)) \in Bit
         /\ B4(High(u)) \in Bit /\ c \in Bit
    BY <1>1, <1>2, NibblesTyped, BitsOf
  <1>13. \A a \in Bit : BitSum(a, 0) = a /\ BitSum(0, a) = a
    BY DEF BitSum, Bit
  <1>14. SameBits(l, r)
    BY ONLY <1>6, <1>8, <1>9, <1>10, <1>11, <1>12, <1>13 DEF SameBits
  <1>15. l = r
    BY ONLY <1>9, <1>10, <1>14, BytesTell
  <1> QED BY <1>3, <1>15 DEF r, u

LEMMA XorInt == \A x, y \in Int : x (+) y \in Int
  BY XorCut DEF Halves

LEMMA XtimeInt == \A x \in Int : xtime(x) \in Int
  <1> TAKE x \in Int
  <1> DEFINE u == 2 * x
             v == ((x \div 128) % 2) * 27
  <1>1. u \in Int /\ v \in Int
    OBVIOUS
  <1> HIDE DEF u, v
  <1>2. u (+) v \in Int
    BY <1>1, XorInt
  <1> QED BY <1>2 DEF xtime, u, v

LEMMA MulInt ==
    \A x \in Int : mul9(x) \in Int /\ mul11(x) \in Int /\ mul13(x) \in Int /\ mul14(x) \in Int
  <1> TAKE x \in Int
  <1>1. xtime(xtime(xtime(x))) \in Int /\ xtime(xtime(x)) \in Int /\ xtime(x) \in Int
    BY XtimeInt
  <1>2. xtime(xtime(x)) (+) x \in Int /\ xtime(x) (+) x \in Int
    BY <1>1, XorInt
  <1>3. /\ xtime(xtime(xtime(x)) (+) x) \in Int /\ xtime(xtime(xtime(x) (+) x)) \in Int
        /\ xtime(xtime(x) (+) x) \in Int
    BY <1>2, XtimeInt
  <1>4. xtime(xtime(x) (+) x) (+) x \in Int
    BY <1>3, XorInt
  <1>5. xtime(xtime(xtime(x) (+) x) (+) x) \in Int
    BY <1>4, XtimeInt
  <1> QED BY <1>1, <1>3, <1>5, XorInt DEF mul9, mul11, mul13, mul14

(* The macros, cut to a byte *)
LEMMA MulCut ==
    ASSUME NEW x \in Bytes
    PROVE  /\ LowByte(mul9(x)) = XT(XT(XT(x))) (+) x
           /\ LowByte(mul11(x)) = XT(XT(XT(x)) (+) x) (+) x
           /\ LowByte(mul13(x)) = XT(XT(XT(x) (+) x)) (+) x
           /\ LowByte(mul14(x)) = XT(XT(XT(x) (+) x) (+) x)
  <1>1. x \in Int /\ LowByte(x) = x
    BY DEF Bytes, LowByte
  <1> DEFINE a1 == xtime(x)
             a2 == xtime(a1)
             a3 == xtime(a2)
             b1 == a1 (+) x
             b2 == a2 (+) x
             c2 == xtime(b1)
             c3 == xtime(c2)
             d3 == xtime(b2)
             e2 == c2 (+) x
  <1>2. a1 \in Int /\ LowByte(a1) = XT(x)
    BY <1>1, XtimeInt, XtimeCut
  <1> HIDE DEF a1
  <1>3. /\ a2 \in Int /\ LowByte(a2) = XT(XT(x))
        /\ b1 \in Int /\ LowByte(b1) = XT(x) (+) x
    BY <1>1, <1>2, XtimeInt, XtimeCut, XorInt, XorCut
  <1> HIDE DEF a2, b1
  <1>4. /\ a3 \in Int /\ LowByte(a3) = XT(XT(XT(x)))
        /\ b2 \in Int /\ LowByte(b2) = XT(XT(x)) (+) x
        /\ c2 \in Int /\ LowByte(c2) = XT(XT(x) (+) x)
    BY <1>1, <1>3, XtimeInt, XtimeCut, XorInt, XorCut
  <1> HIDE DEF a3, b2, c2
  <1>5. /\ c3 \in Int /\ LowByte(c3) = XT(XT(XT(x) (+) x))
        /\ d3 \in Int /\ LowByte(d3) = XT(XT(XT(x)) (+) x)
        /\ e2 \in Int /\ LowByte(e2) = XT(XT(x) (+) x) (+) x
    BY <1>1, <1>4, XtimeInt, XtimeCut, XorInt, XorCut
  <1> HIDE DEF c3, d3, e2
  <1>6. LowByte(xtime(e2)) = XT(XT(XT(x) (+) x) (+) x)
    BY <1>5, XtimeCut
  <1>7. /\ LowByte(a3 (+) x) = XT(XT(XT(x))) (+) x
        /\ LowByte(d3 (+) x) = XT(XT(XT(x)) (+) x) (+) x
        /\ LowByte(c3 (+) x) = XT(XT(XT(x) (+) x)) (+) x
    BY <1>1, <1>4, <1>5, XorCut
  <1>8. mul9(x) = a3 (+) x /\ mul11(x) = d3 (+) x /\ mul13(x) = c3 (+) x /\ mul14(x) = xtime(e2)
    BY DEF mul9, mul11, mul13, mul14, a1, a2, a3, b1, b2, c2, c3, d3, e2
  <1> QED BY <1>6, <1>7, <1>8

-----------------------------------------------------------------------------
(* Sums of bytes and of columns *)


(* Sums of bytes, reordered                                                *)
LEMMA Order ==
    ASSUME NEW a \in Bytes, NEW b \in Bytes, NEW c \in Bytes
    PROVE  (a (+) b) (+) c = (a (+) c) (+) b
  <1>1. (a (+) b) (+) c = a (+) (b (+) c) /\ (a (+) c) (+) b = a (+) (c (+) b)
    BY Xor
  <1>2. b (+) c = c (+) b
    BY Xor
  <1> QED BY <1>1, <1>2

LEMMA Twice ==
    ASSUME NEW a \in Bytes, NEW b \in Bytes
    PROVE  /\ (a (+) b) (+) a = b /\ (a (+) b) (+) b = a
           /\ a (+) (a (+) b) = b /\ b (+) (a (+) b) = a
  <1>1. (a (+) b) (+) b = a (+) (b (+) b) /\ b (+) b = 0 /\ a (+) 0 = a
    BY Xor
  <1>2. (a (+) b) (+) a = (a (+) a) (+) b /\ a (+) a = 0 /\ 0 (+) b = b (+) 0 /\ b (+) 0 = b
    <2>1. 0 \in Bytes
      BY DEF Bytes
    <2> QED BY Order, Xor, <2>1
  <1>3. a (+) (a (+) b) = (a (+) b) (+) a /\ b (+) (a (+) b) = (a (+) b) (+) b
    BY Xor
  <1> QED BY <1>1, <1>2, <1>3

LEMMA Interchange ==
    ASSUME NEW a \in Bytes, NEW b \in Bytes, NEW c \in Bytes, NEW d \in Bytes
    PROVE  /\ (a (+) b) (+) (c (+) d) = (a (+) c) (+) (b (+) d)
           /\ (a (+) b) (+) (c (+) d) = (a (+) d) (+) (b (+) c)
  <1>1. /\ a (+) b \in Bytes /\ a (+) c \in Bytes /\ c (+) d \in Bytes
        /\ c (+) d = d (+) c /\ a (+) d \in Bytes
    BY Xor
  <1>2. (a (+) b) (+) (c (+) d) = ((a (+) b) (+) c) (+) d
    BY <1>1, Xor
  <1>3. ((a (+) c) (+) b) (+) d = (a (+) c) (+) (b (+) d)
    BY <1>1, Xor
  <1>4. (a (+) b) (+) c = (a (+) c) (+) b
    BY Order
  <1>5. (a (+) b) (+) (d (+) c) = ((a (+) b) (+) d) (+) c
    BY <1>1, Xor
  <1>6. ((a (+) d) (+) b) (+) c = (a (+) d) (+) (b (+) c)
    BY <1>1, Xor
  <1>7. (a (+) b) (+) d = (a (+) d) (+) b
    BY Order
  <1> QED BY <1>1, <1>2, <1>3, <1>4, <1>5, <1>6, <1>7

LEMMA Cancel ==
    ASSUME NEW a \in Bytes, NEW b \in Bytes, NEW u \in Bytes
    PROVE  /\ (u (+) a) (+) (u (+) b) = a (+) b
           /\ (a (+) u) (+) (b (+) u) = a (+) b
           /\ (a (+) u) (+) (u (+) b) = a (+) b
           /\ (u (+) a) (+) (b (+) u) = a (+) b
  <1>1. (a (+) u) (+) (b (+) u) = (a (+) b) (+) (u (+) u)
    BY Interchange
  <1>2. u (+) u = 0 /\ a (+) b \in Bytes
    BY Xor
  <1>3. (a (+) b) (+) 0 = a (+) b
    BY <1>2, Xor
  <1>4. u (+) a = a (+) u /\ u (+) b = b (+) u
    BY Xor
  <1> QED BY <1>1, <1>2, <1>3, <1>4

Sum4(a, b, c, d) == (a (+) b) (+) (c (+) d)

LEMMA Sum4Type ==
    ASSUME NEW a \in Bytes, NEW b \in Bytes, NEW c \in Bytes, NEW d \in Bytes
    PROVE  Sum4(a, b, c, d) \in Bytes
  <1>1. a (+) b \in Bytes /\ c (+) d \in Bytes
    BY Xor
  <1> QED BY <1>1, Xor DEF Sum4

LEMMA Turn ==
    ASSUME NEW a \in Bytes, NEW b \in Bytes, NEW c \in Bytes, NEW d \in Bytes
    PROVE  Sum4(a, b, c, d) = Sum4(d, a, b, c)
  <1>1. (a (+) b) (+) (c (+) d) = (a (+) d) (+) (b (+) c)
    BY Interchange
  <1>2. a (+) d = d (+) a
    BY Xor
  <1> QED BY <1>1, <1>2 DEF Sum4

Four(a, b, c, d) == a \in Bytes /\ b \in Bytes /\ c \in Bytes /\ d \in Bytes

LEMMA AddSums ==
    ASSUME NEW a1, NEW a2, NEW a3, NEW a4, NEW b1, NEW b2, NEW b3, NEW b4,
           Four(a1, a2, a3, a4), Four(b1, b2, b3, b4)
    PROVE  Sum4(a1, a2, a3, a4) (+) Sum4(b1, b2, b3, b4)
           = Sum4(a1 (+) b1, a2 (+) b2, a3 (+) b3, a4 (+) b4)
  <1> DEFINE A == a1 (+) a2
             C == a3 (+) a4
             B == b1 (+) b2
             D == b3 (+) b4
  <1>0. /\ a1 \in Bytes /\ a2 \in Bytes /\ a3 \in Bytes /\ a4 \in Bytes
        /\ b1 \in Bytes /\ b2 \in Bytes /\ b3 \in Bytes /\ b4 \in Bytes
    BY DEF Four
  <1>1. A \in Bytes /\ B \in Bytes /\ C \in Bytes /\ D \in Bytes
    BY <1>0, Xor
  <1>2. A (+) B = (a1 (+) b1) (+) (a2 (+) b2)
    BY <1>0, Interchange
  <1>3. C (+) D = (a3 (+) b3) (+) (a4 (+) b4)
    BY <1>0, Interchange
  <1> HIDE DEF A, B, C, D
  <1>4. (A (+) C) (+) (B (+) D) = (A (+) B) (+) (C (+) D)
    BY <1>1, Interchange
  <1> QED BY <1>2, <1>3, <1>4 DEF Sum4, A, B, C, D

(* The macros, as sums of powers of xtime *)
P9(x) == LowByte(mul9(x))
P11(x) == LowByte(mul11(x))
P13(x) == LowByte(mul13(x))
P14(x) == LowByte(mul14(x))

LEMMA Powers ==
    ASSUME NEW x \in Bytes
    PROVE  LET p1 == XT(x)
               p2 == XT(p1)
               p3 == XT(p2)
           IN  /\ p1 \in Bytes /\ p2 \in Bytes /\ p3 \in Bytes
               /\ P9(x) = p3 (+) x /\ P11(x) = (p3 (+) p1) (+) x
               /\ P13(x) = (p3 (+) p2) (+) x /\ P14(x) = (p3 (+) p2) (+) p1
               /\ P9(x) \in Bytes /\ P11(x) \in Bytes /\ P13(x) \in Bytes /\ P14(x) \in Bytes
  <1> DEFINE p1 == XT(x)
             p2 == XT(p1)
             p3 == XT(p2)
  <1>1. p1 \in Bytes
    BY XTLinear
  <1>2. P9(x) = XT(XT(XT(x))) (+) x
    BY MulCut DEF P9
  <1>3. P11(x) = XT(XT(XT(x)) (+) x) (+) x
    BY MulCut DEF P11
  <1>4. P13(x) = XT(XT(XT(x) (+) x)) (+) x
    BY MulCut DEF P13
  <1>5. P14(x) = XT(XT(XT(x) (+) x) (+) x)
    BY MulCut DEF P14
  <1> HIDE DEF p1
  <1>6. p2 \in Bytes /\ p1 (+) x \in Bytes /\ XT(p1 (+) x) = p2 (+) p1
    BY <1>1, XTLinear, Xor DEF p1
  <1> HIDE DEF p2
  <1>7. p3 \in Bytes /\ p2 (+) x \in Bytes /\ XT(p2 (+) x) = p3 (+) p1 /\ p2 (+) p1 \in Bytes
    BY <1>1, <1>6, XTLinear, Xor DEF p1
  <1>8. XT(p2 (+) p1) = p3 (+) p2 /\ (p2 (+) p1) (+) x \in Bytes
    BY <1>1, <1>6, <1>7, XTLinear, Xor DEF p2
  <1>9. XT((p2 (+) p1) (+) x) = XT(p2 (+) p1) (+) p1
    BY <1>7, XTLinear DEF p1
  <1> HIDE DEF p3
  <1>10. p3 (+) p1 \in Bytes /\ p3 (+) p2 \in Bytes
    BY <1>1, <1>6, <1>7, Xor
  <1>11. /\ p3 (+) x \in Bytes /\ (p3 (+) p1) (+) x \in Bytes
         /\ (p3 (+) p2) (+) x \in Bytes /\ (p3 (+) p2) (+) p1 \in Bytes
    BY <1>1, <1>7, <1>10, Xor
  <1>12. P9(x) = p3 (+) x
    BY <1>2 DEF p1, p2, p3
  <1>13. P11(x) = (p3 (+) p1) (+) x
    BY <1>3, <1>7 DEF p1, p2
  <1>14. P13(x) = (p3 (+) p2) (+) x
    BY <1>4, <1>6, <1>8 DEF p1
  <1>15. P14(x) = (p3 (+) p2) (+) p1
    BY <1>5, <1>6, <1>8, <1>9 DEF p1
  <1> QED BY <1>1, <1>6, <1>7, <1>11, <1>12, <1>13, <1>14, <1>15 DEF p1, p2, p3


(* And linear, as it is                                                    *)
LEMMA MulTypes ==
    \A x \in Bytes : P9(x) \in Bytes /\ P11(x) \in Bytes /\ P13(x) \in Bytes /\ P14(x) \in Bytes
  BY Powers

LEMMA MulLinear ==
    \A x, y \in Bytes : /\ P9(x (+) y) = P9(x) (+) P9(y) /\ P11(x (+) y) = P11(x) (+) P11(y)
                        /\ P13(x (+) y) = P13(x) (+) P13(y) /\ P14(x (+) y) = P14(x) (+) P14(y)
  <1> TAKE x, y \in Bytes
  <1> DEFINE z == x (+) y
             x1 == XT(x)
             x2 == XT(x1)
             x3 == XT(x2)
             y1 == XT(y)
             y2 == XT(y1)
             y3 == XT(y2)
             z1 == XT(z)
             z2 == XT(z1)
             z3 == XT(z2)
  <1>1. z \in Bytes
    BY Xor
  <1>2. /\ x1 \in Bytes /\ x2 \in Bytes /\ x3 \in Bytes
        /\ P9(x) = x3 (+) x /\ P11(x) = (x3 (+) x1) (+) x
        /\ P13(x) = (x3 (+) x2) (+) x /\ P14(x) = (x3 (+) x2) (+) x1
    BY Powers
  <1>3. /\ y1 \in Bytes /\ y2 \in Bytes /\ y3 \in Bytes
        /\ P9(y) = y3 (+) y /\ P11(y) = (y3 (+) y1) (+) y
        /\ P13(y) = (y3 (+) y2) (+) y /\ P14(y) = (y3 (+) y2) (+) y1
    BY Powers
  <1> HIDE DEF z
  <1>4. /\ z1 \in Bytes /\ z2 \in Bytes /\ z3 \in Bytes
        /\ P9(z) = z3 (+) z /\ P11(z) = (z3 (+) z1) (+) z
        /\ P13(z) = (z3 (+) z2) (+) z /\ P14(z) = (z3 (+) z2) (+) z1
    BY <1>1, Powers
  <1>5. z1 = x1 (+) y1
    BY XTLinear DEF z
  <1> HIDE DEF x1, y1, z1
  <1>6. z2 = x2 (+) y2
    BY <1>2, <1>3, <1>5, XTLinear
  <1> HIDE DEF x2, y2, z2
  <1>7. z3 = x3 (+) y3
    BY <1>2, <1>3, <1>6, XTLinear
  <1> HIDE DEF x3, y3, z3
  <1>8. z = x (+) y
    BY DEF z
  <1>9. z3 (+) z = (x3 (+) x) (+) (y3 (+) y)
    BY <1>2, <1>3, <1>7, <1>8, Interchange
  <1>10. z3 (+) z1 = (x3 (+) x1) (+) (y3 (+) y1)
    BY <1>2, <1>3, <1>5, <1>7, Interchange
  <1>11. z3 (+) z2 = (x3 (+) x2) (+) (y3 (+) y2)
    BY <1>2, <1>3, <1>6, <1>7, Interchange
  <1>12. x3 (+) x1 \in Bytes /\ y3 (+) y1 \in Bytes /\ x3 (+) x2 \in Bytes /\ y3 (+) y2 \in Bytes
    BY <1>2, <1>3, Xor
  <1>13. (z3 (+) z1) (+) z = ((x3 (+) x1) (+) x) (+) ((y3 (+) y1) (+) y)
    BY <1>8, <1>10, <1>12, Interchange
  <1>14. (z3 (+) z2) (+) z = ((x3 (+) x2) (+) x) (+) ((y3 (+) y2) (+) y)
    BY <1>8, <1>11, <1>12, Interchange
  <1>15. (z3 (+) z2) (+) z1 = ((x3 (+) x2) (+) x1) (+) ((y3 (+) y2) (+) y1)
    BY <1>2, <1>3, <1>5, <1>11, <1>12, Interchange
  <1> QED BY <1>2, <1>3, <1>4, <1>9, <1>13, <1>14, <1>15 DEF z

LEMMA OverSum ==
    ASSUME NEW a \in Bytes, NEW b \in Bytes, NEW c \in Bytes, NEW d \in Bytes
    PROVE  /\ P9(Sum4(a, b, c, d)) = Sum4(P9(a), P9(b), P9(c), P9(d))
           /\ P11(Sum4(a, b, c, d)) = Sum4(P11(a), P11(b), P11(c), P11(d))
           /\ P13(Sum4(a, b, c, d)) = Sum4(P13(a), P13(b), P13(c), P13(d))
           /\ P14(Sum4(a, b, c, d)) = Sum4(P14(a), P14(b), P14(c), P14(d))
  <1>1. a (+) b \in Bytes /\ c (+) d \in Bytes
    BY Xor
  <1> QED BY <1>1, MulLinear DEF Sum4

(* The four coefficients of the product of the two polynomials *)
LEMMA Column0 ==
    ASSUME NEW x \in Bytes
    PROVE  Sum4(P14(XT(x)), P11(x), P13(x), P9(XT(x) (+) x)) = x
  <1> DEFINE p1 == XT(x)
             p2 == XT(p1)
             p3 == XT(p2)
             p4 == XT(p3)
  <1>1. /\ p1 \in Bytes /\ p2 \in Bytes /\ p3 \in Bytes /\ P11(x) = (p3 (+) p1) (+) x
        /\ P13(x) = (p3 (+) p2) (+) x
        /\ P9(x) = p3 (+) x
    BY Powers
  <1> HIDE DEF p1
  <1>2. p4 \in Bytes /\ P14(p1) = (p4 (+) p3) (+) p2 /\ P9(p1) = p4 (+) p1
    BY <1>1, Powers
  <1>3. P9(p1 (+) x) = (p4 (+) p1) (+) (p3 (+) x)
    BY <1>1, <1>2, MulLinear
  <1> HIDE DEF p2, p3, p4
  <1> DEFINE A == (p4 (+) p3) (+) p2
             B == (p3 (+) p1) (+) x
             C == (p3 (+) p2) (+) x
             D == (p4 (+) p1) (+) (p3 (+) x)
  <1>4. /\ p4 (+) p3 \in Bytes /\ p3 (+) p1 \in Bytes /\ p3 (+) p2 \in Bytes /\ p1 (+) x \in Bytes
        /\ p4 (+) p1 \in Bytes /\ p3 (+) x \in Bytes /\ p2 (+) p1 \in Bytes /\ p2 (+) p1 = p1 (+) p2
    BY <1>1, <1>2, Xor
  <1>5. D = (p4 (+) p3) (+) (p1 (+) x)
    BY <1>1, <1>2, Interchange
  <1>6. A (+) D = p2 (+) (p1 (+) x)
    BY <1>1, <1>4, <1>5, Cancel
  <1>7. B (+) C = (p3 (+) p1) (+) (p3 (+) p2)
    BY <1>4, Cancel
  <1>8. B (+) C = p1 (+) p2
    BY <1>1, <1>7, Cancel
  <1>9. A \in Bytes /\ B \in Bytes /\ C \in Bytes /\ D \in Bytes
    BY <1>1, <1>2, <1>4, Xor
  <1>10. p2 (+) (p1 (+) x) = (p2 (+) p1) (+) x
    BY <1>1, Xor
  <1>11. ((p2 (+) p1) (+) x) (+) (p2 (+) p1) = x
    BY <1>4, Twice
  <1>12. P14(p1) = A /\ P11(x) = B /\ P13(x) = C /\ P9(p1 (+) x) = D
    BY <1>1, <1>2, <1>3
  <1>14. (A (+) D) (+) (B (+) C) = x
    BY ONLY <1>4, <1>6, <1>8, <1>10, <1>11
  <1> HIDE DEF A, B, C, D
  <1>13. (A (+) B) (+) (C (+) D) = (A (+) D) (+) (B (+) C)
    BY ONLY <1>9, Interchange
  <1> QED BY <1>12, <1>13, <1>14 DEF Sum4, p1

LEMMA Column1 ==
    ASSUME NEW x \in Bytes
    PROVE  Sum4(P14(XT(x) (+) x), P11(XT(x)), P13(x), P9(x)) = 0
  <1> DEFINE p1 == XT(x)
             p2 == XT(p1)
             p3 == XT(p2)
             p4 == XT(p3)
  <1>1. /\ p1 \in Bytes /\ p2 \in Bytes /\ p3 \in Bytes
        /\ P14(x) = (p3 (+) p2) (+) p1 /\ P13(x) = (p3 (+) p2) (+) x /\ P9(x) = p3 (+) x
    BY Powers
  <1> HIDE DEF p1
  <1>2. p4 \in Bytes /\ P14(p1) = (p4 (+) p3) (+) p2 /\ P11(p1) = (p4 (+) p2) (+) p1
    BY <1>1, Powers
  <1>3. P14(p1 (+) x) = ((p4 (+) p3) (+) p2) (+) ((p3 (+) p2) (+) p1)
    BY <1>1, <1>2, MulLinear
  <1> HIDE DEF p2, p3, p4
  <1> DEFINE B == (p4 (+) p2) (+) p1
             C == (p3 (+) p2) (+) x
             D == p3 (+) x
  <1>4. p3 (+) p2 \in Bytes /\ p4 (+) p2 \in Bytes /\ (p4 (+) p3) (+) p2 = p4 (+) (p3 (+) p2)
    BY <1>1, <1>2, Xor
  <1>5. P14(p1 (+) x) = p4 (+) p1
    BY <1>1, <1>2, <1>3, <1>4, Cancel
  <1>6. (p4 (+) p1) (+) B = p4 (+) (p4 (+) p2)
    BY <1>1, <1>2, <1>4, Cancel
  <1>7. (p4 (+) p1) (+) B = p2
    BY <1>1, <1>2, <1>6, Twice
  <1>8. C (+) D = (p3 (+) p2) (+) p3
    BY <1>1, <1>4, Cancel
  <1>9. C (+) D = p2
    BY <1>1, <1>8, Twice
  <1>10. p2 (+) p2 = 0
    BY <1>1, Xor
  <1> QED BY <1>1, <1>2, <1>5, <1>7, <1>9, <1>10 DEF Sum4, p1

LEMMA Column2 ==
    ASSUME NEW x \in Bytes
    PROVE  Sum4(P14(x), P11(XT(x) (+) x), P13(XT(x)), P9(x)) = 0
  <1> DEFINE p1 == XT(x)
             p2 == XT(p1)
             p3 == XT(p2)
             p4 == XT(p3)
  <1>1. /\ p1 \in Bytes /\ p2 \in Bytes /\ p3 \in Bytes
        /\ P14(x) = (p3 (+) p2) (+) p1 /\ P11(x) = (p3 (+) p1) (+) x /\ P9(x) = p3 (+) x
    BY Powers
  <1> HIDE DEF p1
  <1>2. p4 \in Bytes /\ P13(p1) = (p4 (+) p3) (+) p1 /\ P11(p1) = (p4 (+) p2) (+) p1
    BY <1>1, Powers
  <1>3. P11(p1 (+) x) = ((p4 (+) p2) (+) p1) (+) ((p3 (+) p1) (+) x)
    BY <1>1, <1>2, MulLinear
  <1> HIDE DEF p2, p3, p4
  <1> DEFINE A == (p3 (+) p2) (+) p1
             B == (p4 (+) p2) (+) (p3 (+) x)
             C == (p4 (+) p3) (+) p1
             D == p3 (+) x
  <1>4. /\ p3 (+) p2 \in Bytes /\ p4 (+) p2 \in Bytes /\ p4 (+) p3 \in Bytes /\ p3 (+) x \in Bytes
        /\ (p3 (+) p1) (+) x = (p3 (+) x) (+) p1 /\ p2 (+) p4 = p4 (+) p2
    BY <1>1, <1>2, Xor, Order
  <1>5. P11(p1 (+) x) = B
    BY <1>1, <1>2, <1>3, <1>4, Cancel
  <1>6. A (+) C = (p3 (+) p2) (+) (p4 (+) p3)
    BY <1>1, <1>4, Cancel
  <1>7. A (+) C = p4 (+) p2
    BY <1>1, <1>2, <1>4, <1>6, Cancel
  <1>8. B (+) D = p4 (+) p2
    BY <1>4, Twice
  <1>9. (p4 (+) p2) (+) (p4 (+) p2) = 0
    BY <1>4, Xor
  <1>10. A \in Bytes /\ B \in Bytes /\ C \in Bytes /\ D \in Bytes
    BY <1>1, <1>4, Xor
  <1>11. P14(x) = A /\ P13(p1) = C /\ P9(x) = D
    BY <1>1, <1>2
  <1>12. (A (+) C) (+) (B (+) D) = 0
    BY ONLY <1>7, <1>8, <1>9
  <1> HIDE DEF A, B, C, D
  <1>13. (A (+) B) (+) (C (+) D) = (A (+) C) (+) (B (+) D)
    BY ONLY <1>10, Interchange
  <1> QED BY <1>5, <1>11, <1>12, <1>13 DEF Sum4, p1

LEMMA Column3 ==
    ASSUME NEW x \in Bytes
    PROVE  Sum4(P14(x), P11(x), P13(XT(x) (+) x), P9(XT(x))) = 0
  <1> DEFINE p1 == XT(x)
             p2 == XT(p1)
             p3 == XT(p2)
             p4 == XT(p3)
  <1>1. /\ p1 \in Bytes /\ p2 \in Bytes /\ p3 \in Bytes
        /\ P14(x) = (p3 (+) p2) (+) p1 /\ P11(x) = (p3 (+) p1) (+) x /\ P13(x) = (p3 (+) p2) (+) x
    BY Powers
  <1> HIDE DEF p1
  <1>2. p4 \in Bytes /\ P13(p1) = (p4 (+) p3) (+) p1 /\ P9(p1) = p4 (+) p1
    BY <1>1, Powers
  <1>3. P13(p1 (+) x) = ((p4 (+) p3) (+) p1) (+) ((p3 (+) p2) (+) x)
    BY <1>1, <1>2, MulLinear
  <1> HIDE DEF p2, p3, p4
  <1>4. /\ p3 (+) p1 \in Bytes /\ p4 (+) p1 \in Bytes /\ p2 (+) x \in Bytes
        /\ (p3 (+) p2) (+) p1 = (p3 (+) p1) (+) p2 /\ (p4 (+) p3) (+) p1 = (p4 (+) p1) (+) p3
        /\ (p3 (+) p2) (+) x = p3 (+) (p2 (+) x)
    BY <1>1, <1>2, Xor, Order
  <1>5. P14(x) (+) P11(x) = p2 (+) x
    BY <1>1, <1>4, Cancel
  <1>6. P13(p1 (+) x) = (p4 (+) p1) (+) (p2 (+) x)
    BY <1>1, <1>3, <1>4, Cancel
  <1>7. P13(p1 (+) x) (+) P9(p1) = p2 (+) x
    BY <1>2, <1>4, <1>6, Twice
  <1>8. (p2 (+) x) (+) (p2 (+) x) = 0
    BY <1>4, Xor
  <1> QED BY <1>5, <1>7, <1>8 DEF Sum4, p1


(* A byte of MixColumns, of the four of its column from its own on         *)
Col(a, b, c, d) == XT(a) (+) XT(b) (+) b (+) c (+) d

LEMMA ColSum ==
    ASSUME NEW a \in Bytes, NEW b \in Bytes, NEW c \in Bytes, NEW d \in Bytes
    PROVE  /\ Col(a, b, c, d) = Sum4(XT(a), XT(b) (+) b, c, d)
           /\ XT(a) \in Bytes /\ XT(b) (+) b \in Bytes
           /\ Col(a, b, c, d) \in Bytes
  <1> DEFINE p == XT(a)
             q == XT(b)
             r == q (+) b
  <1>1. p \in Bytes /\ q \in Bytes
    BY XTLinear
  <1> HIDE DEF p, q
  <1>2. r \in Bytes /\ (p (+) q) (+) b = p (+) r
    BY <1>1, Xor
  <1> HIDE DEF r
  <1>3. p (+) r \in Bytes
    BY <1>1, <1>2, Xor
  <1>4. ((p (+) r) (+) c) (+) d = (p (+) r) (+) (c (+) d)
    BY <1>3, Xor
  <1>5. Col(a, b, c, d) = ((p (+) r) (+) c) (+) d
    BY <1>2 DEF Col, p, q
  <1>6. Col(a, b, c, d) = Sum4(p, r, c, d)
    BY <1>4, <1>5 DEF Sum4
  <1>7. Sum4(p, r, c, d) \in Bytes
    BY <1>1, <1>2, Sum4Type
  <1> QED BY <1>1, <1>2, <1>6, <1>7 DEF p, q, r

LEMMA Matrix ==
    ASSUME NEW a1, NEW a2, NEW a3, NEW a4, NEW b1, NEW b2, NEW b3, NEW b4,
           NEW c1, NEW c2, NEW c3, NEW c4, NEW d1, NEW d2, NEW d3, NEW d4,
           Four(a1, a2, a3, a4), Four(b1, b2, b3, b4), Four(c1, c2, c3, c4), Four(d1, d2, d3, d4)
    PROVE  Sum4(Sum4(a1, a2, a3, a4), Sum4(b1, b2, b3, b4), Sum4(c1, c2, c3, c4), Sum4(d1, d2, d3, d4))
           = Sum4(Sum4(a1, b1, c1, d1), Sum4(a2, b2, c2, d2), Sum4(a3, b3, c3, d3), Sum4(a4, b4, c4, d4))
  <1> DEFINE e1 == a1 (+) b1
             e2 == a2 (+) b2
             e3 == a3 (+) b3
             e4 == a4 (+) b4
             f1 == c1 (+) d1
             f2 == c2 (+) d2
             f3 == c3 (+) d3
             f4 == c4 (+) d4
  <1>1. Four(e1, e2, e3, e4) /\ Four(f1, f2, f3, f4)
    BY Xor DEF Four
  <1>2. Sum4(a1, a2, a3, a4) (+) Sum4(b1, b2, b3, b4) = Sum4(e1, e2, e3, e4)
    BY AddSums
  <1>3. Sum4(c1, c2, c3, c4) (+) Sum4(d1, d2, d3, d4) = Sum4(f1, f2, f3, f4)
    BY AddSums
  <1> HIDE DEF e1, e2, e3, e4, f1, f2, f3, f4
  <1>4. Sum4(e1, e2, e3, e4) (+) Sum4(f1, f2, f3, f4) = Sum4(e1 (+) f1, e2 (+) f2, e3 (+) f3, e4 (+) f4)
    BY <1>1, AddSums
  <1> DEFINE A == Sum4(a1, a2, a3, a4)
             B == Sum4(b1, b2, b3, b4)
             C == Sum4(c1, c2, c3, c4)
             D == Sum4(d1, d2, d3, d4)
  <1>5. Sum4(A, B, C, D) = Sum4(e1, e2, e3, e4) (+) Sum4(f1, f2, f3, f4)
    <2> HIDE DEF A, B, C, D
    <2>1. A (+) B = Sum4(e1, e2, e3, e4) /\ C (+) D = Sum4(f1, f2, f3, f4)
      BY <1>2, <1>3 DEF A, B, C, D
    <2>2. Sum4(A, B, C, D) = (A (+) B) (+) (C (+) D)
      BY DEF Sum4
    <2> QED BY ONLY <2>1, <2>2
  <1>6. /\ e1 (+) f1 = Sum4(a1, b1, c1, d1) /\ e2 (+) f2 = Sum4(a2, b2, c2, d2)
        /\ e3 (+) f3 = Sum4(a3, b3, c3, d3) /\ e4 (+) f4 = Sum4(a4, b4, c4, d4)
    BY DEF Sum4, e1, e2, e3, e4, f1, f2, f3, f4
  <1> QED BY <1>4, <1>5, <1>6

(* The columns of InvMixColumns after those of MixColumns *)
LEMMA Unmixed ==
    ASSUME NEW a \in Bytes, NEW b \in Bytes, NEW c \in Bytes, NEW d \in Bytes
    PROVE  Sum4(P14(Col(a, b, c, d)), P11(Col(b, c, d, a)), P13(Col(c, d, a, b)), P9(Col(d, a, b, c))) = a
  <1> DEFINE a1 == XT(a)
             b1 == XT(b)
             c1 == XT(c)
             d1 == XT(d)
             a3 == a1 (+) a
             b3 == b1 (+) b
             c3 == c1 (+) c
             d3 == d1 (+) d
  <1>1. /\ a1 \in Bytes /\ a3 \in Bytes /\ b1 \in Bytes /\ b3 \in Bytes
        /\ c1 \in Bytes /\ c3 \in Bytes /\ d1 \in Bytes /\ d3 \in Bytes
    BY ColSum
  <1>2. /\ Col(a, b, c, d) = Sum4(a1, b3, c, d) /\ Col(b, c, d, a) = Sum4(b1, c3, d, a)
        /\ Col(c, d, a, b) = Sum4(c1, d3, a, b) /\ Col(d, a, b, c) = Sum4(d1, a3, b, c)
    BY ColSum
  <1>3. Sum4(P14(a1), P11(a), P13(a), P9(a3)) = a
    BY Column0
  <1>4. Sum4(P14(b3), P11(b1), P13(b), P9(b)) = 0
    BY Column1
  <1>5. Sum4(P14(c), P11(c3), P13(c1), P9(c)) = 0
    BY Column2
  <1>6. Sum4(P14(d), P11(d), P13(d3), P9(d1)) = 0
    BY Column3
  <1> HIDE DEF a1, b1, c1, d1, a3, b3, c3, d3
  <1>7. Sum4(b1, c3, d, a) = Sum4(a, b1, c3, d)
    BY <1>1, Turn
  <1>8. Sum4(c1, d3, a, b) = Sum4(a, b, c1, d3)
    BY <1>1, Turn
  <1>9. Sum4(d1, a3, b, c) = Sum4(a3, b, c, d1)
    BY <1>1, Turn
  <1>10. P14(Col(a, b, c, d)) = Sum4(P14(a1), P14(b3), P14(c), P14(d))
    BY <1>1, <1>2, OverSum
  <1>11. P11(Col(b, c, d, a)) = Sum4(P11(a), P11(b1), P11(c3), P11(d))
    BY <1>1, <1>2, <1>7, OverSum
  <1>12. P13(Col(c, d, a, b)) = Sum4(P13(a), P13(b), P13(c1), P13(d3))
    BY <1>1, <1>2, <1>8, OverSum
  <1>13. P9(Col(d, a, b, c)) = Sum4(P9(a3), P9(b), P9(c), P9(d1))
    BY <1>1, <1>2, <1>9, OverSum
  <1>14. Four(P14(a1), P14(b3), P14(c), P14(d)) /\ Four(P11(a), P11(b1), P11(c3), P11(d))
    BY <1>1, MulTypes DEF Four
  <1>15. Four(P13(a), P13(b), P13(c1), P13(d3)) /\ Four(P9(a3), P9(b), P9(c), P9(d1))
    BY <1>1, MulTypes DEF Four
  <1>16. Sum4(P14(Col(a, b, c, d)), P11(Col(b, c, d, a)), P13(Col(c, d, a, b)), P9(Col(d, a, b, c)))
         = Sum4(Sum4(P14(a1), P11(a), P13(a), P9(a3)), Sum4(P14(b3), P11(b1), P13(b), P9(b)),
                Sum4(P14(c), P11(c3), P13(c1), P9(c)), Sum4(P14(d), P11(d), P13(d3), P9(d1)))
    BY ONLY <1>10, <1>11, <1>12, <1>13, <1>14, <1>15, Matrix
  <1>17. Sum4(a, 0, 0, 0) = a
    <2>1. 0 \in Bytes
      BY DEF Bytes
    <2>2. a (+) 0 = a /\ 0 (+) 0 = 0
      BY <2>1, Xor
    <2> QED BY <2>2 DEF Sum4
  <1> QED BY ONLY <1>3, <1>4, <1>5, <1>6, <1>16, <1>17

-----------------------------------------------------------------------------
(* The steps of a round *)


(* What InvMixColumns computes of a column *)
LEMMA InvCol ==
    ASSUME NEW a \in Bytes, NEW b \in Bytes, NEW c \in Bytes, NEW d \in Bytes
    PROVE  (mul14(a) (+) mul11(b) (+) mul13(c) (+) mul9(d)) % 256 = Sum4(P14(a), P11(b), P13(c), P9(d))
  <1> DEFINE p == mul14(a)
             q == mul11(b)
             r == mul13(c)
             t == mul9(d)
             u == p (+) q
             v == u (+) r
  <1>1. p \in Int /\ q \in Int /\ r \in Int /\ t \in Int
    <2>1. \A x \in Bytes : x \in Int
      BY DEF Bytes
    <2> QED BY <2>1, MulInt
  <1>2. P14(a) = LowByte(p) /\ P11(b) = LowByte(q) /\ P13(c) = LowByte(r) /\ P9(d) = LowByte(t)
    BY DEF P14, P11, P13, P9
  <1> HIDE DEF p, q, r, t
  <1>3. u \in Int /\ LowByte(u) = LowByte(p) (+) LowByte(q)
    BY <1>1, XorCut, XorInt
  <1> HIDE DEF u
  <1>4. v \in Int /\ LowByte(v) = LowByte(u) (+) LowByte(r)
    BY <1>1, <1>3, XorCut, XorInt
  <1> HIDE DEF v
  <1>5. LowByte(v (+) t) = LowByte(v) (+) LowByte(t)
    BY <1>1, <1>4, XorCut
  <1>6. P14(a) \in Bytes /\ P11(b) \in Bytes /\ P13(c) \in Bytes /\ P9(d) \in Bytes
    BY MulTypes
  <1>7. P14(a) (+) P11(b) \in Bytes
    BY <1>6, Xor
  <1>8. ((P14(a) (+) P11(b)) (+) P13(c)) (+) P9(d) = (P14(a) (+) P11(b)) (+) (P13(c) (+) P9(d))
    BY <1>6, <1>7, Xor
  <1>9. LowByte(v (+) t) = Sum4(P14(a), P11(b), P13(c), P9(d))
    BY ONLY <1>2, <1>3, <1>4, <1>5, <1>8 DEF Sum4
  <1> QED BY <1>9 DEF LowByte, v, u, p, q, r, t

Place(i, j) == 4 * (i \div 4) + ((i + j) % 4)

LEMMA PlaceTurns ==
    ASSUME NEW i \in 0..15
    PROVE  /\ Place(i, 0) = i /\ Place(i, 1) \in 0..15 /\ Place(i, 2) \in 0..15
           /\ Place(i, 3) \in 0..15
           /\ Place(Place(i, 1), 0) = Place(i, 1) /\ Place(Place(i, 1), 1) = Place(i, 2)
           /\ Place(Place(i, 1), 2) = Place(i, 3) /\ Place(Place(i, 1), 3) = i
           /\ Place(Place(i, 2), 0) = Place(i, 2) /\ Place(Place(i, 2), 1) = Place(i, 3)
           /\ Place(Place(i, 2), 2) = i /\ Place(Place(i, 2), 3) = Place(i, 1)
           /\ Place(Place(i, 3), 0) = Place(i, 3) /\ Place(Place(i, 3), 1) = i
           /\ Place(Place(i, 3), 2) = Place(i, 1) /\ Place(Place(i, 3), 3) = Place(i, 2)
  BY DEF Place

State == [0..15 -> Bytes]

LEMMA MixAt ==
    ASSUME NEW b \in State, NEW i \in 0..15
    PROVE  MixColumns(b)[i] = Col(b[i], b[Place(i, 1)], b[Place(i, 2)], b[Place(i, 3)])
  <1>1. From(b, i, 0) = b[i]
    BY PlaceTurns DEF From, Place
  <1>2. /\ From(b, i, 1) = b[Place(i, 1)] /\ From(b, i, 2) = b[Place(i, 2)]
        /\ From(b, i, 3) = b[Place(i, 3)]
    BY DEF From, Place
  <1> QED BY <1>1, <1>2 DEF MixColumns, Col

LEMMA MixType ==
    ASSUME NEW b \in State
    PROVE  MixColumns(b) \in State
  <1>1. \A i \in 0..15 : MixColumns(b)[i] \in Bytes
    <2> TAKE i \in 0..15
    <2>1. /\ b[i] \in Bytes /\ b[Place(i, 1)] \in Bytes /\ b[Place(i, 2)] \in Bytes
          /\ b[Place(i, 3)] \in Bytes
      BY PlaceTurns DEF State
    <2>2. MixColumns(b)[i] = Col(b[i], b[Place(i, 1)], b[Place(i, 2)], b[Place(i, 3)])
      BY MixAt
    <2> DEFINE p == b[i]
               q == b[Place(i, 1)]
               r == b[Place(i, 2)]
               t == b[Place(i, 3)]
    <2>3. p \in Bytes /\ q \in Bytes /\ r \in Bytes /\ t \in Bytes
      BY <2>1
    <2>4. MixColumns(b)[i] = Col(p, q, r, t)
      BY <2>2
    <2> HIDE DEF p, q, r, t
    <2>5. Col(p, q, r, t) \in Bytes
      BY ONLY <2>3, ColSum
    <2> QED BY <2>4, <2>5
  <1>2. MixColumns(b) = [i \in 0..15 |-> MixColumns(b)[i]]
    BY DEF MixColumns
  <1> QED BY <1>1, <1>2 DEF State

(* InvMixColumns undoes MixColumns.                                        *)
LEMMA InvMixUndoes ==
    ASSUME NEW b \in State
    PROVE  InvMixColumns(MixColumns(b)) = b
  <1> DEFINE m == MixColumns(b)
  <1>1. m \in State
    BY MixType
  <1>2. \A i \in 0..15 : InvMixColumns(m)[i] = b[i]
    <2> TAKE i \in 0..15
    <2> DEFINE a0 == b[i]
               a1 == b[Place(i, 1)]
               a2 == b[Place(i, 2)]
               a3 == b[Place(i, 3)]
    <2>1. Place(i, 1) \in 0..15 /\ Place(i, 2) \in 0..15 /\ Place(i, 3) \in 0..15
      BY PlaceTurns
    <2>2. m[i] = Col(a0, a1, a2, a3)
      BY MixAt
    <2>3. m[Place(i, 1)] = Col(a1, a2, a3, a0)
      BY <2>1, MixAt, PlaceTurns
    <2>4. m[Place(i, 2)] = Col(a2, a3, a0, a1)
      BY <2>1, MixAt, PlaceTurns
    <2>5. m[Place(i, 3)] = Col(a3, a0, a1, a2)
      BY <2>1, MixAt, PlaceTurns
    <2>6. From(m, i, 0) = m[i] /\ From(m, i, 1) = m[Place(i, 1)]
          /\ From(m, i, 2) = m[Place(i, 2)] /\ From(m, i, 3) = m[Place(i, 3)]
      BY PlaceTurns DEF From, Place
    <2>7. /\ m[i] \in Bytes /\ m[Place(i, 1)] \in Bytes /\ m[Place(i, 2)] \in Bytes
          /\ m[Place(i, 3)] \in Bytes
      BY <1>1, <2>1 DEF State
    <2>8. a0 \in Bytes /\ a1 \in Bytes /\ a2 \in Bytes /\ a3 \in Bytes
      BY <2>1 DEF State
    <2> HIDE DEF m, a0, a1, a2, a3
    <2>9. InvMixColumns(m)[i] = (mul14(m[i]) (+) mul11(m[Place(i, 1)]) (+) mul13(m[Place(i, 2)])
                                 (+) mul9(m[Place(i, 3)])) % 256
      BY <2>6 DEF InvMixColumns
    <2>10. InvMixColumns(m)[i] = Sum4(P14(m[i]), P11(m[Place(i, 1)]), P13(m[Place(i, 2)]), P9(m[Place(i, 3)]))
      BY ONLY <2>7, <2>9, InvCol
    <2>11. InvMixColumns(m)[i] = a0
      BY ONLY <2>2, <2>3, <2>4, <2>5, <2>8, <2>10, Unmixed
    <2> QED BY <2>11 DEF a0
  <1>3. DOMAIN InvMixColumns(m) = 0..15 /\ DOMAIN b = 0..15
    BY DEF InvMixColumns, State
  <1>4. InvMixColumns(m) = [i \in 0..15 |-> InvMixColumns(m)[i]]
    BY DEF InvMixColumns
  <1>5. b = [i \in 0..15 |-> b[i]]
    BY DEF State
  <1> HIDE DEF m
  <1>6. InvMixColumns(m) = b
    BY ONLY <1>2, <1>4, <1>5
  <1> QED BY <1>6 DEF m

(* The other steps of a round *)
LEMMA ShiftIndex ==
    ASSUME NEW i \in 0..15
    PROVE  /\ (i + 4 * (i % 4)) % 16 \in 0..15 /\ (i + 12 * (i % 4)) % 16 \in 0..15
           /\ LET j == (i + 12 * (i % 4)) % 16 IN (j + 4 * (j % 4)) % 16 = i
  OBVIOUS

(* What a round starts with, and what undoes it                            *)
Confused(b) == ShiftRows(SubBytes(b))

LEMMA ConfusedType ==
    ASSUME NEW b \in State
    PROVE  Confused(b) \in State
  <1>1. SubBytes(b) \in State
    BY SboxInverse DEF SubBytes, State
  <1> HIDE DEF State
  <1>2. \A t \in State : ShiftRows(t) \in State
    BY ShiftIndex DEF ShiftRows, State
  <1> QED BY <1>1, <1>2 DEF Confused

LEMMA ConfusedUndone ==
    ASSUME NEW b \in State
    PROVE  InvSubBytes(InvShiftRows(Confused(b))) = b
  <1> DEFINE t == SubBytes(b)
             u == ShiftRows(t)
             v == InvShiftRows(u)
             w == InvSubBytes(v)
  <1>1. \A i \in 0..15 : t[i] = Sub(aes_sbox, b[i])
    BY DEF SubBytes
  <1>2. \A i \in 0..15 : u[i] = t[(i + 4 * (i % 4)) % 16]
    BY DEF ShiftRows
  <1>3. \A i \in 0..15 : v[i] = u[(i + 12 * (i % 4)) % 16]
    BY DEF InvShiftRows
  <1>4. \A i \in 0..15 : w[i] = Sub(aes_inv_sbox, v[i])
    BY DEF InvSubBytes
  <1>5. w = [i \in 0..15 |-> w[i]]
    BY DEF InvSubBytes
  <1>6. b = [i \in 0..15 |-> b[i]] /\ \A i \in 0..15 : b[i] \in Bytes
    BY DEF State
  <1> HIDE DEF t, u, v, w
  <1>7. \A i \in 0..15 : v[i] = t[i]
    <2> TAKE i \in 0..15
    <2> DEFINE j == (i + 12 * (i % 4)) % 16
    <2>1. j \in 0..15 /\ (j + 4 * (j % 4)) % 16 = i
      BY ShiftIndex
    <2>2. v[i] = u[j]
      BY <1>3
    <2> HIDE DEF j
    <2>3. u[j] = t[i]
      BY <1>2, <2>1
    <2> QED BY <2>2, <2>3
  <1>8. \A i \in 0..15 : w[i] = b[i]
    BY <1>1, <1>4, <1>6, <1>7, SboxInverse
  <1>9. w = b
    BY ONLY <1>5, <1>6, <1>8
  <1> QED BY <1>9 DEF w, v, u, t, Confused

-----------------------------------------------------------------------------
(* Key schedules *)


(* Key schedules *)
Word == [1..4 -> Bytes]
Schedule(words) == words \in Seq(Word) /\ Len(words) = 44

LEMMA KeyIndex ==
    ASSUME NEW r \in 0..10, NEW i \in 0..15
    PROVE  4 * r + (i \div 4) + 1 \in 1..44 /\ (i % 4) + 1 \in 1..4
  OBVIOUS

KeyByte(words, r, i) == words[4 * r + (i \div 4) + 1][(i % 4) + 1]

LEMMA KeyBytes ==
    ASSUME NEW words, Schedule(words), NEW r \in 0..10, NEW i \in 0..15
    PROVE  KeyByte(words, r, i) \in Bytes
  <1> DEFINE k == 4 * r + (i \div 4) + 1
             j == (i % 4) + 1
  <1>1. k \in 1..44 /\ j \in 1..4
    BY KeyIndex
  <1> HIDE DEF k, j
  <1>2. words[k] \in Word
    BY <1>1, ElementOfSeq DEF Schedule
  <1>3. words[k][j] \in Bytes
    BY <1>1, <1>2 DEF Word
  <1> QED BY <1>3 DEF KeyByte, k, j

(* A round key that is added twice is gone.                                *)
LEMMA KeyAdded ==
    ASSUME NEW words, Schedule(words), NEW r \in 0..10, NEW b \in State
    PROVE  /\ AddRoundKey(b, words, r) \in State
           /\ AddRoundKey(AddRoundKey(b, words, r), words, r) = b
  <1> DEFINE t == AddRoundKey(b, words, r)
             u == AddRoundKey(t, words, r)
  <1>1. \A i \in 0..15 : b[i] \in Bytes /\ KeyByte(words, r, i) \in Bytes
    BY KeyBytes DEF State
  <1>2. t = [i \in 0..15 |-> b[i] (+) KeyByte(words, r, i)]
    BY DEF AddRoundKey, KeyByte
  <1>3. u = [i \in 0..15 |-> t[i] (+) KeyByte(words, r, i)]
    BY DEF AddRoundKey, KeyByte
  <1> HIDE DEF t, u
  <1>4. \A i \in 0..15 : b[i] (+) KeyByte(words, r, i) \in Bytes
    BY <1>1, Xor
  <1>5. t \in State
    BY <1>2, <1>4 DEF State
  <1>6. \A i \in 0..15 : t[i] (+) KeyByte(words, r, i) = b[i]
    BY <1>1, <1>2, Twice
  <1>7. b = [i \in 0..15 |-> b[i]]
    BY DEF State
  <1>8. u = b
    BY ONLY <1>3, <1>6, <1>7
  <1> QED BY <1>5, <1>8 DEF t, u

LEMMA SwappedIndex ==
    ASSUME NEW r \in 0..10, NEW q \in 0..3
    PROVE  LET i == 4 * r + q + 1
           IN  i \in 1..44 /\ 4 * (10 - ((i - 1) \div 4)) + ((i - 1) % 4) + 1 = 4 * (10 - r) + q + 1
  OBVIOUS

(* aes_set_decrypt_key: round r of decryption adds the key of round 10 - r. *)
LEMMA SwappedKey ==
    ASSUME NEW words, Schedule(words), NEW r \in 0..10, NEW b \in State
    PROVE  AddRoundKey(b, Swapped(words), r) = AddRoundKey(b, words, 10 - r)
  <1> DEFINE d == Swapped(words)
  <1>1. ASSUME NEW i \in 0..15
        PROVE  d[4 * r + (i \div 4) + 1] = words[4 * (10 - r) + (i \div 4) + 1]
    <2> DEFINE q == i \div 4
    <2>1. q \in 0..3
      OBVIOUS
    <2> HIDE DEF q
    <2> DEFINE k == 4 * r + q + 1
    <2>2. k \in 1..44 /\ 4 * (10 - ((k - 1) \div 4)) + ((k - 1) % 4) + 1 = 4 * (10 - r) + q + 1
      BY <2>1, SwappedIndex
    <2> HIDE DEF k
    <2>3. d[k] = words[4 * (10 - ((k - 1) \div 4)) + ((k - 1) % 4) + 1]
      BY <2>2 DEF Swapped
    <2> QED BY <2>2, <2>3 DEF k, q
  <1> HIDE DEF d
  <1>2. AddRoundKey(b, d, r) = AddRoundKey(b, words, 10 - r)
    BY <1>1 DEF AddRoundKey
  <1> QED BY <1>2 DEF d

(* The words aes_set_encrypt_key makes are words of bytes.                 *)
LEMMA KeyWordsType ==
    ASSUME NEW key \in [1..16 -> Bytes]
    PROVE  KeyWords(key) \in Seq(Word) /\ Len(KeyWords(key)) = 4
  <1>1. \A i \in 1..4 : [b \in 1..4 |-> key[4 * (i - 1) + b]] \in Word
    <2>1. \A i, b \in 1..4 : 4 * (i - 1) + b \in 1..16
      OBVIOUS
    <2> QED BY <2>1 DEF Word
  <1>2. KeyWords(key) \in [1..4 -> Word]
    BY <1>1 DEF KeyWords
  <1> DEFINE n == 4
             words == KeyWords(key)
  <1>3. n \in Nat /\ words \in [1..n -> Word]
    BY <1>2
  <1> HIDE DEF n, words
  <1>4. words \in Seq(Word) /\ Len(words) = n
    BY ONLY <1>3, Finite
  <1> QED BY <1>4 DEF n, words

LEMMA RconBytes == \A i \in 1..10 : aes_rcon[i] \in Bytes
  BY DEF aes_rcon, Bytes

LEMMA WordIndex ==
    ASSUME NEW i \in 4..43
    PROVE  i \in 1..i /\ i - 3 \in 1..i /\ (i % 4 = 0 => i \div 4 \in 1..10)
  OBVIOUS

LEMMA NextWordType ==
    ASSUME NEW words \in Seq(Word), Len(words) \in 4..43
    PROVE  NextWord(words, Len(words)) \in Word
  <1> DEFINE i == Len(words)
             t == words[i]
             u == aes_sub_word(<<t[2], t[3], t[4], t[1]>>)
             x == [u EXCEPT ![1] = @ (+) aes_rcon[i \div 4]]
             v == IF i % 4 = 0 THEN x ELSE t
  <1>0. i \in 4..43
    OBVIOUS
  <1>1. t \in Word /\ words[i - 3] \in Word
    <2>1. i \in 1..Len(words) /\ i - 3 \in 1..Len(words)
      BY ONLY <1>0, WordIndex
    <2> QED BY <2>1, ElementOfSeq
  <1>2. u \in Word
    <2>1. t[1] \in Bytes /\ t[2] \in Bytes /\ t[3] \in Bytes /\ t[4] \in Bytes
      BY <1>1 DEF Word
    <2> DEFINE w == <<t[2], t[3], t[4], t[1]>>
    <2>2. \A b \in 1..4 : w[b] \in Bytes
      BY <2>1
    <2> HIDE DEF w
    <2>3. aes_sub_word(w) \in Word
      BY <2>2, SboxInverse DEF aes_sub_word, Word
    <2> QED BY <2>3 DEF w
  <1> HIDE DEF t, u
  <1> HIDE DEF i
  <1>3. i % 4 = 0 => i \div 4 \in 1..10
    BY ONLY <1>0, WordIndex
  <1>4. ASSUME i % 4 = 0
        PROVE  x \in Word
    <2> DEFINE c == u[1] (+) aes_rcon[i \div 4]
    <2>1. aes_rcon[i \div 4] \in Bytes /\ u[1] \in Bytes
      BY <1>2, <1>3, <1>4, RconBytes DEF Word
    <2>2. c \in Bytes
      BY <2>1, Xor
    <2>3. x = [u EXCEPT ![1] = c]
      OBVIOUS
    <2> HIDE DEF c
    <2> QED BY <1>2, <2>2, <2>3 DEF Word
  <1> HIDE DEF x
  <1>5. v \in Word
    BY <1>1, <1>4
  <1> HIDE DEF v
  <1>6. \A b \in 1..4 : words[i - 3][b] (+) v[b] \in Bytes
    BY <1>1, <1>5, Xor DEF Word
  <1>7. [b \in 1..4 |-> words[i - 3][b] (+) v[b]] \in Word
    BY <1>6 DEF Word
  <1> QED BY <1>7 DEF NextWord, i, v, x, u, t

-----------------------------------------------------------------------------
(* Induction and recursion over numbers *)


(* Induction over the numbers, for a set                                   *)
LEMMA NatInduct ==
    ASSUME NEW S, 0 \in S, \A n \in Nat : n \in S => n + 1 \in S
    PROVE  \A n \in Nat : n \in S
  <1> DEFINE R == OpToRel(<, Nat)
             T == Nat \ S
  <1>1. IsWellFoundedOn(R, Nat)
    BY NatLessThanWellFounded
  <1>2. \A n \in Nat : n + 1 \in Nat /\ <<n, n + 1>> \in R
    BY DEF OpToRel
  <1> HIDE DEF R
  <1> SUFFICES ASSUME T # {} PROVE FALSE
    OBVIOUS
  <1>3. PICK x \in T : \A y \in T : ~ (<<y, x>> \in R)
    <2>1. T \subseteq Nat
      OBVIOUS
    <2> HIDE DEF T
    <2> QED BY <1>1, <2>1, WFMin
  <1>4. x \in Nat /\ x # 0 /\ x - 1 \in Nat /\ x = (x - 1) + 1
    OBVIOUS
  <1>5. x - 1 \in T
    BY <1>4
  <1> QED BY <1>2, <1>3, <1>4, <1>5

(* A function built step by step exists *)
Steps(S, N, x, h) == N \in Nat /\ x \in S /\ h \in [1..N -> [S -> S]]

Iterated(S, N, x, h) ==
    \E f \in [0..N -> S] : f[0] = x /\ \A i \in 1..N : f[i] = h[i][f[i - 1]]

LEMMA Iterates ==
    ASSUME NEW S, NEW N, NEW x, NEW h, Steps(S, N, x, h)
    PROVE  Iterated(S, N, x, h)
  <1> SUFFICES ASSUME N \in Nat, x \in S, h \in [1..N -> [S -> S]]
               PROVE  \E f \in [0..N -> S] : f[0] = x /\ \A i \in 1..N : f[i] = h[i][f[i - 1]]
    BY DEF Steps, Iterated
  <1> DEFINE Upto(n, f) == f[0] = x /\ \A i \in 1..n : f[i] = h[i][f[i - 1]]
             T == {n \in Nat : n <= N => \E f \in [0..n -> S] : Upto(n, f)}
  <1>1. 0 \in T
    <2> DEFINE f == [i \in 0..0 |-> x]
    <2>1. f \in [0..0 -> S] /\ Upto(0, f)
      OBVIOUS
    <2> QED BY <2>1
  <1>2. ASSUME NEW n \in Nat, n \in T
        PROVE  n + 1 \in T
    <2> SUFFICES ASSUME n + 1 <= N
                 PROVE  \E f \in [0..(n + 1) -> S] : Upto(n + 1, f)
      OBVIOUS
    <2>1. PICK f \in [0..n -> S] : Upto(n, f)
      BY <1>2
    <2> DEFINE last == h[n + 1][f[n]]
               g == [i \in 0..(n + 1) |-> IF i = n + 1 THEN last ELSE f[i]]
    <2>2. f[n] \in S /\ last \in S
      OBVIOUS
    <2>3. g \in [0..(n + 1) -> S]
      BY <2>2
    <2>4. g[0] = x
      BY <2>1
    <2>5. ASSUME NEW i \in 1..(n + 1)
          PROVE  g[i] = h[i][g[i - 1]]
      <3>1. CASE i = n + 1
        <4>1. g[i] = h[n + 1][f[n]]
          BY <3>1
        <4>2. g[i - 1] = f[n]
          BY <3>1
        <4> QED BY <3>1, <4>1, <4>2
      <3>2. CASE i # n + 1
        <4>1. i \in 1..n /\ i - 1 \in 0..n /\ i - 1 # n + 1
          BY <3>2
        <4>2. g[i] = f[i] /\ g[i - 1] = f[i - 1]
          BY <4>1
        <4> QED BY <2>1, <4>1, <4>2
      <3> QED BY <3>1, <3>2
    <2> HIDE DEF g
    <2> QED BY <2>3, <2>4, <2>5
  <1> HIDE DEF T
  <1>3. \A n \in Nat : n \in T
    BY <1>1, <1>2, NatInduct
  <1> QED BY <1>3 DEF T

(* What each step of a recursion keeps in a set ends in it.                *)
LEMMA Stays ==
    ASSUME NEW S, NEW N \in Nat, NEW w, w[0] \in S, \A i \in 1..N : w[i - 1] \in S => w[i] \in S
    PROVE  w[N] \in S
  <1> DEFINE T == {n \in Nat : n <= N => w[n] \in S}
  <1>1. 0 \in T
    OBVIOUS
  <1>2. ASSUME NEW n \in Nat, n \in T
        PROVE  n + 1 \in T
    <2> SUFFICES ASSUME n + 1 <= N PROVE w[n + 1] \in S
      OBVIOUS
    <2>1. w[n] \in S
      BY <1>2
    <2> DEFINE i == n + 1
    <2>2. i \in 1..N /\ w[i - 1] \in S
      BY <2>1
    <2> HIDE DEF i
    <2>3. w[i] \in S
      BY <2>2
    <2> QED BY <2>3 DEF i
  <1> HIDE DEF T
  <1>3. \A n \in Nat : n \in T
    BY <1>1, <1>2, NatInduct
  <1> QED BY <1>3 DEF T

-----------------------------------------------------------------------------
(* The types of md5_transform *)


(* 32-bit words, and pairs of integers that become words *)
MdWord == Halves \X Halves
Pair(x) == x[1] \in Int /\ x[2] \in Int

LEMMA MdWordPair == \A x \in MdWord : Pair(x)
  BY DEF MdWord, Pair, Halves

LEMMA CutHalf == \A n \in Int : n % 65536 \in Halves /\ n \div 65536 \in Int
  BY DEF Halves

LEMMA AddType ==
    \A x, y : Pair(x) /\ Pair(y) => Add(x, y) \in MdWord
  <1> SUFFICES ASSUME NEW x, NEW y, Pair(x), Pair(y)
               PROVE  Add(x, y) \in MdWord
    OBVIOUS
  <1> DEFINE low == x[2] + y[2]
             c == low \div 65536
             high == x[1] + y[1] + c
  <1>1. low \in Int
    BY DEF Pair
  <1> HIDE DEF low
  <1>2. low % 65536 \in Halves /\ c \in Int
    BY <1>1, CutHalf
  <1> HIDE DEF c
  <1>3. high \in Int
    BY <1>2 DEF Pair
  <1> HIDE DEF high
  <1>4. high % 65536 \in Halves
    BY <1>3, CutHalf
  <1> QED BY <1>2, <1>4 DEF Add, MdWord, low, c, high

LEMMA BitOps ==
    ASSUME NEW a \in Bit, NEW b \in Bit
    PROVE  a * b \in Bit /\ a + b - a * b \in Bit
  <1>1. CASE a = 0
    BY <1>1 DEF Bit
  <1>2. CASE a = 1
    BY <1>2 DEF Bit
  <1> QED BY <1>1, <1>2 DEF Bit

LEMMA NibbleOps ==
    \A x, y \in Nibbles : NibbleAnd[x][y] \in Int /\ NibbleOr[x][y] \in Int
  <1> TAKE x, y \in Nibbles
  <1> DEFINE a == B1(x) * B1(y)
             b == B2(x) * B2(y)
             c == B4(x) * B4(y)
             d == B8(x) * B8(y)
  <1>1. a \in Bit /\ b \in Bit /\ c \in Bit /\ d \in Bit
    BY BitsOf, BitOps
  <1>2. NibbleAnd[x][y] = a + 2 * b + 4 * c + 8 * d
    BY DEF NibbleAnd, OfBits, B1, B2, B4, B8
  <1> HIDE DEF a, b, c, d
  <1>3. NibbleAnd[x][y] \in Int
    BY <1>1, <1>2 DEF Bit
  <1> DEFINE p == B1(x) + B1(y) - B1(x) * B1(y)
             q == B2(x) + B2(y) - B2(x) * B2(y)
             r == B4(x) + B4(y) - B4(x) * B4(y)
             t == B8(x) + B8(y) - B8(x) * B8(y)
  <1>4. p \in Bit /\ q \in Bit /\ r \in Bit /\ t \in Bit
    BY BitsOf, BitOps
  <1>5. NibbleOr[x][y] = p + 2 * q + 4 * r + 8 * t
    BY DEF NibbleOr, OfBits, B1, B2, B4, B8
  <1> HIDE DEF p, q, r, t
  <1>6. NibbleOr[x][y] \in Int
    BY <1>4, <1>5 DEF Bit
  <1> QED BY <1>3, <1>6

LEMMA AndOrInt == \A x, y \in Int : x & y \in Int /\ x | y \in Int
  <1> TAKE x, y \in Int
  <1> DEFINE T(t) == /\ t[Low(x)][Low(y)] \in Int /\ t[High(x)][High(y)] \in Int
                     /\ t[Third(x)][Third(y)] \in Int /\ t[Fourth(x)][Fourth(y)] \in Int
  <1>1. T(NibbleAnd) /\ T(NibbleOr)
    BY CutNibbles, NibbleOps
  <1>2. ASSUME NEW t, T(t)
        PROVE  OfNibbles(t, x, y) \in Int
    <2>1. OfNibbles(t, x, y) = t[Low(x)][Low(y)] + 16 * t[High(x)][High(y)]
                               + 256 * t[Third(x)][Third(y)] + 4096 * t[Fourth(x)][Fourth(y)]
      BY DEF OfNibbles, Low, High, Third, Fourth
    <2> QED BY <1>2, <2>1
  <1> HIDE DEF T
  <1> QED BY <1>1, <1>2 DEF &, |

LEMMA PairOps ==
    \A x, y : Pair(x) /\ Pair(y) =>
        Pair(WNot(x)) /\ Pair(WAnd(x, y)) /\ Pair(WOr(x, y)) /\ Pair(WXor(x, y))
  <1> SUFFICES ASSUME NEW x, NEW y, Pair(x), Pair(y)
               PROVE  Pair(WNot(x)) /\ Pair(WAnd(x, y)) /\ Pair(WOr(x, y)) /\ Pair(WXor(x, y))
    OBVIOUS
  <1>1. x[1] \in Int /\ x[2] \in Int /\ y[1] \in Int /\ y[2] \in Int
    BY DEF Pair
  <1>2. /\ x[1] & y[1] \in Int /\ x[2] & y[2] \in Int /\ x[1] | y[1] \in Int /\ x[2] | y[2] \in Int
    BY <1>1, AndOrInt
  <1>3. x[1] (+) y[1] \in Int /\ x[2] (+) y[2] \in Int
    BY <1>1, XorInt
  <1>4. 65535 - x[1] \in Int /\ 65535 - x[2] \in Int
    BY <1>1
  <1>5. \A a, b \in Int : Pair(<<a, b>>)
    BY DEF Pair
  <1> QED BY <1>2, <1>3, <1>4, <1>5 DEF WNot, WAnd, WOr, WXor

LEMMA MixedPair ==
    ASSUME NEW r \in 0..3, NEW x, NEW y, NEW z, Pair(x), Pair(y), Pair(z)
    PROVE  Pair(Mixed(r, x, y, z))
  <1>1. CASE r = 0
    <2>1. Mixed(r, x, y, z) = WOr(WAnd(x, y), WAnd(WNot(x), z))
      BY <1>1 DEF Mixed
    <2> QED BY <2>1, PairOps
  <1>2. CASE r = 1
    <2>1. Mixed(r, x, y, z) = WOr(WAnd(x, z), WAnd(y, WNot(z)))
      BY <1>2 DEF Mixed
    <2> QED BY <2>1, PairOps
  <1>3. CASE r = 2
    <2>1. Mixed(r, x, y, z) = WXor(WXor(x, y), z)
      BY <1>3 DEF Mixed
    <2> QED BY <2>1, PairOps
  <1>4. CASE r = 3
    <2>1. Mixed(r, x, y, z) = WXor(y, WOr(x, WNot(z)))
      BY <1>4 DEF Mixed
    <2> QED BY <2>1, PairOps
  <1> QED BY <1>1, <1>2, <1>3, <1>4

LEMMA PowerType == \A k \in 1..15 : Power[k] \in Int /\ Power[k] > 0
  BY DEF Power

LEMMA Shifted ==
    ASSUME NEW a \in Int, NEW b \in Int, NEW p \in Int, NEW q \in Int, q > 0
    PROVE  ((a * p) % 65536) + (b \div q) \in Int
  <1> DEFINE c == a * p
             d == b \div q
             e == c % 65536
  <1>1. c \in Int /\ d \in Int
    OBVIOUS
  <1> HIDE DEF c, d
  <1>2. e \in Int
    BY <1>1
  <1> HIDE DEF e
  <1>3. e + d \in Int
    BY ONLY <1>1, <1>2
  <1> QED BY <1>3 DEF c, d, e

LEMMA RotPair ==
    ASSUME NEW x, Pair(x), NEW n \in 4..23
    PROVE  Pair(MD5_ROT(x, n))
  <1> DEFINE Turned(a, b, k) == IF k = 0 THEN a ELSE ((a * Power[k]) % 65536) + (b \div Power[16 - k])
  <1>1. ASSUME NEW a \in Int, NEW b \in Int, NEW k \in 0..15
        PROVE  Turned(a, b, k) \in Int
    <2>1. CASE k = 0
      BY <2>1
    <2>2. CASE k # 0
      <3>1. k \in 1..15 /\ 16 - k \in 1..15
        BY <2>2
      <3>2. Power[k] \in Int /\ Power[16 - k] \in Int /\ Power[16 - k] > 0
        BY <3>1, PowerType
      <3>3. ((a * Power[k]) % 65536) + (b \div Power[16 - k]) \in Int
        BY <3>2, Shifted
      <3> QED BY <2>2, <3>3
    <2> QED BY <2>1, <2>2
  <1>2. x[1] \in Int /\ x[2] \in Int
    BY DEF Pair
  <1>3. MD5_ROT(x, n) = IF n < 16 THEN <<Turned(x[1], x[2], n), Turned(x[2], x[1], n)>>
                        ELSE <<Turned(x[2], x[1], n - 16), Turned(x[1], x[2], n - 16)>>
    BY DEF MD5_ROT
  <1> HIDE DEF Turned
  <1>4. CASE n < 16
    <2>1. n \in 0..15
      BY <1>4
    <2>2. Turned(x[1], x[2], n) \in Int /\ Turned(x[2], x[1], n) \in Int
      BY <1>1, <1>2, <2>1
    <2> QED BY <1>3, <1>4, <2>2 DEF Pair
  <1>5. CASE ~(n < 16)
    <2>1. n - 16 \in 0..15
      BY <1>5
    <2>2. Turned(x[2], x[1], n - 16) \in Int /\ Turned(x[1], x[2], n - 16) \in Int
      BY <1>1, <1>2, <2>1
    <2> QED BY <1>3, <1>5, <2>2 DEF Pair
  <1> QED BY <1>4, <1>5

LEMMA ConstantsType == \A i \in 1..64 : Pair(Constants[i])
  BY DEF Constants, Pair

LEMMA ShiftType == \A r, k \in 1..4 : Shift[r][k] \in 4..23
  BY DEF Shift

(* The words of a block, and the four words of the state *)
MdBlock == {b \in Seq(Bytes) : Len(b) = 64}
MdState == MdWord \X MdWord \X MdWord \X MdWord

LEMMA WordOfType ==
    ASSUME NEW i \in 0..63
    PROVE  i \div 16 \in 0..3 /\ WordOf(i \div 16, i) \in 0..15 /\ i % 4 \in 0..3
  <1>1. i \div 16 \in 0..3 /\ i % 4 \in 0..3
    OBVIOUS
  <1> DEFINE r == i \div 16
  <1>2. r \in 0..3
    BY <1>1
  <1> HIDE DEF r
  <1>3. /\ i % 16 \in 0..15 /\ (5 * i + 1) % 16 \in 0..15 /\ (3 * i + 5) % 16 \in 0..15
        /\ (7 * i) % 16 \in 0..15
    OBVIOUS
  <1>4. r = 0 \/ r = 1 \/ r = 2 \/ r = 3
    BY <1>2
  <1>5. WordOf(r, i) \in 0..15
    BY <1>3, <1>4 DEF WordOf
  <1> QED BY <1>1, <1>5 DEF r

(* Each of the 64 lines of md5_transform keeps words words, and so does    *)
(* all of it.                                                              *)
LEMMA LineType ==
    ASSUME NEW block \in MdBlock, NEW w \in MdState, NEW i \in 0..63
    PROVE  Line(block, w, i) \in MdState
  <1> DEFINE r == i \div 16
             j == 4 * WordOf(r, i)
             x == <<block[j + 3] + 256 * block[j + 4], block[j + 1] + 256 * block[j + 2]>>
             m == Mixed(r, w[2], w[3], w[4])
             sum == Add(Add(w[1], m), Add(x, Constants[i + 1]))
             n == Shift[r + 1][(i % 4) + 1]
             t == Add(MD5_ROT(sum, n), w[2])
  <1>1. w[1] \in MdWord /\ w[2] \in MdWord /\ w[3] \in MdWord /\ w[4] \in MdWord
    BY DEF MdState
  <1>2. Pair(w[1]) /\ Pair(w[2]) /\ Pair(w[3]) /\ Pair(w[4])
    BY <1>1, MdWordPair
  <1>3. r \in 0..3 /\ WordOf(r, i) \in 0..15 /\ i % 4 \in 0..3
    BY WordOfType
  <1>4. n \in 4..23
    <2> DEFINE a == r + 1
               b == (i % 4) + 1
    <2>1. a \in 1..4 /\ b \in 1..4
      BY <1>3
    <2> HIDE DEF a, b
    <2>2. Shift[a][b] \in 4..23
      BY <2>1, ShiftType
    <2> QED BY <2>2 DEF a, b
  <1>5. Pair(x)
    <2> DEFINE k == WordOf(r, i)
    <2>1. k \in 0..15
      BY <1>3
    <2> HIDE DEF k
    <2>2. 4 * k + 1 \in 1..64 /\ 4 * k + 2 \in 1..64 /\ 4 * k + 3 \in 1..64 /\ 4 * k + 4 \in 1..64
      BY <2>1
    <2>3. \A a \in 1..64 : block[a] \in Int
      <3>1. block \in Seq(Bytes) /\ Len(block) = 64
        BY DEF MdBlock
      <3>2. \A a \in 1..64 : block[a] \in Bytes
        BY <3>1, ElementOfSeq
      <3>3. \A a \in Bytes : a \in Int
        BY DEF Bytes
      <3> QED BY ONLY <3>2, <3>3
    <2>4. /\ block[4 * k + 1] \in Int /\ block[4 * k + 2] \in Int
          /\ block[4 * k + 3] \in Int /\ block[4 * k + 4] \in Int
      BY <2>2, <2>3
    <2> QED BY <2>4 DEF Pair, k
  <1>6. Pair(Constants[i + 1])
    <2>1. i + 1 \in 1..64
      OBVIOUS
    <2> QED BY <2>1, ConstantsType
  <1> HIDE DEF r, x, n
  <1>7. Pair(m)
    BY <1>2, <1>3, MixedPair
  <1> HIDE DEF m
  <1>8. Pair(sum)
    <2>1. Add(w[1], m) \in MdWord /\ Add(x, Constants[i + 1]) \in MdWord
      BY <1>2, <1>5, <1>6, <1>7, AddType
    <2> QED BY <2>1, AddType, MdWordPair
  <1> HIDE DEF sum
  <1>9. Pair(MD5_ROT(sum, n))
    BY <1>4, <1>8, RotPair
  <1>10. t \in MdWord
    BY <1>2, <1>9, AddType
  <1>11. Line(block, w, i) = <<w[4], t, w[2], w[3]>>
    BY DEF Line, t, sum, m, x, n, r
  <1> HIDE DEF t
  <1> QED BY <1>1, <1>10, <1>11 DEF MdState

LEMMA TransformType ==
    ASSUME NEW state \in MdState, NEW block \in MdBlock
    PROVE  md5_transform(state, block) \in MdState
  <1> DEFINE w == CHOOSE w : w = [i \in 0..64 |-> IF i = 0 THEN state ELSE Line(block, w[i - 1], i - 1)]
             v == w[64]
             h == [i \in 1..64 |-> [u \in MdState |-> Line(block, u, i - 1)]]
  <1>1. h \in [1..64 -> [MdState -> MdState]]
    <2>1. \A i \in 1..64 : i - 1 \in 0..63
      OBVIOUS
    <2>2. \A i \in 1..64 : \A u \in MdState : Line(block, u, i - 1) \in MdState
      BY <2>1, LineType
    <2> QED BY <2>2
  <1>2. \E f \in [0..64 -> MdState] : f[0] = state /\ \A i \in 1..64 : f[i] = h[i][f[i - 1]]
    <2> HIDE DEF h
    <2>1. Steps(MdState, 64, state, h)
      BY <1>1 DEF Steps
    <2>2. Iterated(MdState, 64, state, h)
      BY <2>1, Iterates
    <2> QED BY <2>2 DEF Iterated
  <1>3. PICK f \in [0..64 -> MdState] : f[0] = state /\ \A i \in 1..64 : f[i] = h[i][f[i - 1]]
    BY <1>2
  <1>4. \A i \in 1..64 : f[i - 1] \in MdState
    OBVIOUS
  <1>5. \A i \in 1..64 : f[i] = Line(block, f[i - 1], i - 1)
    BY <1>3, <1>4
  <1>6. f = [i \in 0..64 |-> IF i = 0 THEN state ELSE Line(block, f[i - 1], i - 1)]
    <2>1. f = [i \in 0..64 |-> f[i]]
      OBVIOUS
    <2>2. \A i \in 0..64 : f[i] = IF i = 0 THEN state ELSE Line(block, f[i - 1], i - 1)
      BY <1>3, <1>5
    <2> QED BY ONLY <2>1, <2>2
  <1>7. w = [i \in 0..64 |-> IF i = 0 THEN state ELSE Line(block, w[i - 1], i - 1)]
    BY <1>6
  <1>8. md5_transform(state, block)
        = <<Add(state[1], v[1]), Add(state[2], v[2]), Add(state[3], v[3]), Add(state[4], v[4])>>
    BY DEF md5_transform
  <1> HIDE DEF w
  <1>9. w[0] \in MdState
    BY <1>7
  <1>10. ASSUME NEW i \in 1..64, w[i - 1] \in MdState
         PROVE  w[i] \in MdState
    <2>1. i \in 0..64 /\ i # 0 /\ i - 1 \in 0..63
      OBVIOUS
    <2>2. w[i] = Line(block, w[i - 1], i - 1)
      BY <1>7, <2>1
    <2> QED BY <1>10, <2>1, <2>2, LineType
  <1>11. v \in MdState
    <2> DEFINE N == 64
    <2>1. N \in Nat /\ \A i \in 1..N : w[i - 1] \in MdState => w[i] \in MdState
      BY <1>10
    <2> HIDE DEF N
    <2>2. w[N] \in MdState
      BY <1>9, <2>1, Stays
    <2> QED BY <2>2 DEF N
  <1> HIDE DEF v
  <1>12. \A k \in 1..4 : Add(state[k], v[k]) \in MdWord
    <2>1. \A k \in 1..4 : state[k] \in MdWord /\ v[k] \in MdWord
      BY <1>11 DEF MdState
    <2> QED BY <2>1, MdWordPair, AddType
  <1> QED BY <1>8, <1>12 DEF MdState

LEMMA InitialType == InitialState \in MdState
  BY DEF InitialState, MdState, MdWord, Halves

LEMMA TransformedType ==
    ASSUME NEW blocks \in Seq(MdBlock)
    PROVE  Transformed(blocks) \in MdState
  <1> DEFINE N == Len(blocks)
             state == CHOOSE state : state = [k \in 0..Len(blocks) |->
                         IF k = 0 THEN InitialState ELSE md5_transform(state[k - 1], blocks[k])]
             h == [k \in 1..N |-> [u \in MdState |-> md5_transform(u, blocks[k])]]
  <1>1. N \in Nat /\ \A k \in 1..N : blocks[k] \in MdBlock
    BY LenProperties, ElementOfSeq
  <1>2. h \in [1..N -> [MdState -> MdState]]
    BY <1>1, TransformType
  <1>3. PICK f \in [0..N -> MdState] : f[0] = InitialState /\ \A k \in 1..N : f[k] = h[k][f[k - 1]]
    <2> HIDE DEF h, N
    <2>1. Steps(MdState, N, InitialState, h)
      BY <1>1, <1>2, InitialType DEF Steps
    <2>2. Iterated(MdState, N, InitialState, h)
      BY <2>1, Iterates
    <2> QED BY <2>2 DEF Iterated
  <1>4. \A k \in 1..N : f[k - 1] \in MdState
    BY <1>1
  <1>5. \A k \in 1..N : f[k] = md5_transform(f[k - 1], blocks[k])
    BY <1>3, <1>4
  <1>6. f = [k \in 0..N |-> IF k = 0 THEN InitialState ELSE md5_transform(f[k - 1], blocks[k])]
    <2>1. f = [k \in 0..N |-> f[k]]
      OBVIOUS
    <2>2. \A k \in 0..N : f[k] = IF k = 0 THEN InitialState ELSE md5_transform(f[k - 1], blocks[k])
      BY <1>1, <1>3, <1>5
    <2> QED BY ONLY <2>1, <2>2
  <1>7. state = [k \in 0..N |-> IF k = 0 THEN InitialState ELSE md5_transform(state[k - 1], blocks[k])]
    BY <1>6
  <1>8. Transformed(blocks) = state[N]
    BY DEF Transformed
  <1> HIDE DEF state, N
  <1>9. state[0] \in MdState
    BY <1>1, <1>7, InitialType
  <1>10. ASSUME NEW k \in 1..N, state[k - 1] \in MdState
         PROVE  state[k] \in MdState
    <2>1. k \in 0..N /\ k # 0
      BY <1>1
    <2>2. state[k] = md5_transform(state[k - 1], blocks[k])
      BY <1>7, <2>1
    <2> QED BY <1>1, <1>10, <2>2, TransformType
  <1>11. state[N] \in MdState
    BY <1>1, <1>9, <1>10, Stays
  <1> QED BY <1>8, <1>11

LEMMA HalfBytes ==
    ASSUME NEW h \in Halves
    PROVE  h % 256 \in Bytes /\ h \div 256 \in Bytes
  BY DEF Halves, Bytes

(* The digest is 16 bytes: it serves as a key of AES.                      *)
LEMMA DigestType ==
    ASSUME NEW state \in MdState
    PROVE  DigestOf(state) \in [1..16 -> Bytes]
  <1> DEFINE Half(b) == state[((b - 1) \div 4) + 1][IF (b - 1) % 4 < 2 THEN 2 ELSE 1]
  <1>1. ASSUME NEW b \in 1..16
        PROVE  Half(b) \in Halves
    <2> DEFINE k == ((b - 1) \div 4) + 1
               j == IF (b - 1) % 4 < 2 THEN 2 ELSE 1
    <2>1. k \in 1..4 /\ j \in 1..2
      OBVIOUS
    <2> HIDE DEF k, j
    <2>2. state[k] \in MdWord
      BY <2>1 DEF MdState
    <2>3. state[k][j] \in Halves
      BY <2>1, <2>2 DEF MdWord
    <2> QED BY <2>3 DEF k, j
  <1>2. ASSUME NEW b \in 1..16
        PROVE  (IF b % 2 = 1 THEN Half(b) % 256 ELSE Half(b) \div 256) \in Bytes
    <2> DEFINE x == Half(b)
    <2>1. x \in Halves
      BY <1>1
    <2> HIDE DEF x
    <2>2. x % 256 \in Bytes /\ x \div 256 \in Bytes
      BY <2>1, HalfBytes
    <2>3. (IF b % 2 = 1 THEN x % 256 ELSE x \div 256) \in Bytes
      BY <2>2
    <2> QED BY <2>3 DEF x
  <1>3. DigestOf(state) = [b \in 1..16 |-> IF b % 2 = 1 THEN Half(b) % 256 ELSE Half(b) \div 256]
    BY DEF DigestOf
  <1> HIDE DEF Half
  <1> QED BY <1>2, <1>3

-----------------------------------------------------------------------------
(* Encryption and decryption *)


(* What EncryptRound makes of a state *)
Stepped(b, words, r) ==
    AddRoundKey(IF r < 10 THEN MixColumns(Confused(b)) ELSE Confused(b), words, r)

(* The block to be encrypted                                               *)
Clear == [i \in 0..15 |-> input[1][i + 1]]

(* The states encryption went through                                      *)
Path ==
    /\ trace \in Seq(State) /\ Len(trace) \in 1..11
    /\ trace[1] = AddRoundKey(Clear, rk, 0)
    /\ \A r \in 1..10 : r < Len(trace) => trace[r + 1] = Stepped(trace[r], rk, r)

(* The key schedules are complete.                                         *)
Keyed == Schedule(rk) /\ dk = Swapped(rk)

Started == input[1] \in [1..16 -> Bytes] /\ rk \in Seq(Word) /\ Len(rk) \in 4..44

(* The inductive invariant of the cipher: the trace is a path of encryption *)
(* under rk, dk is rk in reverse, and decryption is on its way back.       *)
AesInv ==
    /\ mode \in {"idle", "expand", "encrypt", "decrypt", "done"}
    /\ mode = "idle" => dk = <<>>
    /\ dk # <<>> => Keyed
    /\ mode # "idle" => Started
    /\ mode \in {"encrypt", "decrypt", "done"} => Keyed /\ Path
    /\ mode = "encrypt" => round = Len(trace) /\ s = trace[round]
    /\ mode = "decrypt" => round \in 1..10 /\ Len(trace) = 11
    /\ DecryptUndoes

(* A digest is fit to be a key.                                            *)
KeyInv ==
    /\ login = <<>> \/ login \in Credentials
    /\ digest = <<>> \/ digest \in [1..16 -> Bytes]

LEMMA ClearType ==
    ASSUME Started
    PROVE  Clear \in State
  <1>1. \A i \in 0..15 : i + 1 \in 1..16
    OBVIOUS
  <1>2. \A i \in 0..15 : input[1][i + 1] \in Bytes
    BY <1>1 DEF Started
  <1> QED BY <1>2 DEF Clear, State

LEMMA SteppedType ==
    ASSUME NEW words, Schedule(words), NEW b \in State, NEW r \in 0..10
    PROVE  Stepped(b, words, r) \in State
  <1> DEFINE t == IF r < 10 THEN MixColumns(Confused(b)) ELSE Confused(b)
  <1>1. t \in State
    BY ConfusedType, MixType
  <1> HIDE DEF t
  <1>2. AddRoundKey(t, words, r) \in State
    BY <1>1, KeyAdded
  <1> QED BY <1>2 DEF Stepped, t

(* A round of decryption takes back the one of encryption *)
LEMMA Unstepped ==
    ASSUME NEW words, Schedule(words), NEW b \in State, NEW r \in 1..10, NEW k \in 0..9, k = 10 - r
    PROVE  /\ AddRoundKey(Stepped(b, words, r), Swapped(words), k)
                  = IF r < 10 THEN MixColumns(Confused(b)) ELSE Confused(b)
           /\ r < 10 => InvMixColumns(AddRoundKey(Stepped(b, words, r), Swapped(words), k)) = Confused(b)
  <1> DEFINE t == IF r < 10 THEN MixColumns(Confused(b)) ELSE Confused(b)
             u == Stepped(b, words, r)
  <1>1. Confused(b) \in State
    BY ConfusedType
  <1>2. t \in State
    BY <1>1, MixType
  <1> HIDE DEF t
  <1>3. u = AddRoundKey(t, words, r)
    BY DEF Stepped, t
  <1>4. r \in 0..10 /\ k \in 0..10 /\ 10 - k = r
    OBVIOUS
  <1>5. u \in State /\ AddRoundKey(u, words, r) = t
    BY <1>2, <1>3, <1>4, KeyAdded
  <1> HIDE DEF u
  <1>6. AddRoundKey(u, Swapped(words), k) = AddRoundKey(u, words, 10 - k)
    BY <1>4, <1>5, SwappedKey
  <1>7. AddRoundKey(u, Swapped(words), k) = t
    BY <1>4, <1>5, <1>6
  <1>8. r < 10 => InvMixColumns(t) = Confused(b)
    BY <1>1, InvMixUndoes DEF t
  <1> QED BY <1>7, <1>8 DEF t, u

(* One lemma for each action                                               *)
LEMMA BeginInv ==
    ASSUME AesInv, NEW block \in [1..16 -> Bytes], NEW key \in [1..16 -> Bytes], Begin(block, key)
    PROVE  AesInv'
  <1>1. dk' = <<>> /\ mode' = "expand"
    BY DEF AesInv, Begin
  <1>2. Started'
    <2>1. input'[1] = block
      BY DEF Begin
    <2>2. rk' = KeyWords(key)
      BY DEF Begin
    <2>3. rk' \in Seq(Word) /\ Len(rk') = 4
      BY <2>2, KeyWordsType
    <2> QED BY <2>1, <2>3 DEF Started
  <1> QED BY <1>1, <1>2 DEF AesInv, DecryptUndoes

LEMMA SetEncryptInv ==
    ASSUME AesInv, aes_set_encrypt_key
    PROVE  AesInv'
  <1>1. /\ mode = "expand" /\ mode' = mode /\ dk' = dk /\ input' = input /\ Len(rk) < 44
        /\ rk' = Append(rk, NextWord(rk, Len(rk)))
    BY DEF aes_set_encrypt_key
  <1>2. rk \in Seq(Word) /\ Len(rk) \in 4..43 /\ input[1] \in [1..16 -> Bytes]
    <2>1. Started
      BY <1>1 DEF AesInv
    <2> DEFINE n == Len(rk)
    <2>2. n \in 4..44 /\ n < 44
      BY <1>1, <2>1 DEF Started
    <2> HIDE DEF n
    <2>3. n \in 4..43
      BY ONLY <2>2
    <2> QED BY <2>1, <2>3 DEF Started, n
  <1>3. NextWord(rk, Len(rk)) \in Word
    BY <1>2, NextWordType
  <1>4. rk' \in Seq(Word) /\ Len(rk') = Len(rk) + 1
    BY <1>1, <1>2, <1>3, AppendProperties
  <1>5. Started'
    <2> DEFINE n == Len(rk)
               m == Len(rk')
    <2>1. n \in 4..43 /\ m = n + 1
      BY <1>2, <1>4
    <2> HIDE DEF n, m
    <2>2. m \in 4..44
      BY ONLY <2>1
    <2> QED BY <1>1, <1>2, <1>4, <2>2 DEF Started, m
  <1>6. dk = <<>>
    <2> DEFINE n == Len(rk)
    <2>1. n \in 4..43
      BY <1>2
    <2> HIDE DEF n
    <2>2. n # 44
      BY ONLY <2>1
    <2> QED BY <2>2 DEF n, AesInv, Keyed, Schedule
  <1> QED BY <1>1, <1>5, <1>6 DEF AesInv, DecryptUndoes

LEMMA SetDecryptInv ==
    ASSUME AesInv, aes_set_decrypt_key
    PROVE  AesInv'
  <1>1. /\ mode = "expand" /\ mode' = mode /\ dk' = Swapped(rk) /\ input' = input
        /\ Len(rk) = 44 /\ rk' = rk
    BY DEF aes_set_decrypt_key
  <1>2. Started
    BY <1>1 DEF AesInv
  <1>3. Keyed'
    BY <1>1, <1>2 DEF Keyed, Schedule, Started
  <1>4. Started'
    BY <1>1, <1>2 DEF Started
  <1> QED BY <1>1, <1>3, <1>4 DEF AesInv, DecryptUndoes

LEMMA StartEncryptInv ==
    ASSUME AesInv, StartEncrypt
    PROVE  AesInv'
  <1>1. /\ mode = "expand" /\ dk # <<>> /\ mode' = "encrypt" /\ round' = 1
        /\ input' = input /\ rk' = rk /\ dk' = dk
        /\ s' = AddRoundKey(Clear, rk, 0) /\ trace' = <<s'>>
    BY DEF StartEncrypt, Clear
  <1>2. Started /\ Keyed
    BY <1>1 DEF AesInv
  <1>3. Started' /\ Keyed' /\ Clear' = Clear
    BY <1>1, <1>2 DEF Started, Keyed, Clear
  <1>4. s' \in State
    <2> DEFINE r == 0
    <2>1. r \in 0..10 /\ s' = AddRoundKey(Clear, rk, r)
      BY <1>1
    <2> HIDE DEF r
    <2> QED BY <1>2, <2>1, ClearType, KeyAdded DEF Keyed
  <1>5. trace' \in Seq(State) /\ Len(trace') = 1 /\ trace'[1] = s'
    BY <1>1, <1>4
  <1>6. Path'
    BY <1>1, <1>3, <1>5 DEF Path
  <1> QED BY <1>1, <1>3, <1>5, <1>6 DEF AesInv, DecryptUndoes

LEMMA EncryptRoundInv ==
    ASSUME AesInv, EncryptRound
    PROVE  AesInv'
  <1>1. /\ mode = "encrypt" /\ round <= 10 /\ mode' = mode /\ round' = round + 1
        /\ input' = input /\ rk' = rk /\ dk' = dk
        /\ s' = Stepped(s, rk, round) /\ trace' = Append(trace, s')
    BY DEF EncryptRound, Stepped, Confused
  <1>2. Started /\ Keyed /\ Path /\ round = Len(trace) /\ s = trace[round]
    BY <1>1 DEF AesInv
  <1>3. Started' /\ Keyed' /\ Clear' = Clear
    BY <1>1, <1>2 DEF Started, Keyed, Clear
  <1>4. trace \in Seq(State) /\ Len(trace) \in 1..10 /\ round \in 1..10
    <2>1. trace \in Seq(State) /\ round \in 1..11 /\ round <= 10
      BY <1>1, <1>2 DEF Path
    <2>2. round \in 1..10
      BY ONLY <2>1
    <2> QED BY <1>2, <2>1, <2>2
  <1>5. s \in State
    BY <1>2, <1>4, ElementOfSeq
  <1>6. s' \in State
    BY <1>1, <1>2, <1>4, <1>5, SteppedType DEF Keyed
  <1>7. /\ trace' \in Seq(State) /\ Len(trace') = round + 1
        /\ \A i \in 1..round : trace'[i] = trace[i]
        /\ trace'[round + 1] = s'
    BY <1>1, <1>2, <1>4, <1>6, AppendProperties
  <1>8. trace'[1] = AddRoundKey(Clear', rk', 0)
    BY <1>1, <1>2, <1>3, <1>4, <1>7 DEF Path
  <1>9. ASSUME NEW r \in 1..10, r < Len(trace')
        PROVE  trace'[r + 1] = Stepped(trace'[r], rk', r)
    <2>1. rk' = rk
      BY <1>1
    <2>2. CASE r = round
      BY <1>1, <1>2, <1>4, <1>7, <2>1, <2>2
    <2>3. CASE r # round
      <3>1. r \in 1..round /\ r + 1 \in 1..round /\ r < Len(trace)
        BY <1>2, <1>4, <1>7, <1>9, <2>3
      <3> QED BY <1>2, <1>7, <2>1, <3>1 DEF Path
    <2> QED BY <2>2, <2>3
  <1>10. Path'
    <2>1. Len(trace') \in 1..11
      BY <1>4, <1>7
    <2> QED BY <1>7, <1>8, <1>9, <2>1 DEF Path
  <1>11. round' = Len(trace') /\ s' = trace'[round']
    BY <1>1, <1>7
  <1> QED BY <1>1, <1>3, <1>10, <1>11 DEF AesInv, DecryptUndoes

LEMMA StartDecryptInv ==
    ASSUME AesInv, StartDecrypt
    PROVE  AesInv'
  <1>1. /\ mode = "encrypt" /\ round = 11 /\ mode' = "decrypt" /\ round' = 1
        /\ input' = input /\ rk' = rk /\ dk' = dk /\ trace' = trace /\ s' = AddRoundKey(s, dk, 0)
    BY DEF StartDecrypt
  <1>2. Started /\ Keyed /\ Path /\ round = Len(trace) /\ s = trace[round]
    BY <1>1 DEF AesInv
  <1>3. Started' /\ Keyed' /\ Path'
    BY <1>1, <1>2 DEF Started, Keyed, Path, Clear
  <1> DEFINE b == trace[10]
             ten == 10
             none == 0
  <1>4. trace \in Seq(State) /\ Len(trace) = 11 /\ trace[11] = Stepped(b, rk, ten) /\ b \in State
    <2>1. trace \in Seq(State) /\ Len(trace) = 11
      BY <1>1, <1>2 DEF Path
    <2>2. 10 \in 1..Len(trace) /\ 10 \in 1..10 /\ 10 < Len(trace) /\ 10 + 1 = 11
      BY <2>1
    <2> QED BY <1>2, <2>1, <2>2, ElementOfSeq DEF Path
  <1> HIDE DEF b
  <1>5. ten \in 1..10 /\ none \in 0..9 /\ none = 10 - ten /\ ~(ten < 10)
    OBVIOUS
  <1>6. s' = AddRoundKey(Stepped(b, rk, ten), Swapped(rk), none)
    BY <1>1, <1>2, <1>4 DEF Keyed
  <1> HIDE DEF ten, none
  <1>7. s' = Confused(b)
    BY <1>2, <1>4, <1>5, <1>6, Unstepped DEF Keyed
  <1>8. DecryptUndoes'
    <2>1. s' = ShiftRows(SubBytes(trace'[11 - round']))
      <3>1. 11 - round' = 10
        BY <1>1
      <3> QED BY <1>1, <1>7, <3>1 DEF Confused, b
    <2> QED BY <1>1, <2>1 DEF DecryptUndoes
  <1> QED BY <1>1, <1>3, <1>4, <1>8 DEF AesInv

LEMMA DecryptRoundInv ==
    ASSUME AesInv, DecryptRound
    PROVE  AesInv'
  <1> DEFINE t == AddRoundKey(InvSubBytes(InvShiftRows(s)), dk, round)
  <1>1. /\ mode = "decrypt" /\ round' = round + 1 /\ mode' = IF round = 10 THEN "done" ELSE mode
        /\ input' = input /\ rk' = rk /\ dk' = dk /\ trace' = trace
        /\ s' = IF round < 10 THEN InvMixColumns(t) ELSE t
    BY DEF DecryptRound
  <1>2. Started /\ Keyed /\ Path /\ round \in 1..10 /\ Len(trace) = 11
    BY <1>1 DEF AesInv
  <1>3. Started' /\ Keyed' /\ Path' /\ Clear' = Clear
    BY <1>1, <1>2 DEF Started, Keyed, Path, Clear
  <1> DEFINE k == 11 - round
             a == trace[k]
  <1>4. k \in 1..10 /\ k \in 1..11
    BY <1>2
  <1> HIDE DEF k
  <1>5. trace \in Seq(State) /\ a \in State
    BY <1>2, <1>4, ElementOfSeq DEF Path
  <1>6. s = Confused(a)
    BY <1>1 DEF AesInv, DecryptUndoes, Confused, k
  <1>7. InvSubBytes(InvShiftRows(s)) = a
    BY <1>5, <1>6, ConfusedUndone
  <1>8. t = AddRoundKey(a, Swapped(rk), round)
    BY <1>2, <1>7 DEF Keyed
  <1> HIDE DEF t
  <1>9. CASE round < 10
    <2> DEFINE j == k - 1
               b == trace[j]
    <2>1. /\ j \in 1..10 /\ j \in 1..11 /\ j + 1 = k /\ j < 11 /\ j < 10
          /\ round \in 0..9 /\ round = 10 - j
      BY <1>2, <1>9 DEF k
    <2> HIDE DEF j
    <2>2. a = Stepped(b, rk, j) /\ b \in State
      BY <1>2, <1>5, <2>1, ElementOfSeq DEF Path
    <2> HIDE DEF b
    <2>3. InvMixColumns(t) = Confused(b)
      BY <1>2, <1>8, <2>1, <2>2, Unstepped DEF Keyed
    <2>4. s' = Confused(b)
      BY <1>1, <1>9, <2>3
    <2>5. round' \in 1..10 /\ 11 - round' = j /\ mode' = "decrypt"
      BY <1>1, <1>2, <1>9 DEF j, k
    <2>6. DecryptUndoes'
      BY <1>1, <2>4, <2>5 DEF DecryptUndoes, Confused, b
    <2> QED BY <1>1, <1>2, <1>3, <2>5, <2>6 DEF AesInv
  <1>10. CASE ~(round < 10)
    <2>1. round = 10 /\ mode' = "done" /\ s' = t
      BY <1>1, <1>2, <1>10
    <2> DEFINE zero == 0
    <2>2. k = 1 /\ round \in 0..10 /\ 10 - round = zero /\ zero \in 0..10
      BY <2>1 DEF k
    <2>3. a = AddRoundKey(Clear, rk, zero)
      BY <1>2, <2>2 DEF Path
    <2> HIDE DEF zero, a
    <2>4. t = AddRoundKey(a, rk, zero)
      BY <1>2, <1>5, <1>8, <2>2, SwappedKey DEF Keyed
    <2>5. Clear \in State
      BY <1>2, ClearType
    <2>6. t = Clear
      BY <1>2, <2>2, <2>3, <2>4, <2>5, KeyAdded DEF Keyed
    <2>7. DecryptUndoes'
      BY <1>3, <2>1, <2>6 DEF DecryptUndoes, Clear
    <2> QED BY <1>1, <1>2, <1>3, <2>1, <2>7 DEF AesInv
  <1> QED BY <1>9, <1>10

LEMMA CipherKept ==
    ASSUME AesInv, UNCHANGED ciphering
    PROVE  AesInv'
  BY DEF AesInv, ciphering, Started, Keyed, Path, Clear, DecryptUndoes

LEMMA PassBlockType ==
    ASSUME NEW password \in Seq(Bytes)
    PROVE  PassBlock(password) \in [1..16 -> Bytes]
  <1>1. Len(password) \in Nat /\ 0 \in Bytes
    BY LenProperties DEF Bytes
  <1>2. \A b \in 1..16 : b <= Len(password) => password[b] \in Bytes
    <2> SUFFICES ASSUME NEW b \in 1..16, b <= Len(password) PROVE password[b] \in Bytes
      OBVIOUS
    <2>1. b \in 1..Len(password)
      BY <1>1
    <2> QED BY <2>1, ElementOfSeq
  <1> QED BY <1>1, <1>2 DEF PassBlock

LEMMA FinalKey ==
    ASSUME HashInv, md5_final
    PROVE  digest' \in [1..16 -> Bytes]
  <1>1. /\ message \in Seq(Bytes) /\ fed = Len(message) /\ Holds(ctx, Fed)
    BY DEF HashInv, md5_final
  <1>2. Fed = message
    BY ONLY <1>1, SubSeqFull DEF Fed
  <1>3. PadCut(Padded(ctx).blocks, message)
    BY ONLY <1>1, <1>2, FinalBlocks
  <1> DEFINE B == Padded(ctx).blocks
  <1>4. B \in Seq(Seq(Bytes)) /\ \A k \in 1..Len(B) : Len(B[k]) = 64
    BY <1>3 DEF PadCut
  <1>5. digest' = DigestOf(Transformed(B))
    BY DEF md5_final
  <1> HIDE DEF B
  <1>6. \A k \in 1..Len(B) : B[k] \in MdBlock
    BY <1>4, ElementOfSeq DEF MdBlock
  <1>7. B \in Seq(MdBlock)
    <2> DEFINE n == Len(B)
    <2>1. n \in Nat /\ B \in [1..n -> Seq(Bytes)]
      BY <1>4, LenProperties
    <2>2. B \in [1..n -> MdBlock]
      BY <1>6, <2>1
    <2> HIDE DEF n
    <2> QED BY ONLY <2>1, <2>2, Finite
  <1> QED BY <1>5, <1>7, TransformedType, DigestType

(* For every block and every key, digests as well, each round of           *)
(* aes_decrypt_block with the keys of aes_set_decrypt_key takes back one   *)
(* round of aes_encrypt_block, and the last leaves the block itself:       *)
(* sr_decrypt yields what a SEGRT peer encrypted with the same key.        *)
THEOREM DecryptionUndoesEncryption == Spec => []DecryptUndoes
  <1> DEFINE Inv == HashInv /\ KeyInv /\ AesInv
  <1>1. Init => KeyInv /\ AesInv
    BY DEF Init, Md5Init, AesInit, KeyInv, AesInv, DecryptUndoes
  <1>2. HashInv /\ KeyInv /\ AesInv /\ [Next]_vars => KeyInv' /\ AesInv'
    <2> SUFFICES ASSUME HashInv, KeyInv, AesInv, [Next]_vars PROVE KeyInv' /\ AesInv'
      OBVIOUS
    <2>1. CASE UNCHANGED vars
      BY <2>1, CipherKept DEF vars, hashing, KeyInv
    <2>2. ASSUME Next
          PROVE  login' = login
      BY <2>2 DEF Next
    <2>3. ASSUME Next, UNCHANGED hashing
          PROVE  KeyInv'
      BY <2>2, <2>3 DEF KeyInv, hashing
    <2>4. CASE Next /\ (HashLogin \/ HashOther)
      <3>1. AesInv'
        BY <2>4, CipherKept DEF HashLogin, HashOther
      <3>2. CASE md5_final
        BY <2>2, <2>4, <3>1, <3>2, FinalKey DEF KeyInv
      <3>3. CASE \E n : Update(n)
        BY <2>2, <2>4, <3>1, <3>3 DEF KeyInv, Update
      <3> QED BY <2>4, <3>2, <3>3 DEF HashLogin, HashOther, Md5Next
    <2>5. CASE Next /\ EncipherPassword
      <3>1. login[2] \in Seq(Bytes) /\ digest \in [1..16 -> Bytes]
        BY <2>5, CipherAssumption DEF EncipherPassword, KeyInv
      <3>2. PassBlock(login[2]) \in [1..16 -> Bytes]
        BY <3>1, PassBlockType
      <3> QED BY <2>3, <2>5, <3>1, <3>2, BeginInv DEF EncipherPassword
    <2>6. CASE Next /\ EncipherOther
      <3>1. PICK b \in Blocks : Begin(b[1], b[2])
        BY <2>6 DEF EncipherOther
      <3>2. b[1] \in [1..16 -> Bytes] /\ b[2] \in [1..16 -> Bytes]
        BY CipherAssumption
      <3> QED BY <2>3, <2>6, <3>1, <3>2, BeginInv DEF EncipherOther
    <2>7. CASE Next /\ AesNext /\ UNCHANGED hashing
      <3>1. AesInv'
        BY <2>7, SetEncryptInv, SetDecryptInv, StartEncryptInv, EncryptRoundInv,
           StartDecryptInv, DecryptRoundInv DEF AesNext
      <3> QED BY <2>3, <2>7, <3>1
    <2> QED BY <2>1, <2>4, <2>5, <2>6, <2>7 DEF Next
  <1>3. AesInv => DecryptUndoes
    BY DEF AesInv
  <1> QED BY <1>1, <1>2, <1>3, Hashing, PTL DEF Spec
=============================================================================
