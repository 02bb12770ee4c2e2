--------------------------- MODULE SegmentRouting ---------------------------
(***************************************************************************)
(* Packets of type SEGRT on their way through handle_segrt and sr_decrypt  *)
(* (src/src/iwand.c).  A peer wraps an inner packet: its header of         *)
(* HDR_SIZE bytes and a payload, XORed for DATA_ENC; it pads and encrypts  *)
(* the whole if algo is not 0.  The client cannot rely on that: the length *)
(* of a datagram, what its header claims and what was really done to its   *)
(* bytes are independent of each other here.                               *)
(***************************************************************************)
EXTENDS Integers

CONSTANTS
    Lengths,   \* lengths of datagrams, as recvfrom returns them
    Links,     \* numbers of links (linkcnt)
    Algos,     \* encrypt_algo: 0 nothing, 1 AES-128, 2 AES-256
    Paddings,  \* encrypt_padlen
    Payloads   \* lengths of payloads

HdrSize == 8
EthpktSize == 16
MaxPktSize == 2048

(* handle_recv lets through what has a header, recvfrom what fits in the   *)
(* buffer; linkcnt is a byte, encrypt_algo three bits and encrypt_padlen   *)
(* five of one, and the length of a fragment has eleven bits (< 2048).     *)
ASSUME SegmentAssumption ==
    /\ Lengths \subseteq HdrSize..MaxPktSize
    /\ Links \subseteq 0..255
    /\ Algos \subseteq 0..7
    /\ Paddings \subseteq 0..31
    /\ Payloads \subseteq 0..(MaxPktSize - 1)

VARIABLES
    sr_count, sr_encrypt_mode,  \* g_cfg, after sr_setup_keys
    established,  \* the state is ESTABLISHED
    packet,       \* the datagram that waits in the socket
    out           \* what handle_segrt made of the last one

g_cfg == <<sr_count, sr_encrypt_mode>>
srvars == <<g_cfg, established, packet, out>>

Types == {"DATA", "DATA_ENC", "IPFRAG_SR", "other"}

(* What the bytes of the inner packet are under: nothing, AES-128 with the *)
(* key of this client, or a cipher or key the client does not have.        *)
Ciphers == {"none", "ours", "other"}

(* len, and what its sender wrote and did.  n is the length of the payload *)
(* and, in a fragment, what the header of the fragment says of it.         *)
Packets ==
    [len : Lengths, links : Links, algo : Algos, padlen : Paddings,
     cipher : Ciphers, type : Types, n : Payloads]

NoPacket == [len |-> 0]
Nothing == [kind |-> "nothing"]
Dropped == [kind |-> "dropped"]

(* What precedes the payload of an inner packet *)
Overhead(type) == IF type = "IPFRAG_SR" THEN HdrSize + EthpktSize ELSE HdrSize

BlockSize(algo) == IF algo = 1 THEN 16 ELSE 32

SrHdrLen(p) == 4 + 4 * p.links

(* The header tells what was done to the inner packet.                     *)
Truthful(p) ==
    p.cipher = CASE p.algo = 0 -> "none" [] p.algo = 1 -> "ours" [] OTHER -> "other"

(* What a peer builds: it pads what it encrypts to whole blocks.           *)
Conforming(p) ==
    /\ Truthful(p)
    /\ p.len = HdrSize + SrHdrLen(p) + Overhead(p.type) + p.n + p.padlen
    /\ IF p.algo = 0 THEN p.padlen = 0
       ELSE (Overhead(p.type) + p.n + p.padlen) % BlockSize(p.algo) = 0

-----------------------------------------------------------------------------
Configured == sr_count > 0 /\ sr_encrypt_mode > 0

Decrypts(p) == Configured /\ p.algo = sr_encrypt_mode

Inner(p) == p.len - HdrSize - SrHdrLen(p)

(* Faulty variant: sr_decrypt takes a last block that is not whole. *)
DropsEarlyAnyLength(p) ==
    \/ ~established
    \/ p.len < HdrSize + 4 \/ p.len < HdrSize + SrHdrLen(p)
    \/ Inner(p) <= 0 \/ Inner(p) > MaxPktSize
    \/ Configured /\ p.algo \notin {0, sr_encrypt_mode}

(* sr_decrypt wants whole blocks; a packet of another algorithm than the   *)
(* configured one is not looked at.                                        *)
DropsEarly(p) ==
    \/ ~established
    \/ p.len < HdrSize + 4 \/ p.len < HdrSize + SrHdrLen(p)
    \/ Inner(p) <= 0 \/ Inner(p) > MaxPktSize
    \/ Decrypts(p) /\ Inner(p) % BlockSize(p.algo) # 0
    \/ Configured /\ p.algo \notin {0, sr_encrypt_mode}

(* The bytes of decrypt_buf that sr_decrypt has replaced: block by block   *)
(* until len is reached, of AES-128 only.                                  *)
Deciphered(p) ==
    IF Decrypts(p) /\ BlockSize(p.algo) = 16 THEN 16 * ((Inner(p) + 15) \div 16) ELSE 0

(* Faulty variant: the padding stays. *)
InnerLenPadded(p) == Inner(p)

InnerLen(p) ==
    IF Decrypts(p) /\ p.padlen > 0 /\ p.padlen < Inner(p) THEN Inner(p) - p.padlen ELSE Inner(p)

(* decrypt_buf holds what the sender wrapped; otherwise its bytes, and the *)
(* type and the length of a fragment read from them, can be any.           *)
Legible(p) == p.cipher = IF Deciphered(p) > 0 THEN "ours" ELSE "none"

TypesRead(p) == IF Legible(p) THEN {p.type} ELSE Types

(* Of any length the one that passes the test, and one that does not *)
FraglensRead(p) == IF Legible(p) THEN {p.n} ELSE {0, InnerLen(p) - HdrSize - EthpktSize}

(* The bytes of decrypt_buf from start, written or handed on *)
Taken(p, kind, start, xor) ==
    [kind |-> kind, start |-> start, n |-> InnerLen(p) - start,
     clear |-> Legible(p), xor |-> xor, deciphered |-> Deciphered(p)]

(* The dispatch, with the tests at the head of handle_ipfrag *)
Outcome(p, type, fraglen) ==
    CASE ~DropsEarly(p) /\ type = "IPFRAG_SR" /\ fraglen > 0
             /\ InnerLen(p) = fraglen + HdrSize + EthpktSize ->
           Taken(p, "fragment", HdrSize + EthpktSize, FALSE)
      [] ~DropsEarly(p) /\ type \in {"DATA", "DATA_ENC"} /\ InnerLen(p) > HdrSize ->
           Taken(p, "tun", HdrSize, type = "DATA_ENC")
      [] OTHER -> Dropped

handle_segrt ==
    /\ packet # NoPacket /\ packet' = NoPacket
    /\ \E type \in TypesRead(packet), fraglen \in FraglensRead(packet) :
           out' = Outcome(packet, type, fraglen)
    /\ UNCHANGED <<g_cfg, established>>

(* A datagram arrives; the interface or the slots have taken the last one. *)
Arrives ==
    /\ packet = NoPacket /\ out = Nothing
    /\ packet' \in Packets
    /\ UNCHANGED <<g_cfg, established, out>>

Forget == out # Nothing /\ out' = Nothing /\ UNCHANGED <<g_cfg, established, packet>>

Opens == established' = TRUE /\ UNCHANGED <<g_cfg, packet, out>>
Closes == established' = FALSE /\ UNCHANGED <<g_cfg, packet, out>>

(* sr_setup_keys turns mode 2 into 1, if there are links. *)
SrInit ==
    /\ sr_count \in 0..1 /\ sr_encrypt_mode \in 0..2
    /\ sr_count > 0 => sr_encrypt_mode < 2
    /\ established = FALSE /\ packet = NoPacket /\ out = Nothing

SrNext == handle_segrt \/ Arrives \/ Forget \/ Opens \/ Closes

SrSpec == SrInit /\ [][SrNext]_srvars

-----------------------------------------------------------------------------
(* The packet waiting is handled by the step. *)
Handled == packet # NoPacket /\ packet' = NoPacket

(* handle_segrt: of a packet as peers build them that is plain, or         *)
(* encrypted as this client is configured, what is written to the          *)
(* interface or handed to reassembly is the payload the peer sent, in the  *)
(* clear and without padding; and with a payload it is not dropped in an   *)
(* established session.                                                    *)
DeliversPayload ==
    [][ Handled /\ Conforming(packet) /\ (packet.algo = 0 \/ Decrypts(packet)) =>
          /\ out'.kind # "dropped" =>
                /\ out'.kind = IF packet.type = "IPFRAG_SR" THEN "fragment" ELSE "tun"
                /\ out'.start = Overhead(packet.type) /\ out'.n = packet.n
                /\ out'.clear /\ out'.xor = (packet.type = "DATA_ENC")
          /\ established /\ packet.n > 0 /\ packet.type # "other" =>
                out'.kind # "dropped" ]_srvars

(* handle_segrt and sr_decrypt, for a datagram of any length whatever its  *)
(* header claims of links, padding and algorithm: what goes on is at least *)
(* one byte, none from beyond the end of the datagram; sr_decrypt has      *)
(* replaced all the bytes copied to decrypt_buf or none, and nothing after *)
(* them; and where encryption is configured nothing still enciphered goes  *)
(* on ("drop rather than forward ciphertext") unless the header lies about *)
(* the cipher, which nothing in a packet would show.                       *)
MalformedHarmless ==
    [][ Handled /\ out'.kind # "dropped" =>
          /\ out'.n > 0
          /\ HdrSize + SrHdrLen(packet) + out'.start + out'.n <= packet.len
          /\ out'.deciphered \in {0, Inner(packet)}
          /\ Configured /\ Truthful(packet) => out'.clear ]_srvars
=============================================================================
