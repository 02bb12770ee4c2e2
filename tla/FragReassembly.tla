--------------------------- MODULE FragReassembly ---------------------------
(***************************************************************************)
(* Reassembly of IPFRAG datagrams in the client (handle_ipfrag in          *)
(* src/src/iwand.c): a few slots, each holding what has arrived of one     *)
(* group of fragments, and the packets written to the TUN device.          *)
(*                                                                         *)
(* A peer splits the packets of Groups into fragments.  Delivery says what *)
(* the network does to those of a group: "exact" is all of them in order,  *)
(* "lossy" some of them in order, "any" also reorders and duplicates.  The *)
(* fragments of different packets interleave in any case.  The client is   *)
(* ESTABLISHED throughout; datagrams refused for their length are left     *)
(* out, and so is the XOR of the finished packet.                          *)
(***************************************************************************)
EXTENDS Integers, Sequences

CONSTANTS
    Slots,        \* FRAG_SLOTS
    BufSize,      \* FRAG_BUF_SIZE
    ContentSize,  \* sizeof(g_frag_content)
    FragTimeout,  \* FRAG_TIMEOUT
    Groups,       \* the group ids in use
    Ends,         \* for each of them, where its fragments end, in order
    Delivery      \* for each of them, "exact", "lossy" or "any"

(* Where the n-th fragment of the packet of group g starts; its length. *)
FragOff(g, n) == IF n = 1 THEN 0 ELSE Ends[g][n - 1]

FragLen(g, n) == Ends[g][n] - FragOff(g, n)

(* fraglen has 11 bits, and 2047 < FRAG_BUF_SIZE. *)
ASSUME FragAssumption ==
    /\ Slots \in Nat \ {0}
    /\ BufSize \in Nat /\ ContentSize \in Nat /\ BufSize <= ContentSize
    /\ FragTimeout \in Nat \ {0}
    /\ Ends \in [Groups -> Seq(Nat) \ {<<>>}]
    /\ \A g \in Groups : \A n \in 1..Len(Ends[g]) : FragLen(g, n) \in 1..BufSize
    /\ Delivery \in [Groups -> {"exact", "lossy", "any"}]

(* The k-th byte of the packet of group g; and what memset leaves. *)
Byte(g, k) == <<g, k>>
Bytes == Groups \X Nat
Zero == <<>>

(* The n-th fragment of a group, as handle_ipfrag parses it. *)
Fragment(g, n) ==
    [id |-> g, eop |-> n = Len(Ends[g]), off |-> FragOff(g, n),
     data |-> [k \in 1..FragLen(g, n) |-> Byte(g, FragOff(g, n) + k)]]

Original(g) == [k \in 1..Ends[g][Len(Ends[g])] |-> Byte(g, k)]

-----------------------------------------------------------------------------
VARIABLES
    frags,   \* the slots: in_use, id, seconds since timestamp, buf up to len
    sent,    \* for each group, the last fragment that reached the client
    written  \* the last packet written to TUN, and its group

vars == <<frags, sent, written>>

FreeSlot == [in_use |-> FALSE, id |-> Zero, age |-> 0, buf |-> <<>>]

Init ==
    /\ frags = [i \in 1..Slots |-> FreeSlot]
    /\ sent = [g \in Groups |-> 0]
    /\ written = [id |-> Zero, data |-> <<>>]

-----------------------------------------------------------------------------
(* The slot the first loop stops at: at most one, see SlotIdsUnique. *)
Matching(f) == {i \in 1..Slots : frags[i].in_use /\ frags[i].id = f.id}

Expired(i) == frags[i].age >= FragTimeout

Current(f) == {i \in Matching(f) : ~Expired(i)}

FreeAt(i) == [frags EXCEPT ![i].in_use = FALSE]

(* eop = 0: the new data, then what was accumulated. *)
Prepended(i, f) == f.data \o frags[i].buf

(* Faulty variant: the offset of the last fragment is ignored. *)
CompletedByAppending(i, f) == f.data \o frags[i].buf

(* eop = 1: what was accumulated, the new data laid over it at fragoff. *)
Completed(i, f) ==
    [k \in 1..(IF f.off + Len(f.data) < Len(frags[i].buf)
               THEN Len(frags[i].buf) ELSE f.off + Len(f.data)) |->
        IF k > f.off /\ k <= f.off + Len(f.data) THEN f.data[k - f.off]
        ELSE IF k <= Len(frags[i].buf) THEN frags[i].buf[k]
        ELSE Zero]

(* Faulty variant: the slot's capacity is not checked. *)
AccumulateUnchecked(i, f) ==
    /\ ~f.eop
    /\ frags' = [frags EXCEPT ![i].buf = Prepended(i, f), ![i].age = 0]
    /\ UNCHANGED written

(* The fragment continues its slot.  A result that does not fit ends it. *)
Accumulate(i, f) ==
    /\ ~f.eop
    /\ frags' = IF Len(Prepended(i, f)) <= BufSize
                THEN [frags EXCEPT ![i].buf = Prepended(i, f), ![i].age = 0]
                ELSE FreeAt(i)
    /\ UNCHANGED written

Complete(i, f) ==
    /\ f.eop
    /\ frags' = FreeAt(i)
    /\ written' = IF Len(Completed(i, f)) <= ContentSize
                  THEN [id |-> f.id, data |-> Completed(i, f)]
                  ELSE written

(* No slot has its id (one that expired is freed first): the first slot    *)
(* that is free or expired takes it, whatever fragment it is.              *)
Available(f) == {i \in 1..Slots : ~frags[i].in_use \/ Expired(i)}

(* Faulty variant: the expired slot of the group is not freed. *)
AllocateFirst(f) ==
    /\ IF Available(f) = {}
       THEN UNCHANGED frags
       ELSE LET i == CHOOSE a \in Available(f) : \A b \in Available(f) : a <= b
            IN  frags' = [frags EXCEPT ![i] =
                    [in_use |-> TRUE, id |-> f.id, age |-> 0, buf |-> f.data]]
    /\ UNCHANGED written

Allocate(f) ==
    /\ IF Available(f) = {}
       THEN UNCHANGED frags
       ELSE LET i == CHOOSE a \in Available(f) : \A b \in Available(f) : a <= b
                freed == [j \in 1..Slots |-> IF j \in Matching(f)
                                             THEN [frags[j] EXCEPT !.in_use = FALSE]
                                             ELSE frags[j]]
            IN  frags' = [freed EXCEPT ![i] =
                    [in_use |-> TRUE, id |-> f.id, age |-> 0, buf |-> f.data]]
    /\ UNCHANGED written

handle_ipfrag(f) ==
    \/ \E i \in Current(f) : Accumulate(i, f) \/ Complete(i, f)
    \/ Current(f) = {} /\ Allocate(f)

-----------------------------------------------------------------------------
(* The n-th fragment of group g arrives. *)
Arrives(g, n) ==
    /\ Delivery[g] = "exact" => n = sent[g] + 1
    /\ Delivery[g] = "lossy" => n > sent[g]
    /\ sent' = IF Delivery[g] = "any" THEN sent ELSE [sent EXCEPT ![g] = n]
    /\ handle_ipfrag(Fragment(g, n))

(* A second passes; ages matter up to FRAG_TIMEOUT. *)
TimePasses ==
    /\ \E i \in 1..Slots : frags[i].in_use /\ ~Expired(i)
    /\ frags' = [i \in 1..Slots |->
                    IF frags[i].in_use /\ ~Expired(i)
                    THEN [frags[i] EXCEPT !.age = @ + 1] ELSE frags[i]]
    /\ UNCHANGED <<sent, written>>

(* client_reset frees the slots. *)
Reset ==
    /\ frags' = [i \in 1..Slots |-> [frags[i] EXCEPT !.in_use = FALSE]]
    /\ UNCHANGED <<sent, written>>

Next ==
    \/ \E g \in Groups : \E n \in 1..Len(Ends[g]) : Arrives(g, n)
    \/ TimePasses
    \/ Reset

Spec == Init /\ [][Next]_vars

-----------------------------------------------------------------------------
Slot ==
    [in_use : BOOLEAN, id : Groups \cup {Zero}, age : 0..FragTimeout, buf : Seq(Bytes)]

TypeOK ==
    /\ frags \in [1..Slots -> Slot]
    /\ \A i \in 1..Slots : Len(frags[i].buf) <= BufSize
    /\ sent \in [Groups -> Nat]
    /\ written \in [id : Groups \cup {Zero}, data : Seq(Bytes \cup {Zero})]
    /\ Len(written.data) <= ContentSize

(* A group never has two slots, so the first match of the search loop is   *)
(* the only one: also when a slot expired and another is taken in its      *)
(* place, and when the slots run out.                                      *)
SlotIdsUnique ==
    \A i, j \in 1..Slots :
        frags[i].in_use /\ frags[j].in_use /\ frags[i].id = frags[j].id => i = j

(* What reaches the TUN device is the packet the peer split up, if its     *)
(* fragments came in order, whatever other groups and time did to the      *)
(* slots.  (README.md lists "IP fragment reassembly" among the features.)  *)
WritesAreOriginal ==
    written.id # Zero /\ Delivery[written.id] # "any" =>
        written.data = Original(written.id)

(* A group has one slot and a slot collects bytes of its own group only,   *)
(* with several groups in flight and slots handed from one to the other.   *)
SlotsNotMixed ==
    /\ SlotIdsUnique
    /\ \A i \in 1..Slots : frags[i].in_use =>
          \A k \in 1..Len(frags[i].buf) : frags[i].buf[k][1] = frags[i].id
    /\ \A k \in 1..Len(written.data) :
          written.data[k] # Zero => written.data[k][1] = written.id
=============================================================================
