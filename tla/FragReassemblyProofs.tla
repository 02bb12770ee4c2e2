------------------------ MODULE FragReassemblyProofs ------------------------
(***************************************************************************)
(* Theorems about FragReassembly for any number of slots, any buffer sizes *)
(* and any number of groups, however they are split and delivered: slots   *)
(* never overflow nor mix groups, and a packet in two fragments that come  *)
(* in order is written as it was.                                          *)
(***************************************************************************)
EXTENDS FragReassembly, SequenceTheorems, TLAPS

(* A function on 1..n is a sequence of length n. *)
LEMMA TableSeq ==
    ASSUME NEW n \in Nat, NEW S, NEW t \in [1..n -> S]
    PROVE  t \in Seq(S) /\ Len(t) = n
  <1>1. t \in Seq(S)
    BY SeqDef
  <1>2. Len(t) \in Nat /\ 1..n = 1..Len(t)
    BY <1>1, LenProperties
  <1> QED BY <1>1, <1>2

(* What a datagram carries: bytes of its own group, at most a slot full. *)
LEMMA FragmentFacts ==
    ASSUME NEW g \in Groups, NEW n \in 1..Len(Ends[g])
    PROVE  LET f == Fragment(g, n)
           IN  /\ f.id = g /\ f.off = FragOff(g, n) /\ f.off \in Nat
               /\ f.eop = (n = Len(Ends[g]))
               /\ f.data \in Seq(Bytes) /\ Len(f.data) = FragLen(g, n)
               /\ Len(f.data) \in 1..BufSize
               /\ \A k \in 1..Len(f.data) : f.data[k] = <<g, f.off + k>>
  <1> DEFINE f == Fragment(g, n)
             t == [k \in 1..FragLen(g, n) |-> Byte(g, FragOff(g, n) + k)]
  <1>1. Ends[g] \in Seq(Nat) /\ Len(Ends[g]) \in Nat
    BY FragAssumption, LenProperties
  <1>2. FragOff(g, n) \in Nat
    <2>1. CASE n = 1
      BY <2>1 DEF FragOff
    <2>2. CASE n # 1
      <3>1. n - 1 \in 1..Len(Ends[g])
        BY <1>1, <2>2
      <3> QED BY <1>1, <2>2, <3>1, ElementOfSeq DEF FragOff
    <2> QED BY <2>1, <2>2
  <1>3. FragLen(g, n) \in 1..BufSize
    BY FragAssumption
  <1>4. FragLen(g, n) \in Nat
    BY <1>3, FragAssumption
  <1>5. t \in [1..FragLen(g, n) -> Bytes]
    BY <1>2, <1>4 DEF Bytes, Byte
  <1>6. t \in Seq(Bytes) /\ Len(t) = FragLen(g, n)
    <2> HIDE DEF t
    <2> QED BY <1>4, <1>5, TableSeq
  <1>7. \A k \in 1..FragLen(g, n) : t[k] = <<g, FragOff(g, n) + k>>
    BY DEF Byte
  <1>8. f.id = g /\ f.off = FragOff(g, n) /\ f.eop = (n = Len(Ends[g])) /\ f.data = t
    BY DEF Fragment
  <1> HIDE DEF f, t
  <1> QED BY <1>2, <1>3, <1>6, <1>7, <1>8 DEF f

(* The datagrams handle_ipfrag can get, as far as a slot is concerned. *)
Datagram(f) ==
    /\ f.id \in Groups /\ f.off \in Nat
    /\ f.data \in Seq(Bytes) /\ Len(f.data) \in 1..BufSize
    /\ \A k \in 1..Len(f.data) : f.data[k][1] = f.id

LEMMA FragmentIsDatagram ==
    ASSUME NEW g \in Groups, NEW n \in 1..Len(Ends[g])
    PROVE  Datagram(Fragment(g, n))
  BY FragmentFacts DEF Datagram

-----------------------------------------------------------------------------
(* A slot holds no more than its buffer, and bytes of one group only. *)
GoodSlot(x) ==
    /\ Len(x.buf) <= BufSize
    /\ x.in_use => x.id \in Groups /\ \A k \in 1..Len(x.buf) : x.buf[k][1] = x.id

SlotsOK ==
    /\ frags \in [1..Slots -> Slot]
    /\ \A i \in 1..Slots : GoodSlot(frags[i])
    /\ SlotIdsUnique

WrittenOK ==
    /\ written \in [id : Groups \cup {Zero}, data : Seq(Bytes \cup {Zero})]
    /\ Len(written.data) <= ContentSize
    /\ \A k \in 1..Len(written.data) :
          written.data[k] # Zero => written.data[k][1] = written.id

(* The inductive invariant: the properties themselves, and that a slot in  *)
(* use has a group.                                                        *)
IInv == SlotsOK /\ WrittenOK /\ sent \in [Groups -> Nat]

(* Steps that free slots or let them grow older. *)
LEMMA NoSlotTaken ==
    ASSUME SlotsOK, frags' \in [1..Slots -> Slot],
           \A i \in 1..Slots : /\ frags'[i].id = frags[i].id
                               /\ frags'[i].buf = frags[i].buf
                               /\ frags'[i].in_use => frags[i].in_use
    PROVE  SlotsOK'
  <1>1. \A i \in 1..Slots : GoodSlot(frags'[i])
    BY DEF SlotsOK, GoodSlot
  <1>2. SlotIdsUnique'
    BY DEF SlotsOK, SlotIdsUnique
  <1> QED BY <1>1, <1>2 DEF SlotsOK, GoodSlot

LEMMA FreeAtFacts ==
    ASSUME SlotsOK, NEW i \in 1..Slots
    PROVE  /\ FreeAt(i) \in [1..Slots -> Slot]
           /\ \A j \in 1..Slots : /\ FreeAt(i)[j].id = frags[j].id
                                  /\ FreeAt(i)[j].buf = frags[j].buf
                                  /\ FreeAt(i)[j].in_use => frags[j].in_use
  BY DEF SlotsOK, FreeAt, Slot

(* The packet a last fragment completes, byte by byte. *)
LEMMA CompletedFacts ==
    ASSUME SlotsOK, NEW i \in 1..Slots, NEW f, Datagram(f)
    PROVE  LET b == frags[i].buf
               c == Completed(i, f)
               l == IF f.off + Len(f.data) < Len(b) THEN Len(b) ELSE f.off + Len(f.data)
           IN  /\ c \in Seq(Bytes \cup {Zero}) /\ Len(c) = l /\ l \in Nat
               /\ \A k \in 1..l :
                     c[k] = IF k > f.off /\ k <= f.off + Len(f.data) THEN f.data[k - f.off]
                            ELSE IF k <= Len(b) THEN b[k] ELSE Zero
  <1> DEFINE b == frags[i].buf
             l == IF f.off + Len(f.data) < Len(b) THEN Len(b) ELSE f.off + Len(f.data)
             v(k) == IF k > f.off /\ k <= f.off + Len(f.data) THEN f.data[k - f.off]
                     ELSE IF k <= Len(b) THEN b[k] ELSE Zero
             t == [k \in 1..l |-> v(k)]
  <1>1. b \in Seq(Bytes) /\ Len(b) \in Nat
    BY LenProperties DEF SlotsOK, Slot
  <1>2. f.data \in Seq(Bytes) /\ Len(f.data) \in Nat /\ f.off \in Nat
    BY LenProperties DEF Datagram
  <1>3. l \in Nat
    BY <1>1, <1>2
  <1>4. \A k \in 1..l : v(k) \in Bytes \cup {Zero}
    <2> SUFFICES ASSUME NEW k \in 1..l PROVE v(k) \in Bytes \cup {Zero}
      OBVIOUS
    <2>0. k \in Nat \ {0}
      BY <1>3
    <2>1. CASE k > f.off /\ k <= f.off + Len(f.data)
      <3>1. k - f.off \in 1..Len(f.data)
        BY <1>2, <2>0, <2>1
      <3> QED BY <1>2, <2>1, <3>1, ElementOfSeq
    <2>2. CASE ~(k > f.off /\ k <= f.off + Len(f.data)) /\ k <= Len(b)
      <3>1. k \in 1..Len(b)
        BY <1>1, <2>0, <2>2
      <3> QED BY <1>1, <2>2, <3>1, ElementOfSeq
    <2>3. CASE ~(k > f.off /\ k <= f.off + Len(f.data)) /\ ~(k <= Len(b))
      BY <2>3
    <2> QED BY <2>1, <2>2, <2>3
  <1>5. t \in [1..l -> Bytes \cup {Zero}] /\ \A k \in 1..l : t[k] = v(k)
    <2> HIDE DEF v, l
    <2> QED BY <1>4
  <1>6. t \in Seq(Bytes \cup {Zero}) /\ Len(t) = l
    <2> HIDE DEF t, l
    <2> QED BY <1>3, <1>5, TableSeq
  <1>7. Completed(i, f) = t
    BY DEF Completed
  <1> QED BY <1>3, <1>5, <1>6, <1>7

-----------------------------------------------------------------------------
LEMMA AccumulateStep ==
    ASSUME SlotsOK, NEW f, Datagram(f), NEW i \in Current(f), Accumulate(i, f)
    PROVE  /\ SlotsOK' /\ written' = written
           /\ \A j \in (1..Slots) \ {i} : frags'[j] = frags[j]
           /\ frags'[i].in_use => frags'[i].id = f.id
  <1> DEFINE b == frags[i].buf
             p == f.data \o b
  <1>1. i \in 1..Slots /\ frags[i].in_use /\ frags[i].id = f.id
    BY DEF Current, Matching
  <1>2. b \in Seq(Bytes) /\ f.data \in Seq(Bytes) /\ Len(b) \in Nat /\ Len(f.data) \in Nat
    BY <1>1, LenProperties DEF SlotsOK, Slot, Datagram
  <1>3. /\ p \in Seq(Bytes) /\ Len(p) = Len(f.data) + Len(b)
        /\ \A k \in 1..Len(p) : p[k] = IF k <= Len(f.data) THEN f.data[k]
                                      ELSE b[k - Len(f.data)]
    BY <1>2, ConcatProperties, ZenonT(40)
  <1>4. \A k \in 1..Len(p) : p[k][1] = f.id
    <2> SUFFICES ASSUME NEW k \in 1..Len(p) PROVE p[k][1] = f.id
      OBVIOUS
    <2>1. CASE k <= Len(f.data)
      <3>1. k \in 1..Len(f.data)
        BY <1>2, <1>3, <2>1
      <3> QED BY <1>3, <2>1, <3>1 DEF Datagram
    <2>2. CASE ~(k <= Len(f.data))
      <3>0. k \in 1..(Len(f.data) + Len(b))
        BY <1>3
      <3>1. k - Len(f.data) \in 1..Len(b)
        <4> HIDE DEF b, p
        <4> QED BY <1>2, <2>2, <3>0
      <3> QED BY <1>1, <1>3, <2>2, <3>1 DEF SlotsOK, GoodSlot
    <2> QED BY <2>1, <2>2
  <1>5. written' = written /\ Prepended(i, f) = p
    BY DEF Accumulate, Prepended
  <1>6. CASE Len(p) <= BufSize
    <2> DEFINE x == [frags[i] EXCEPT !.buf = p, !.age = 0]
    <2>1. frags' = [frags EXCEPT ![i] = x]
      BY <1>5, <1>6 DEF Accumulate
    <2>2. 0 \in 0..FragTimeout
      BY FragAssumption
    <2>3. frags[i] \in Slot
      BY <1>1 DEF SlotsOK
    <2> HIDE DEF p
    <2>4. x \in Slot /\ x.in_use = frags[i].in_use /\ x.id = frags[i].id /\ x.buf = p
      BY <1>3, <2>2, <2>3 DEF Slot
    <2> HIDE DEF x
    <2>5. frags'[i] = x /\ frags' \in [1..Slots -> Slot]
          /\ \A j \in (1..Slots) \ {i} : frags'[j] = frags[j]
      BY <1>1, <2>1, <2>4 DEF SlotsOK
    <2>6. GoodSlot(x)
      BY <1>1, <1>4, <1>6, <2>4 DEF GoodSlot, Datagram
    <2>7. \A j \in 1..Slots : GoodSlot(frags'[j])
      BY <2>5, <2>6 DEF SlotsOK
    <2>8. SlotIdsUnique'
      BY <1>1, <2>4, <2>5 DEF SlotsOK, SlotIdsUnique
    <2> QED BY <1>1, <1>5, <2>4, <2>5, <2>7, <2>8 DEF SlotsOK, GoodSlot
  <1>7. CASE ~(Len(p) <= BufSize)
    <2>1. frags' = FreeAt(i)
      BY <1>5, <1>7 DEF Accumulate
    <2>2. SlotsOK'
      BY <1>1, <2>1, FreeAtFacts, NoSlotTaken
    <2> QED BY <1>1, <1>5, <2>1, <2>2 DEF FreeAt, SlotsOK, Slot
  <1> QED BY <1>6, <1>7

LEMMA CompleteStep ==
    ASSUME SlotsOK, WrittenOK, NEW f, Datagram(f), NEW i \in Current(f), Complete(i, f)
    PROVE  SlotsOK' /\ WrittenOK'
  <1> DEFINE b == frags[i].buf
             c == Completed(i, f)
  <1>1. i \in 1..Slots /\ frags[i].in_use /\ frags[i].id = f.id
    BY DEF Current, Matching
  <1>2. SlotsOK'
    BY <1>1, FreeAtFacts, NoSlotTaken DEF Complete
  <1>3. CASE Len(c) <= ContentSize
    <2>1. written' = [id |-> f.id, data |-> c]
      BY <1>3 DEF Complete
    <2>2. Len(b) \in Nat /\ Len(f.data) \in Nat /\ f.off \in Nat
      BY <1>1, LenProperties DEF SlotsOK, Slot, Datagram
    <2>3. /\ c \in Seq(Bytes \cup {Zero}) /\ Len(c) \in Nat
          /\ \A k \in 1..Len(c) :
                c[k] = IF k > f.off /\ k <= f.off + Len(f.data) THEN f.data[k - f.off]
                       ELSE IF k <= Len(b) THEN b[k] ELSE Zero
      BY <1>1, CompletedFacts
    <2> HIDE DEF c
    <2>4. \A k \in 1..Len(c) : c[k] # Zero => c[k][1] = f.id
      <3> SUFFICES ASSUME NEW k \in 1..Len(c), c[k] # Zero PROVE c[k][1] = f.id
        OBVIOUS
      <3>1. CASE k > f.off /\ k <= f.off + Len(f.data)
        <4>1. k - f.off \in 1..Len(f.data)
          BY <2>2, <2>3, <3>1
        <4> QED BY <2>3, <3>1, <4>1 DEF Datagram
      <3>2. CASE ~(k > f.off /\ k <= f.off + Len(f.data))
        <4>1. k <= Len(b) /\ c[k] = b[k]
          BY <2>3, <3>2
        <4>2. k \in 1..Len(b)
          BY <2>2, <2>3, <4>1
        <4> QED BY <1>1, <4>1, <4>2 DEF SlotsOK, GoodSlot
      <3> QED BY <3>1, <3>2
    <2>5. written'.id = f.id /\ written'.data = c
          /\ written' \in [id : Groups \cup {Zero}, data : Seq(Bytes \cup {Zero})]
      BY <2>1, <2>3 DEF Datagram
    <2> QED BY <1>2, <1>3, <2>4, <2>5 DEF WrittenOK
  <1>4. CASE ~(Len(c) <= ContentSize)
    BY <1>2, <1>4 DEF Complete, WrittenOK
  <1> QED BY <1>3, <1>4

(* The slot handle_ipfrag takes: any that is free or expired will do. *)
LEMMA AllocateStep ==
    ASSUME SlotsOK, NEW f, Datagram(f), Current(f) = {}, Allocate(f)
    PROVE  /\ SlotsOK' /\ written' = written
           /\ \A j \in 1..Slots : frags'[j].in_use =>
                 \/ frags'[j].id = f.id /\ frags'[j].buf = f.data
                 \/ frags'[j] = frags[j] /\ frags[j].id # f.id
  <1>1. CASE Available(f) = {}
    <2>1. frags' = frags /\ written' = written
      BY <1>1 DEF Allocate
    <2>2. \A j \in 1..Slots : frags[j].in_use /\ ~Expired(j)
      BY <1>1 DEF Available
    <2>3. \A j \in 1..Slots : frags[j].id # f.id
      BY <2>2 DEF Current, Matching
    <2> QED BY <2>1, <2>3 DEF SlotsOK, SlotIdsUnique, GoodSlot
  <1>2. CASE Available(f) # {}
    <2> DEFINE i == CHOOSE a \in Available(f) : \A b \in Available(f) : a <= b
               freed == [j \in 1..Slots |-> IF j \in Matching(f)
                                            THEN [frags[j] EXCEPT !.in_use = FALSE]
                                            ELSE frags[j]]
               x == [in_use |-> TRUE, id |-> f.id, age |-> 0, buf |-> f.data]
    <2>1. frags' = [freed EXCEPT ![i] = x] /\ written' = written
      BY <1>2 DEF Allocate
    <2>2. /\ freed \in [1..Slots -> Slot]
          /\ \A j \in 1..Slots : /\ freed[j].id = frags[j].id
                                 /\ freed[j].buf = frags[j].buf
                                 /\ freed[j].in_use => /\ freed[j] = frags[j]
                                                       /\ frags[j].id # f.id
      BY DEF SlotsOK, Slot, Matching
    <2>3. x \in Slot /\ x.id = f.id /\ x.buf = f.data
      BY FragAssumption DEF Slot, Datagram
    <2>4. GoodSlot(x)
      BY <2>3 DEF Datagram, GoodSlot
    <2> HIDE DEF i, freed, x
    <2>5. /\ frags' \in [1..Slots -> Slot]
          /\ \A j \in 1..Slots : frags'[j] = x \/ (j # i /\ frags'[j] = freed[j])
      BY <2>1, <2>2, <2>3
    <2>6. \A j \in 1..Slots : GoodSlot(freed[j])
      BY <2>2 DEF SlotsOK, GoodSlot
    <2>7. \A j \in 1..Slots : GoodSlot(frags'[j])
      BY <2>4, <2>5, <2>6
    <2>8. \A j \in 1..Slots : frags'[j].in_use =>
             \/ j = i /\ frags'[j].id = f.id /\ frags'[j].buf = f.data
             \/ frags'[j] = frags[j] /\ frags[j].id # f.id
      <3>1. \A j \in 1..Slots : frags'[j] = IF j = i THEN x ELSE freed[j]
        BY <2>1, <2>2
      <3> QED BY <2>2, <2>3, <3>1
    <2>9. SlotIdsUnique'
      BY <2>8 DEF SlotsOK, SlotIdsUnique
    <2> QED BY <2>1, <2>5, <2>7, <2>8, <2>9 DEF SlotsOK, GoodSlot
  <1> QED BY <1>1, <1>2

LEMMA HandlerStep ==
    ASSUME SlotsOK, WrittenOK, NEW f, Datagram(f), handle_ipfrag(f)
    PROVE  SlotsOK' /\ WrittenOK'
  <1>1. ASSUME NEW i \in Current(f), Accumulate(i, f)
        PROVE  SlotsOK' /\ WrittenOK'
    BY <1>1, AccumulateStep DEF WrittenOK
  <1>2. ASSUME Current(f) = {}, Allocate(f)
        PROVE  SlotsOK' /\ WrittenOK'
    BY <1>2, AllocateStep DEF WrittenOK
  <1> QED BY <1>1, <1>2, CompleteStep DEF handle_ipfrag

LEMMA InitIInv == Init => IInv
  <1> SUFFICES ASSUME Init PROVE IInv
    OBVIOUS
  <1>1. <<>> \in Seq(Bytes) /\ <<>> \in Seq(Bytes \cup {Zero}) /\ Len(<<>>) = 0
    BY EmptySeq
  <1>2. FreeSlot \in Slot /\ FreeSlot.in_use = FALSE /\ FreeSlot.buf = <<>>
    BY <1>1, FragAssumption DEF FreeSlot, Slot
  <1>3. frags \in [1..Slots -> Slot] /\ \A i \in 1..Slots : frags[i] = FreeSlot
    BY <1>2 DEF Init
  <1>4. \A i \in 1..Slots : GoodSlot(frags[i])
    BY <1>1, <1>2, <1>3, FragAssumption DEF GoodSlot
  <1>5. SlotsOK
    BY <1>2, <1>3, <1>4 DEF SlotsOK, SlotIdsUnique
  <1>6. WrittenOK
    BY <1>1, FragAssumption DEF Init, WrittenOK
  <1>7. sent \in [Groups -> Nat]
    BY DEF Init
  <1> QED BY <1>5, <1>6, <1>7 DEF IInv

LEMMA NextIInv == IInv /\ [Next]_vars => IInv'
  <1> SUFFICES ASSUME IInv, [Next]_vars PROVE IInv'
    OBVIOUS
  <1>0. SlotsOK /\ WrittenOK /\ sent \in [Groups -> Nat]
    BY DEF IInv
  <1>1. ASSUME NEW g \in Groups, NEW n \in 1..Len(Ends[g]), Arrives(g, n)
        PROVE  IInv'
    <2>1. SlotsOK' /\ WrittenOK'
      BY <1>0, <1>1, FragmentIsDatagram, HandlerStep DEF Arrives
    <2>2. n \in Nat
      BY <1>1, FragAssumption, LenProperties
    <2>3. sent' \in [Groups -> Nat]
      BY <1>0, <1>1, <2>2 DEF Arrives
    <2> QED BY <2>1, <2>3 DEF IInv
  <1>2. CASE TimePasses
    <2>1. \A i \in 1..Slots : frags[i] \in Slot
      BY <1>0 DEF SlotsOK
    <2>2. \A i \in 1..Slots : ~Expired(i) => frags[i].age + 1 \in 0..FragTimeout
      BY <2>1, FragAssumption DEF Expired, Slot
    <2>3. /\ frags' \in [1..Slots -> Slot]
          /\ \A i \in 1..Slots : /\ frags'[i].id = frags[i].id
                                 /\ frags'[i].buf = frags[i].buf
                                 /\ frags'[i].in_use => frags[i].in_use
      BY <1>2, <2>1, <2>2 DEF TimePasses, Slot
    <2> QED BY <1>0, <1>2, <2>3, NoSlotTaken DEF TimePasses, IInv, WrittenOK
  <1>3. CASE Reset
    <2>1. /\ frags' \in [1..Slots -> Slot]
          /\ \A i \in 1..Slots : /\ frags'[i].id = frags[i].id
                                 /\ frags'[i].buf = frags[i].buf
                                 /\ frags'[i].in_use => frags[i].in_use
      BY <1>0, <1>3 DEF SlotsOK, Slot, Reset
    <2> QED BY <1>0, <1>3, <2>1, NoSlotTaken DEF Reset, IInv, WrittenOK
  <1>4. CASE UNCHANGED vars
    BY <1>0, <1>4 DEF vars, IInv, WrittenOK, SlotsOK, SlotIdsUnique, GoodSlot
  <1> QED BY <1>1, <1>2, <1>3, <1>4 DEF Next

LEMMA Inductive == Spec => []IInv
  BY InitIInv, NextIInv, PTL DEF Spec

(* No slot and no written packet outgrows its buffer, whatever lengths,    *)
(* offsets and repetitions the fragments come with.                        *)
THEOREM TypeCorrect == Spec => []TypeOK
  <1>1. IInv => TypeOK
    BY DEF IInv, SlotsOK, WrittenOK, GoodSlot, TypeOK
  <1> QED BY <1>1, Inductive, PTL

(* A group has one slot at most, and neither a slot nor a packet written   *)
(* to the TUN device mixes bytes of two groups, though slots expire, run   *)
(* out and are handed from one group to the next.                          *)
THEOREM GroupsNeverMixed == Spec => []SlotsNotMixed
  <1>1. IInv => SlotsNotMixed
    BY DEF IInv, SlotsOK, WrittenOK, GoodSlot, SlotsNotMixed
  <1> QED BY <1>1, Inductive, PTL

-----------------------------------------------------------------------------
(* Packets whose fragments keep their order are split in two at most: what *)
(* the algorithm can put together.  (Of three it makes second, first,      *)
(* third: run frag_triples.)                                               *)
TwoAtMost == \A g \in Groups : Delivery[g] # "any" => Len(Ends[g]) <= 2

(* A slot of such a group, after its first fragment and before its second, *)
(* holds the first fragment.                                               *)
HoldsFirst(x) ==
    x.in_use /\ Delivery[x.id] # "any" =>
        sent[x.id] >= 1 /\ (sent[x.id] = 1 => x.buf = Fragment(x.id, 1).data)

InOrder == \A i \in 1..Slots : HoldsFirst(frags[i])

OInv == IInv /\ InOrder /\ WritesAreOriginal

(* Every slot in use after a fragment is of its group or as it was. *)
LEMMA OthersKept ==
    ASSUME SlotsOK, NEW f, Datagram(f), handle_ipfrag(f), NEW j \in 1..Slots,
           frags'[j].in_use, frags'[j].id # f.id
    PROVE  frags[j].in_use /\ frags'[j].id = frags[j].id /\ frags'[j].buf = frags[j].buf
  <1>1. ASSUME NEW i \in Current(f), Accumulate(i, f)
        PROVE  frags'[j] = frags[j]
    BY <1>1, AccumulateStep DEF Current, Matching
  <1>2. ASSUME NEW i \in Current(f), Complete(i, f)
        PROVE  frags[j].in_use /\ frags'[j].id = frags[j].id /\ frags'[j].buf = frags[j].buf
    BY <1>2, FreeAtFacts DEF Complete, Current, Matching
  <1>3. ASSUME Current(f) = {}, Allocate(f)
        PROVE  frags'[j] = frags[j]
    BY <1>3, AllocateStep
  <1> QED BY <1>1, <1>2, <1>3 DEF handle_ipfrag

(* The second of two fragments laid over the first is the packet. *)
LEMMA TwoMakeOriginal ==
    ASSUME SlotsOK, NEW g \in Groups, Len(Ends[g]) = 2, NEW i \in 1..Slots,
           frags[i].buf = Fragment(g, 1).data
    PROVE  Completed(i, Fragment(g, 2)) = Original(g)
  <1> DEFINE f == Fragment(g, 2)
             b == frags[i].buf
             c == Completed(i, f)
             o == Original(g)
             l == Ends[g][2]
  <1>1. 1 \in 1..Len(Ends[g]) /\ 2 \in 1..Len(Ends[g])
    OBVIOUS
  <1>2. Ends[g][1] \in Nat /\ Ends[g][2] \in Nat
    BY <1>1, FragAssumption, ElementOfSeq
  <1>3. FragOff(g, 1) = 0 /\ FragLen(g, 1) = Ends[g][1]
        /\ FragOff(g, 2) = Ends[g][1] /\ FragLen(g, 2) = Ends[g][2] - Ends[g][1]
    BY <1>2 DEF FragOff, FragLen
  <1>4. Len(b) = Ends[g][1] /\ \A k \in 1..Len(b) : b[k] = <<g, k>>
    <2>1. /\ Len(b) = Ends[g][1]
          /\ \A k \in 1..Len(b) : b[k] = <<g, FragOff(g, 1) + k>>
      BY <1>1, <1>3, FragmentFacts
    <2> QED BY <1>2, <1>3, <2>1
  <1>5. /\ f.off = Ends[g][1] /\ Len(f.data) = Ends[g][2] - Ends[g][1]
        /\ Len(f.data) \in Nat
        /\ \A k \in 1..Len(f.data) : f.data[k] = <<g, Ends[g][1] + k>>
    <2>1. Len(f.data) \in Nat
      BY <1>1, FragmentFacts, LenProperties
    <2> QED BY <1>1, <1>3, <2>1, FragmentFacts
  <1>6. f.off + Len(f.data) = l /\ ~(l < Len(b))
    BY <1>2, <1>4, <1>5
  <1>7. /\ c \in Seq(Bytes \cup {Zero}) /\ Len(c) = l
        /\ \A k \in 1..l :
              c[k] = IF k > f.off /\ k <= f.off + Len(f.data) THEN f.data[k - f.off]
                     ELSE IF k <= Len(b) THEN b[k] ELSE Zero
    BY <1>1, <1>6, FragmentIsDatagram, CompletedFacts
  <1>8. o \in [1..l -> Bytes] /\ \A k \in 1..l : o[k] = <<g, k>>
    BY <1>2 DEF Original, Byte, Bytes
  <1>9. \A k \in 1..l : c[k] = <<g, k>>
    <2> SUFFICES ASSUME NEW k \in 1..l PROVE c[k] = <<g, k>>
      OBVIOUS
    <2> HIDE DEF f, b, c
    <2>0. k \in Nat \ {0} /\ k <= l
      BY <1>2
    <2>1. CASE k > f.off
      <3>1. k - f.off \in 1..Len(f.data) /\ k <= f.off + Len(f.data)
            /\ Ends[g][1] + (k - f.off) = k
        BY <1>2, <1>5, <1>6, <2>0, <2>1, SMTT(30)
      <3>2. c[k] = f.data[k - f.off]
        BY <1>7, <2>1, <3>1
      <3> QED BY <1>5, <3>1, <3>2
    <2>2. CASE ~(k > f.off)
      <3>1. k \in 1..Len(b) /\ k <= Len(b)
        BY <1>2, <1>4, <1>5, <2>0, <2>2
      <3>2. c[k] = b[k]
        BY <1>7, <2>2, <3>1
      <3> QED BY <1>4, <3>1, <3>2
    <2> QED BY <2>1, <2>2
  <1>10. c \in [1..l -> Bytes \cup {Zero}]
    BY <1>7, LenProperties
  <1> HIDE DEF c, o, l
  <1>11. c = o
    <2>1. \A k \in 1..l : c[k] = o[k]
      BY <1>8, <1>9
    <2>2. c = [k \in 1..l |-> c[k]] /\ o = [k \in 1..l |-> o[k]]
      BY <1>8, <1>10
    <2> QED BY <2>1, <2>2, Zenon
  <1> QED BY <1>11 DEF c, o, f

LEMMA ArrivesInOrder ==
    ASSUME TwoAtMost, OInv, NEW g \in Groups, NEW n \in 1..Len(Ends[g]), Arrives(g, n)
    PROVE  InOrder' /\ WritesAreOriginal'
  <1> DEFINE f == Fragment(g, n)
  <1>1. /\ SlotsOK /\ sent \in [Groups -> Nat] /\ InOrder /\ WritesAreOriginal
        /\ Datagram(f) /\ handle_ipfrag(f) /\ f.id = g
        /\ f.eop = (n = Len(Ends[g]))
    BY FragmentIsDatagram, FragmentFacts DEF OInv, IInv, Arrives
  <1>2. Len(Ends[g]) \in Nat /\ n \in Nat /\ n >= 1 /\ n <= Len(Ends[g])
    BY FragAssumption, LenProperties
  <1>3. \A h \in Groups : h # g => sent'[h] = sent[h]
    BY <1>1 DEF Arrives
  <1>4. \A j \in 1..Slots : frags'[j].in_use => frags'[j].id \in Groups
    <2>1. SlotsOK'
      BY <1>1, HandlerStep DEF OInv, IInv
    <2> QED BY <2>1 DEF SlotsOK, GoodSlot
  <1> HIDE DEF f
  <1>5. ASSUME NEW j \in 1..Slots, frags'[j].in_use, frags'[j].id # g
        PROVE  HoldsFirst(frags[j])'
    <2>1. frags[j].in_use /\ frags'[j].id = frags[j].id /\ frags'[j].buf = frags[j].buf
      BY <1>1, <1>5, OthersKept
    <2>2. sent'[frags'[j].id] = sent[frags[j].id]
      BY <1>3, <1>4, <1>5, <2>1
    <2> QED BY <1>1, <2>1, <2>2 DEF InOrder, HoldsFirst
  <1>6. CASE Delivery[g] = "any"
    <2>1. InOrder'
      BY <1>5, <1>6 DEF InOrder, HoldsFirst
    <2>2. written' = written \/ written'.id = g
      <3>1. ASSUME NEW i \in Current(f), Accumulate(i, f) PROVE written' = written
        BY <3>1 DEF Accumulate
      <3>2. ASSUME NEW i \in Current(f), Complete(i, f)
            PROVE  written' = written \/ written'.id = g
        BY <1>1, <3>2 DEF Complete
      <3>3. ASSUME Allocate(f) PROVE written' = written
        BY <3>3 DEF Allocate
      <3> QED BY <1>1, <3>1, <3>2, <3>3 DEF handle_ipfrag
    <2>3. WritesAreOriginal'
      BY <1>1, <1>6, <2>2 DEF WritesAreOriginal
    <2> QED BY <2>1, <2>3
  <1>7. CASE Delivery[g] # "any"
    <2>1. Len(Ends[g]) <= 2
      BY <1>7 DEF TwoAtMost
    <2>2. n > sent[g] /\ sent'[g] = n /\ sent[g] \in Nat
      <3>1. Delivery[g] \in {"exact", "lossy"}
        BY <1>7, FragAssumption
      <3>2. sent[g] \in Nat
        BY <1>1
      <3>3. n > sent[g]
        BY <1>2, <3>1, <3>2 DEF Arrives
      <3> QED BY <1>1, <1>7, <3>2, <3>3 DEF Arrives
    <2>3. CASE n = 1
      <3>1. \A i \in 1..Slots : ~(frags[i].in_use /\ frags[i].id = g)
        BY <1>1, <1>7, <2>2, <2>3 DEF InOrder, HoldsFirst
      <3>2. Current(f) = {}
        BY <1>1, <3>1 DEF Current, Matching
      <3>3. Allocate(f)
        BY <1>1, <3>2 DEF handle_ipfrag
      <3>4. ASSUME NEW j \in 1..Slots, frags'[j].in_use, frags'[j].id = g
            PROVE  frags'[j].buf = Fragment(g, 1).data
        <4>1. frags'[j].buf = f.data \/ (frags'[j] = frags[j] /\ frags[j].id # f.id)
          BY <1>1, <3>2, <3>3, <3>4, AllocateStep
        <4> QED BY <1>1, <2>3, <3>4, <4>1 DEF f
      <3>5. InOrder'
        BY <1>5, <2>2, <2>3, <3>4 DEF InOrder, HoldsFirst
      <3>6. written' = written
        BY <3>3 DEF Allocate
      <3> QED BY <1>1, <3>5, <3>6 DEF WritesAreOriginal
    <2>4. CASE n # 1
      <3>1. n = 2 /\ Len(Ends[g]) = 2
        <4> DEFINE l == Len(Ends[g])
        <4>1. l \in Nat /\ n \in Nat /\ n >= 1 /\ n <= l /\ l <= 2
          BY <1>2, <2>1
        <4> HIDE DEF l
        <4>2. n = 2 /\ l = 2
          BY <2>4, <4>1
        <4> QED BY <4>2 DEF l
      <3>2. InOrder'
        BY <1>5, <2>2, <3>1 DEF InOrder, HoldsFirst
      <3>3. f.eop
        BY <1>1, <3>1
      <3>4. ASSUME NEW i \in Current(f), Complete(i, f)
            PROVE  WritesAreOriginal'
        <4>1. i \in 1..Slots /\ frags[i].in_use /\ frags[i].id = g
          BY <1>1, <3>4 DEF Current, Matching
        <4>2. sent[g] = 1
          BY <1>1, <1>7, <2>2, <3>1, <4>1 DEF InOrder, HoldsFirst
        <4>3. frags[i].buf = Fragment(g, 1).data
          BY <1>1, <1>7, <4>1, <4>2 DEF InOrder, HoldsFirst
        <4>4. Completed(i, f) = Original(g)
          BY <1>1, <3>1, <4>1, <4>3, TwoMakeOriginal DEF f
        <4>5. written' = written \/ written' = [id |-> g, data |-> Original(g)]
          BY <1>1, <3>4, <4>4 DEF Complete
        <4> QED BY <1>1, <4>5 DEF WritesAreOriginal
      <3>5. ASSUME Allocate(f) PROVE WritesAreOriginal'
        BY <1>1, <3>5 DEF Allocate, WritesAreOriginal
      <3>6. ASSUME NEW i \in Current(f) PROVE ~Accumulate(i, f)
        BY <3>3 DEF Accumulate
      <3> QED BY <1>1, <3>2, <3>4, <3>5, <3>6 DEF handle_ipfrag
    <2> QED BY <2>3, <2>4
  <1> QED BY <1>6, <1>7

LEMMA NextOInv ==
    ASSUME TwoAtMost, OInv, [Next]_vars
    PROVE  OInv'
  <1>1. IInv' /\ IInv /\ SlotsOK
    BY NextIInv DEF OInv, IInv
  <1>2. CASE \E g \in Groups : \E n \in 1..Len(Ends[g]) : Arrives(g, n)
    BY <1>1, <1>2, ArrivesInOrder DEF OInv
  <1>3. CASE TimePasses \/ Reset \/ UNCHANGED vars
    <2>1. sent' = sent /\ written' = written
      BY <1>3 DEF TimePasses, Reset, vars
    <2>2. \A i \in 1..Slots : /\ frags'[i].id = frags[i].id
                              /\ frags'[i].buf = frags[i].buf
                              /\ frags'[i].in_use => frags[i].in_use
      BY <1>1, <1>3, ZenonT(40) DEF TimePasses, Reset, vars, SlotsOK, Slot
    <2>3. InOrder'
      BY <2>1, <2>2 DEF OInv, InOrder, HoldsFirst
    <2> QED BY <1>1, <2>1, <2>3 DEF OInv, WritesAreOriginal
  <1> QED BY <1>2, <1>3 DEF Next

(* If packets are split in two at most, what is written to the TUN device  *)
(* of a group whose fragments came in order is the packet the peer split:  *)
(* never half of it, twice a half or a mixture, whatever was lost, expired *)
(* or reset in between.                                                    *)
THEOREM TwoFragmentsRight == TwoAtMost => (Spec => []WritesAreOriginal)
  <1> SUFFICES ASSUME TwoAtMost PROVE Spec => []WritesAreOriginal
    OBVIOUS
  <1>1. Init => OInv
    <2> SUFFICES ASSUME Init PROVE OInv
      OBVIOUS
    <2>1. InOrder
      BY DEF Init, InOrder, HoldsFirst, FreeSlot
    <2> QED BY <2>1, InitIInv DEF Init, OInv, WritesAreOriginal
  <1>2. OInv /\ [Next]_vars => OInv'
    BY NextOInv
  <1>3. OInv => WritesAreOriginal
    BY DEF OInv
  <1> QED BY <1>1, <1>2, <1>3, PTL DEF Spec
=============================================================================
