------------------------- MODULE SessionTableProofs -------------------------
(***************************************************************************)
(* Facts about the critical sections of SessionTable, for any users,       *)
(* remotes and identifiers: each of them keeps the two maps in agreement.  *)
(***************************************************************************)
EXTENDS SessionTable, TLAPS

(* A freshly built session is a session, whatever the OPEN asked for. *)
LEMMA NewSessionType ==
    ASSUME NEW r \in Remotes, NEW i \in Ids, NEW u \in Users, NEW e \in BOOLEAN
    PROVE  /\ NewSession(r, i, u, e) \in Session
           /\ NewSession(r, i, u, e).remote = r
           /\ NewSession(r, i, u, e).id = i
           /\ NewSession(r, i, u, e).user = u
  BY DEF NewSession, Session

(* Removal and installation return maps of the right type. *)
LEMMA RemoveType ==
    ASSUME NEW ss \in SessionMap, NEW ba \in AddressMap, NEW gone
    PROVE  /\ RemoveFromSessions(ss, gone) \in SessionMap
           /\ RemoveFromAddresses(ba, gone) \in AddressMap
  BY DEF SessionMap, AddressMap, RemoveFromSessions, RemoveFromAddresses

LEMMA InstallType ==
    ASSUME NEW ss \in SessionMap, NEW ba \in AddressMap, NEW s \in Session
    PROVE  /\ InstallInSessions(ss, s) \in SessionMap
           /\ InstallInAddresses(ss, ba, s) \in AddressMap
  <1>1. KeyOf(s) \in Keys /\ AddrOf(s) \in Addrs
    BY ConfigAssumption DEF KeyOf, Keys, AddrOf, Session
  <1>2. RemoveFromSessions(ss, Displaced(ss, s.remote, s.user)) \in SessionMap
    BY RemoveType
  <1>3. RemoveFromAddresses(ba, Displaced(ss, s.remote, s.user)) \in AddressMap
    BY RemoveType
  <1> QED
    BY <1>1, <1>2, <1>3 DEF InstallInSessions, InstallInAddresses,
                            SessionMap, AddressMap

(* Removing sessions that are stored keeps the maps in agreement. *)
LEMMA RemoveAgrees ==
    ASSUME NEW ss \in SessionMap, NEW ba \in AddressMap, Agree(ss, ba),
           NEW gone \in SUBSET Live(ss)
    PROVE  Agree(RemoveFromSessions(ss, gone), RemoveFromAddresses(ba, gone))
  <1> DEFINE ss2 == RemoveFromSessions(ss, gone)
             ba2 == RemoveFromAddresses(ba, gone)
  <1>1. \A s \in gone : s \in Session /\ ss[KeyOf(s)] = s /\ KeyOf(s) \in Keys
                        /\ AddrOf(s) \in Addrs
    BY ConfigAssumption DEF Live, Agree, SessionMap, KeyOf, AddrOf, Session, Keys
  <1>2. ASSUME NEW k \in Keys, ss2[k] # None
        PROVE  KeyOf(ss2[k]) = k /\ ba2[AddrOf(ss2[k])] = ss2[k]
    <2>1. ss2[k] = ss[k] /\ ss[k] # None /\ ss[k] \notin gone
      BY <1>1, <1>2 DEF RemoveFromSessions, Agree
    <2>2. ss[k] \in Session /\ AddrOf(ss[k]) \in Addrs
      BY <2>1, ConfigAssumption DEF SessionMap, Session, AddrOf
    <2>3. KeyOf(ss[k]) = k /\ ba[AddrOf(ss[k])] = ss[k]
      BY <2>1 DEF Agree
    <2>4. ba2[AddrOf(ss[k])] = ba[AddrOf(ss[k])]
      BY <2>1, <2>2, <2>3 DEF RemoveFromAddresses
    <2> QED BY <2>1, <2>3, <2>4
  <1>3. ASSUME NEW a \in Addrs, ba2[a] # None
        PROVE  AddrOf(ba2[a]) = a /\ ss2[KeyOf(ba2[a])] = ba2[a]
    <2>1. ba2[a] = ba[a] /\ ba[a] # None /\ ~(\E s \in gone : AddrOf(s) = a /\ ba[a] = s)
      BY <1>3 DEF RemoveFromAddresses
    <2>2. AddrOf(ba[a]) = a /\ ss[KeyOf(ba[a])] = ba[a] /\ ba[a] \in Session
      BY <2>1 DEF Agree, AddressMap
    <2>3. KeyOf(ba[a]) \in Keys
      BY <2>2 DEF KeyOf, Keys, Session
    <2>4. ba[a] \notin gone
      BY <2>1, <2>2
    <2>5. ~(\E s \in gone : KeyOf(s) = KeyOf(ba[a]))
      BY <1>1, <2>2, <2>4
    <2>6. ss2[KeyOf(ba[a])] = ss[KeyOf(ba[a])]
      BY <2>3, <2>5 DEF RemoveFromSessions
    <2> QED BY <2>1, <2>2, <2>6
  <1> QED BY <1>2, <1>3 DEF Agree

(* So does an accepted OPEN. *)
LEMMA InstallAgrees ==
    ASSUME NEW ss \in SessionMap, NEW ba \in AddressMap, Agree(ss, ba),
           NEW s \in Session
    PROVE  Agree(InstallInSessions(ss, s), InstallInAddresses(ss, ba, s))
  <1> DEFINE gone == Displaced(ss, s.remote, s.user)
             ss1 == RemoveFromSessions(ss, gone)
             ba1 == RemoveFromAddresses(ba, gone)
             ss2 == InstallInSessions(ss, s)
             ba2 == InstallInAddresses(ss, ba, s)
  <1>1. gone \in SUBSET Live(ss)
    BY DEF Displaced
  <1>2. Agree(ss1, ba1) /\ ss1 \in SessionMap /\ ba1 \in AddressMap
    BY <1>1, RemoveAgrees, RemoveType
  <1>3. KeyOf(s) \in Keys /\ AddrOf(s) \in Addrs /\ s # None
    BY ConfigAssumption DEF KeyOf, Keys, AddrOf, Session
  <1>4. ss2 = [ss1 EXCEPT ![KeyOf(s)] = s] /\ ba2 = [ba1 EXCEPT ![AddrOf(s)] = s]
    BY DEF InstallInSessions, InstallInAddresses
  <1>5. \A k \in Keys : ss1[k] # None => ss1[k] \in Session /\ AddrOf(ss1[k]) # AddrOf(s)
    <2> SUFFICES ASSUME NEW k \in Keys, ss1[k] # None
                 PROVE  ss1[k] \in Session /\ AddrOf(ss1[k]) # AddrOf(s)
      OBVIOUS
    <2>1. ss1[k] = ss[k] /\ ss[k] \in Live(ss) /\ ss[k] \in Session /\ KeyOf(ss[k]) = k
      BY DEF RemoveFromSessions, Live, SessionMap, Agree
    <2>2. ss[k] \notin gone
      BY <2>1 DEF RemoveFromSessions
    <2>3. ss[k].user # s.user
      BY <2>1, <2>2 DEF Displaced
    <2> QED BY <2>1, <2>3, ConfigAssumption DEF AddrOf, Session
  <1>6. ASSUME NEW k \in Keys, ss2[k] # None
        PROVE  KeyOf(ss2[k]) = k /\ ba2[AddrOf(ss2[k])] = ss2[k]
    <2>1. CASE k = KeyOf(s)
      BY <2>1, <1>2, <1>3, <1>4 DEF SessionMap, AddressMap
    <2>2. CASE k # KeyOf(s)
      <3>1. ss2[k] = ss1[k]
        BY <2>2, <1>2, <1>4 DEF SessionMap
      <3>2. KeyOf(ss1[k]) = k /\ ba1[AddrOf(ss1[k])] = ss1[k]
        BY <3>1, <1>6, <1>2 DEF Agree
      <3>3. AddrOf(ss1[k]) # AddrOf(s) /\ AddrOf(ss1[k]) \in Addrs
        BY <3>1, <1>5, <1>6, ConfigAssumption DEF AddrOf, Session
      <3> QED BY <3>1, <3>2, <3>3, <1>2, <1>4 DEF AddressMap
    <2> QED BY <2>1, <2>2
  <1>7. ASSUME NEW a \in Addrs, ba2[a] # None
        PROVE  AddrOf(ba2[a]) = a /\ ss2[KeyOf(ba2[a])] = ba2[a]
    <2>1. CASE a = AddrOf(s)
      BY <2>1, <1>2, <1>3, <1>4 DEF SessionMap, AddressMap
    <2>2. CASE a # AddrOf(s)
      <3>1. ba2[a] = ba1[a]
        BY <2>2, <1>2, <1>4 DEF AddressMap
      <3>2. AddrOf(ba1[a]) = a /\ ss1[KeyOf(ba1[a])] = ba1[a] /\ ba1[a] \in Session
        BY <3>1, <1>7, <1>2 DEF Agree, AddressMap
      <3>3. KeyOf(ba1[a]) \in Keys
        BY <3>2 DEF KeyOf, Keys, Session
      <3>4. KeyOf(ba1[a]) # KeyOf(s)
        <4>1. ss[KeyOf(ba1[a])] = ba1[a] /\ ba1[a] \in Live(ss)
          BY <3>2, <3>3, ConfigAssumption DEF RemoveFromSessions, Live
        <4>2. ba1[a] \notin gone
          BY <3>2, <3>3, ConfigAssumption DEF RemoveFromSessions
        <4>3. ba1[a].remote # s.remote
          BY <4>1, <4>2 DEF Displaced
        <4> QED BY <4>3 DEF KeyOf
      <3> QED BY <3>1, <3>2, <3>3, <3>4, <1>2, <1>4 DEF SessionMap
    <2> QED BY <2>1, <2>2
  <1> QED BY <1>6, <1>7 DEF Agree

(* Exclusiveness: a subset of exclusive sessions is exclusive, and the     *)
(* session an OPEN adds shares neither user nor remote with those it keeps.*)
LEMMA RemoveExclusive ==
    ASSUME NEW ss \in SessionMap, Exclusive(ss), NEW gone
    PROVE  Exclusive(RemoveFromSessions(ss, gone))
  <1>1. Live(RemoveFromSessions(ss, gone)) \subseteq Live(ss)
    BY DEF Live, RemoveFromSessions
  <1> QED BY <1>1 DEF Exclusive

LEMMA InstallExclusive ==
    ASSUME NEW ss \in SessionMap, NEW ba, Agree(ss, ba), Exclusive(ss),
           NEW s \in Session
    PROVE  Exclusive(InstallInSessions(ss, s))
  <1> DEFINE gone == Displaced(ss, s.remote, s.user)
             ss1 == RemoveFromSessions(ss, gone)
             ss2 == InstallInSessions(ss, s)
  <1>1. ss1 \in SessionMap
    BY DEF SessionMap, RemoveFromSessions
  <1>2. ss2 = [ss1 EXCEPT ![KeyOf(s)] = s]
    BY DEF InstallInSessions
  <1>3. \A t \in Live(ss2) : t = s \/ (t \in Live(ss1))
    BY <1>1, <1>2 DEF Live, SessionMap
  <1>4. \A t \in Live(ss1) : t \in Live(ss) /\ t.user # s.user /\ t.remote # s.remote
    <2> SUFFICES ASSUME NEW k \in Keys, ss1[k] # None
                 PROVE  ss1[k] \in Live(ss) /\ ss1[k].user # s.user
                                            /\ ss1[k].remote # s.remote
      BY DEF Live
    <2>1. ss1[k] = ss[k] /\ ss[k] \in Live(ss) /\ KeyOf(ss[k]) = k
      BY DEF RemoveFromSessions, Live, Agree
    <2>2. ss[k] \notin gone
      BY <2>1 DEF RemoveFromSessions
    <2> QED BY <2>1, <2>2 DEF Displaced
  <1> QED BY <1>3, <1>4 DEF Exclusive
=============================================================================
