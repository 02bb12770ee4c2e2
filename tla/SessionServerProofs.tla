------------------------ MODULE SessionServerProofs ------------------------
(***************************************************************************)
(* Theorems about SessionServer for any users, remotes, identifiers and    *)
(* addresses, with or without an exit device: the type invariant, the      *)
(* agreement of the two maps, one session per user and per remote, that    *)
(* the server implements SessionDirectory, and that what a goroutine       *)
(* decided under the lock is still right when it writes.                   *)
(***************************************************************************)
EXTENDS SessionServer, SessionTableProofs

(* Maps that agree stay in agreement because both change in one step; that *)
(* a remote carries one session only needs the agreement (a stored session *)
(* is found under its own key), so the two are proved together.            *)
TableInv == IndexesAgree /\ OneSessionEach

(* What changes the maps: the critical section of handleOpen, that of      *)
(* handleClose, or nothing.                                                *)
Installs(s) ==
    /\ sessions' = InstallInSessions(sessions, s)
    /\ byAddress' = InstallInAddresses(sessions, byAddress, s)

Removes(s) ==
    /\ sessions' = RemoveFromSessions(sessions, {s})
    /\ byAddress' = RemoveFromAddresses(byAddress, {s})

TableStep ==
    \/ \E s \in Session : Installs(s)
    \/ \E s \in Live(sessions) : Removes(s)
    \/ UNCHANGED tables

LEMMA DataPacketType ==
    ASSUME NEW s \in Session, NEW p \in Payload
    PROVE  DataPacket(s, p) \in DataPackets
  <1>1. xorData(s.user, p) \in Payload
    BY DEF xorData, Payload, Session
  <1> QED BY <1>1 DEF DataPacket, DataPackets, Session

LEMMA PlainType ==
    ASSUME TypeOK, NEW r \in Remotes, NEW i \in Ids, NEW p \in Payload,
           sessions[<<r, i>>] # None
    PROVE  sessions[<<r, i>>] \in Session /\ Plain(r, i, p) \in Payload
  <1>1. sessions[<<r, i>>] \in Session
    BY DEF TypeOK, SessionMap, Keys
  <1>2. xorData(sessions[<<r, i>>].user, p) \in Payload
    BY <1>1 DEF xorData, Payload, Session
  <1> QED BY <1>1, <1>2 DEF Plain

(* Every step leaves the maps alone or runs one critical section on them. *)
LEMMA NextIsTableStep ==
    ASSUME TypeOK, [Next]_vars
    PROVE  TableStep
  <1>1. ASSUME NEW r \in Remotes, NEW req \in OpenRequest, handleOpenAccepted(r, req)
        PROVE  \E s \in Session : Installs(s)
    <2> PICK i \in Ids : LET s == NewSession(r, i, req.user, req.encrypt)
                         IN  /\ sessions' = InstallInSessions(sessions, s)
                             /\ byAddress' = InstallInAddresses(sessions, byAddress, s)
      BY <1>1 DEF handleOpenAccepted
    <2>1. req.user \in Users /\ req.encrypt \in BOOLEAN
      BY <1>1 DEF handleOpenAccepted, Accepts, OpenRequest
    <2>2. NewSession(r, i, req.user, req.encrypt) \in Session
      BY <2>1, NewSessionType
    <2> QED BY <2>2 DEF Installs
  <1>2. ASSUME NEW r \in Remotes, NEW i \in Ids, NEW b \in BOOLEAN, handleClose(r, i, b)
        PROVE  \E s \in Live(sessions) : Removes(s)
    <2>1. sessions[<<r, i>>] \in Live(sessions)
      BY <1>2 DEF handleClose, Live, Keys
    <2> QED BY <1>2, <2>1 DEF handleClose, Removes
  <1>3. CASE UNCHANGED vars
    BY <1>3 DEF TableStep, vars
  <1>4. ASSUME NEW remote \in Remotes, handlePacket(remote)
        PROVE  TableStep
    <2>1. ASSUME NEW req \in OpenRequest,
                 handleOpenAccepted(remote, req) \/ handleOpenRejected(remote, req)
          PROVE  TableStep
      BY <1>1, <2>1 DEF TableStep, handleOpenRejected
    <2>2. ASSUME NEW id \in Ids, NEW signed \in BOOLEAN,
                 handleEchoReq(remote, id, signed) \/ handleClose(remote, id, signed)
          PROVE  TableStep
      BY <1>2, <2>2 DEF TableStep, handleEchoReq
    <2>3. ASSUME NEW id \in Ids, NEW encrypted \in BOOLEAN, NEW p \in Payload,
                 \/ handleDataForward(remote, id, encrypted, p)
                 \/ handleDataExit(remote, id, encrypted, p)
                 \/ handleDataEcho(remote, id, encrypted, p)
          PROVE  TableStep
      BY <2>3 DEF TableStep, handleDataForward, handleDataExit, handleDataEcho
    <2> QED BY <1>4, <2>1, <2>2, <2>3 DEF handlePacket
  <1>5. CASE \/ MainWrite \/ MainReadClosed \/ MainReadError
             \/ \E p \in Payload : handleExitPacket(p)
             \/ ExitWrite \/ ExitReadError \/ Cancel \/ CloseConn \/ CloseExit
    BY <1>5 DEF TableStep, MainWrite, MainReadClosed, MainReadError, ServeReturns,
        handleExitPacket, ExitWrite, ExitReadError, Cancel, CloseConn, CloseExit
  <1> QED BY <1>3, <1>4, <1>5 DEF Next

LEMMA TableStepType ==
    ASSUME sessions \in SessionMap, byAddress \in AddressMap, TableStep
    PROVE  sessions' \in SessionMap /\ byAddress' \in AddressMap
  BY InstallType, RemoveType, ZenonT(40) DEF TableStep, Installs, Removes, tables

(* What the goroutines are about to write has its type. *)
Replies == Rejections \cup Acks \cup EchoResps \cup DataPackets
              \cup DeviceWrites \cup {None}

WritesOK ==
    /\ mainPc \in {"read", "write", "returned"}
    /\ reply \in Replies
    /\ exitPc \in {"off", "read", "write", "returned"}
    /\ exitReply \in DataPackets \cup {None}
    /\ ctxDone \in BOOLEAN
    /\ connOpen \in BOOLEAN
    /\ exitOpen \in BOOLEAN
    /\ exitEnabled \in BOOLEAN
    /\ strictSource \in BOOLEAN

LEMMA WritesType ==
    ASSUME TypeOK, [Next]_vars
    PROVE  WritesOK'
  <1> USE DEF TypeOK, WritesOK, Replies
  <1>0. ASSUME NEW r \in Replies, WillWrite(r)
        PROVE  WritesOK'
    BY <1>0 DEF WillWrite, exit, life, config
  <1>1. ASSUME NEW remote \in Remotes, NEW req \in OpenRequest,
               handleOpenAccepted(remote, req)
        PROVE  WritesOK'
    <2> PICK i \in Ids :
          WillWrite(OpenAck(NewSession(remote, i, req.user, req.encrypt),
                            EffectiveMTU(req.mtu)))
      BY <1>1 DEF handleOpenAccepted
    <2> DEFINE s == NewSession(remote, i, req.user, req.encrypt)
    <2>1. req.user \in Users /\ req.encrypt \in BOOLEAN /\ req.mtu \in MinMTU..MaxMTU
      BY <1>1 DEF handleOpenAccepted, Accepts, OpenRequest
    <2>2. s \in Session
      BY <2>1, NewSessionType
    <2>3. EffectiveMTU(req.mtu) \in MinMTU..MaxMTU
      BY <2>1, ConfigAssumption DEF EffectiveMTU
    <2>4. AddrOf(s) \in Addrs
      BY <2>2, ConfigAssumption DEF AddrOf, Session
    <2>5. OpenAck(s, EffectiveMTU(req.mtu)) \in Acks
      BY <2>2, <2>3, <2>4 DEF OpenAck, Acks, Session
    <2> QED BY <2>5, <1>0
  <1>2. ASSUME NEW remote \in Remotes, NEW req \in OpenRequest,
               handleOpenRejected(remote, req)
        PROVE  WritesOK'
    <2>1. OpenReject(remote) \in Rejections
      BY DEF OpenReject, Rejections
    <2> QED BY <2>1, <1>0, <1>2 DEF handleOpenRejected
  <1>3. ASSUME NEW remote \in Remotes, NEW i \in Ids, NEW b \in BOOLEAN,
               handleEchoReq(remote, i, b)
        PROVE  WritesOK'
    <2>1. sessions[<<remote, i>>] \in Session
      BY <1>3 DEF handleEchoReq, SessionMap, Keys
    <2>2. EchoResp(sessions[<<remote, i>>]) \in EchoResps
      BY <2>1 DEF EchoResp, EchoResps, Session
    <2> QED BY <2>2, <1>0, <1>3 DEF handleEchoReq
  <1>4. ASSUME NEW remote \in Remotes, NEW i \in Ids, NEW b \in BOOLEAN,
               handleClose(remote, i, b)
        PROVE  WritesOK'
    BY <1>4 DEF handleClose, main, exit, life, config
  <1>5. ASSUME NEW remote \in Remotes, NEW i \in Ids, NEW b \in BOOLEAN,
               NEW p \in Payload,
               \/ handleDataForward(remote, i, b, p)
               \/ handleDataExit(remote, i, b, p)
               \/ handleDataEcho(remote, i, b, p)
        PROVE  WritesOK'
    <2>1. sessions[<<remote, i>>] \in Session /\ Plain(remote, i, p) \in Payload
      BY <1>5, PlainType DEF handleDataForward, handleDataExit, handleDataEcho, HasSource
    <2>2. CASE handleDataForward(remote, i, b, p)
      <3>1. Plain(remote, i, p).ip \in Packet
        BY <2>1, <2>2 DEF handleDataForward, ParsesIPv4, Payload
      <3>2. byAddress[Plain(remote, i, p).ip.dst] \in Session
        BY <2>2, <3>1 DEF handleDataForward, AddressMap, Packet
      <3>3. DataPacket(byAddress[Plain(remote, i, p).ip.dst], Plain(remote, i, p))
              \in DataPackets
        BY <2>1, <3>2, DataPacketType
      <3> QED BY <2>2, <3>3, <1>0 DEF handleDataForward
    <2>3. CASE handleDataExit(remote, i, b, p)
      <3>1. DeviceWrite(Plain(remote, i, p)) \in DeviceWrites
        BY <2>1, <2>3 DEF handleDataExit, ParsesIPv4, Payload, DeviceWrite, DeviceWrites
      <3> QED BY <2>3, <3>1, <1>0 DEF handleDataExit
    <2>4. CASE handleDataEcho(remote, i, b, p)
      <3>1. DataPacket(sessions[<<remote, i>>], Plain(remote, i, p)) \in DataPackets
        BY <2>1, DataPacketType
      <3> QED BY <2>4, <3>1, <1>0 DEF handleDataEcho
    <2> QED BY <1>5, <2>2, <2>3, <2>4
  <1>6. ASSUME NEW p \in Payload, handleExitPacket(p)
        PROVE  WritesOK'
    <2>1. byAddress[p.ip.dst] \in Session
      BY <1>6 DEF handleExitPacket, ParsesIPv4, Payload, Packet, AddressMap
    <2>2. DataPacket(byAddress[p.ip.dst], p) \in DataPackets
      BY <2>1, DataPacketType
    <2> QED BY <1>6, <2>2 DEF handleExitPacket, main, life, config
  <1>7. CASE MainWrite \/ MainReadClosed \/ MainReadError
    BY <1>7 DEF MainWrite, MainReadClosed, MainReadError, ServeReturns, exit, life, config
  <1>8. CASE ExitWrite \/ ExitReadError
    BY <1>8 DEF ExitWrite, ExitReadError, main, life, config
  <1>9. CASE Cancel \/ CloseConn \/ CloseExit
    BY <1>9 DEF Cancel, CloseConn, CloseExit, main, exit, config
  <1>10. CASE UNCHANGED vars
    BY <1>10 DEF vars, main, exit, life, config
  <1> HIDE DEF TypeOK, WritesOK, Replies
  <1>11. ASSUME NEW remote \in Remotes, handlePacket(remote)
         PROVE  WritesOK'
    BY <1>1, <1>2, <1>3, <1>4, <1>5, <1>11 DEF handlePacket
  <1> QED BY <1>6, <1>7, <1>8, <1>9, <1>10, <1>11 DEF Next

(* Every reachable state is well typed. *)
THEOREM TypeCorrect == Spec => []TypeOK
  <1>1. Init => TypeOK
    BY ServerAssumption DEF Init, TypeOK, SessionMap, AddressMap, NoSessions, NoAddresses
  <1>2. TypeOK /\ [Next]_vars => TypeOK'
    <2> SUFFICES ASSUME TypeOK, [Next]_vars PROVE TypeOK'
      OBVIOUS
    <2>1. sessions' \in SessionMap /\ byAddress' \in AddressMap
      BY NextIsTableStep, TableStepType DEF TypeOK
    <2> QED BY <2>1, WritesType DEF TypeOK, WritesOK, Replies
  <1> QED BY <1>1, <1>2, PTL DEF Spec

LEMMA InitTables == Init => TableInv
  BY DEF Init, TableInv, IndexesAgree, OneSessionEach, Agree, Exclusive, Live,
         NoSessions, NoAddresses

LEMMA TableStepInv ==
    ASSUME sessions \in SessionMap, byAddress \in AddressMap, TableInv, TableStep
    PROVE  TableInv'
  <1>1. CASE \E s \in Session : Installs(s)
    BY <1>1, InstallAgrees, InstallExclusive
       DEF Installs, TableInv, IndexesAgree, OneSessionEach
  <1>2. CASE \E s \in Live(sessions) : Removes(s)
    <2> PICK s \in Live(sessions) : Removes(s)
      BY <1>2
    <2>1. {s} \in SUBSET Live(sessions)
      OBVIOUS
    <2> QED BY <2>1, RemoveAgrees, RemoveExclusive
               DEF Removes, TableInv, IndexesAgree, OneSessionEach
  <1>3. CASE UNCHANGED tables
    BY <1>3 DEF tables, TableInv, IndexesAgree, OneSessionEach
  <1> QED BY <1>1, <1>2, <1>3 DEF TableStep

(* Agreement of the maps and uniqueness are inductive together. *)
LEMMA TablesInvariant == Spec => []TableInv
  <1>1. TypeOK /\ TableInv /\ [Next]_vars => TableInv'
    BY NextIsTableStep, TableStepInv DEF TypeOK
  <1> QED BY <1>1, InitTables, TypeCorrect, PTL DEF Spec

(* The two maps index the same sessions, always. *)
THEOREM MapsAgree == Spec => []IndexesAgree
  BY TablesInvariant, PTL DEF TableInv

(* No user and no remote ever has two sessions. *)
THEOREM OneEach == Spec => []OneSessionEach
  BY TablesInvariant, PTL DEF TableInv

-----------------------------------------------------------------------------
(* The refinement.  A user's address leads to that user's session. *)
LEMMA RoutedIsOwn ==
    ASSUME TypeOK, IndexesAgree, NEW u \in Users, byAddress[UserAddr[u]] # None
    PROVE  LET t == byAddress[UserAddr[u]]
           IN  /\ t \in Session /\ t.user = u
               /\ t \in Live(sessions)
               /\ sessions[KeyOf(t)] = t
               /\ KeyOf(t) # None
               /\ Bound[u] = KeyOf(t)
  <1> DEFINE t == byAddress[UserAddr[u]]
  <1>1. UserAddr[u] \in Addrs /\ t \in Session
    BY ConfigAssumption DEF TypeOK, AddressMap
  <1>2. AddrOf(t) = UserAddr[u] /\ sessions[KeyOf(t)] = t
    BY <1>1 DEF IndexesAgree, Agree
  <1>3. t.user = u
    BY <1>1, <1>2, ConfigAssumption DEF AddrOf, Session
  <1>4. KeyOf(t) \in Keys
    BY <1>1 DEF KeyOf, Keys, Session
  <1>5. t \in Live(sessions)
    BY <1>1, <1>2, <1>4, ConfigAssumption DEF Live
  <1> QED BY <1>1, <1>2, <1>3, <1>4, <1>5, ConfigAssumption DEF Bound

(* An accepted OPEN binds its user and unbinds whoever shares its remote. *)
LEMMA InstallBinds ==
    ASSUME TypeOK, IndexesAgree, NEW s \in Session, Installs(s)
    PROVE  Directory!Bind(s.user, s.remote, s.id)
  <1> DEFINE gone == Displaced(sessions, s.remote, s.user)
  <1>1. s.user \in Users /\ AddrOf(s) = UserAddr[s.user] /\ AddrOf(s) \in Addrs
        /\ s # None
    BY ConfigAssumption DEF AddrOf, Session
  <1>2. RemoveFromAddresses(byAddress, gone) \in AddressMap
    BY RemoveType DEF TypeOK
  <1>3. ASSUME NEW v \in Users
        PROVE  Bound'[v] = IF v = s.user THEN <<s.remote, s.id>>
                           ELSE IF Bound[v] # None /\ Bound[v][1] = s.remote THEN None
                           ELSE Bound[v]
    <2> DEFINE a == UserAddr[v]
    <2>0. a \in Addrs
      BY ConfigAssumption
    <2>1. CASE v = s.user
      <3>1. byAddress'[a] = s
        BY <1>1, <1>2, <2>1 DEF Installs, InstallInAddresses, AddressMap
      <3> QED BY <3>1, <2>1, <1>1 DEF Bound, KeyOf
    <2>2. CASE v # s.user
      <3>1. a # AddrOf(s)
        BY <2>2, <1>1, ConfigAssumption
      <3>2. byAddress'[a] = IF \E t \in gone : AddrOf(t) = a /\ byAddress[a] = t
                            THEN None ELSE byAddress[a]
        BY <2>0, <3>1, <1>1, <1>2 DEF Installs, InstallInAddresses, AddressMap,
                                     RemoveFromAddresses
      <3>3. CASE byAddress[a] = None
        BY <2>2, <3>2, <3>3 DEF Bound
      <3>4. CASE byAddress[a] # None
        <4> DEFINE t == byAddress[a]
        <4>1. t \in Session /\ t.user = v /\ t \in Live(sessions)
              /\ KeyOf(t) # None /\ Bound[v] = KeyOf(t)
          BY <3>4, RoutedIsOwn
        <4>2. t \in gone <=> t.remote = s.remote
          BY <4>1, <2>2 DEF Displaced
        <4>3. AddrOf(t) = a
          BY <4>1 DEF AddrOf
        <4>4. byAddress'[a] = IF t.remote = s.remote THEN None ELSE t
          BY <3>2, <4>2, <4>3
        <4>5. Bound'[v] = IF t.remote = s.remote THEN None ELSE KeyOf(t)
          BY <4>4, <3>4 DEF Bound
        <4>6. Bound[v][1] = t.remote
          BY <4>1 DEF KeyOf
        <4> QED BY <4>1, <4>5, <4>6, <2>2
      <3> QED BY <3>3, <3>4
    <2> QED BY <2>1, <2>2
  <1> QED BY <1>3 DEF Directory!Bind, Bound

(* A CLOSE that names a stored session unbinds its user. *)
LEMMA RemoveUnbinds ==
    ASSUME TypeOK, IndexesAgree, NEW s \in Live(sessions), Removes(s)
    PROVE  s \in Session /\ Directory!Unbind(s.remote, s.id)
  <1>1. s \in Session /\ sessions[KeyOf(s)] = s /\ byAddress[AddrOf(s)] = s /\ s # None
    BY DEF Live, TypeOK, SessionMap, IndexesAgree, Agree
  <1>2. s.user \in Users /\ AddrOf(s) = UserAddr[s.user]
    BY <1>1 DEF AddrOf, Session
  <1>3. Bound[s.user] = <<s.remote, s.id>>
    BY <1>1, <1>2 DEF Bound, KeyOf
  <1>4. ASSUME NEW v \in Users
        PROVE  Bound'[v] = IF Bound[v] = <<s.remote, s.id>> THEN None ELSE Bound[v]
    <2> DEFINE a == UserAddr[v]
    <2>0. a \in Addrs
      BY ConfigAssumption
    <2>1. byAddress'[a] = IF AddrOf(s) = a /\ byAddress[a] = s THEN None ELSE byAddress[a]
      BY <2>0 DEF Removes, RemoveFromAddresses
    <2>2. CASE byAddress[a] = None
      BY <2>1, <2>2 DEF Bound
    <2>3. CASE byAddress[a] # None
      <3> DEFINE t == byAddress[a]
      <3>1. t.user = v /\ sessions[KeyOf(t)] = t /\ KeyOf(t) # None /\ Bound[v] = KeyOf(t)
        BY <2>3, RoutedIsOwn
      <3>2. KeyOf(t) = KeyOf(s) <=> t = s
        BY <3>1, <1>1
      <3>3. t = s => AddrOf(s) = a
        BY <3>1 DEF AddrOf
      <3>4. byAddress'[a] = IF KeyOf(t) = KeyOf(s) THEN None ELSE t
        BY <2>1, <3>2, <3>3
      <3>5. Bound'[v] = IF KeyOf(t) = KeyOf(s) THEN None ELSE KeyOf(t)
        BY <3>4, <2>3 DEF Bound
      <3> QED BY <3>1, <3>5 DEF KeyOf
    <2> QED BY <2>2, <2>3
  <1> QED BY <1>1, <1>2, <1>3, <1>4 DEF Directory!Unbind, Bound

(* The server implements the directory: an accepted OPEN is a Bind, a      *)
(* CLOSE that names a stored session an Unbind, every other step of every  *)
(* goroutine a stutter.                                                    *)
THEOREM RefinesDirectory == Spec => ImplementsDirectory
  <1>1. Init => Directory!Init
    BY ConfigAssumption DEF Init, Directory!Init, Bound, NoAddresses
  <1>2. TypeOK /\ TableInv /\ [Next]_vars => [Directory!Next]_Bound
    <2> SUFFICES ASSUME TypeOK, TableInv, [Next]_vars
                 PROVE  [Directory!Next]_Bound
      OBVIOUS
    <2>0. TableStep /\ IndexesAgree
      BY NextIsTableStep DEF TableInv
    <2>1. ASSUME NEW s \in Session, Installs(s)
          PROVE  Directory!Next
      <3>1. s.user \in Users /\ s.remote \in Remotes /\ s.id \in Ids
        BY DEF Session
      <3> QED BY <2>0, <2>1, <3>1, InstallBinds DEF Directory!Next
    <2>2. ASSUME NEW s \in Live(sessions), Removes(s)
          PROVE  Directory!Next
      <3>1. s \in Session /\ Directory!Unbind(s.remote, s.id)
        BY <2>0, <2>2, RemoveUnbinds
      <3>2. s.remote \in Remotes /\ s.id \in Ids
        BY <3>1 DEF Session
      <3> QED BY <3>1, <3>2 DEF Directory!Next
    <2>3. CASE UNCHANGED tables
      BY <2>3 DEF tables, Bound
    <2> QED BY <2>0, <2>1, <2>2, <2>3 DEF TableStep
  <1> QED BY <1>1, <1>2, TablesInvariant, TypeCorrect, PTL
             DEF Spec, ImplementsDirectory, Directory!Spec
-----------------------------------------------------------------------------
(* What is about to be written.  XOR with one key twice gives back the     *)
(* payload, so the session a datagram is built for can decipher it.        *)
LEMMA XorTwice ==
    ASSUME NEW u \in Users, NEW p \in Payload
    PROVE  xorData(u, xorData(u, p)) = p
  <1> DEFINE q == xorData(u, p)
  <1>1. q = [ip |-> p.ip, mask |-> (p.mask \cup {u}) \ (p.mask \cap {u})]
    BY DEF xorData, Payload
  <1> HIDE DEF q
  <1>2. xorData(u, q) = [ip |-> p.ip, mask |-> (q.mask \cup {u}) \ (q.mask \cap {u})]
    BY <1>1 DEF xorData
  <1>3. (q.mask \cup {u}) \ (q.mask \cap {u}) = p.mask
    BY <1>1
  <1> QED BY <1>2, <1>3 DEF Payload, q

Deciphered(s, d) == IF s.encrypt THEN xorData(s.user, d.payload) ELSE d.payload

LEMMA DataPacketReadable ==
    ASSUME NEW s \in Session, NEW p \in Payload
    PROVE  LET d == DataPacket(s, p)
           IN  /\ d.type \in {"DATA", "DATA_ENC"}
               /\ (d.type = "DATA_ENC") = s.encrypt
               /\ <<d.to, d.id>> = KeyOf(s)
               /\ Deciphered(s, d) = p
  <1>1. s.user \in Users /\ s.encrypt \in BOOLEAN
    BY DEF Session
  <1> QED BY <1>1, XorTwice DEF DataPacket, KeyOf, Deciphered

(* A stored session is found under its own key and at its own address. *)
LEMMA StoredSession ==
    ASSUME TypeOK, IndexesAgree, NEW r \in Remotes, NEW i \in Ids,
           sessions[<<r, i>>] # None
    PROVE  LET s == sessions[<<r, i>>]
           IN  /\ s \in Session /\ KeyOf(s) = <<r, i>>
               /\ AddrOf(s) \in Addrs /\ byAddress[AddrOf(s)] = s
  <1>1. <<r, i>> \in Keys /\ sessions[<<r, i>>] \in Session
    BY DEF TypeOK, SessionMap, Keys
  <1> QED BY <1>1, ConfigAssumption DEF IndexesAgree, Agree, AddrOf, Session

LEMMA StoredAddress ==
    ASSUME TypeOK, IndexesAgree, NEW a \in Addrs, byAddress[a] # None
    PROVE  LET s == byAddress[a]
           IN  s \in Session /\ AddrOf(s) = a /\ sessions[KeyOf(s)] = s /\ s # None
  BY DEF TypeOK, AddressMap, IndexesAgree, Agree

(* While a handler of Serve is about to write, nobody changes the maps, so *)
(* only the step that decided the reply matters.                           *)
LEMMA ReplyDecided ==
    ASSUME [Next]_vars, mainPc' = "write"
    PROVE  \/ mainPc = "write" /\ UNCHANGED <<sessions, byAddress, reply, exitEnabled, strictSource>>
           \/ \E remote \in Remotes : handlePacket(remote)
  <1>1. CASE UNCHANGED vars
    BY <1>1 DEF vars, tables, main, life, config
  <1>2. CASE \/ MainWrite \/ MainReadClosed \/ MainReadError
             \/ \E p \in Payload : handleExitPacket(p)
             \/ ExitWrite \/ ExitReadError \/ Cancel \/ CloseConn \/ CloseExit
    BY <1>2 DEF MainWrite, MainReadClosed, MainReadError, ServeReturns,
        handleExitPacket, ExitWrite, ExitReadError, Cancel, CloseConn, CloseExit,
        tables, main, life, config
  <1> QED BY <1>1, <1>2 DEF Next

ReplyRight == ReplyStillRight /\ ExitTrafficLegit

(* The decision of each handler, when it is taken. *)
LEMMA HandlerRight ==
    ASSUME TypeOK, IndexesAgree, NEW remote \in Remotes, handlePacket(remote),
           mainPc' = "write"
    PROVE  ReplyRight'
  <1> USE DEF ReplyRight, ReplyStillRight, ExitTrafficLegit, WillWrite
  <1>1. ASSUME NEW req \in OpenRequest, handleOpenAccepted(remote, req)
        PROVE  ReplyRight'
    <2> PICK i \in Ids : LET s == NewSession(remote, i, req.user, req.encrypt)
                         IN  /\ sessions' = InstallInSessions(sessions, s)
                             /\ byAddress' = InstallInAddresses(sessions, byAddress, s)
                             /\ WillWrite(OpenAck(s, EffectiveMTU(req.mtu)))
      BY <1>1 DEF handleOpenAccepted
    <2> DEFINE s == NewSession(remote, i, req.user, req.encrypt)
    <2>1. req.user \in Users /\ req.encrypt \in BOOLEAN
      BY <1>1 DEF handleOpenAccepted, Accepts, OpenRequest
    <2>2. s \in Session /\ s # None
      BY <2>1, NewSessionType, ConfigAssumption
    <2>3. KeyOf(s) \in Keys /\ AddrOf(s) \in Addrs
      BY <2>2, ConfigAssumption DEF KeyOf, Keys, AddrOf, Session
    <2>4. sessions'[KeyOf(s)] = s /\ byAddress'[AddrOf(s)] = s
      BY <2>3 DEF InstallInSessions, InstallInAddresses, RemoveFromSessions,
                  RemoveFromAddresses
    <2>5. /\ reply'.type = "OPENACK" /\ <<reply'.to, reply'.id>> = KeyOf(s)
          /\ reply'.addr = AddrOf(s) /\ reply'.encrypt = s.encrypt
      BY DEF OpenAck, KeyOf
    <2> HIDE DEF s
    <2> QED BY <2>2, <2>4, <2>5
  <1>2. ASSUME NEW req \in OpenRequest, handleOpenRejected(remote, req)
        PROVE  ReplyRight'
    BY <1>2 DEF handleOpenRejected, OpenReject
  <1>3. ASSUME NEW i \in Ids, NEW b \in BOOLEAN, handleEchoReq(remote, i, b)
        PROVE  ReplyRight'
    <2> DEFINE s == sessions[<<remote, i>>]
    <2>1. s # None /\ KeyOf(s) = <<remote, i>>
      BY <1>3, StoredSession DEF handleEchoReq
    <2>2. reply'.type = "ECHORESP" /\ <<reply'.to, reply'.id>> = KeyOf(s)
      BY <1>3 DEF handleEchoReq, EchoResp, KeyOf
    <2> QED BY <1>3, <2>1, <2>2 DEF handleEchoReq, tables
  <1>4. ASSUME NEW i \in Ids, NEW b \in BOOLEAN, handleClose(remote, i, b)
        PROVE  FALSE
    BY <1>4 DEF handleClose, main, Reading
  <1>5. ASSUME NEW i \in Ids, NEW b \in BOOLEAN, NEW p \in Payload,
               handleDataForward(remote, i, b, p)
        PROVE  ReplyRight'
    <2> DEFINE plain == Plain(remote, i, p)
    <2> DEFINE t == byAddress[plain.ip.dst]
    <2>1. sessions[<<remote, i>>] # None /\ ParsesIPv4(plain) /\ t # None
          /\ reply' = DataPacket(t, plain) /\ UNCHANGED <<sessions, byAddress>>
      BY <1>5 DEF handleDataForward, HasSource, tables
    <2>2. plain \in Payload
      BY <2>1, PlainType
    <2>3. plain.ip.dst \in Addrs
      BY <2>1, <2>2 DEF ParsesIPv4, Payload, Packet
    <2>4. t \in Session /\ sessions[KeyOf(t)] = t
      BY <2>1, <2>3, StoredAddress
    <2>5. /\ reply'.type \in {"DATA", "DATA_ENC"} /\ (reply'.type = "DATA_ENC") = t.encrypt
          /\ <<reply'.to, reply'.id>> = KeyOf(t) /\ Deciphered(t, reply') = plain
      BY <2>1, <2>2, <2>4, DataPacketReadable
    <2>6. sessions'[<<reply'.to, reply'.id>>] = t /\ byAddress'[plain.ip.dst] = t
      BY <2>1, <2>4, <2>5
    <2> HIDE DEF plain, t
    <2> QED BY <2>1, <2>5, <2>6 DEF Deciphered
  <1>6. ASSUME NEW i \in Ids, NEW b \in BOOLEAN, NEW p \in Payload,
               handleDataExit(remote, i, b, p)
        PROVE  ReplyRight'
    <2> DEFINE plain == Plain(remote, i, p)
    <2> DEFINE s == sessions[<<remote, i>>]
    <2>1. /\ s # None /\ byAddress[plain.ip.dst] = None
          /\ exitEnabled /\ SourceAllowed(s, plain)
          /\ reply' = DeviceWrite(plain)
          /\ UNCHANGED <<sessions, byAddress, strictSource>>
      BY <1>6 DEF handleDataExit, HasSource, tables, life, config
    <2>2. byAddress[AddrOf(s)] # None
      BY <2>1, StoredSession
    <2>3. reply'.type = "device" /\ reply'.packet = plain.ip
      BY <2>1 DEF DeviceWrite
    <2> HIDE DEF plain
    <2> QED BY <2>1, <2>2, <2>3 DEF SourceAllowed
  <1>7. ASSUME NEW i \in Ids, NEW b \in BOOLEAN, NEW p \in Payload,
               handleDataEcho(remote, i, b, p)
        PROVE  ReplyRight'
    <2> DEFINE plain == Plain(remote, i, p)
    <2> DEFINE s == sessions[<<remote, i>>]
    <2>1. /\ s # None /\ ~exitEnabled
          /\ ParsesIPv4(plain) => byAddress[plain.ip.dst] = None
          /\ reply' = DataPacket(s, plain)
          /\ UNCHANGED <<sessions, byAddress, exitEnabled>>
      BY <1>7 DEF handleDataEcho, HasSource, tables, life, config
    <2>2. plain \in Payload
      BY <2>1, PlainType
    <2>3. s \in Session /\ sessions[KeyOf(s)] = s
      BY <2>1, StoredSession
    <2>4. /\ reply'.type \in {"DATA", "DATA_ENC"} /\ (reply'.type = "DATA_ENC") = s.encrypt
          /\ <<reply'.to, reply'.id>> = KeyOf(s) /\ Deciphered(s, reply') = plain
      BY <2>1, <2>2, <2>3, DataPacketReadable
    <2> HIDE DEF plain, s
    <2>5. sessions'[<<reply'.to, reply'.id>>] = s
      BY <2>1, <2>3, <2>4
    <2>6. reply'.type \notin {"OPENACK", "OPENREJ", "device"}
      BY <2>4
    <2>7. ReplyStillRight'
      BY <2>1, <2>4, <2>5, <2>6 DEF Deciphered
    <2>8. ExitTrafficLegit'
      BY <2>6
    <2> QED BY <2>7, <2>8
  <1> QED BY <1>1, <1>2, <1>3, <1>4, <1>5, <1>6, <1>7 DEF handlePacket

LEMMA ReplyStep ==
    ASSUME TypeOK, IndexesAgree, ReplyRight, [Next]_vars
    PROVE  ReplyRight'
  <1>1. CASE mainPc' # "write"
    BY <1>1 DEF ReplyRight, ReplyStillRight, ExitTrafficLegit
  <1>2. CASE mainPc' = "write" /\ \E remote \in Remotes : handlePacket(remote)
    BY <1>2, HandlerRight
  <1>3. CASE mainPc = "write" /\ UNCHANGED <<sessions, byAddress, reply, exitEnabled, strictSource>>
    <2>1. mainPc' = "write" => mainPc' = mainPc
      BY <1>3
    <2> QED BY <1>1, <1>3, <2>1
            DEF ReplyRight, ReplyStillRight, ExitTrafficLegit, ParsesIPv4
  <1> QED BY <1>1, <1>2, <1>3, ReplyDecided

LEMMA RepliesInvariant == Spec => []ReplyRight
  <1>1. Init => ReplyRight
    BY DEF Init, ReplyRight, ReplyStillRight, ExitTrafficLegit
  <1>2. TypeOK /\ IndexesAgree /\ ReplyRight /\ [Next]_vars => ReplyRight'
    BY ReplyStep
  <1> QED BY <1>1, <1>2, TypeCorrect, MapsAgree, PTL DEF Spec

(* What a handler of Serve decided under the lock is still right when it   *)
(* writes: whatever the other goroutines do in between, they change no     *)
(* map.                                                                    *)
THEOREM RepliesStayRight == Spec => []ReplyStillRight
  BY RepliesInvariant, PTL DEF ReplyRight

(* What handleData hands to the exit device is not for a client and, with  *)
(* strict_source, from one.                                                *)
THEOREM ExitStaysLegit == Spec => []ExitTrafficLegit
  BY RepliesInvariant, PTL DEF ReplyRight

(* The exit goroutine writes under the key of the owner of the address,    *)
(* also if the session of its snapshot is gone by then.                    *)
THEOREM SnapshotsForOwner == Spec => []ExitSnapshotForOwner
  <1>1. Init => ExitSnapshotForOwner
    BY DEF Init, ExitSnapshotForOwner
  <1>2. TypeOK /\ IndexesAgree /\ ExitSnapshotForOwner /\ [Next]_vars => ExitSnapshotForOwner'
    <2> SUFFICES ASSUME TypeOK, IndexesAgree, ExitSnapshotForOwner, [Next]_vars
                 PROVE  ExitSnapshotForOwner'
      OBVIOUS
    <2>1. ASSUME NEW p \in Payload, handleExitPacket(p)
          PROVE  ExitSnapshotForOwner'
      <3> DEFINE s == byAddress[p.ip.dst]
      <3>1. p.ip.dst \in Addrs /\ s # None /\ p.mask = {} /\ exitReply' = DataPacket(s, p)
        BY <2>1 DEF handleExitPacket, ParsesIPv4, Payload, Packet
      <3>2. s \in Session /\ AddrOf(s) = p.ip.dst
        BY <3>1, StoredAddress
      <3>3. s.user \in Users /\ UserAddr[s.user] = p.ip.dst /\ s.encrypt \in BOOLEAN
        BY <3>2 DEF AddrOf, Session
      <3>4. /\ exitReply'.payload.ip = p.ip
            /\ exitReply'.payload.mask = IF exitReply'.type = "DATA_ENC" THEN {s.user} ELSE {}
        BY <3>1, <3>3 DEF DataPacket, xorData, Payload
      <3> QED BY <3>3, <3>4 DEF ExitSnapshotForOwner
    <2>2. CASE UNCHANGED <<exitPc, exitReply>>
      BY <2>2 DEF ExitSnapshotForOwner
    <2>3. CASE exitPc' # "write"
      BY <2>3 DEF ExitSnapshotForOwner
    <2>4. ASSUME NEW remote \in Remotes, handlePacket(remote)
          PROVE  UNCHANGED <<exitPc, exitReply>>
      BY <2>4 DEF handlePacket, handleOpenAccepted, handleOpenRejected, handleEchoReq,
          handleClose, handleDataForward, handleDataExit, handleDataEcho, WillWrite, exit
    <2>5. CASE MainWrite \/ MainReadClosed \/ MainReadError \/ Cancel \/ CloseConn
               \/ CloseExit \/ UNCHANGED vars
      BY <2>2, <2>5 DEF MainWrite, MainReadClosed, MainReadError, ServeReturns, Cancel,
          CloseConn, CloseExit, vars, exit
    <2>6. CASE ExitWrite \/ ExitReadError
      BY <2>3, <2>6 DEF ExitWrite, ExitReadError
    <2> QED BY <2>1, <2>2, <2>4, <2>5, <2>6 DEF Next
  <1> QED BY <1>1, <1>2, TypeCorrect, MapsAgree, PTL DEF Spec
=============================================================================
