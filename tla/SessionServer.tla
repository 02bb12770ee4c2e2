--------------------------- MODULE SessionServer ---------------------------
(***************************************************************************)
(* iwand-server at run time (src/server/server.go): the goroutine of Serve *)
(* that handles datagrams, the goroutine serveExitDevice that carries      *)
(* packets from the exit TUN device to clients, and the goroutines that    *)
(* close the socket and the device when the context is cancelled.          *)
(*                                                                         *)
(* A handler looks the session maps up under Server.access, leaves the     *)
(* lock, and only then writes; the write is a step of its own, so that the *)
(* other goroutines run between the decision and its effect.  The handlers *)
(* of Serve take the lock more than once, but no other goroutine changes   *)
(* the maps, so all they do before the write is one step.                  *)
(*                                                                         *)
(* Datagrams come from the environment in any order and number, which      *)
(* covers loss, duplication, delay and clients that never ran an OPEN.     *)
(* A datagram a handler returns from without effect is not a step.         *)
(***************************************************************************)
EXTENDS SessionTable

CONSTANT ClientMTUs  \* the MTUs that OPEN datagrams carry

ASSUME ServerAssumption == ClientMTUs \subseteq Int

-----------------------------------------------------------------------------
(* A tunnelled packet is its two addresses.  The XOR cipher is symbolic:   *)
(* the payload of a DATA datagram is what it carries, a packet or None for *)
(* bytes that are no IPv4 packet, and the set of user keys it is masked    *)
(* with.  XOR with a key toggles that key.                                 *)

Packet == [src : Addrs, dst : Addrs]

Payload == [ip : Packet \cup {None}, mask : SUBSET Users]

xorData(user, p) == [p EXCEPT !.mask = (@ \cup {user}) \ (@ \cap {user})]

(* parseIPv4Packet succeeds on plain packets only. *)
ParsesIPv4(p) == p.ip # None /\ p.mask = {}

(* What follows the user and password in an OPEN: None for a datagram that *)
(* is malformed or badly signed; the user None is one not configured.      *)
OpenRequest ==
    [user : Users \cup {None}, passwordMatches : BOOLEAN,
     mtu : ClientMTUs, encrypt : BOOLEAN] \cup {None}

(* Faulty variant: the MTU a client asks for is not checked. *)
AcceptsAnyMTU(req) ==
    /\ req # None
    /\ req.user \in Users
    /\ req.passwordMatches

(* parseOpenPacket and the checks of handleOpen. *)
Accepts(req) ==
    /\ req # None
    /\ req.mtu \in MinMTU..MaxMTU
    /\ req.user \in Users
    /\ req.passwordMatches

-----------------------------------------------------------------------------
(* What the goroutines write: datagrams to a remote, packets to the device *)

OpenReject(remote) == [type |-> "OPENREJ", to |-> remote]

OpenAck(s, mtu) ==
    [type |-> "OPENACK", to |-> s.remote, id |-> s.id, mtu |-> mtu,
     addr |-> AddrOf(s), encrypt |-> s.encrypt]

EchoResp(s) == [type |-> "ECHORESP", to |-> s.remote, id |-> s.id]

(* Faulty variant: the reply keeps the mask of whoever sent the payload. *)
DataPacketUnmasked(s, p) ==
    [type |-> IF s.encrypt THEN "DATA_ENC" ELSE "DATA",
     to |-> s.remote, id |-> s.id, payload |-> p]

DataPacket(s, p) ==
    [type |-> IF s.encrypt THEN "DATA_ENC" ELSE "DATA",
     to |-> s.remote, id |-> s.id,
     payload |-> IF s.encrypt THEN xorData(s.user, p) ELSE p]

DeviceWrite(p) == [type |-> "device", packet |-> p.ip]

Rejections == [type : {"OPENREJ"}, to : Remotes]
Acks == [type : {"OPENACK"}, to : Remotes, id : Ids, mtu : MinMTU..MaxMTU,
         addr : Addrs, encrypt : BOOLEAN]
EchoResps == [type : {"ECHORESP"}, to : Remotes, id : Ids]
DataPackets == [type : {"DATA", "DATA_ENC"}, to : Remotes, id : Ids,
                payload : Payload]
DeviceWrites == [type : {"device"}, packet : Packet]

-----------------------------------------------------------------------------
VARIABLES
    sessions,   \* Server.sessions
    byAddress,  \* Server.byAddress
    mainPc,     \* Serve: "read", "write" (a handler about to write), "returned"
    reply,      \* what Serve's handler is about to write
    exitPc,     \* serveExitDevice: "off", "read", "write", "returned"
    exitReply,  \* what handleExitPacket is about to write, from its snapshot
    ctxDone,    \* the context is cancelled (SIGINT or SIGTERM)
    connOpen,   \* the UDP socket is open
    exitOpen,   \* the exit device is open
    exitEnabled,  \* config exit.enabled, read once at startup
    strictSource  \* config exit.strict_source, read once at startup

tables == <<sessions, byAddress>>
main == <<mainPc, reply>>
exit == <<exitPc, exitReply>>
config == <<exitEnabled, strictSource>>
life == <<ctxDone, connOpen, exitOpen, config>>
vars == <<tables, main, exit, life>>

TypeOK ==
    /\ sessions \in SessionMap
    /\ byAddress \in AddressMap
    /\ mainPc \in {"read", "write", "returned"}
    /\ reply \in Rejections \cup Acks \cup EchoResps \cup DataPackets
                    \cup DeviceWrites \cup {None}
    /\ exitPc \in {"off", "read", "write", "returned"}
    /\ exitReply \in DataPackets \cup {None}
    /\ ctxDone \in BOOLEAN
    /\ connOpen \in BOOLEAN
    /\ exitOpen \in BOOLEAN
    /\ exitEnabled \in BOOLEAN
    /\ strictSource \in BOOLEAN

Init ==
    /\ exitEnabled \in BOOLEAN
    /\ strictSource \in BOOLEAN
    /\ sessions = NoSessions
    /\ byAddress = NoAddresses
    /\ mainPc = "read"
    /\ reply = None
    /\ exitPc = IF exitEnabled THEN "read" ELSE "off"
    /\ exitReply = None
    /\ ctxDone = FALSE
    /\ connOpen = TRUE
    /\ exitOpen = exitEnabled

-----------------------------------------------------------------------------
(* Serve: one datagram is read and handled up to the write of the answer.  *)

Reading == mainPc = "read" /\ connOpen

WillWrite(r) ==
    /\ mainPc' = "write"
    /\ reply' = r
    /\ UNCHANGED <<exit, life>>

handleOpenAccepted(remote, req) ==
    /\ Reading
    /\ Accepts(req)
    /\ \E id \in Ids :
        LET s == NewSession(remote, id, req.user, req.encrypt)
        IN  /\ sessions' = InstallInSessions(sessions, s)
            /\ byAddress' = InstallInAddresses(sessions, byAddress, s)
            /\ WillWrite(OpenAck(s, EffectiveMTU(req.mtu)))

handleOpenRejected(remote, req) ==
    /\ Reading
    /\ ~Accepts(req)
    /\ WillWrite(OpenReject(remote))
    /\ UNCHANGED tables

handleEchoReq(remote, id, signed) ==
    /\ Reading
    /\ signed
    /\ sessions[<<remote, id>>] # None
    /\ WillWrite(EchoResp(sessions[<<remote, id>>]))
    /\ UNCHANGED tables

(* Faulty variant: a CLOSE is looked up by identifier alone. *)
handleCloseAnyRemote(remote, id, signed) ==
    /\ Reading
    /\ signed
    /\ LET gone == {s \in Live(sessions) : s.id = id}
       IN  /\ gone # {}
           /\ sessions' = RemoveFromSessions(sessions, gone)
           /\ byAddress' = RemoveFromAddresses(byAddress, gone)
    /\ UNCHANGED <<main, exit, life>>

handleClose(remote, id, signed) ==
    /\ Reading
    /\ signed
    /\ sessions[<<remote, id>>] # None
    /\ LET gone == {sessions[<<remote, id>>]}
       IN  /\ sessions' = RemoveFromSessions(sessions, gone)
           /\ byAddress' = RemoveFromAddresses(byAddress, gone)
    /\ UNCHANGED <<main, exit, life>>

(* The part of handleData common to its three outcomes: the session the    *)
(* datagram names, and the payload it deciphers to.                        *)
HasSource(remote, id, encrypted) ==
    /\ sessions[<<remote, id>>] # None
    /\ sessions[<<remote, id>>].encrypt = encrypted

Plain(remote, id, p) ==
    LET s == sessions[<<remote, id>>]
    IN  IF s.encrypt THEN xorData(s.user, p) ELSE p

(* Faulty variant: nobody compares the source address. *)
SourceAllowedAlways(s, p) == TRUE

SourceAllowed(s, p) ==
    exitEnabled /\ strictSource => p.ip.src = AddrOf(s)

(* Outcome 1: the destination is the address of a session. *)
handleDataForward(remote, id, encrypted, p) ==
    /\ Reading
    /\ HasSource(remote, id, encrypted)
    /\ LET plain == Plain(remote, id, p)
       IN  /\ ParsesIPv4(plain)
           /\ SourceAllowed(sessions[<<remote, id>>], plain)
           /\ byAddress[plain.ip.dst] # None
           /\ WillWrite(DataPacket(byAddress[plain.ip.dst], plain))
    /\ UNCHANGED tables

(* Outcome 2: it is not, and the packet leaves through the exit device. *)
handleDataExit(remote, id, encrypted, p) ==
    /\ Reading
    /\ exitEnabled
    /\ HasSource(remote, id, encrypted)
    /\ LET plain == Plain(remote, id, p)
       IN  /\ ParsesIPv4(plain)
           /\ SourceAllowed(sessions[<<remote, id>>], plain)
           /\ byAddress[plain.ip.dst] = None
           /\ WillWrite(DeviceWrite(plain))
    /\ UNCHANGED tables

(* Outcome 3: without an exit the payload goes back to its sender. *)
handleDataEcho(remote, id, encrypted, p) ==
    /\ Reading
    /\ ~exitEnabled
    /\ HasSource(remote, id, encrypted)
    /\ LET plain == Plain(remote, id, p)
       IN  /\ ParsesIPv4(plain) => byAddress[plain.ip.dst] = None
           /\ WillWrite(DataPacket(sessions[<<remote, id>>], plain))
    /\ UNCHANGED tables

(* WriteToUDP or exit.Write; an error is logged and the loop goes on. *)
MainWrite ==
    /\ mainPc = "write"
    /\ mainPc' = "read"
    /\ reply' = None
    /\ UNCHANGED <<tables, exit, life>>

(* A failed read ends Serve: deferred calls close the device and, in       *)
(* ListenAndServe, the socket.                                             *)
ServeReturns ==
    /\ mainPc' = "returned"
    /\ connOpen' = FALSE
    /\ exitOpen' = FALSE
    /\ UNCHANGED <<tables, reply, exit, ctxDone, config>>

MainReadClosed == mainPc = "read" /\ ~connOpen /\ ServeReturns

MainReadError == Reading /\ ServeReturns

-----------------------------------------------------------------------------
(* serveExitDevice.  A read that blocked before the device was closed may  *)
(* still return a packet: the TUN descriptor is in blocking mode.          *)

handleExitPacket(p) ==
    /\ exitPc = "read"
    /\ ParsesIPv4(p)
    /\ byAddress[p.ip.dst] # None
    /\ exitPc' = "write"
    /\ exitReply' = DataPacket(byAddress[p.ip.dst], p)
    /\ UNCHANGED <<tables, main, life>>

(* The write and the next read, which fails at once on a closed device. *)
ExitWrite ==
    /\ exitPc = "write"
    /\ exitPc' = IF exitOpen THEN "read" ELSE "returned"
    /\ exitReply' = None
    /\ UNCHANGED <<tables, main, life>>

(* Any read error ends the goroutine; Serve is not told. *)
ExitReadError ==
    /\ exitPc = "read"
    /\ exitPc' = "returned"
    /\ UNCHANGED <<tables, main, exitReply, life>>

-----------------------------------------------------------------------------
(* The context of main.go and the goroutines that wait for it. *)

Cancel ==
    /\ ~ctxDone
    /\ ctxDone' = TRUE
    /\ UNCHANGED <<tables, main, exit, connOpen, exitOpen, config>>

(* Faulty variant: cancelling leaves the socket open. *)
CloseConnNever == FALSE /\ UNCHANGED vars

CloseConn ==
    /\ ctxDone
    /\ connOpen
    /\ connOpen' = FALSE
    /\ UNCHANGED <<tables, main, exit, ctxDone, exitOpen, config>>

CloseExit ==
    /\ ctxDone
    /\ exitOpen
    /\ exitOpen' = FALSE
    /\ UNCHANGED <<tables, main, exit, ctxDone, connOpen, config>>

-----------------------------------------------------------------------------
handlePacket(remote) ==
    \/ \E req \in OpenRequest :
          handleOpenAccepted(remote, req) \/ handleOpenRejected(remote, req)
    \/ \E id \in Ids, signed \in BOOLEAN :
          handleEchoReq(remote, id, signed) \/ handleClose(remote, id, signed)
    \/ \E id \in Ids, encrypted \in BOOLEAN, p \in Payload :
          \/ handleDataForward(remote, id, encrypted, p)
          \/ handleDataExit(remote, id, encrypted, p)
          \/ handleDataEcho(remote, id, encrypted, p)

Next ==
    \/ \E remote \in Remotes : handlePacket(remote)
    \/ MainWrite \/ MainReadClosed \/ MainReadError
    \/ \E p \in Payload : handleExitPacket(p)
    \/ ExitWrite \/ ExitReadError
    \/ Cancel \/ CloseConn \/ CloseExit

Spec == Init /\ [][Next]_vars

(* Goroutines that can run do run; whether a datagram, a packet or an      *)
(* error arrives is up to the environment.                                 *)
Fairness ==
    /\ WF_vars(MainWrite)
    /\ WF_vars(MainReadClosed)
    /\ WF_vars(ExitWrite)
    /\ WF_vars(CloseConn)
    /\ WF_vars(CloseExit)

FairSpec == Spec /\ Fairness

-----------------------------------------------------------------------------
(* The two maps index the same sessions: what an address leads to is       *)
(* stored under its own key and belongs to that address, and every stored  *)
(* session is what its address leads to.  removeSessionLocked and          *)
(* handleOpen each touch both maps, for several sessions at once.          *)
IndexesAgree == Agree(sessions, byAddress)

(* After any sequence of OPENs, retries and CLOSEs a user has at most one  *)
(* session and a remote carries at most one: what                          *)
(* removeSessionsForRemoteOrUserLocked is for, and what bounds both maps.  *)
OneSessionEach == Exclusive(sessions)

(* The decision of a Serve handler is still right when it writes, after    *)
(* unlock: an acknowledged session is stored and routed, an echo answers a *)
(* stored session, and data goes to the stored session that owns the       *)
(* destination and can decipher it.                                        *)
ReplyStillRight ==
    mainPc = "write" /\ reply.type \notin {"OPENREJ", "device"} =>
        LET s == sessions[<<reply.to, reply.id>>]
        IN  /\ s # None
            /\ reply.type = "OPENACK" =>
                  /\ byAddress[reply.addr] = s
                  /\ reply.encrypt = s.encrypt
            /\ reply.type \in {"DATA", "DATA_ENC"} =>
                  LET p == IF s.encrypt THEN xorData(s.user, reply.payload)
                                        ELSE reply.payload
                  IN  /\ (reply.type = "DATA_ENC") = s.encrypt
                      /\ exitEnabled => ParsesIPv4(p)
                      /\ ParsesIPv4(p) /\ byAddress[p.ip.dst] # None
                            => byAddress[p.ip.dst] = s

(* With strict_source a packet on its way out of the exit device carries   *)
(* the address of a session that exists, and never the address of one as   *)
(* its destination: clients reach each other inside the server.            *)
ExitTrafficLegit ==
    mainPc = "write" /\ reply.type = "device" =>
        /\ byAddress[reply.packet.dst] = None
        /\ strictSource => byAddress[reply.packet.src] # None

(* The exit goroutine writes from a snapshot taken before unlock; the      *)
(* session may be gone by then.  Even so, an enciphered datagram is masked *)
(* with the key of the user that owns the destination, and no other.       *)
ExitSnapshotForOwner ==
    exitPc = "write" =>
        LET p == exitReply.payload
        IN  \E u \in Users :
                /\ UserAddr[u] = p.ip.dst
                /\ p.mask = IF exitReply.type = "DATA_ENC" THEN {u} ELSE {}

(* The maps implement the abstract directory.                              *)
Bound == [u \in Users |->
            IF byAddress[UserAddr[u]] = None THEN None
            ELSE KeyOf(byAddress[UserAddr[u]])]

Directory == INSTANCE SessionDirectory WITH bound <- Bound

(* Routing changes only by an accepted OPEN or a CLOSE that names the      *)
(* session, exactly as the directory says, whatever the goroutines do.     *)
ImplementsDirectory == Directory!Spec

(* Cancelling the context ends Serve with socket and device closed, even   *)
(* from the middle of a handler (main.go then exits).                      *)
ShutdownCompletes ==
    ctxDone ~> (mainPc = "returned" /\ ~connOpen /\ ~exitOpen)
=============================================================================
