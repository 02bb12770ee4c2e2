------------------------------- MODULE Tunnel -------------------------------
(***************************************************************************)
(* A client (IwanClient) and a server (SessionTable) joined by UDP.        *)
(*                                                                         *)
(* Datagrams are reordered, lost and, on some paths, delivered again.  The *)
(* client ticks every second.  Each client_reset opens a new socket, and   *)
(* so a new port; datagrams to the old one are gone.  The server handles a *)
(* datagram and answers in one step, which SessionServer justifies; it may *)
(* be restarted, and then knows no sessions.                               *)
(*                                                                         *)
(* The client belongs to one user with the right password.  Other peers    *)
(* appear only in the DATA they make the server send to that user.  The    *)
(* client's own DATA changes no state of the server and is left out.       *)
(***************************************************************************)
EXTENDS SessionTable, IwanClient, FiniteSets

CONSTANTS
    user,         \* the client's username
    WantEncrypt,  \* the client asks for encryption
    MaxNet        \* bound: datagrams in flight; beyond it they are lost

VARIABLES
    clnt,       \* the client
    port,       \* the port of its socket
    heard,      \* what it accepted last: "nothing", "ack", "echo", "data"
    sessions, byAddress,  \* the server's maps
    net,        \* datagrams in flight
    path,       \* the network: "prompt" (a round trip takes less than a second),
                \* "slow" or "repeating" (slow, and delivers datagrams twice)
    calm        \* nothing is lost, restarted or failing any more

tables == <<sessions, byAddress>>
client == <<clnt, port, heard>>
weather == <<path, calm>>
vars == <<client, tables, net, weather>>

(* Both sides draw unused ports and identifiers, of which there are always *)
(* some left.  One nobody remembers any more counts as unused.             *)
ASSUME TunnelAssumption ==
    /\ ~DomainServer
    /\ user \in Users
    /\ WantEncrypt \in BOOLEAN
    /\ MaxNet \in Nat
    /\ IsFiniteSet(Remotes) => Cardinality(Remotes) > MaxNet + 2
    /\ IsFiniteSet(Ids) => Cardinality(Ids) > MaxNet + 2
    /\ SessionIds = Ids /\ TunnelIPs = Addrs
    /\ CfgMtu < ServerMTU => CfgMtu \in Mtus \cup {0}
    /\ ~(CfgMtu < ServerMTU) => ServerMTU \in Mtus

ToServer == [type : {"OPEN"}, from : Remotes]
               \cup [type : {"ECHOREQ", "CLOSE"}, from : Remotes, id : Ids]
ToClient == [type : {"OPENACK"}, to : Remotes, ack : Openack]
               \cup [type : {"ECHORESP", "DATA"}, to : Remotes]

TypeOK ==
    /\ clnt \in Client
    /\ port \in Remotes
    /\ heard \in {"nothing", "ack", "echo", "data"}
    /\ sessions \in SessionMap
    /\ byAddress \in AddressMap
    /\ net \subseteq ToServer \cup ToClient
    /\ Cardinality(net) <= MaxNet
    /\ path \in {"prompt", "slow", "repeating"}
    /\ calm \in BOOLEAN

Unused(S) == CHOOSE n \in S : TRUE

UsedIds ==
    {m.ack.id : m \in {n \in net : n.type = "OPENACK"}}
      \cup {m.id : m \in {n \in net : n.type \in {"ECHOREQ", "CLOSE"}}}
      \cup {s.id : s \in Live(sessions)} \cup {clnt.sess}

UsedPorts ==
    {m.from : m \in net \cap ToServer} \cup {s.remote : s \in Live(sessions)} \cup {port}

Init ==
    /\ clnt = InitialClient(TRUE)
    /\ port = Unused(Remotes)
    /\ heard = "nothing"
    /\ sessions = NoSessions
    /\ byAddress = NoAddresses
    /\ net = {}
    /\ path \in {"prompt", "slow", "repeating"}
    /\ calm = FALSE

-----------------------------------------------------------------------------
(* The network *)

With(ms, m) == IF Cardinality(ms \cup {m}) <= MaxNet THEN ms \cup {m} ELSE ms

(* What is left in flight once m was delivered *)
Delivered(m) == IF path = "repeating" THEN {net, net \ {m}} ELSE {net \ {m}}

Lose ==
    /\ ~calm
    /\ \E m \in net : net' = net \ {m}
    /\ UNCHANGED <<client, tables, weather>>

(* From some time on nothing goes wrong; only of interest if it is prompt. *)
CalmsDown ==
    /\ path = "prompt" /\ ~calm
    /\ calm' = TRUE
    /\ UNCHANGED <<client, tables, net, path>>

-----------------------------------------------------------------------------
(* The client *)

(* client_reset: CLOSE goes out of the old socket. *)
Reset(c) ==
    /\ clnt' = ClientReset(c, TRUE)
    /\ port' = Unused(Remotes \ UsedPorts)
    /\ heard' = "nothing"
    /\ LET left == net \cap ToServer
       IN  net' = IF SendsClose(c)
                  THEN With(left, [type |-> "CLOSE", from |-> port, id |-> c.sess])
                  ELSE left
    /\ UNCHANGED <<tables, weather>>

(* A second passes and timer_tick runs. *)
TickReset == TickResets(Older(clnt)) /\ Reset(Older(clnt))

TickGoesOn ==
    LET c == Older(clnt)
    IN  /\ ~TickResets(c)
        /\ clnt' = TickKeeps(c)
        /\ net' = IF SendsOpen(c) THEN With(net, [type |-> "OPEN", from |-> port])
                  ELSE IF SendsEcho(c)
                  THEN With(net, [type |-> "ECHOREQ", from |-> port, id |-> c.sess])
                  ELSE net
        /\ UNCHANGED <<port, heard, tables, weather>>

(* If round trips are short, only DATA is still in flight by then. *)
Second ==
    /\ path = "prompt" => \A m \in net : m.type = "DATA"
    /\ TickReset \/ TickGoesOn

(* SIGUSR1 *)
Reconnect == ~calm /\ Reset(clnt)

RecvOpenack(m) ==
    /\ m.type = "OPENACK" /\ m.to = port
    /\ net' \in Delivered(m)
    /\ IF clnt.state = "AUTH_SENT"
       THEN /\ clnt' = Establish(ApplyTLVs(clnt, m.ack), m.ack)
            /\ heard' = "ack"
       ELSE UNCHANGED <<clnt, heard>>
    /\ UNCHANGED <<port, tables, weather>>

(* ... where tun_set_ip or tun_set_mtu fails; the next tick resets. *)
RecvOpenackTunFails(m) ==
    /\ ~calm
    /\ m.type = "OPENACK" /\ m.to = port
    /\ clnt.state = "AUTH_SENT"
    /\ net' \in Delivered(m)
    /\ clnt' = [Establish(ApplyTLVs(clnt, m.ack), m.ack) EXCEPT !.state = "CLOSED"]
    /\ UNCHANGED <<port, heard, tables, weather>>

(* No session is compared: any ECHORESP or DATA from the server counts. *)
RecvAlive(m) ==
    /\ m.type \in {"ECHORESP", "DATA"} /\ m.to = port
    /\ net' \in Delivered(m)
    /\ IF clnt.state = "ESTABLISHED"
       THEN /\ clnt' = Heard(clnt)
            /\ heard' = IF m.type = "DATA" THEN "data" ELSE "echo"
       ELSE UNCHANGED <<clnt, heard>>
    /\ UNCHANGED <<port, tables, weather>>

-----------------------------------------------------------------------------
(* The server *)

(* Faulty variant: the acknowledgement repeats what the client asked for. *)
AckOfRequest(s) ==
    [id |-> s.id, ip |-> AddrOf(s), mtu |-> EffectiveMTU(CfgMtu),
     encrypt |-> IF WantEncrypt THEN "on" ELSE "off"]

AckOf(s) ==
    [id |-> s.id, ip |-> AddrOf(s), mtu |-> EffectiveMTU(CfgMtu),
     encrypt |-> IF s.encrypt THEN "on" ELSE "off"]

handleOpen(m) ==
    /\ m.type = "OPEN"
    /\ LET s == NewSession(m.from, Unused(Ids \ UsedIds), user, WantEncrypt)
           ack == [type |-> "OPENACK", to |-> s.remote, ack |-> AckOf(s)]
       IN  /\ sessions' = InstallInSessions(sessions, s)
           /\ byAddress' = InstallInAddresses(sessions, byAddress, s)
           /\ \E left \in Delivered(m) :
                 net' = IF s.remote = port THEN With(left, ack) ELSE left
    /\ UNCHANGED <<client, weather>>

(* Faulty variant: an ECHO is answered whatever session it names. *)
handleEchoReqAny(m) ==
    /\ m.type = "ECHOREQ"
    /\ \E left \in Delivered(m) :
          net' = IF m.from = port
                 THEN With(left, [type |-> "ECHORESP", to |-> m.from])
                 ELSE left
    /\ UNCHANGED <<client, tables, weather>>

handleEchoReq(m) ==
    /\ m.type = "ECHOREQ"
    /\ \E left \in Delivered(m) :
          net' = IF sessions[<<m.from, m.id>>] # None /\ m.from = port
                 THEN With(left, [type |-> "ECHORESP", to |-> m.from])
                 ELSE left
    /\ UNCHANGED <<client, tables, weather>>

(* Faulty variant: the user's session is closed whatever the CLOSE names. *)
handleCloseAny(m) ==
    /\ m.type = "CLOSE"
    /\ net' \in Delivered(m)
    /\ LET gone == Live(sessions)
       IN  /\ sessions' = RemoveFromSessions(sessions, gone)
           /\ byAddress' = RemoveFromAddresses(byAddress, gone)
    /\ UNCHANGED <<client, weather>>

handleClose(m) ==
    /\ m.type = "CLOSE"
    /\ net' \in Delivered(m)
    /\ LET gone == {sessions[<<m.from, m.id>>]} \ {None}
       IN  /\ sessions' = RemoveFromSessions(sessions, gone)
           /\ byAddress' = RemoveFromAddresses(byAddress, gone)
    /\ UNCHANGED <<client, weather>>

(* A packet for the user's address arrives, from a peer or the device. *)
Forward ==
    /\ byAddress[UserAddr[user]] # None
    /\ LET s == byAddress[UserAddr[user]]
       IN  /\ s.remote = port
           /\ net' = With(net, [type |-> "DATA", to |-> s.remote])
    /\ UNCHANGED <<client, tables, weather>>

(* The server process ends and is started again: sessions are not kept. *)
Restart ==
    /\ ~calm
    /\ sessions' = NoSessions
    /\ byAddress' = NoAddresses
    /\ UNCHANGED <<client, net, weather>>

-----------------------------------------------------------------------------
Next ==
    \/ Second \/ Reconnect
    \/ \E m \in net \cap ToClient :
          RecvOpenack(m) \/ RecvOpenackTunFails(m) \/ RecvAlive(m)
    \/ \E m \in net \cap ToServer : handleOpen(m) \/ handleEchoReq(m) \/ handleClose(m)
    \/ Forward \/ Restart \/ Lose \/ CalmsDown

Spec == Init /\ [][Next]_vars

(* The client's clock runs.  Only a prompt network promises more: it       *)
(* delivers what it does not lose, a datagram is not held up for ever by   *)
(* others, and both processes serve what arrives.                          *)
FairSpec ==
    /\ Spec
    /\ WF_vars(Second)
    /\ WF_vars(path = "prompt" /\ \E m \in net : handleOpen(m))
    /\ WF_vars(path = "prompt" /\ \E m \in net : handleEchoReq(m))
    /\ WF_vars(path = "prompt" /\ \E m \in net : handleClose(m))
    /\ WF_vars(path = "prompt" /\ \E m \in net : RecvOpenack(m))
    /\ WF_vars(path = "prompt" /\ \E m \in net : m.type = "ECHORESP" /\ RecvAlive(m))

-----------------------------------------------------------------------------
(* The client's session is one the server has, under the client's port. *)
Usable ==
    clnt.state = "ESTABLISHED" /\ sessions[<<port, clnt.sess>>] # None

HalfOpen == clnt.state = "ESTABLISHED" /\ ~Usable

(* Where both ends have the session, they agree on it: on encryption       *)
(* (handleData drops the wrong kind), on the address, which the server     *)
(* routes to this very session, and the client's MTU is no larger than     *)
(* what the server acknowledged, unless that is below 68, which the client *)
(* ignores.  Retried OPENs, late acknowledgements, restarts and reconnects *)
(* notwithstanding.                                                        *)
EndsAgree ==
    Usable =>
        LET s == sessions[<<port, clnt.sess>>]
        IN  /\ s.encrypt = clnt.encrypt
            /\ clnt.peer_ip = AddrOf(s)
            /\ byAddress[clnt.peer_ip] = s
            /\ EffectiveMTU(CfgMtu) >= 68 => EffMtu(clnt) <= EffectiveMTU(CfgMtu)

(* A CLOSE, however late or often it arrives, never takes away the session *)
(* an established client is using; only the client, an OPEN of its own     *)
(* that was delayed, or a restart does.                                    *)
LateCloseHarmless ==
    [][(\E m \in net : handleClose(m)) /\ Usable => Usable']_vars

(* A client whose session the server no longer has (after a retried OPEN,  *)
(* a restart, a delayed OPEN of an old port) stays that way only while     *)
(* DATA for it keeps coming: its ECHOs go unanswered and DATA_TIMEOUT ends *)
(* the session.  (An ECHORESP repeated for ever would also keep it.)       *)
HalfOpenHeals ==
    path # "repeating" /\ <>[]HalfOpen => []<>(heard = "data")

(* Once nothing is lost, restarted, reconnected or failing any more on a   *)
(* prompt path, the client gets a session that the server has, and keeps   *)
(* it: no history of lost answers, sessions left behind on the server by a *)
(* failed interface setup, or OPENs of old sockets prevents it.  On a slow *)
(* path it may not: a repeated OPEN that arrives late displaces the session*)
(* the client was told of, and DATA for the new one keeps it from noticing.*)
Connects == calm ~> []Usable
=============================================================================
