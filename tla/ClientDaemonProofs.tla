------------------------- MODULE ClientDaemonProofs -------------------------
(***************************************************************************)
(* Theorems about ClientDaemon for any timeouts, any lag of the loop, any  *)
(* set of failing system calls and any OPENACKs: the type invariant, the   *)
(* deadlines of the timer, and that session fields, interface and hook     *)
(* scripts follow the session.                                             *)
(***************************************************************************)
EXTENDS ClientDaemon, TLAPS

Quiet == {"DNS_NEEDED", "IP_READY", "AUTH_SENT"}

LEMMA BoundsType ==
    /\ recvNever \in Nat /\ openNever \in Nat
    /\ AuthTimeout < recvNever /\ DataTimeout < recvNever
    /\ RetryInterval <= openNever /\ RetryInterval > 0
  BY ClientAssumption DEF recvNever, openNever

(* What the operators of IwanClient do to the record, field by field. *)
LEMMA InitialType ==
    ASSUME NEW resolved \in BOOLEAN
    PROVE  InitialClient(resolved) \in Client
  BY BoundsType DEF InitialClient, Client, States

LEMMA ResetFacts ==
    ASSUME NEW c, NEW sockOk \in BOOLEAN
    PROVE  /\ ClientReset(c, sockOk) \in Client
           /\ ClientReset(c, sockOk).state \in {"DNS_NEEDED", "IP_READY"}
           /\ ClientReset(c, sockOk).sess = Unset
           /\ ClientReset(c, sockOk).peer_ip = Unset
           /\ ClientReset(c, sockOk).server_mtu = 0
           /\ ~ClientReset(c, sockOk).encrypt
  <1>1. InitialClient(~DomainServer) \in Client
    BY InitialType, ClientAssumption
  <1>2. /\ InitialClient(~DomainServer).state \in {"DNS_NEEDED", "IP_READY"}
        /\ InitialClient(~DomainServer).sess = Unset
        /\ InitialClient(~DomainServer).peer_ip = Unset
        /\ InitialClient(~DomainServer).server_mtu = 0
        /\ ~InitialClient(~DomainServer).encrypt
    BY ClientAssumption DEF InitialClient
  <1> QED BY <1>1, <1>2 DEF ClientReset, Client

LEMMA OlderFacts ==
    ASSUME NEW c \in Client
    PROVE  /\ Older(c) \in Client
           /\ Older(c).state = c.state
           /\ Older(c).sock = c.sock
           /\ Older(c).sess = c.sess
           /\ Older(c).peer_ip = c.peer_ip
           /\ Older(c).server_mtu = c.server_mtu
           /\ Older(c).encrypt = c.encrypt
           /\ Older(c).recvAge <= c.recvAge + 1
           /\ Older(c).openAge <= c.openAge + 1
  <1> DEFINE r == IF c.recvAge < recvNever THEN c.recvAge + 1 ELSE c.recvAge
             o == IF c.openAge < openNever THEN c.openAge + 1 ELSE c.openAge
  <1>1. c.recvAge \in 0..recvNever /\ c.openAge \in 0..openNever
    BY DEF Client
  <1>2. r \in 0..recvNever /\ o \in 0..openNever
        /\ r <= c.recvAge + 1 /\ o <= c.openAge + 1
    BY <1>1, BoundsType
  <1>3. Older(c) = [c EXCEPT !.recvAge = r, !.openAge = o]
    BY DEF Older
  <1> HIDE DEF r, o
  <1>4. /\ Older(c) \in Client
        /\ Older(c).recvAge = r /\ Older(c).openAge = o
    BY <1>2, <1>3 DEF Client
  <1>5. /\ Older(c).state = c.state /\ Older(c).sock = c.sock
        /\ Older(c).sess = c.sess /\ Older(c).peer_ip = c.peer_ip
        /\ Older(c).server_mtu = c.server_mtu /\ Older(c).encrypt = c.encrypt
    BY <1>3 DEF Client
  <1> QED BY <1>2, <1>4, <1>5

LEMMA TLVFacts ==
    ASSUME NEW c \in Client, NEW ack \in Openack
    PROVE  /\ ApplyTLVs(c, ack) \in Client
           /\ ApplyTLVs(c, ack).state = c.state
           /\ ApplyTLVs(c, ack).sock = c.sock
           /\ ApplyTLVs(c, ack).sess = c.sess
           /\ ApplyTLVs(c, ack).recvAge = c.recvAge
           /\ ApplyTLVs(c, ack).openAge = c.openAge
  BY ZenonT(40) DEF ApplyTLVs, Client, Openack

LEMMA EstablishFacts ==
    ASSUME NEW c \in Client, NEW ack \in Openack
    PROVE  /\ Establish(c, ack) \in Client
           /\ Establish(c, ack).state = "ESTABLISHED"
           /\ Establish(c, ack).sock = c.sock
           /\ Establish(c, ack).sess = ack.id
           /\ Establish(c, ack).peer_ip = c.peer_ip
           /\ Establish(c, ack).server_mtu = c.server_mtu
           /\ Establish(c, ack).recvAge = 0
           /\ [Establish(c, ack) EXCEPT !.state = "CLOSED"] \in Client
           /\ [Establish(c, ack) EXCEPT !.state = "CLOSED"].state = "CLOSED"
           /\ [Establish(c, ack) EXCEPT !.state = "CLOSED"].sock = c.sock
  <1>1. /\ 0 \in 0..recvNever /\ 0 \in {0, 1} /\ ack.id \in SessionIds
        /\ "ESTABLISHED" \in States /\ "CLOSED" \in States
    BY BoundsType DEF States, Openack
  <1>2. Establish(c, ack) \in Client
    BY <1>1 DEF Establish, Client
  <1>3. /\ [Establish(c, ack) EXCEPT !.state = "CLOSED"] \in Client
        /\ [Establish(c, ack) EXCEPT !.state = "CLOSED"].state = "CLOSED"
        /\ [Establish(c, ack) EXCEPT !.state = "CLOSED"].sock = Establish(c, ack).sock
    BY <1>1, <1>2 DEF Client
  <1>4. /\ Establish(c, ack).state = "ESTABLISHED" /\ Establish(c, ack).sock = c.sock
        /\ Establish(c, ack).sess = ack.id /\ Establish(c, ack).recvAge = 0
        /\ Establish(c, ack).peer_ip = c.peer_ip
        /\ Establish(c, ack).server_mtu = c.server_mtu
    BY DEF Establish, Client
  <1> QED BY <1>2, <1>3, <1>4

LEMMA HeardFacts ==
    ASSUME NEW c \in Client
    PROVE  /\ Heard(c) \in Client /\ PeerClosed(c) \in Client /\ Rejected(c) \in Client
           /\ Heard(c).state = c.state /\ Heard(c).recvAge = 0
           /\ Heard(c).sock = c.sock
           /\ Heard(c).sess = c.sess /\ Heard(c).peer_ip = c.peer_ip
           /\ Heard(c).server_mtu = c.server_mtu
           /\ PeerClosed(c).state = "CLOSED" /\ Rejected(c).state = "CLOSED"
           /\ PeerClosed(c).sock = c.sock /\ Rejected(c).sock = c.sock
           /\ PeerClosed(c).peer_ip = c.peer_ip
           /\ PeerClosed(c).server_mtu = c.server_mtu
  <1>1. 0 \in 0..recvNever /\ "CLOSED" \in States
    BY BoundsType DEF States
  <1>2. /\ Heard(c) \in Client
        /\ Heard(c).state = c.state /\ Heard(c).recvAge = 0
        /\ Heard(c).sock = c.sock
        /\ Heard(c).sess = c.sess /\ Heard(c).peer_ip = c.peer_ip
        /\ Heard(c).server_mtu = c.server_mtu
    BY <1>1 DEF Heard, Client
  <1>3. PeerClosed(c) \in Client /\ PeerClosed(c).state = "CLOSED"
        /\ PeerClosed(c).sock = Heard(c).sock
        /\ PeerClosed(c).peer_ip = Heard(c).peer_ip
        /\ PeerClosed(c).server_mtu = Heard(c).server_mtu
    BY <1>1, <1>2 DEF PeerClosed, Client
  <1>4. Rejected(c) \in Client /\ Rejected(c).state = "CLOSED"
        /\ Rejected(c).sock = c.sock
    BY <1>1 DEF Rejected, Client
  <1> QED BY <1>2, <1>3, <1>4

(* A tick that goes on: the deadlines hold afresh, the session is kept. *)
LEMMA TickFacts ==
    ASSUME NEW c \in Client, ~TickResets(c), c.state # "DNS_NEEDED"
    PROVE  LET d == [TickKeeps(c) EXCEPT !.sock = TRUE]
           IN  /\ d \in Client
               /\ d.sock
               /\ d.state = IF c.state = "IP_READY" THEN "AUTH_SENT" ELSE c.state
               /\ d.state \in {"AUTH_SENT", "ESTABLISHED"}
               /\ d.sess = c.sess /\ d.peer_ip = c.peer_ip
               /\ d.server_mtu = c.server_mtu
               /\ d.state = "AUTH_SENT" => /\ d.recvAge <= AuthTimeout
                                           /\ d.openAge < RetryInterval
               /\ d.state = "ESTABLISHED" => d.recvAge <= DataTimeout
  <1> DEFINE s == StartAuth(c)
             d == [TickKeeps(c) EXCEPT !.sock = TRUE]
  <1>1. /\ s \in Client
        /\ s.state = IF c.state = "IP_READY" THEN "AUTH_SENT" ELSE c.state
        /\ s.sess = c.sess /\ s.peer_ip = c.peer_ip /\ s.server_mtu = c.server_mtu
        /\ s.state = "AUTH_SENT" => s.recvAge <= AuthTimeout
        /\ s.state = "ESTABLISHED" => s.recvAge <= DataTimeout
    <2>1. CASE c.state = "IP_READY"
      <3>1. s = [c EXCEPT !.state = "AUTH_SENT", !.recvAge = 0, !.openAge = openNever]
        BY <2>1 DEF StartAuth
      <3>2. 0 \in 0..recvNever /\ openNever \in 0..openNever /\ "AUTH_SENT" \in States
            /\ 0 <= AuthTimeout
        BY BoundsType, ClientAssumption DEF States
      <3>3. s \in Client
        BY <3>1, <3>2 DEF Client
      <3>4. s.state = "AUTH_SENT" /\ s.recvAge = 0 /\ s.sess = c.sess
            /\ s.peer_ip = c.peer_ip /\ s.server_mtu = c.server_mtu
        BY <3>1 DEF Client
      <3> QED BY <2>1, <3>2, <3>3, <3>4
    <2>2. CASE c.state # "IP_READY"
      <3>1. s = c
        BY <2>2 DEF StartAuth
      <3>2. c.recvAge \in Int
        BY BoundsType DEF Client
      <3> QED BY <2>2, <3>1, <3>2, ClientAssumption DEF TickResets, TimedOut
    <2> QED BY <2>1, <2>2
  <1>2. s.state \in {"AUTH_SENT", "ESTABLISHED"}
    BY <1>1 DEF Client, States, TickResets
  <1>3. /\ d \in Client /\ d.sock
        /\ d.state = s.state /\ d.sess = s.sess /\ d.peer_ip = s.peer_ip
        /\ d.server_mtu = s.server_mtu /\ d.recvAge = s.recvAge
        /\ d.openAge = IF SendsOpen(c) THEN 0 ELSE s.openAge
    <2> DEFINE o == IF SendsOpen(c) THEN 0 ELSE s.openAge
               e == IF s.state = "ESTABLISHED" THEN 1 - s.echo ELSE s.echo
    <2>1. s.openAge \in 0..openNever /\ s.echo \in {0, 1}
      BY <1>1 DEF Client
    <2>2. o \in 0..openNever /\ e \in {0, 1}
      BY <2>1, BoundsType
    <2>3. TickKeeps(c) = [s EXCEPT !.openAge = o, !.echo = e]
      BY DEF TickKeeps
    <2> HIDE DEF s, o, e
    <2>4. d = [[s EXCEPT !.openAge = o, !.echo = e] EXCEPT !.sock = TRUE]
      BY <2>3
    <2>5. d \in Client
      BY <1>1, <2>2, <2>4 DEF Client
    <2>6. /\ d.sock /\ d.openAge = o
          /\ d.state = s.state /\ d.sess = s.sess /\ d.peer_ip = s.peer_ip
          /\ d.server_mtu = s.server_mtu /\ d.recvAge = s.recvAge
      BY <1>1, <2>4 DEF Client
    <2> QED BY <2>5, <2>6 DEF o
  <1>4. s.state = "AUTH_SENT" => d.openAge < RetryInterval
    BY <1>1, <1>3, BoundsType, ClientAssumption DEF SendsOpen, Client
  <1> QED BY <1>1, <1>2, <1>3, <1>4

LEMMA EffMtuType ==
    ASSUME NEW c \in Client
    PROVE  EffMtu(c) \in Mtus \cup {CfgMtu}
  BY ClientAssumption DEF EffMtu, Client

LEMMA ArgsType ==
    ASSUME NEW c \in Client
    PROVE  ScriptArgs(c) \in [ip : TunnelIPs \cup {Unset}, mtu : Mtus \cup {CfgMtu}]
  BY ClientAssumption DEF ScriptArgs, Client

-----------------------------------------------------------------------------
(* Until the down script of a session is called, what its up script was    *)
(* told is what the down script would be told now.                         *)
UpToldCurrent ==
    "script" \notin Failing /\ hook = "up" =>
        clnt.state \in {"ESTABLISHED", "CLOSED"} /\ told = ScriptArgs(clnt)

(* The inductive invariant is the conjunction of the properties: a tick    *)
(* without a socket keeps the deadlines only because such a client is not  *)
(* waiting for anything, and the interface keeps its address only until    *)
(* the state says there is none.                                           *)
IInv ==
    /\ TypeOK
    /\ SessionFieldsFresh
    /\ Deadlines
    /\ TunFollowsSession
    /\ HookFollowsSession
    /\ UpToldCurrent

LEMMA InitIInv == Init => IInv
  <1> SUFFICES ASSUME Init PROVE IInv
    OBVIOUS
  <1> PICK resolved \in BOOLEAN : clnt = InitialClient(resolved)
    BY DEF Init
  <1>1. clnt \in Client
    BY InitialType
  <1>2. clnt.state \in {"DNS_NEEDED", "IP_READY"} /\ clnt.sess = Unset
        /\ clnt.peer_ip = Unset /\ clnt.server_mtu = 0 /\ ~clnt.encrypt
    BY DEF InitialClient
  <1>3. tun \in [ip : TunnelIPs \cup {Unset}, mtu : Mtus \cup {CfgMtu, KernelMtu},
                up : BOOLEAN]
    BY DEF Init, NoAddress
  <1>4. sinceTick \in 0..MaxLag
    BY ClientAssumption DEF Init
  <1>5. TypeOK
    BY <1>1, <1>3, <1>4 DEF Init, TypeOK
  <1> QED BY <1>2, <1>5 DEF Init, IInv, SessionFieldsFresh, Deadlines,
             TunFollowsSession, HookFollowsSession, UpToldCurrent, NoAddress

(* run_script and client_reset *)
LEMMA ScriptFacts ==
    ASSUME TypeOK, NEW event \in {"up", "down"}, NEW rc \in BOOLEAN,
           NEW c \in Client, run_script(event, c, rc)
    PROVE  /\ hook' \in {"none", "up", "down"} /\ running' \subseteq {"up", "down"}
           /\ told' \in [ip : TunnelIPs \cup {Unset}, mtu : Mtus \cup {CfgMtu}]
           /\ g_quit' \in BOOLEAN /\ g_reconnect' \in BOOLEAN
           /\ "script" \notin Failing => hook' = event /\ told' = ScriptArgs(c)
  BY ArgsType DEF run_script, TypeOK, hooks

LEMMA ResetStep ==
    ASSUME IInv, pc # "exited", NEW rc \in BOOLEAN, client_reset(rc)
    PROVE  /\ clnt' \in Client
           /\ clnt'.state \in {"DNS_NEEDED", "IP_READY"}
           /\ clnt'.sess = Unset /\ clnt'.peer_ip = Unset
           /\ clnt'.server_mtu = 0 /\ ~clnt'.encrypt
           /\ tun' \in [ip : TunnelIPs \cup {Unset},
                        mtu : Mtus \cup {CfgMtu, KernelMtu}, up : BOOLEAN]
           /\ "tun_clear" \in Failing \/ (tun'.ip = Unset /\ ~tun'.up)
           /\ told' \in [ip : TunnelIPs \cup {Unset}, mtu : Mtus \cup {CfgMtu}]
           /\ hook' \in {"none", "up", "down"} /\ running' \subseteq {"up", "down"}
           /\ g_quit' \in BOOLEAN /\ g_reconnect' \in BOOLEAN
           /\ "script" \notin Failing => hook' # "up"
  <1>1. /\ clnt' \in Client
        /\ clnt'.state \in {"DNS_NEEDED", "IP_READY"}
        /\ clnt'.sess = Unset /\ clnt'.peer_ip = Unset
        /\ clnt'.server_mtu = 0 /\ ~clnt'.encrypt
    BY ResetFacts DEF client_reset
  <1>2. CASE TearsDown(clnt)
    <2>1. TunCleared /\ run_script("down", clnt, rc) /\ clnt \in Client
      BY <1>2 DEF client_reset, IInv, TypeOK
    <2>2. /\ tun' \in [ip : TunnelIPs \cup {Unset},
                       mtu : Mtus \cup {CfgMtu, KernelMtu}, up : BOOLEAN]
          /\ "tun_clear" \in Failing \/ (tun'.ip = Unset /\ ~tun'.up)
      BY <2>1 DEF TunCleared, Cleared, IInv, TypeOK
    <2> QED BY <1>1, <2>1, <2>2, ScriptFacts DEF IInv
  <1>3. CASE ~TearsDown(clnt)
    <2>1. g_reconnect' = rc /\ UNCHANGED <<tun, hook, told, running, g_quit>>
      BY <1>3 DEF client_reset, hooks
    <2>2. clnt.state \in Quiet
      BY <1>3 DEF TearsDown, IInv, TypeOK, Client, States, Quiet
    <2> QED BY <1>1, <2>1, <2>2
            DEF IInv, TypeOK, TunFollowsSession, HookFollowsSession, Quiet
  <1> QED BY <1>2, <1>3

(* An action that keeps the client and everything tied to it. *)
LEMMA KeepsClient ==
    ASSUME IInv, UNCHANGED <<clnt, tun, hook, told>>,
           sinceTick' \in 0..MaxLag, sinceTick' >= sinceTick,
           pc' \in {"top", "poll", "io", "exited"}, (pc' = "exited") <=> (pc = "exited"),
           ready' \subseteq {"tun", "udp"}, running' \subseteq {"up", "down"},
           g_quit' \in BOOLEAN, g_reconnect' \in BOOLEAN
    PROVE  IInv'
  <1>1. TypeOK'
    BY DEF IInv, TypeOK
  <1>2. Deadlines'
    BY ClientAssumption DEF IInv, Deadlines, TypeOK, Client, recvNever, openNever
  <1>3. SessionFieldsFresh' /\ TunFollowsSession' /\ HookFollowsSession'
        /\ UpToldCurrent'
    BY DEF IInv, SessionFieldsFresh, TunFollowsSession, HookFollowsSession, EffMtu,
           UpToldCurrent, ScriptArgs
  <1> QED BY <1>1, <1>2, <1>3 DEF IInv

(* An action that ends in client_reset. *)
LEMMA ResetsClient ==
    ASSUME IInv, pc # "exited", NEW rc \in BOOLEAN, client_reset(rc),
           sinceTick' \in 0..MaxLag, pc' \in {"top", "poll", "io"},
           ready' \subseteq {"tun", "udp"}
    PROVE  IInv'
  <1>1. TypeOK'
    BY ResetStep DEF TypeOK
  <1>2. clnt'.state \in {"DNS_NEEDED", "IP_READY"}
    BY ResetStep
  <1>3. Deadlines'
    BY <1>2 DEF Deadlines
  <1>4. SessionFieldsFresh'
    BY <1>2, ResetStep DEF SessionFieldsFresh
  <1>5. TunFollowsSession'
    BY <1>2, ResetStep DEF TunFollowsSession
  <1>6. HookFollowsSession' /\ UpToldCurrent'
    BY <1>2, ResetStep DEF HookFollowsSession, UpToldCurrent
  <1> QED BY <1>1, <1>3, <1>4, <1>5, <1>6 DEF IInv

LEMMA CleanupStep ==
    ASSUME IInv, pc # "exited", Cleanup
    PROVE  IInv'
  <1>1. /\ hook' \in {"none", "up", "down"} /\ running' \subseteq {"up", "down"}
        /\ g_quit' \in BOOLEAN /\ g_reconnect' \in BOOLEAN
        /\ told' \in [ip : TunnelIPs \cup {Unset}, mtu : Mtus \cup {CfgMtu}]
        /\ "script" \notin Failing =>
              \/ clnt.state = "ESTABLISHED" /\ hook' = "down"
              \/ clnt.state # "ESTABLISHED" /\ hook' = hook /\ told' = told
    <2>1. CASE clnt.state = "ESTABLISHED"
      BY <2>1, ScriptFacts DEF Cleanup, IInv, TypeOK
    <2>2. CASE clnt.state # "ESTABLISHED"
      BY <2>2 DEF Cleanup, IInv, TypeOK, hooks, sigs
    <2> QED BY <2>1, <2>2
  <1>2. TypeOK'
    BY <1>1 DEF Cleanup, IInv, TypeOK, NoAddress
  <1>3. SessionFieldsFresh' /\ Deadlines' /\ TunFollowsSession'
    BY DEF Cleanup, IInv, SessionFieldsFresh, Deadlines, TunFollowsSession
  <1>4. HookFollowsSession' /\ UpToldCurrent'
    BY <1>1 DEF Cleanup, IInv, HookFollowsSession, UpToldCurrent, ScriptArgs
  <1> QED BY <1>2, <1>3, <1>4 DEF IInv

(* A datagram: the client record changes, time does not. *)
LEMMA RecvStep ==
    ASSUME IInv, UdpTurn,
           \/ RecvIgnored \/ RecvOpenrej \/ RecvAccepted \/ RecvClose
           \/ \E ack \in Acks :
                RecvOpenackNoIP(ack) \/ RecvOpenackTunFails(ack) \/ RecvOpenack(ack)
    PROVE  IInv'
  <1> USE DEF UdpTurn
  <1>0. clnt \in Client /\ pc' = "io" /\ pc = "io" /\ ready' = {}
        /\ sinceTick' = sinceTick /\ sinceTick \in 0..MaxLag
    BY DEF IInv, TypeOK
  <1>1. CASE RecvIgnored
    BY <1>1, <1>0, KeepsClient DEF RecvIgnored, IInv, TypeOK, hooks, sigs
  <1>2. CASE RecvOpenrej \/ RecvClose
    <2>1. clnt' \in Client /\ clnt'.state = "CLOSED" /\ clnt'.sock = clnt.sock
          /\ UNCHANGED <<tun, hooks, sigs>>
          /\ \/ clnt.state = "AUTH_SENT"
             \/ /\ clnt.state = "ESTABLISHED" /\ clnt'.peer_ip = clnt.peer_ip
                /\ clnt'.server_mtu = clnt.server_mtu
      BY <1>2, <1>0, HeardFacts DEF RecvOpenrej, RecvClose
    <2>2. UpToldCurrent'
      BY <1>0, <2>1 DEF IInv, UpToldCurrent, HookFollowsSession, ScriptArgs, hooks
    <2> QED BY <1>0, <2>1, <2>2
            DEF IInv, TypeOK, SessionFieldsFresh, Deadlines, TunFollowsSession,
                HookFollowsSession, hooks, sigs
  <1>3. CASE RecvAccepted
    <2>1. /\ clnt' \in Client /\ clnt'.state = "ESTABLISHED" /\ clnt'.recvAge = 0
          /\ clnt.state = "ESTABLISHED"
          /\ clnt'.sock = clnt.sock /\ clnt'.sess = clnt.sess
          /\ clnt'.peer_ip = clnt.peer_ip /\ clnt'.server_mtu = clnt.server_mtu
          /\ UNCHANGED <<tun, hooks, sigs>>
      BY <1>3, <1>0, HeardFacts DEF RecvAccepted
    <2>2. TypeOK' /\ SessionFieldsFresh' /\ HookFollowsSession'
      BY <1>0, <2>1 DEF IInv, TypeOK, SessionFieldsFresh, HookFollowsSession, hooks, sigs
    <2>3. Deadlines'
      BY <1>0, <2>1, ClientAssumption DEF Deadlines
    <2>4. TunFollowsSession' /\ UpToldCurrent'
      BY <1>0, <2>1 DEF IInv, TunFollowsSession, EffMtu, UpToldCurrent, ScriptArgs, hooks
    <2> QED BY <2>2, <2>3, <2>4 DEF IInv
  <1>4. ASSUME NEW ack \in Acks, RecvOpenackNoIP(ack)
        PROVE  IInv'
    <2>1. ack \in Openack
      BY DaemonAssumption
    <2>2. /\ clnt' \in Client /\ clnt'.state = "AUTH_SENT" /\ clnt.state = "AUTH_SENT"
          /\ clnt'.sock = clnt.sock /\ clnt'.sess = clnt.sess /\ clnt'.peer_ip = Unset
          /\ clnt'.recvAge = clnt.recvAge /\ clnt'.openAge = clnt.openAge
          /\ UNCHANGED <<tun, hooks, sigs>>
      BY <1>0, <1>4, <2>1, TLVFacts DEF RecvOpenackNoIP
    <2> QED BY <1>0, <2>2
            DEF IInv, TypeOK, SessionFieldsFresh, Deadlines, TunFollowsSession,
                HookFollowsSession, UpToldCurrent, hooks, sigs
  <1>5. ASSUME NEW ack \in Acks, RecvOpenackTunFails(ack)
        PROVE  IInv'
    <2> DEFINE c == ApplyTLVs(clnt, ack)
    <2>1. ack \in Openack /\ c \in Client /\ c.sock = clnt.sock
      BY <1>0, DaemonAssumption, TLVFacts
    <2>2. clnt' \in Client /\ clnt'.state = "CLOSED" /\ clnt'.sock = clnt.sock
          /\ clnt.state = "AUTH_SENT" /\ UNCHANGED <<hooks, sigs>>
      BY <1>5, <2>1, EstablishFacts DEF RecvOpenackTunFails
    <2>3. tun' \in [ip : TunnelIPs \cup {Unset},
                    mtu : Mtus \cup {CfgMtu, KernelMtu}, up : BOOLEAN]
      <3>1. tun' \in {tun, [tun EXCEPT !.ip = c.peer_ip],
                      [tun EXCEPT !.ip = c.peer_ip, !.up = TRUE]}
        BY <1>5 DEF RecvOpenackTunFails, SetIpResults
      <3>2. c.peer_ip \in TunnelIPs \cup {Unset}
        BY <2>1 DEF Client
      <3> QED BY <3>1, <3>2 DEF IInv, TypeOK
    <2> QED BY <1>0, <2>2, <2>3
            DEF IInv, TypeOK, SessionFieldsFresh, Deadlines, TunFollowsSession,
                HookFollowsSession, UpToldCurrent, hooks, sigs
  <1>6. ASSUME NEW ack \in Acks, RecvOpenack(ack)
        PROVE  IInv'
    <2> DEFINE c == ApplyTLVs(clnt, ack)
    <2>1. ack \in Openack /\ c \in Client /\ c.sock = clnt.sock
      BY <1>0, DaemonAssumption, TLVFacts
    <2>2. /\ clnt' \in Client /\ clnt'.state = "ESTABLISHED" /\ clnt'.recvAge = 0
          /\ clnt'.sock = clnt.sock /\ clnt'.sess = ack.id
          /\ clnt'.peer_ip = c.peer_ip /\ clnt'.server_mtu = c.server_mtu
          /\ clnt.state = "AUTH_SENT" /\ c.peer_ip # Unset
      BY <1>6, <2>1, EstablishFacts DEF RecvOpenack
    <2>3. tun' = [ip |-> c.peer_ip, mtu |-> EffMtu(c), up |-> TRUE]
      BY <1>6 DEF RecvOpenack
    <2>4. EffMtu(clnt') = EffMtu(c)
      BY <2>2 DEF EffMtu
    <2>5. run_script("up", clnt', g_reconnect)
      BY <1>6 DEF RecvOpenack
    <2>6. TypeOK'
      <3>1. tun' \in [ip : TunnelIPs \cup {Unset},
                      mtu : Mtus \cup {CfgMtu, KernelMtu}, up : BOOLEAN]
        BY <2>1, <2>3, EffMtuType DEF Client
      <3> QED BY <1>0, <2>2, <2>5, <3>1, ScriptFacts DEF IInv, TypeOK
    <2>7. SessionFieldsFresh'
      BY <2>1, <2>2, ClientAssumption DEF IInv, SessionFieldsFresh, Openack
    <2>8. Deadlines'
      BY <1>0, <2>2, ClientAssumption DEF Deadlines
    <2>9. TunFollowsSession'
      BY <1>0, <2>2, <2>3, <2>4 DEF TunFollowsSession
    <2>10. HookFollowsSession' /\ UpToldCurrent'
      <3>1. "script" \notin Failing => hook' = "up" /\ told' = ScriptArgs(clnt')
        BY <2>2, <2>5, ScriptFacts DEF IInv, TypeOK
      <3>2. HookFollowsSession'
        BY <1>0, <2>2, <3>1 DEF HookFollowsSession
      <3>3. UpToldCurrent'
        BY <2>2, <3>1 DEF UpToldCurrent, ScriptArgs
      <3> QED BY <3>2, <3>3
    <2> QED BY <2>6, <2>7, <2>8, <2>9, <2>10 DEF IInv
  <1> QED BY <1>1, <1>2, <1>3, <1>4, <1>5, <1>6

(* A tick that neither resets nor fails. *)
LEMMA TickStep ==
    ASSUME IInv, TickGoesOn
    PROVE  IInv'
  <1>1. clnt \in Client /\ ~TickResets(clnt) /\ clnt.state # "DNS_NEEDED"
        /\ clnt' = [TickKeeps(clnt) EXCEPT !.sock = TRUE]
        /\ UNCHANGED <<tun, hooks, sigs>>
        /\ pc = "io" /\ pc' = "top" /\ ready' = ready /\ sinceTick' = 0
    BY DEF TickGoesOn, Tick, EndOfLoop, IInv, TypeOK
  <1>2. /\ clnt' \in Client /\ clnt'.sock
        /\ clnt'.state = IF clnt.state = "IP_READY" THEN "AUTH_SENT" ELSE clnt.state
        /\ clnt'.state \in {"AUTH_SENT", "ESTABLISHED"}
        /\ clnt'.sess = clnt.sess /\ clnt'.peer_ip = clnt.peer_ip
        /\ clnt'.server_mtu = clnt.server_mtu
        /\ clnt'.state = "AUTH_SENT" => /\ clnt'.recvAge <= AuthTimeout
                                        /\ clnt'.openAge < RetryInterval
        /\ clnt'.state = "ESTABLISHED" => clnt'.recvAge <= DataTimeout
    BY <1>1, TickFacts
  <1>3. TypeOK'
    BY <1>1, <1>2, ClientAssumption DEF IInv, TypeOK, hooks, sigs
  <1>4. Deadlines'
    BY <1>1, <1>2, ClientAssumption DEF Deadlines, Client
  <1>5. SessionFieldsFresh'
    BY <1>2 DEF IInv, SessionFieldsFresh
  <1>6. TunFollowsSession'
    BY <1>1, <1>2 DEF IInv, TunFollowsSession, EffMtu
  <1>7. HookFollowsSession' /\ UpToldCurrent'
    BY <1>1, <1>2 DEF IInv, HookFollowsSession, UpToldCurrent, ScriptArgs, hooks
  <1> QED BY <1>3, <1>4, <1>5, <1>6, <1>7 DEF IInv

LEMMA NextIInv == IInv /\ [Next]_vars => IInv'
  <1> SUFFICES ASSUME IInv, [Next]_vars PROVE IInv'
    OBVIOUS
  <1>0. g_reconnect \in BOOLEAN /\ g_quit \in BOOLEAN /\ sinceTick \in 0..MaxLag
        /\ sinceTick \in Nat /\ ready \subseteq {"tun", "udp"}
        /\ running \subseteq {"up", "down"} /\ clnt \in Client
        /\ pc \in {"top", "poll", "io", "exited"}
    BY ClientAssumption DEF IInv, TypeOK
  <1>1. CASE Quit \/ PollFails
    BY <1>1, CleanupStep DEF Quit, PollFails
  <1>2. CASE Reconnect
    BY <1>0, <1>2, ResetsClient DEF Reconnect
  <1>3. CASE TickReset
    BY <1>0, <1>3, ResetsClient, ClientAssumption DEF TickReset, Tick, EndOfLoop
  <1>4. CASE EnterPoll \/ Poll \/ PollInterrupted \/ HandleTun \/ NoTick
    <2>1. /\ UNCHANGED <<clnt, tun, hook, told, running, g_quit, g_reconnect, sinceTick>>
          /\ pc \in {"top", "poll", "io"} /\ pc' \in {"top", "poll", "io"}
      BY <1>4 DEF EnterPoll, Poll, PollInterrupted, HandleTun, NoTick, EndOfLoop,
                  hooks, sigs
    <2>2. ready' \subseteq {"tun", "udp"}
      BY <1>0, <1>4 DEF EnterPoll, Poll, PollInterrupted, HandleTun, NoTick, EndOfLoop
    <2> QED BY <1>0, <2>1, <2>2, KeepsClient
  <1>5. CASE \/ RecvIgnored \/ RecvOpenrej \/ RecvAccepted \/ RecvClose
             \/ \E ack \in Acks :
                  RecvOpenackNoIP(ack) \/ RecvOpenackTunFails(ack) \/ RecvOpenack(ack)
    <2>1. UdpTurn
      BY <1>5 DEF RecvIgnored, RecvOpenrej, RecvAccepted, RecvClose,
                  RecvOpenackNoIP, RecvOpenackTunFails, RecvOpenack
    <2> QED BY <1>5, <2>1, RecvStep
  <1>6. CASE TickNoSocket
    <2>1. clnt.state \in {"DNS_NEEDED", "IP_READY"}
      BY <1>0, <1>6 DEF TickNoSocket, IInv, SessionFieldsFresh, Client, States
    <2>2. UNCHANGED <<clnt, tun, hooks, sigs, ready>> /\ pc = "io" /\ pc' = "top"
          /\ sinceTick' = 0
      BY <1>6 DEF TickNoSocket, Tick, EndOfLoop
    <2> QED BY <2>1, <2>2, ClientAssumption
            DEF IInv, TypeOK, SessionFieldsFresh, Deadlines, TunFollowsSession,
                HookFollowsSession, UpToldCurrent, hooks, sigs
  <1>7. CASE TickResolve
    <2> PICK resolved \in BOOLEAN :
          clnt' = [clnt EXCEPT !.sock = TRUE,
                               !.state = IF resolved THEN "IP_READY" ELSE @]
      BY <1>7 DEF TickResolve
    <2>1. /\ clnt' \in Client /\ clnt'.state \in {"DNS_NEEDED", "IP_READY"}
          /\ clnt.state = "DNS_NEEDED"
          /\ clnt'.sess = clnt.sess /\ clnt'.peer_ip = clnt.peer_ip
      BY <1>0, <1>7 DEF TickResolve, Client, States
    <2>2. UNCHANGED <<tun, hooks, sigs, ready>> /\ pc = "io" /\ pc' = "top"
          /\ sinceTick' = 0
      BY <1>7 DEF TickResolve, Tick, EndOfLoop
    <2> QED BY <2>1, <2>2, ClientAssumption
            DEF IInv, TypeOK, SessionFieldsFresh, Deadlines, TunFollowsSession,
                HookFollowsSession, UpToldCurrent, hooks, sigs
  <1>8. CASE TickGoesOn
    BY <1>8, TickStep
  <1>9. CASE TimePasses
    <2>1. /\ clnt' \in Client /\ clnt'.state = clnt.state /\ clnt'.sock = clnt.sock
          /\ clnt'.sess = clnt.sess /\ clnt'.peer_ip = clnt.peer_ip
          /\ clnt'.server_mtu = clnt.server_mtu /\ clnt'.encrypt = clnt.encrypt
          /\ clnt'.recvAge <= clnt.recvAge + 1 /\ clnt'.openAge <= clnt.openAge + 1
      BY <1>0, <1>9, OlderFacts DEF TimePasses
    <2>2. UNCHANGED <<tun, hooks, sigs, pc, ready>> /\ sinceTick' = sinceTick + 1
          /\ sinceTick < MaxLag
      BY <1>9 DEF TimePasses
    <2>3. TypeOK'
      BY <1>0, <2>1, <2>2, ClientAssumption DEF IInv, TypeOK, hooks, sigs
    <2>4. Deadlines'
      BY <1>0, <2>1, <2>2, ClientAssumption, BoundsType
         DEF IInv, Deadlines, Client
    <2>5. SessionFieldsFresh' /\ TunFollowsSession' /\ HookFollowsSession'
          /\ UpToldCurrent'
      BY <2>1, <2>2 DEF IInv, SessionFieldsFresh, TunFollowsSession,
                        HookFollowsSession, UpToldCurrent, ScriptArgs, EffMtu, hooks
    <2> QED BY <2>3, <2>4, <2>5 DEF IInv
  <1>10. CASE ScriptEnds \/ SigTerm \/ SigUsr1 \/ UNCHANGED vars
    <2>1. UNCHANGED <<clnt, tun, hook, told, sinceTick, pc, ready>>
      BY <1>10 DEF ScriptEnds, SigTerm, SigUsr1, vars, hooks, sigs
    <2>2. g_quit' \in BOOLEAN /\ g_reconnect' \in BOOLEAN
      BY <1>0, <1>10 DEF ScriptEnds, SigTerm, SigUsr1, vars, hooks, sigs
    <2>3. running' \subseteq {"up", "down"}
      BY <1>0, <1>10 DEF ScriptEnds, SigTerm, SigUsr1, vars, hooks, sigs
    <2> QED BY <1>0, <2>1, <2>2, <2>3, KeepsClient
  <1> QED
    BY <1>1, <1>2, <1>3, <1>4, <1>5, <1>6, <1>7, <1>8, <1>9, <1>10
       DEF Next, MainStep

LEMMA Invariance == Spec => []IInv
  BY InitIInv, NextIInv, PTL DEF Spec

(* Every reachable state of the daemon is well typed. *)
THEOREM TypeCorrect == Spec => []TypeOK
  BY Invariance, PTL DEF IInv

(* The client never waits past its deadlines by more than the lag of the   *)
(* event loop, for any values of the timeouts.                             *)
THEOREM DeadlinesKept == Spec => []Deadlines
  BY Invariance, PTL DEF IInv

(* The parameters of a session exist while it does, and no longer. *)
THEOREM FieldsStayFresh == Spec => []SessionFieldsFresh
  BY Invariance, PTL DEF IInv

(* The interface follows the session, whatever fails. *)
THEOREM InterfaceFollows == Spec => []TunFollowsSession
  BY Invariance, PTL DEF IInv

(* Up and down scripts are paired. *)
THEOREM HooksPaired == Spec => []HookFollowsSession
  BY Invariance, PTL DEF IInv

(* Only client_reset and the exit call a down script, with the record that *)
(* the session's up script was called with.                                *)
LEMMA DownStep ==
    ASSUME IInv, [Next]_vars, hook = "up", hook' = "down", "script" \notin Failing
    PROVE  told' = ScriptArgs(clnt)
  <1>1. ASSUME NEW rc, run_script("down", clnt, rc)
        PROVE  told' = ScriptArgs(clnt)
    BY <1>1 DEF run_script, hooks
  <1>2. ASSUME NEW rc, client_reset(rc)
        PROVE  told' = ScriptArgs(clnt)
    <2>1. TearsDown(clnt)
      BY <1>2 DEF client_reset, hooks
    <2> QED BY <1>1, <1>2, <2>1 DEF client_reset
  <1>3. ASSUME Cleanup
        PROVE  told' = ScriptArgs(clnt)
    BY <1>1, <1>3 DEF Cleanup, hooks
  <1>4. CASE Quit \/ PollFails \/ Reconnect \/ TickReset
    BY <1>2, <1>3, <1>4 DEF Quit, PollFails, Reconnect, TickReset
  <1>5. CASE \/ EnterPoll \/ Poll \/ PollInterrupted \/ HandleTun \/ NoTick
             \/ TickNoSocket \/ TickResolve \/ TickGoesOn \/ TimePasses
             \/ ScriptEnds \/ SigTerm \/ SigUsr1 \/ UNCHANGED vars
             \/ RecvIgnored \/ RecvOpenrej \/ RecvAccepted \/ RecvClose
    BY <1>5 DEF EnterPoll, Poll, PollInterrupted, HandleTun, NoTick, TickNoSocket,
                TickResolve, TickGoesOn, TimePasses, ScriptEnds, SigTerm, SigUsr1,
                vars, RecvIgnored, RecvOpenrej, RecvAccepted, RecvClose, hooks
  <1>6. ASSUME NEW ack \in Acks,
               RecvOpenackNoIP(ack) \/ RecvOpenackTunFails(ack) \/ RecvOpenack(ack)
        PROVE  told' = ScriptArgs(clnt)
    BY <1>6 DEF RecvOpenackNoIP, RecvOpenackTunFails, RecvOpenack, run_script, hooks
  <1> QED BY <1>4, <1>5, <1>6 DEF Next, MainStep

(* A down script is told what the up script of its session was told. *)
THEOREM DownMirrorsUp == Spec => DownToldAsUp
  <1>1. IInv /\ [Next]_vars =>
            [hook = "up" /\ hook' = "down" /\ "script" \notin Failing
                => told' = told]_vars
    BY DownStep DEF IInv, UpToldCurrent
  <1> QED BY <1>1, Invariance, PTL DEF Spec, DownToldAsUp
=============================================================================
