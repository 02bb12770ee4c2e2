---------------------------- MODULE ClientDaemon ----------------------------
(***************************************************************************)
(* The client daemon as one process (main in src/src/iwand.c): the event   *)
(* loop around the state machine of IwanClient, the TUN interface it       *)
(* configures, the hook scripts it runs and the signals it takes.          *)
(*                                                                         *)
(* The server is the environment: any datagram may arrive at any time.     *)
(* Time passes between any two steps, by up to MaxLag seconds between two  *)
(* ticks (a hook script or a DNS query may block the loop).                *)
(***************************************************************************)
EXTENDS IwanClient

CONSTANTS
    Failing,  \* the operating system's calls that may fail, see below
    Acks      \* the OPENACKs that may arrive

INSTANCE TunContract

ASSUME DaemonAssumption ==
    /\ Failing \subseteq {"socket", "dns", "script", "tun_set", "tun_clear", "poll"}
    /\ Acks \subseteq Openack

VARIABLES
    clnt,         \* g_clnt
    tun,          \* what the kernel has: address, MTU, IFF_UP
    hook,         \* the script started last: "none", "up" or "down"
    told,         \* the address and MTU it was called with
    running,      \* scripts still running after run_script returned
    g_quit,       \* set by SIGTERM and SIGINT
    g_reconnect,  \* set by SIGUSR1
    sinceTick,    \* seconds since last_tick
    pc,           \* main: "top" of the loop, "poll", "io", "exited"
    ready         \* descriptors poll reported and the loop has yet to serve

sigs == <<g_quit, g_reconnect>>
hooks == <<hook, told, running>>
vars == <<clnt, tun, hooks, sigs, sinceTick, pc, ready>>

(* tun_open leaves the MTU to the kernel, which sets 1500. *)
KernelMtu == 1500

NoAddress == [ip |-> Unset, mtu |-> KernelMtu, up |-> FALSE]

(* The arguments of a script; the DNS servers, which nothing else uses, are *)
(* left out.                                                               *)
ScriptArgs(c) ==
    [ip |-> c.peer_ip, mtu |-> IF c.server_mtu > 0 THEN c.server_mtu ELSE CfgMtu]

TypeOK ==
    /\ clnt \in Client
    /\ tun \in [ip : TunnelIPs \cup {Unset}, mtu : Mtus \cup {CfgMtu, KernelMtu},
               up : BOOLEAN]
    /\ hook \in {"none", "up", "down"}
    /\ told \in [ip : TunnelIPs \cup {Unset}, mtu : Mtus \cup {CfgMtu}]
    /\ running \subseteq {"up", "down"}
    /\ g_quit \in BOOLEAN /\ g_reconnect \in BOOLEAN
    /\ sinceTick \in 0..MaxLag
    /\ pc \in {"top", "poll", "io", "exited"}
    /\ ready \subseteq {"tun", "udp"}

(* A numeric server address always resolves. *)
MayFailToResolve == DomainServer /\ "dns" \in Failing

Init ==
    /\ \E resolved \in BOOLEAN :
          /\ ~resolved => MayFailToResolve
          /\ clnt = InitialClient(resolved)
    /\ tun = NoAddress
    /\ hook = "none" /\ told = [ip |-> Unset, mtu |-> CfgMtu] /\ running = {}
    /\ g_quit = FALSE /\ g_reconnect = FALSE
    /\ sinceTick = 0
    /\ pc = "top"
    /\ ready = {}

-----------------------------------------------------------------------------
(* run_script.  It does nothing if no script is configured or fork fails.  *)
(* The parent waits for the script, but the signal handlers are installed  *)
(* without SA_RESTART: a signal ends waitpid and the script goes on alone. *)
(* reconnect is the value g_reconnect has when the script starts.          *)

run_script(event, c, reconnect) ==
    \/ /\ "script" \in Failing
       /\ g_reconnect' = reconnect
       /\ UNCHANGED <<hooks, g_quit>>
    \/ /\ hook' = event /\ told' = ScriptArgs(c)
       /\ g_reconnect' = reconnect
       /\ UNCHANGED <<running, g_quit>>
    \/ /\ hook' = event /\ told' = ScriptArgs(c)
       /\ running' = running \cup {event}
       /\ \/ g_quit' = TRUE /\ g_reconnect' = reconnect
          \/ g_reconnect' = TRUE /\ UNCHANGED g_quit

(* A script that was left alone ends. *)
ScriptEnds ==
    /\ \E event \in running : running' = running \ {event}
    /\ UNCHANGED <<clnt, tun, hook, told, sigs, sinceTick, pc, ready>>

(* tun_clear_ip ignores errors: of either ioctl, or of the socket it needs *)
(* for both.                                                               *)
TunCleared ==
    \E kept \in SUBSET {"ip", "up"} :
        /\ kept # {} => "tun_clear" \in Failing
        /\ tun' = Cleared(tun, kept)

(* Faulty variant: only a session the peer did not close is torn down. *)
client_reset_lost_only(reconnect) ==
    /\ \E sockOk \in BOOLEAN :
          /\ ~sockOk => "socket" \in Failing
          /\ clnt' = ClientReset(clnt, sockOk)
    /\ IF clnt.state = "ESTABLISHED"
       THEN TunCleared /\ run_script("down", clnt, reconnect)
       ELSE g_reconnect' = reconnect /\ UNCHANGED <<tun, hooks, g_quit>>

(* Faulty variant: the fields are cleared before the script is called. *)
client_reset_early(reconnect) ==
    /\ \E sockOk \in BOOLEAN :
          /\ ~sockOk => "socket" \in Failing
          /\ clnt' = ClientReset(clnt, sockOk)
    /\ IF TearsDown(clnt)
       THEN TunCleared /\ run_script("down", clnt', reconnect)
       ELSE g_reconnect' = reconnect /\ UNCHANGED <<tun, hooks, g_quit>>

client_reset(reconnect) ==
    /\ \E sockOk \in BOOLEAN :
          /\ ~sockOk => "socket" \in Failing
          /\ clnt' = ClientReset(clnt, sockOk)
    /\ IF TearsDown(clnt)
       THEN TunCleared /\ run_script("down", clnt, reconnect)
       ELSE g_reconnect' = reconnect /\ UNCHANGED <<tun, hooks, g_quit>>

-----------------------------------------------------------------------------
(* The top of the loop *)

(* The code after the loop; closing the descriptor removes the interface.  *)
Cleanup ==
    /\ pc' = "exited"
    /\ tun' = NoAddress
    /\ ready' = {}
    /\ IF clnt.state = "ESTABLISHED"
       THEN run_script("down", clnt, g_reconnect)
       ELSE UNCHANGED <<hooks, sigs>>
    /\ UNCHANGED <<clnt, sinceTick>>

Quit == pc = "top" /\ g_quit /\ Cleanup

(* Faulty variant: the request is acknowledged and dropped. *)
ReconnectForgets ==
    /\ pc = "top" /\ ~g_quit /\ g_reconnect
    /\ g_reconnect' = FALSE
    /\ pc' = "poll"
    /\ UNCHANGED <<clnt, tun, hooks, g_quit, sinceTick, ready>>

Reconnect ==
    /\ pc = "top" /\ ~g_quit /\ g_reconnect
    /\ client_reset(FALSE)
    /\ pc' = "poll"
    /\ UNCHANGED <<sinceTick, ready>>

(* Faulty variant: the loop does not look at g_quit. *)
EnterPollRegardless ==
    /\ pc = "top" /\ ~g_reconnect
    /\ pc' = "poll"
    /\ UNCHANGED <<clnt, tun, hooks, sigs, sinceTick, ready>>

EnterPoll ==
    /\ pc = "top" /\ ~g_quit /\ ~g_reconnect
    /\ pc' = "poll"
    /\ UNCHANGED <<clnt, tun, hooks, sigs, sinceTick, ready>>

(* poll reports descriptors, or times out after a second. *)
Poll ==
    /\ pc = "poll"
    /\ ready' \in SUBSET {"tun", "udp"}
    /\ "udp" \in ready' => clnt.sock
    /\ ready' = {} => sinceTick > 0
    /\ pc' = "io"
    /\ UNCHANGED <<clnt, tun, hooks, sigs, sinceTick>>

(* EINTR: a signal came while poll waited. *)
PollInterrupted ==
    /\ pc = "poll"
    /\ g_quit \/ g_reconnect
    /\ pc' = "top"
    /\ UNCHANGED <<clnt, tun, hooks, sigs, sinceTick, ready>>

PollFails == pc = "poll" /\ "poll" \in Failing /\ Cleanup

-----------------------------------------------------------------------------
(* Input.  The TUN descriptor comes first. *)

(* handle_tun_recv sends, or drops what it read unless ESTABLISHED; it     *)
(* changes nothing but statistics.                                         *)
HandleTun ==
    /\ pc = "io" /\ "tun" \in ready
    /\ ready' = ready \ {"tun"}
    /\ UNCHANGED <<clnt, tun, hooks, sigs, sinceTick, pc>>

UdpTurn ==
    /\ pc = "io" /\ ready = {"udp"}
    /\ ready' = {}
    /\ UNCHANGED <<sinceTick, pc>>

(* A datagram of another source, of an unknown type, badly signed or not   *)
(* expected in this state.                                                 *)
RecvIgnored ==
    /\ UdpTurn
    /\ UNCHANGED <<clnt, tun, hooks, sigs>>

(* handle_openack without an address *)
RecvOpenackNoIP(ack) ==
    /\ UdpTurn
    /\ clnt.state = "AUTH_SENT"
    /\ ApplyTLVs(clnt, ack).peer_ip = Unset
    /\ clnt' = ApplyTLVs(clnt, ack)
    /\ UNCHANGED <<tun, hooks, sigs>>

(* ... whose interface setup fails, in tun_set_ip or in tun_set_mtu *)
RecvOpenackTunFails(ack) ==
    /\ UdpTurn
    /\ "tun_set" \in Failing
    /\ clnt.state = "AUTH_SENT"
    /\ LET c == ApplyTLVs(clnt, ack)
       IN  /\ c.peer_ip # Unset
           /\ clnt' = [Establish(c, ack) EXCEPT !.state = "CLOSED"]
           /\ \/ tun' \in SetIpResults(tun, c.peer_ip, FALSE)
              \/ tun' \in SetIpResults(tun, c.peer_ip, TRUE)
    /\ UNCHANGED <<hooks, sigs>>

(* Faulty variant: the MTU the server announced is not applied. *)
RecvOpenackNoMtu(ack) ==
    /\ UdpTurn
    /\ clnt.state = "AUTH_SENT"
    /\ LET c == ApplyTLVs(clnt, ack)
       IN  /\ c.peer_ip # Unset
           /\ clnt' = Establish(c, ack)
           /\ tun' = [tun EXCEPT !.ip = c.peer_ip, !.up = TRUE]
    /\ run_script("up", clnt', g_reconnect)

(* ... and one that establishes the session *)
RecvOpenack(ack) ==
    /\ UdpTurn
    /\ clnt.state = "AUTH_SENT"
    /\ LET c == ApplyTLVs(clnt, ack)
       IN  /\ c.peer_ip # Unset
           /\ clnt' = Establish(c, ack)
           /\ tun' = [ip |-> c.peer_ip, mtu |-> EffMtu(c), up |-> TRUE]
    /\ run_script("up", clnt', g_reconnect)

RecvOpenrej ==
    /\ UdpTurn
    /\ clnt.state = "AUTH_SENT"
    /\ clnt' = Rejected(clnt)
    /\ UNCHANGED <<tun, hooks, sigs>>

(* DATA, DATA_ENC, IPFRAG, SEGRT or ECHORESP, accepted by its handler; no  *)
(* handler compares the session.                                           *)
RecvAccepted ==
    /\ UdpTurn
    /\ clnt.state = "ESTABLISHED"
    /\ clnt' = Heard(clnt)
    /\ UNCHANGED <<tun, hooks, sigs>>

RecvClose ==
    /\ UdpTurn
    /\ clnt.state = "ESTABLISHED"
    /\ clnt' = PeerClosed(clnt)
    /\ UNCHANGED <<tun, hooks, sigs>>

-----------------------------------------------------------------------------
(* The end of the loop: timer_tick if the second has changed. *)

EndOfLoop == pc = "io" /\ ready = {} /\ pc' = "top" /\ UNCHANGED ready

NoTick ==
    /\ EndOfLoop
    /\ sinceTick = 0
    /\ UNCHANGED <<clnt, tun, hooks, sigs, sinceTick>>

Tick == EndOfLoop /\ sinceTick > 0 /\ sinceTick' = 0

(* The missing socket cannot be created. *)
TickNoSocket ==
    /\ Tick
    /\ ~clnt.sock /\ "socket" \in Failing
    /\ UNCHANGED <<clnt, tun, hooks, sigs>>

(* DNS_NEEDED: resolve_server succeeds, or the next tick tries again. *)
TickResolve ==
    /\ Tick
    /\ clnt.state = "DNS_NEEDED"
    /\ \E resolved \in BOOLEAN :
          /\ ~resolved => MayFailToResolve
          /\ clnt' = [clnt EXCEPT !.sock = TRUE,
                                  !.state = IF resolved THEN "IP_READY" ELSE @]
    /\ UNCHANGED <<tun, hooks, sigs>>

TickReset ==
    /\ Tick
    /\ TickResets(clnt)
    /\ client_reset(g_reconnect)

TickGoesOn ==
    /\ Tick
    /\ clnt.state # "DNS_NEEDED"
    /\ ~TickResets(clnt)
    /\ clnt' = [TickKeeps(clnt) EXCEPT !.sock = TRUE]
    /\ UNCHANGED <<tun, hooks, sigs>>

-----------------------------------------------------------------------------
(* The environment *)

TimePasses ==
    /\ pc # "exited"
    /\ sinceTick < MaxLag
    /\ sinceTick' = sinceTick + 1
    /\ clnt' = Older(clnt)
    /\ UNCHANGED <<tun, hooks, sigs, pc, ready>>

(* sig_handler and sig_reconnect *)
SigTerm ==
    /\ pc # "exited" /\ ~g_quit
    /\ g_quit' = TRUE
    /\ UNCHANGED <<clnt, tun, hooks, g_reconnect, sinceTick, pc, ready>>

SigUsr1 ==
    /\ pc # "exited" /\ ~g_reconnect
    /\ g_reconnect' = TRUE
    /\ UNCHANGED <<clnt, tun, hooks, g_quit, sinceTick, pc, ready>>

-----------------------------------------------------------------------------
(* Everything main does *)
MainStep ==
    \/ Quit \/ Reconnect \/ EnterPoll
    \/ Poll \/ PollInterrupted \/ PollFails
    \/ HandleTun
    \/ RecvIgnored \/ RecvOpenrej \/ RecvAccepted \/ RecvClose
    \/ \E ack \in Acks :
          RecvOpenackNoIP(ack) \/ RecvOpenackTunFails(ack) \/ RecvOpenack(ack)
    \/ NoTick \/ TickNoSocket \/ TickResolve \/ TickReset \/ TickGoesOn

Next == MainStep \/ ScriptEnds \/ TimePasses \/ SigTerm \/ SigUsr1

Spec == Init /\ [][Next]_vars

(* The process is scheduled and the clock runs. *)
FairSpec == Spec /\ WF_vars(MainStep) /\ WF_vars(TimePasses)

-----------------------------------------------------------------------------
(* The retry and timeout logic of timer_tick bounds how long the client    *)
(* waits, whatever arrives and however late the ticks come: an answer to   *)
(* OPEN is awaited AUTH_TIMEOUT, and OPEN repeated every                   *)
(* AUTH_RETRY_INTERVAL; a session without accepted traffic ends after      *)
(* DATA_TIMEOUT; all up to the delay of the next tick.                     *)
Deadlines ==
    /\ clnt.state = "AUTH_SENT" => /\ clnt.recvAge <= AuthTimeout + sinceTick
                                   /\ clnt.openAge < RetryInterval + sinceTick
    /\ clnt.state = "ESTABLISHED" => clnt.recvAge <= DataTimeout + sinceTick

(* The interface carries an address only while a session is up or being    *)
(* torn down, and then the session's address and MTU: no path through      *)
(* handle_openack, client_reset, signals and failures leaves an old        *)
(* address behind.  (Given that the ioctls of tun_clear_ip succeed.)       *)
TunFollowsSession ==
    pc # "exited" =>
        /\ clnt.state = "ESTABLISHED" =>
              tun = [ip |-> clnt.peer_ip, mtu |-> EffMtu(clnt), up |-> TRUE]
        /\ clnt.state \in {"DNS_NEEDED", "IP_READY", "AUTH_SENT"} =>
              "tun_clear" \in Failing \/ (tun.ip = Unset /\ ~tun.up)

(* A session's parameters exist while it does: an address and identifiers  *)
(* once established, none when the next OPEN is answered, so that          *)
(* handle_openack cannot take an old address for one the server sent; no   *)
(* MTU and no encryption of the old session when the next one begins; and  *)
(* a client that lost its socket is never past IP_READY.                   *)
SessionFieldsFresh ==
    /\ clnt.state \in {"AUTH_SENT", "ESTABLISHED", "CLOSED"} => clnt.sock
    /\ clnt.state = "ESTABLISHED" => clnt.sess # Unset /\ clnt.peer_ip # Unset
    /\ clnt.state \in {"DNS_NEEDED", "IP_READY", "AUTH_SENT"} =>
          clnt.sess = Unset /\ clnt.peer_ip = Unset
    /\ clnt.state \in {"DNS_NEEDED", "IP_READY"} => clnt.server_mtu = 0 /\ ~clnt.encrypt

(* Scripts, as far as they run at all, are paired: the last one was "up"   *)
(* while established, and is "down" again before the next OPEN and after   *)
(* leaving an established session at exit.  The one up without its down is *)
(* that of a daemon that exits between the peer's CLOSE and the next tick. *)
HookFollowsSession ==
    "script" \notin Failing =>
        /\ clnt.state = "ESTABLISHED" => hook = IF pc = "exited" THEN "down" ELSE "up"
        /\ clnt.state \in {"DNS_NEEDED", "IP_READY", "AUTH_SENT"} => hook # "up"

(* A down script is told the address and MTU its up script was told, so    *)
(* that it can undo what that one did: nothing between the two, in any     *)
(* path that ends a session, changes or clears what the daemon passes.     *)
DownToldAsUp ==
    [][hook = "up" /\ hook' = "down" /\ "script" \notin Failing => told' = told]_vars

(* run_script: "Parent: wait for child".  So no script starts while an     *)
(* earlier one still runs.                                                 *)
HooksNeverOverlap == [][hook' # hook => running = {}]_vars

(* handle_openack: "no peer IP in response, rejecting".  So an OPENACK     *)
(* that does not get the client out of AUTH_SENT leaves no parameter.      *)
RejectedAckLeavesNoTrace ==
    [][clnt.state = "AUTH_SENT" /\ clnt'.state = "AUTH_SENT" =>
          /\ clnt'.server_mtu = clnt.server_mtu
          /\ clnt'.encrypt = clnt.encrypt]_vars

(* SIGTERM ends the daemon, whenever it comes: between the test of g_quit  *)
(* and poll, in a script, while another signal is being handled.           *)
QuitTerminates == g_quit ~> pc = "exited"

(* SIGUSR1 restarts the connection (or the daemon ends first). *)
ReconnectHonoured ==
    g_reconnect ~> (clnt.state \in {"DNS_NEEDED", "IP_READY"} \/ pc = "exited")

(* Unless it ends or is told to reconnect over and over, the daemon is     *)
(* again and again in a session or asking for one: no failure of the       *)
(* server, the interface or a script leaves it stuck.  (DNS and sockets    *)
(* working.)                                                               *)
NeverStuck ==
    <>(pc = "exited") \/ []<>g_reconnect
        \/ []<>(clnt.state \in {"AUTH_SENT", "ESTABLISHED"})

(* A session is not kept for ever on silence. *)
SilenceEndsSession ==
    <>[](clnt.state = "ESTABLISHED" /\ pc # "exited") => []<>(clnt.recvAge = 0)
=============================================================================
