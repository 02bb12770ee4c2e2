----------------------------- MODULE IwanClient -----------------------------
(***************************************************************************)
(* The connection state machine of the client (src/src/iwand.c), as        *)
(* operators on the record that stands for iwan_client_t.  ClientDaemon    *)
(* runs it inside the event loop, Tunnel against the server.               *)
(*                                                                         *)
(* The clock is relative: recvAge and openAge are the seconds since        *)
(* last_recv_time and last_open_time.  They stop growing at recvNever and  *)
(* openNever, beyond every comparison the code makes; that value also      *)
(* stands for a time stamp of 0.  Fields nothing here depends on (DNS      *)
(* servers, statistics, delay tracking, keys) are left out.                *)
(***************************************************************************)
EXTENDS Integers

CONSTANTS
    AuthTimeout,    \* AUTH_TIMEOUT
    RetryInterval,  \* AUTH_RETRY_INTERVAL
    DataTimeout,    \* DATA_TIMEOUT
    MaxLag,         \* bound: the longest the loop takes between two ticks
    DomainServer,   \* the configured server is a domain name
    CfgMtu,         \* g_cfg.mtu
    SessionIds,     \* values of <<session_token, session_id>>
    TunnelIPs,      \* addresses a server assigns
    Mtus,           \* MTUs a server announces
    Unset           \* a field that is 0

ASSUME ClientAssumption ==
    /\ AuthTimeout \in Nat /\ RetryInterval \in Nat \ {0} /\ DataTimeout \in Nat
    /\ MaxLag \in Nat \ {0}
    /\ DomainServer \in BOOLEAN
    /\ CfgMtu \in Nat /\ Mtus \subseteq Nat
    /\ Unset \notin SessionIds \cup TunnelIPs

recvNever == AuthTimeout + DataTimeout + MaxLag + 1
openNever == RetryInterval + MaxLag

States == {"DNS_NEEDED", "IP_READY", "AUTH_SENT", "ESTABLISHED", "CLOSED"}

Client ==
    [state : States, sock : BOOLEAN, sess : SessionIds \cup {Unset},
     peer_ip : TunnelIPs \cup {Unset}, server_mtu : Mtus \cup {0},
     encrypt : BOOLEAN, recvAge : 0..recvNever, openAge : 0..openNever,
     echo : {0, 1}]

(* An OPENACK: its session, and its TLVs; a TLV may be missing ("keep" for *)
(* the encrypt flag, 0 for the MTU, Unset for the address).                *)
Openack ==
    [id : SessionIds, ip : TunnelIPs \cup {Unset}, mtu : Mtus \cup {0},
     encrypt : {"keep", "on", "off"}]

(* main, before the loop *)
InitialClient(resolved) ==
    [state |-> IF resolved THEN "IP_READY" ELSE "DNS_NEEDED",
     sock |-> TRUE, sess |-> Unset, peer_ip |-> Unset, server_mtu |-> 0,
     encrypt |-> FALSE, recvAge |-> recvNever, openAge |-> openNever, echo |-> 0]

(* One second passes. *)
Older(c) ==
    [c EXCEPT !.recvAge = IF @ < recvNever THEN @ + 1 ELSE @,
              !.openAge = IF @ < openNever THEN @ + 1 ELSE @]

-----------------------------------------------------------------------------
(* handle_openack.  The TLVs are stored before the address is required. *)

ApplyTLVs(c, ack) ==
    [c EXCEPT !.peer_ip = IF ack.ip = Unset THEN @ ELSE ack.ip,
              !.server_mtu = IF ack.mtu = 0 THEN @ ELSE ack.mtu,
              !.encrypt = IF ack.encrypt = "keep" THEN @ ELSE ack.encrypt = "on"]

Establish(c, ack) ==
    [c EXCEPT !.state = "ESTABLISHED", !.sess = ack.id, !.recvAge = 0, !.echo = 0]

(* Faulty variant: whatever the server announced is taken. *)
EffMtuUnchecked(c) == c.server_mtu

(* An MTU below 68 or not below the configured one is ignored. *)
EffMtu(c) ==
    IF c.server_mtu >= 68 /\ c.server_mtu < CfgMtu THEN c.server_mtu ELSE CfgMtu

(* An accepted DATA, IPFRAG, SEGRT or ECHORESP: last_recv_time = now. *)
Heard(c) == [c EXCEPT !.recvAge = 0]

(* handle_close, by way of handle_recv; handle_openrej *)
PeerClosed(c) == [Heard(c) EXCEPT !.state = "CLOSED"]
Rejected(c) == [c EXCEPT !.state = "CLOSED"]

-----------------------------------------------------------------------------
(* client_reset: the record it leaves, the socket recreated or not.  That  *)
(* it sends CLOSE, clears the interface and runs the down script depends   *)
(* on the state it finds.                                                  *)

(* Faulty variant: the address of the old session survives. *)
ClientResetKeepsPeer(c, sockOk) ==
    [InitialClient(~DomainServer) EXCEPT !.sock = sockOk, !.peer_ip = c.peer_ip]

ClientReset(c, sockOk) ==
    [InitialClient(~DomainServer) EXCEPT !.sock = sockOk]

TearsDown(c) == c.state \in {"ESTABLISHED", "CLOSED"}

SendsClose(c) == c.state = "ESTABLISHED" /\ c.sock

-----------------------------------------------------------------------------
(* timer_tick, once it has a socket *)

(* Faulty variants: an off-by-one; no limit on an established session. *)
TimedOutLate(c) ==
    \/ c.state = "AUTH_SENT" /\ c.recvAge > AuthTimeout
    \/ c.state = "ESTABLISHED" /\ c.recvAge > DataTimeout + 1

TimedOutInAuth(c) == c.state = "AUTH_SENT" /\ c.recvAge > AuthTimeout

TimedOut(c) ==
    \/ c.state = "AUTH_SENT" /\ c.recvAge > AuthTimeout
    \/ c.state = "ESTABLISHED" /\ c.recvAge > DataTimeout

(* Faulty variant: nobody picks up a session the peer closed. *)
TickResetsOnTimeout(c) == TimedOut(c)

TickResets(c) == TimedOut(c) \/ c.state = "CLOSED"

(* IP_READY falls through to AUTH_SENT with fresh time stamps. *)
StartAuth(c) ==
    IF c.state = "IP_READY"
    THEN [c EXCEPT !.state = "AUTH_SENT", !.recvAge = 0, !.openAge = openNever]
    ELSE c

SendsOpen(c) == StartAuth(c).state = "AUTH_SENT" /\ StartAuth(c).openAge >= RetryInterval

SendsEcho(c) == c.state = "ESTABLISHED" /\ c.echo = 1

(* The record after a tick that neither resets nor resolves. *)
TickKeeps(c) ==
    LET d == StartAuth(c)
    IN  [d EXCEPT !.openAge = IF SendsOpen(c) THEN 0 ELSE @,
                  !.echo = IF d.state = "ESTABLISHED" THEN 1 - @ ELSE @]
=============================================================================
