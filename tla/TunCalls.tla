------------------------------ MODULE TunCalls ------------------------------
(***************************************************************************)
(* The functions of src/src/tun.h, one system call at a time: what the     *)
(* Linux and the FreeBSD implementation have in common.  pc is the system  *)
(* call about to be made, "idle" outside; any call in Failing may fail.    *)
(*                                                                         *)
(* The caller is the client daemon: it opens the interface once, sets the  *)
(* address of a session and, if that worked, the MTU, and clears the       *)
(* interface when the session ends, whether or not it was set up.          *)
(***************************************************************************)
EXTENDS Sequences, Integers

CONSTANTS
    Wanted,   \* names the configuration may give, without a %d for the kernel to fill in
    IPs, Mtus, KernelMtu,
    Unset,    \* no name or address
    Failing   \* the system calls that may fail

VARIABLES
    pc, op, arg,  \* the system call, the function, its argument
    result,       \* what it returned: "none", "ok", "fail"
    fds,          \* open descriptors: "tun", "sock"
    dev,          \* g_cfg.tun_name, which tun_open may change
    ifc,          \* the interface, as the kernel has it
    before        \* the interface when the function was called

call == <<op, arg, before>>
vars == <<pc, call, result, fds, dev, ifc>>

INSTANCE TunContract

NoInterface == [name |-> Unset, addrs |-> <<>>, mtu |-> KernelMtu, up |-> FALSE]

CallsInit ==
    /\ pc = "idle" /\ op = "none" /\ arg = Unset /\ result = "none"
    /\ fds = {} /\ dev \in Wanted
    /\ ifc = NoInterface /\ before = NoInterface

Fails(syscall) == pc = syscall /\ syscall \in Failing

Goto(syscall) == pc' = syscall /\ UNCHANGED <<call, result>>

(* The socket a function uses is closed before it returns. *)
Return(r) ==
    /\ pc' = "idle" /\ result' = r
    /\ fds' = fds \ {"sock"}
    /\ UNCHANGED call

Begin(function, argument, syscall) ==
    /\ pc = "idle"
    /\ pc' = syscall
    /\ op' = function /\ arg' = argument /\ before' = ifc
    /\ result' = "none"
    /\ UNCHANGED <<fds, dev, ifc>>

(* The calls main and the state machine make *)
CallOpen(syscall) == op = "none" /\ Begin("open", Unset, syscall)
CallSetIp ==
    /\ "tun" \in fds
    /\ op \in {"open", "clear"}
    /\ \E ip \in IPs : Begin("set_ip", ip, "socket")
CallSetMtu ==
    /\ op = "set_ip" /\ result = "ok"
    /\ \E m \in Mtus : Begin("set_mtu", m, "socket")
CallClear == "tun" \in fds /\ Begin("clear", Unset, "socket")

(* socket, at the start of tun_set_ip, tun_set_mtu and tun_clear_ip *)
Socket(syscall) ==
    /\ \/ /\ pc = "socket" /\ Goto(syscall)
          /\ fds' = fds \cup {"sock"}
       \/ Fails("socket") /\ Return("fail")
    /\ UNCHANGED <<dev, ifc>>

(* The end of tun_set_ip: the interface is brought up. *)

(* Faulty variant: the error path forgets the socket. *)
BringUpLeaks ==
    /\ op = "set_ip"
    /\ \/ /\ pc = "SIOCGIFFLAGS" /\ Goto("SIOCSIFFLAGS")
          /\ UNCHANGED <<fds, ifc>>
       \/ /\ pc = "SIOCSIFFLAGS" /\ Return("ok")
          /\ ifc' = [ifc EXCEPT !.up = TRUE]
       \/ /\ Fails("SIOCGIFFLAGS") \/ Fails("SIOCSIFFLAGS")
          /\ pc' = "idle" /\ result' = "fail"
          /\ UNCHANGED <<call, fds, ifc>>
    /\ UNCHANGED dev

(* Faulty variant: the interface may stay down unnoticed. *)
BringUpUnchecked ==
    /\ op = "set_ip"
    /\ \/ /\ pc = "SIOCGIFFLAGS" /\ Goto("SIOCSIFFLAGS")
          /\ UNCHANGED <<fds, ifc>>
       \/ /\ pc = "SIOCSIFFLAGS" /\ Return("ok")
          /\ \/ ifc' = [ifc EXCEPT !.up = TRUE]
             \/ "SIOCSIFFLAGS" \in Failing /\ UNCHANGED ifc
    /\ UNCHANGED dev

BringUp ==
    /\ op = "set_ip"
    /\ \/ /\ pc = "SIOCGIFFLAGS" /\ Goto("SIOCSIFFLAGS")
          /\ UNCHANGED <<fds, ifc>>
       \/ /\ pc = "SIOCSIFFLAGS" /\ Return("ok")
          /\ ifc' = [ifc EXCEPT !.up = TRUE]
       \/ /\ Fails("SIOCGIFFLAGS") \/ Fails("SIOCSIFFLAGS")
          /\ Return("fail") /\ UNCHANGED ifc
    /\ UNCHANGED dev

SetMtu ==
    /\ \/ /\ pc = "SIOCSIFMTU" /\ Return("ok")
          /\ ifc' = [ifc EXCEPT !.mtu = arg]
       \/ Fails("SIOCSIFMTU") /\ Return("fail") /\ UNCHANGED ifc
    /\ UNCHANGED dev

-----------------------------------------------------------------------------
(* As ClientDaemon sees an interface *)
AsSeen(i) ==
    [ip |-> IF i.addrs = <<>> THEN Unset ELSE Head(i.addrs), mtu |-> i.mtu, up |-> i.up]

Results ==
    LET tun == AsSeen(before)
    IN  CASE op = "set_ip" -> SetIpResults(tun, arg, result = "ok")
          [] op = "set_mtu" -> SetMtuResults(tun, arg, result = "ok")
          [] op = "clear" -> ClearResults(tun)
          [] OTHER -> {AsSeen(ifc)}
=============================================================================
