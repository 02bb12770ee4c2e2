------------------------------ MODULE TunLinux ------------------------------
(***************************************************************************)
(* src/src/tun_linux.c.  An interface has one address: SIOCSIFADDR         *)
(* replaces it, and removes it if given 0.                                 *)
(***************************************************************************)
EXTENDS TunCalls

(* Opening the device creates no interface; TUNSETIFF does, with the name  *)
(* asked for.                                                              *)
OpenDevice ==
    /\ \/ /\ pc = "open" /\ Goto("TUNSETIFF")
          /\ fds' = {"tun"}
       \/ Fails("open") /\ Return("fail")
    /\ UNCHANGED <<dev, ifc>>

(* A literal name is the one the kernel gives the interface; of a pattern *)
(* such as tun%d, which is outside Wanted, tun_open would miss the result. *)
SetIff ==
    /\ \/ /\ pc = "TUNSETIFF" /\ pc' = "idle" /\ result' = "ok"
          /\ ifc' = [ifc EXCEPT !.name = dev]
          /\ UNCHANGED <<fds, call>>
       \/ /\ Fails("TUNSETIFF") /\ pc' = "idle" /\ result' = "fail"
          /\ fds' = {}
          /\ UNCHANGED <<ifc, call>>
    /\ UNCHANGED dev

SetIp ==
    /\ op = "set_ip"
    /\ \/ /\ pc = "SIOCSIFADDR" /\ Goto("SIOCSIFNETMASK")
          /\ ifc' = [ifc EXCEPT !.addrs = <<arg>>]
          /\ UNCHANGED fds
       \/ /\ pc = "SIOCSIFNETMASK" /\ Goto("SIOCGIFFLAGS")
          /\ UNCHANGED <<fds, ifc>>
       \/ /\ Fails("SIOCSIFADDR") \/ Fails("SIOCSIFNETMASK")
          /\ Return("fail") /\ UNCHANGED ifc
    /\ UNCHANGED dev

(* tun_clear_ip looks at no result; without the flags it clears them all. *)
Clear ==
    /\ op = "clear"
    /\ \/ /\ pc = "SIOCSIFADDR" /\ Goto("SIOCGIFFLAGS")
          /\ \/ ifc' = [ifc EXCEPT !.addrs = <<>>]
             \/ "SIOCSIFADDR" \in Failing /\ UNCHANGED ifc
          /\ UNCHANGED fds
       \/ /\ pc = "SIOCGIFFLAGS" /\ Goto("SIOCSIFFLAGS")
          /\ UNCHANGED <<fds, ifc>>
       \/ /\ pc = "SIOCSIFFLAGS" /\ Return("ok")
          /\ \/ ifc' = [ifc EXCEPT !.up = FALSE]
             \/ "SIOCSIFFLAGS" \in Failing /\ UNCHANGED ifc
    /\ UNCHANGED dev

Next ==
    \/ CallOpen("open") \/ CallSetIp \/ CallSetMtu \/ CallClear
    \/ OpenDevice \/ SetIff
    \/ Socket(IF op = "set_mtu" THEN "SIOCSIFMTU" ELSE "SIOCSIFADDR")
    \/ SetIp \/ BringUp \/ SetMtu \/ Clear
=============================================================================
