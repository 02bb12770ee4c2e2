----------------------------- MODULE TunFreeBSD -----------------------------
(***************************************************************************)
(* src/src/tun_freebsd.c.  An interface has a list of addresses:           *)
(* SIOCAIFADDR adds one, and SIOCGIFADDR finds the first.                  *)
(***************************************************************************)
EXTENDS TunCalls

CONSTANTS
    Units    \* the names tun0, tun1, ... the kernel gives

VARIABLE
    clearFailed  \* some system call of a tun_clear_ip has failed

(* freebsd_open_tun_device: a cloned device, or else the unit asked for if *)
(* the name is that of a unit.                                             *)
OpenClone ==
    /\ \/ /\ pc = "open" /\ Goto("TUNSLMODE")
          /\ fds' = {"tun"}
          /\ \E n \in Units : ifc' = [ifc EXCEPT !.name = n]
       \/ /\ Fails("open") /\ dev \in Units /\ Goto("open_unit")
          /\ UNCHANGED <<fds, ifc>>
       \/ /\ Fails("open") /\ dev \notin Units /\ Return("fail")
          /\ UNCHANGED ifc
    /\ UNCHANGED <<dev, clearFailed>>

OpenUnit ==
    /\ \/ /\ pc = "open_unit" /\ Goto("TUNSLMODE")
          /\ fds' = {"tun"}
          /\ ifc' = [ifc EXCEPT !.name = dev]
       \/ Fails("open_unit") /\ Return("fail") /\ UNCHANGED ifc
    /\ UNCHANGED <<dev, clearFailed>>

(* The modes.  TUNSTRANSIENT, for a cloned device, may fail and changes    *)
(* nothing here.                                                           *)
AfterMode == [TUNSLMODE |-> "TUNSIFHEAD", TUNSIFHEAD |-> "TUNSIFMODE",
              TUNSIFMODE |-> "TUNGIFNAME"]

SetMode ==
    /\ pc \in DOMAIN AfterMode
    /\ \/ Goto(AfterMode[pc]) /\ UNCHANGED <<fds, ifc>>
       \/ /\ pc \in Failing
          /\ pc' = "idle" /\ result' = "fail"
          /\ fds' = {} /\ ifc' = NoInterface
          /\ UNCHANGED call
    /\ UNCHANGED <<dev, clearFailed>>

(* freebsd_get_tun_name; the interface is renamed if need be. *)
GetName ==
    /\ \/ /\ pc = "TUNGIFNAME" /\ ifc.name # dev /\ Goto("rename_socket")
          /\ UNCHANGED <<fds, ifc>>
       \/ /\ pc = "TUNGIFNAME" /\ ifc.name = dev /\ Return("ok")
          /\ UNCHANGED ifc
       \/ /\ Fails("TUNGIFNAME")
          /\ pc' = "idle" /\ result' = "fail"
          /\ fds' = {} /\ ifc' = NoInterface
          /\ UNCHANGED call
    /\ UNCHANGED <<dev, clearFailed>>

(* freebsd_rename_tun, in its socket of its own; tun_open goes on with the *)
(* kernel's name if it fails.                                              *)

(* Faulty variant: ... goes on with the name of the configuration. *)
RenameOrNot ==
    /\ \/ /\ pc = "rename_socket" /\ Goto("SIOCSIFNAME")
          /\ fds' = fds \cup {"sock"}
          /\ UNCHANGED <<dev, ifc>>
       \/ /\ pc = "SIOCSIFNAME" /\ Return("ok")
          /\ ifc' = [ifc EXCEPT !.name = dev]
          /\ UNCHANGED dev
       \/ /\ Fails("rename_socket") \/ Fails("SIOCSIFNAME")
          /\ Return("ok")
          /\ UNCHANGED <<dev, ifc>>
    /\ UNCHANGED clearFailed

Rename ==
    /\ \/ /\ pc = "rename_socket" /\ Goto("SIOCSIFNAME")
          /\ fds' = fds \cup {"sock"}
          /\ UNCHANGED <<dev, ifc>>
       \/ /\ pc = "SIOCSIFNAME" /\ Return("ok")
          /\ ifc' = [ifc EXCEPT !.name = dev]
          /\ UNCHANGED dev
       \/ /\ Fails("rename_socket") \/ Fails("SIOCSIFNAME")
          /\ Return("ok")
          /\ dev' = ifc.name
          /\ UNCHANGED ifc
    /\ UNCHANGED clearFailed

-----------------------------------------------------------------------------
Has(ip) == \E i \in 1..Len(ifc.addrs) : ifc.addrs[i] = ip

Without(addrs, ip) ==
    LET i == CHOOSE j \in 1..Len(addrs) : addrs[j] = ip
    IN  SubSeq(addrs, 1, i - 1) \o SubSeq(addrs, i + 1, Len(addrs))

Added == IF Has(arg) THEN ifc.addrs ELSE Append(ifc.addrs, arg)

(* tun_set_ip: an address reported as existing is deleted and added again. *)
SetIp ==
    /\ op = "set_ip"
    /\ \/ /\ pc \in {"SIOCAIFADDR", "add_again"} /\ Goto("SIOCGIFFLAGS")
          /\ ifc' = [ifc EXCEPT !.addrs = Added]
          /\ UNCHANGED fds
       \/ /\ pc = "SIOCAIFADDR" /\ "EEXIST" \in Failing /\ Goto("SIOCDIFADDR")
          /\ UNCHANGED <<fds, ifc>>
       \/ /\ pc = "SIOCDIFADDR" /\ Has(arg) /\ Goto("add_again")
          /\ ifc' = [ifc EXCEPT !.addrs = Without(@, arg)]
          /\ UNCHANGED fds
       \/ /\ \/ Fails("SIOCAIFADDR") \/ Fails("add_again") \/ Fails("SIOCDIFADDR")
             \/ pc = "SIOCDIFADDR" /\ ~Has(arg)
          /\ Return("fail") /\ UNCHANGED ifc
    /\ UNCHANGED <<dev, clearFailed>>

(* As on Linux *)
BringUpHere == BringUp /\ UNCHANGED clearFailed
SetMtuHere == SetMtu /\ UNCHANGED clearFailed

(* tun_clear_ip, whose errors are ignored; the flags are left alone if     *)
(* they cannot be read.                                                    *)

(* Faulty variant: the address is looked up and never deleted. *)
ClearAddressNot ==
    /\ op = "clear" /\ pc = "SIOCGIFADDR" /\ Goto("SIOCGIFFLAGS")
    /\ UNCHANGED <<fds, dev, ifc, clearFailed>>

ClearAddress ==
    /\ op = "clear" /\ pc = "SIOCGIFADDR" /\ Goto("SIOCGIFFLAGS")
    /\ \/ /\ ifc' = [ifc EXCEPT !.addrs = IF @ = <<>> THEN @ ELSE Tail(@)]
          /\ UNCHANGED clearFailed
       \/ /\ {"SIOCGIFADDR", "SIOCDIFADDR"} \cap Failing # {}
          /\ clearFailed' = TRUE
          /\ UNCHANGED ifc
    /\ UNCHANGED <<fds, dev>>

ClearFlags ==
    /\ op = "clear"
    /\ \/ /\ pc = "SIOCGIFFLAGS" /\ Goto("SIOCSIFFLAGS")
          /\ UNCHANGED <<fds, ifc>>
       \/ /\ pc = "SIOCSIFFLAGS" /\ Return("ok")
          /\ ifc' = [ifc EXCEPT !.up = FALSE]
       \/ /\ Fails("SIOCGIFFLAGS") \/ Fails("SIOCSIFFLAGS")
          /\ Return("ok") /\ UNCHANGED ifc
    /\ UNCHANGED <<dev, clearFailed>>

OpenSocket ==
    /\ Socket(CASE op = "set_mtu" -> "SIOCSIFMTU"
                [] op = "clear" -> "SIOCGIFADDR"
                [] OTHER -> "SIOCAIFADDR")
    /\ clearFailed' = (clearFailed \/ (op = "clear" /\ pc' = "idle"))

-----------------------------------------------------------------------------
Init == CallsInit /\ clearFailed = FALSE

Next ==
    \/ OpenClone \/ OpenUnit \/ SetMode \/ GetName \/ Rename
    \/ OpenSocket \/ SetIp \/ BringUpHere \/ SetMtuHere \/ ClearAddress \/ ClearFlags
    \/ /\ CallOpen("open") \/ CallSetIp \/ CallSetMtu \/ CallClear
       /\ UNCHANGED clearFailed
=============================================================================
