---------------------------- MODULE TunPlatforms ----------------------------
(***************************************************************************)
(* The build chooses one implementation of src/src/tun.h, TunLinux or      *)
(* TunFreeBSD.  The daemon calls either the same way and expects the same  *)
(* of it.                                                                  *)
(***************************************************************************)
EXTENDS TunCalls

CONSTANT Units         \* the names tun0, tun1, ... FreeBSD gives

VARIABLES platform,    \* what the client was built for
          clearFailed  \* of TunFreeBSD

Linux == INSTANCE TunLinux
FreeBSD == INSTANCE TunFreeBSD

allVars == <<vars, platform, clearFailed>>

Init ==
    /\ platform \in {"Linux", "FreeBSD"}
    /\ FreeBSD!Init

Next ==
    /\ \/ platform = "Linux" /\ Linux!Next /\ UNCHANGED clearFailed
       \/ platform = "FreeBSD" /\ FreeBSD!Next
    /\ UNCHANGED platform

Spec == Init /\ [][Next]_allVars

-----------------------------------------------------------------------------
(* However the system calls fail, when a function returns only the         *)
(* descriptor of an interface that was opened is left, and that if and     *)
(* only if tun_open said so: the daemon reconnects for ever and would run  *)
(* out of descriptors.                                                     *)
NoLeak ==
    pc = "idle" =>
        /\ fds \subseteq {"tun"}
        /\ op # "none" => ("tun" \in fds <=> op # "open" \/ result = "ok")

(* README: iwand "tries to rename it to that name; if the rename is not    *)
(* permitted, it continues with the kernel-assigned tunN name".  The name  *)
(* the daemon goes on with, for every later call and for the scripts, is   *)
(* that of the interface it opened.                                        *)
NamesInterface == pc = "idle" /\ "tun" \in fds => dev = ifc.name

(* Every call ends in a state ClientDaemon expects, also on an interface   *)
(* an earlier tun_clear_ip could not clear; on FreeBSD, where tun_set_ip   *)
(* adds an address, if there is none yet.                                  *)
MeetsContract ==
    pc = "idle"
        /\ (platform = "FreeBSD" =>
                Len(before.addrs) <= (IF op = "set_ip" THEN 0 ELSE 1))
        => AsSeen(ifc) \in Results

(* Addresses are added on FreeBSD, not replaced, and tun_clear_ip removes  *)
(* one.  Still the interface has a second address, or one left after it    *)
(* was cleared, only if some tun_clear_ip has failed before.               *)
OneAddress ==
    platform = "FreeBSD" /\ ~clearFailed =>
        /\ Len(ifc.addrs) <= 1
        /\ pc = "idle" /\ op = "clear" => ifc.addrs = <<>>
=============================================================================
