---------------------------- MODULE TunContract -----------------------------
(***************************************************************************)
(* What the rest of the client relies on when it calls tun_set_ip,         *)
(* tun_set_mtu and tun_clear_ip (src/src/tun.h): the states a call may     *)
(* leave the interface in.  An interface is a record of its address, its   *)
(* MTU and its up flag.  ClientDaemon assumes this; TunLinux and           *)
(* TunFreeBSD are checked against it.                                      *)
(***************************************************************************)
CONSTANT Unset  \* no address

SetIpResults(tun, ip, ok) ==
    IF ok THEN {[tun EXCEPT !.ip = ip, !.up = TRUE]}
          ELSE {tun, [tun EXCEPT !.ip = ip]}

SetMtuResults(tun, mtu, ok) ==
    IF ok THEN {[tun EXCEPT !.mtu = mtu]} ELSE {tun}

(* kept: what could not be cleared *)
Cleared(tun, kept) ==
    [tun EXCEPT !.ip = IF "ip" \in kept THEN @ ELSE Unset,
                !.up = IF "up" \in kept THEN @ ELSE FALSE]

ClearResults(tun) == {Cleared(tun, kept) : kept \in SUBSET {"ip", "up"}}
=============================================================================
