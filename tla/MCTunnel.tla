------------------------------ MODULE MCTunnel ------------------------------
(* One user; enough ports and identifiers that an unused one is left. *)
EXTENDS Tunnel, TLC

CONSTANT addr

MCUsers == {user}
MCAddrs == {addr}
MCUserAddr == user :> addr
MCRemotes == 1..(MaxNet + 3)
MCIds == 1..(MaxNet + 3)
MCDeny == {}
=============================================================================
