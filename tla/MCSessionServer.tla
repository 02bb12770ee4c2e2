-------------------------- MODULE MCSessionServer --------------------------
(* Two users, two remotes, one address outside the tunnel. *)
EXTENDS SessionServer, TLC

CONSTANTS alice, bob, r1, r2, a1, a2, out

MCUsers == {alice, bob}
MCRemotes == {r1, r2}
MCAddrs == {a1, a2, out}
MCUserAddr == alice :> a1 @@ bob :> a2
MCAllowEncrypt == {alice}
MCClientMTUs == {45, 46, 1500}
=============================================================================
