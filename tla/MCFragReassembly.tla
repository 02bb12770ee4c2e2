-------------------------- MODULE MCFragReassembly --------------------------
(* Three groups for two slots. *)
EXTENDS FragReassembly, TLC

CONSTANTS x, y, z

(* Two packets in two fragments each, of which some are lost, and one in   *)
(* three, whose fragments come in any order and number; they fit neither a *)
(* slot nor g_frag_content.                                                *)
MCMixed == x :> <<2, 3>> @@ y :> <<1, 3>> @@ z :> <<2, 3, 4>>
MCDelivery == x :> "lossy" @@ y :> "lossy" @@ z :> "any"

(* Up to three fragments, fitting a slot or not, every one in order. *)
MCTriples == x :> <<1, 2, 3>> @@ y :> <<2, 3, 4>> @@ z :> <<1, 3>>
MCExact == x :> "exact" @@ y :> "exact" @@ z :> "exact"
=============================================================================
