-------------------------- MODULE SessionDirectory --------------------------
(***************************************************************************)
(* What the session maps of iwand-server promise, without the maps: each   *)
(* user is bound to at most one pair of remote address and identifier, the *)
(* one its tunnel address is routed to, and a remote carries at most one   *)
(* user.  Only an OPEN binds, only an OPEN or a CLOSE naming the pair      *)
(* unbinds; echo, data, the exit device and shutdown leave it alone.       *)
(***************************************************************************)
CONSTANTS Users, Remotes, Ids, None

VARIABLE bound   \* the pair each user is reached at, or None

Pairs == Remotes \X Ids

TypeOK == bound \in [Users -> Pairs \cup {None}]

Init == bound = [u \in Users |-> None]

(* An OPEN of user u from remote r was accepted with identifier i: u moves *)
(* there and whoever was bound at r is gone.                               *)
Bind(u, r, i) ==
    bound' = [v \in Users |->
                IF v = u THEN <<r, i>>
                ELSE IF bound[v] # None /\ bound[v][1] = r THEN None
                ELSE bound[v]]

(* A CLOSE from remote r with identifier i. *)
Unbind(r, i) ==
    /\ \E u \in Users : bound[u] = <<r, i>>
    /\ bound' = [v \in Users |-> IF bound[v] = <<r, i>> THEN None ELSE bound[v]]

Next ==
    \E r \in Remotes, i \in Ids :
        \/ \E u \in Users : Bind(u, r, i)
        \/ Unbind(r, i)

Spec == Init /\ [][Next]_bound

(* No two users are ever bound at one remote address. *)
RemoteExclusive ==
    \A u, v \in Users :
        (bound[u] # None /\ bound[v] # None /\ bound[u][1] = bound[v][1]) => u = v
=============================================================================
