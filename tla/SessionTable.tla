---------------------------- MODULE SessionTable ----------------------------
(***************************************************************************)
(* The two maps in which iwand-server keeps its sessions                   *)
(* (src/server/server.go): "sessions", keyed by remote address and session *)
(* identifiers, and "byAddress", keyed by the tunnel address of the user.  *)
(* Each operator here is one critical section, or a part of one, of the    *)
(* mutex Server.access.  The module has no variables: SessionServer and    *)
(* Tunnel keep the maps and apply these operators to them.                 *)
(*                                                                         *)
(* A Go map is a total function whose value is None where the map has no   *)
(* entry.  token and sessionID are always drawn, stored and compared       *)
(* together, so they are one identifier.  The fields mtu, createdAt and    *)
(* lastSeen of a session are written and never read; they are left out.    *)
(***************************************************************************)
EXTENDS Integers

CONSTANTS
    Users,         \* the configured users
    Remotes,       \* UDP addresses of clients
    Ids,           \* the values <<token, sessionID>> can take
    Addrs,         \* IPv4 addresses: those of the users and others
    UserAddr,      \* the tunnel address of each user
    AllowEncrypt,  \* the users with allow_encrypt set
    ServerMTU,     \* config mtu
    None           \* no entry

MinMTU == 46
MaxMTU == 1600

Keys == Remotes \X Ids

Session == [remote : Remotes, id : Ids, user : Users, encrypt : BOOLEAN]

(* Config.validate refuses two users with one address. *)
ASSUME ConfigAssumption ==
    /\ UserAddr \in [Users -> Addrs]
    /\ \A u, v \in Users : UserAddr[u] = UserAddr[v] => u = v
    /\ AllowEncrypt \subseteq Users
    /\ ServerMTU \in MinMTU..MaxMTU
    /\ None \notin Session
    /\ None \notin Keys

SessionMap == [Keys -> Session \cup {None}]
AddressMap == [Addrs -> Session \cup {None}]

NoSessions == [k \in Keys |-> None]
NoAddresses == [a \in Addrs |-> None]

KeyOf(s) == <<s.remote, s.id>>

AddrOf(s) == UserAddr[s.user]

Live(ss) == {ss[k] : k \in Keys} \ {None}

-----------------------------------------------------------------------------
(* removeSessionLocked applied to every session of the set gone: the entry *)
(* in byAddress goes only if it still is that very session.                *)

RemoveFromSessions(ss, gone) ==
    [k \in Keys |-> IF \E s \in gone : KeyOf(s) = k THEN None ELSE ss[k]]

(* Faulty variant: the address entry outlives its session. *)
RemoveFromAddressesNever(ba, gone) == ba

RemoveFromAddresses(ba, gone) ==
    [a \in Addrs |->
        IF \E s \in gone : AddrOf(s) = a /\ ba[a] = s THEN None ELSE ba[a]]

(* removeSessionsForRemoteOrUserLocked: what an OPEN from remote by user   *)
(* displaces.                                                              *)

(* Faulty variant: the sessions of the remote are forgotten. *)
DisplacedUserOnly(ss, remote, user) == {s \in Live(ss) : s.user = user}

Displaced(ss, remote, user) ==
    {s \in Live(ss) : s.remote = remote \/ s.user = user}

(* The critical section of handleOpen. *)
InstallInSessions(ss, s) ==
    [RemoveFromSessions(ss, Displaced(ss, s.remote, s.user))
        EXCEPT ![KeyOf(s)] = s]

InstallInAddresses(ss, ba, s) ==
    [RemoveFromAddresses(ba, Displaced(ss, s.remote, s.user))
        EXCEPT ![AddrOf(s)] = s]

(* Faulty variant: the larger of the two. *)
EffectiveMTULarger(mtu) == IF mtu > ServerMTU THEN mtu ELSE ServerMTU

EffectiveMTU(mtu) == IF mtu < ServerMTU THEN mtu ELSE ServerMTU

(* encrypt := request.encrypt && user.allowEncrypt *)
NewSession(remote, id, user, encrypt) ==
    [remote |-> remote, id |-> id, user |-> user,
     encrypt |-> encrypt /\ user \in AllowEncrypt]

-----------------------------------------------------------------------------
(* The two maps index the same sessions. *)
Agree(ss, ba) ==
    /\ \A k \in Keys : ss[k] # None =>
          /\ KeyOf(ss[k]) = k
          /\ ba[AddrOf(ss[k])] = ss[k]
    /\ \A a \in Addrs : ba[a] # None =>
          /\ AddrOf(ba[a]) = a
          /\ ss[KeyOf(ba[a])] = ba[a]

(* No two sessions share a user or a remote. *)
Exclusive(ss) ==
    \A s, t \in Live(ss) : (s.user = t.user \/ s.remote = t.remote) => s = t
=============================================================================
