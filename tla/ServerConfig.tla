---------------------------- MODULE ServerConfig ----------------------------
(***************************************************************************)
(* The configuration of the Go server (src/server/config.go).  validate    *)
(* fills in defaults and checks the fields one after the other; it runs    *)
(* twice, in DecodeConfig on what was read and in normalized on its        *)
(* result, after which the addresses are parsed again and a bad one would  *)
(* panic.                                                                  *)
(*                                                                         *)
(* Texts are sequences.  An address is its four bytes, or Missing, Bad (it *)
(* does not parse) or V6; a TUN name is its length.                        *)
(***************************************************************************)
EXTENDS Integers, Sequences, SequencesExt

CONSTANT ListenMayFail  \* the listen address may be a name that does not resolve

VARIABLES
    config,                \* what the file decodes to
    pass,                  \* 1 in DecodeConfig, 2 in normalized
    pc,                    \* "head", "users", "dns", "ok", "error", "panic"
    entry,                     \* the user or DNS server looked at
    usernames, addresses,  \* the maps of validate
    refused                \* why: "none", "listen" or "other"

vars == <<config, pass, pc, entry, usernames, addresses, refused>>

DefaultMTU == 1400
DefaultNameLen == 6
maxInterfaceName == 15
MTUs == 46..1600

Missing == <<>>
Bad == <<0>>
V6 == <<6>>
Zero == <<0, 0, 0, 0>>

Is4(a) == a \notin {Missing, Bad, V6}

Init ==
    /\ pass = 1 /\ pc = "head" /\ entry = 1
    /\ usernames = {} /\ addresses = {}
    /\ refused = "none"

Refuse(why) ==
    /\ pc' = "error" /\ refused' = why
    /\ UNCHANGED <<pass, entry, usernames, addresses>>

WithDefaults(c) ==
    LET mtu == IF c.mtu = 0 THEN DefaultMTU ELSE c.mtu
        exit == [c.exit EXCEPT !.name = IF c.exit.enabled /\ @ = 0 THEN DefaultNameLen ELSE @,
                               !.mtu = IF c.exit.enabled /\ @ = 0 THEN mtu ELSE @]
    IN  [c EXCEPT !.mtu = mtu, !.exit = exit]

validateExit(e) ==
    e.enabled => /\ e.name <= maxInterfaceName
                 /\ Is4(e.address) /\ e.address # Zero
                 /\ e.mtu \in MTUs

(* validate, up to its loops *)
Fields ==
    /\ pc = "head"
    /\ config' = WithDefaults(config)
    /\ IF config'.mtu \in MTUs /\ validateExit(config'.exit) /\ config'.users # <<>>
       THEN \/ pc' = "users" /\ entry' = 1 /\ usernames' = {} /\ addresses' = {}
               /\ UNCHANGED <<pass, refused>>
            \/ ListenMayFail /\ Refuse("listen")
       ELSE Refuse("other")

(* Faulty variant: an address may be given twice. *)
AcceptsUserAgain(u) ==
    /\ u.username # <<>> /\ u.password # <<>> /\ u.username \notin usernames
    /\ Is4(u.address) /\ u.address # Zero

AcceptsUser(u) ==
    /\ u.username # <<>> /\ u.password # <<>> /\ u.username \notin usernames
    /\ Is4(u.address) /\ u.address # Zero /\ u.address \notin addresses

User ==
    /\ pc = "users" /\ entry <= Len(config.users)
    /\ LET u == config.users[entry]
       IN  IF AcceptsUser(u)
           THEN /\ usernames' = usernames \cup {u.username}
                /\ addresses' = addresses \cup {u.address}
                /\ entry' = entry + 1
                /\ UNCHANGED <<pass, pc, refused>>
           ELSE Refuse("other")
    /\ UNCHANGED config

UsersDone ==
    /\ pc = "users" /\ entry > Len(config.users)
    /\ pc' = "dns" /\ entry' = 1
    /\ UNCHANGED <<config, pass, usernames, addresses, refused>>

(* Faulty variant: any text will do. *)
AcceptsAnyDNS(a) == TRUE

AcceptsDNS(a) == Is4(a)

DNS ==
    /\ pc = "dns" /\ entry <= Len(config.dns)
    /\ IF AcceptsDNS(config.dns[entry])
       THEN entry' = entry + 1 /\ UNCHANGED <<pass, pc, usernames, addresses, refused>>
       ELSE Refuse("other")
    /\ UNCHANGED config

(* The end of validate.  After the second pass normalized parses what is   *)
(* needed again (MustParseAddr, MustParsePrefix).                          *)
Parses(c) ==
    /\ \A a \in Range(c.dns) : a \notin {Missing, Bad}
    /\ \A u \in Range(c.users) : u.address \notin {Missing, Bad}
    /\ c.exit.enabled => c.exit.address \notin {Missing, Bad}

Validated ==
    /\ pc = "dns" /\ entry > Len(config.dns)
    /\ IF Len(config.dns) > 2 THEN Refuse("other")
       ELSE /\ pc' = IF pass = 1 THEN "head" ELSE IF Parses(config) THEN "ok" ELSE "panic"
            /\ pass' = 2
            /\ UNCHANGED <<entry, usernames, addresses, refused>>
    /\ UNCHANGED config

Next == Fields \/ User \/ UsersDone \/ DNS \/ Validated
=============================================================================
