------------------------ MODULE OpenHandshakeProofs -------------------------
(***************************************************************************)
(* Theorems about OpenHandshake for any files of the client and the        *)
(* server: what validate lets through, and that the two ends understand    *)
(* each other's OPEN and OPENACK.                                          *)
(***************************************************************************)
EXTENDS OpenHandshake, SequenceTheorems, TLAPS

(* What validate has found out about the fields, the first n users and the *)
(* first n DNS servers.                                                    *)
FieldsFine(c) ==
    /\ c.mtu \in Server!MTUs
    /\ Server!validateExit(c.exit)
    /\ c.exit.enabled => c.exit.name # 0
    /\ c.users # <<>>

UsersFine(users, n) ==
    /\ \A j \in 1..n : LET u == users[j]
                       IN  /\ u.username # <<>> /\ u.password # <<>>
                           /\ Server!Is4(u.address) /\ u.address # Server!Zero
    /\ \A j, k \in 1..n :
          j # k => /\ users[j].username # users[k].username
                   /\ users[j].address # users[k].address

DnsFine(dns, n) == \A j \in 1..n : Server!Is4(dns[j])

(* The maps of validate hold the first n users. *)
MapsHold(n) ==
    /\ \A j \in 1..n : config.users[j].username \in usernames
    /\ \A j \in 1..n : config.users[j].address \in addresses
    /\ \A x \in usernames : \E j \in 1..n : config.users[j].username = x
    /\ \A x \in addresses : \E j \in 1..n : config.users[j].address = x

Valid(c) ==
    /\ FieldsFine(c) /\ UsersFine(c.users, Len(c.users))
    /\ DnsFine(c.dns, Len(c.dns)) /\ Len(c.dns) <= 2

(* validate at each place it may have come to: in its second pass it looks *)
(* at a configuration that is known to be valid.                           *)
ServerInv ==
    /\ config \in ServerConfigs
    /\ pass \in {1, 2} /\ entry \in Nat
    /\ pc \in {"head", "users", "dns", "ok", "error"}
    /\ pass = 2 => Valid(config)
    /\ refused = "other" => pass = 1 /\ pc = "error"
    /\ pc = "ok" => pass = 2
    /\ pc \in {"users", "dns"} => FieldsFine(config)
    /\ pc = "users" =>
          /\ entry \in 1..(Len(config.users) + 1)
          /\ UsersFine(config.users, entry - 1) /\ MapsHold(entry - 1)
    /\ pc = "dns" =>
          /\ entry \in 1..(Len(config.dns) + 1)
          /\ UsersFine(config.users, Len(config.users)) /\ DnsFine(config.dns, entry - 1)

Address == {Server!Missing, Server!Bad, Server!V6} \cup [1..4 -> Byte]
UserRecord ==
    [username : Seq(Byte), password : Seq(Byte), address : Address, allow_encrypt : BOOLEAN]
ExitRecord == [enabled : BOOLEAN, name : Nat, address : Address, mtu : Nat]

LEMMA ServerConfigsTyped ==
    ServerConfigs = [mtu : Nat, exit : ExitRecord, users : Seq(UserRecord), dns : Seq(Address)]
  BY DEF ServerConfigs, Address, UserRecord, ExitRecord

(* Defaults leave users and DNS servers alone, and a valid configuration   *)
(* as it is.                                                               *)
LEMMA DefaultsKeep ==
  ASSUME NEW c \in ServerConfigs
  PROVE  LET d == Server!WithDefaults(c)
         IN  /\ d \in ServerConfigs
             /\ d.users = c.users /\ d.dns = c.dns
             /\ c.mtu # 0 => d.mtu = c.mtu
             /\ d.exit.enabled = c.exit.enabled /\ d.exit.address = c.exit.address
             /\ c.exit.name # 0 => d.exit.name = c.exit.name
             /\ c.exit.mtu # 0 => d.exit.mtu = c.exit.mtu
             /\ d.exit.enabled => d.exit.name # 0
<1> DEFINE d == Server!WithDefaults(c)
           m == IF c.mtu = 0 THEN 1400 ELSE c.mtu
           e == [c.exit EXCEPT !.name = IF c.exit.enabled /\ @ = 0 THEN 6 ELSE @,
                               !.mtu = IF c.exit.enabled /\ @ = 0 THEN m ELSE @]
<1>1. c \in [mtu : Nat, exit : ExitRecord, users : Seq(UserRecord), dns : Seq(Address)]
  BY ServerConfigsTyped
<1>2. d = [c EXCEPT !.mtu = m, !.exit = e]
  BY DEF Server!WithDefaults, Server!DefaultMTU, Server!DefaultNameLen
<1>3. c.exit \in ExitRecord /\ m \in Nat
  BY <1>1
<1>4. /\ e \in ExitRecord
      /\ e.enabled = c.exit.enabled /\ e.address = c.exit.address
      /\ c.exit.name # 0 => e.name = c.exit.name
      /\ c.exit.mtu # 0 => e.mtu = c.exit.mtu
      /\ e.enabled => e.name # 0
  <2>1. e \in ExitRecord
    <3> DEFINE name == IF c.exit.enabled /\ c.exit.name = 0 THEN 6 ELSE c.exit.name
               mtu == IF c.exit.enabled /\ c.exit.mtu = 0 THEN m ELSE c.exit.mtu
    <3>1. name \in Nat /\ mtu \in Nat
      BY <1>3 DEF ExitRecord
    <3> HIDE DEF name, mtu
    <3>2. \A r \in ExitRecord, n \in Nat : [r EXCEPT !.name = n] \in ExitRecord
      BY DEF ExitRecord
    <3>3. \A r \in ExitRecord, n \in Nat : [r EXCEPT !.mtu = n] \in ExitRecord
      BY DEF ExitRecord
    <3>4. [[c.exit EXCEPT !.name = name] EXCEPT !.mtu = mtu] \in ExitRecord
      BY <1>3, <3>1, <3>2, <3>3, Zenon
    <3>5. [c.exit EXCEPT !.name = name, !.mtu = mtu]
             = [[c.exit EXCEPT !.name = name] EXCEPT !.mtu = mtu]
      OBVIOUS
    <3> QED
      BY <3>4, <3>5, Zenon DEF name, mtu
  <2>2. e.enabled = c.exit.enabled /\ e.address = c.exit.address
    BY <1>3 DEF ExitRecord
  <2>3. /\ c.exit.name # 0 => e.name = c.exit.name
        /\ c.exit.mtu # 0 => e.mtu = c.exit.mtu
    BY <1>3 DEF ExitRecord
  <2>4. e.name = IF c.exit.enabled /\ c.exit.name = 0 THEN 6 ELSE c.exit.name
    BY <1>3 DEF ExitRecord
  <2>5. e.enabled => e.name # 0
    BY <1>3, <2>2, <2>4
  <2> QED
    BY <2>1, <2>2, <2>3, <2>5
<1>5. /\ d \in [mtu : Nat, exit : ExitRecord, users : Seq(UserRecord), dns : Seq(Address)]
      /\ d.mtu = m /\ d.exit = e /\ d.users = c.users /\ d.dns = c.dns
  <2> HIDE DEF d, e, m
  <2> QED BY <1>1, <1>2, <1>3, <1>4
<1> QED
  BY <1>4, <1>5, ServerConfigsTyped

LEMMA MTUsPositive == \A n \in Server!MTUs : n # 0
  BY DEF Server!MTUs

LEMMA ServerStarts == OpenInit => ServerInv
  BY FilesAssumption DEF OpenInit, Server!Init, ServerInv

LEMMA FieldsKeep == ServerInv /\ Server!Fields => ServerInv'
<1> SUFFICES ASSUME ServerInv, Server!Fields PROVE ServerInv'
  OBVIOUS
<1>1. config' = Server!WithDefaults(config) /\ config \in ServerConfigs
  BY DEF ServerInv, Server!Fields
<1>2. /\ config' \in ServerConfigs
      /\ config'.users = config.users /\ config'.dns = config.dns
      /\ config.mtu # 0 => config'.mtu = config.mtu
      /\ config'.exit.enabled = config.exit.enabled /\ config'.exit.address = config.exit.address
      /\ config.exit.name # 0 => config'.exit.name = config.exit.name
      /\ config.exit.mtu # 0 => config'.exit.mtu = config.exit.mtu
      /\ config'.exit.enabled => config'.exit.name # 0
  BY <1>1, DefaultsKeep
<1>3. Valid(config) => Valid(config')
  <2> SUFFICES ASSUME Valid(config) PROVE Valid(config')
    OBVIOUS
  <2>1. config.mtu \in Server!MTUs /\ config.mtu # 0 /\ config.users # <<>>
    BY MTUsPositive, Zenon DEF Valid, FieldsFine
  <2>2. Server!validateExit(config'.exit)
    <3> SUFFICES ASSUME config'.exit.enabled
                 PROVE  /\ config'.exit.name <= Server!maxInterfaceName
                        /\ Server!Is4(config'.exit.address) /\ config'.exit.address # Server!Zero
                        /\ config'.exit.mtu \in Server!MTUs
      BY Zenon DEF Server!validateExit
    <3>1. config.exit.enabled
      BY <1>2, Zenon
    <3>2. /\ config.exit.name <= Server!maxInterfaceName
          /\ Server!Is4(config.exit.address) /\ config.exit.address # Server!Zero
          /\ config.exit.mtu \in Server!MTUs /\ config.exit.name # 0
      BY <3>1, Zenon DEF Valid, FieldsFine, Server!validateExit
    <3>3. config.exit.mtu # 0
      BY <3>2, MTUsPositive, Zenon
    <3> QED
      BY <1>2, <3>2, <3>3, Zenon
  <2>3. FieldsFine(config')
    BY <1>2, <2>1, <2>2, Zenon DEF FieldsFine
  <2> QED
    BY <1>2, <2>3 DEF Valid
<1>4. Valid(config) => config'.mtu \in Server!MTUs /\ Server!validateExit(config'.exit) /\ config'.users # <<>>
  BY <1>3 DEF Valid, FieldsFine
<1>5. /\ pc' \in {"users", "error"} /\ pass' = pass /\ entry' \in Nat
      /\ refused' = "other" => pass = 1 /\ pc' = "error"
      /\ pc' = "users" => FieldsFine(config') /\ entry' = 1 /\ usernames' = {} /\ addresses' = {}
  BY <1>2, <1>4 DEF Server!Fields, Server!Refuse, ServerInv, FieldsFine
<1>6. pc' = "users" => UsersFine(config'.users, entry' - 1) /\ MapsHold(entry - 1)'
  BY <1>5 DEF UsersFine, MapsHold
<1>7. pc' = "users" => entry' \in 1..(Len(config'.users) + 1)
  BY <1>2, <1>5, ServerConfigsTyped DEF FieldsFine
<1> QED
  BY <1>2, <1>3, <1>5, <1>6, <1>7 DEF ServerInv

LEMMA UserKeep == ServerInv /\ Server!User => ServerInv'
<1> SUFFICES ASSUME ServerInv, Server!User PROVE ServerInv'
  OBVIOUS
<1> DEFINE u == config.users[entry]
           n == Len(config.users)
<1>1. /\ pc = "users" /\ entry \in 1..n /\ config' = config /\ n \in Nat
      /\ UsersFine(config.users, entry - 1) /\ MapsHold(entry - 1) /\ FieldsFine(config)
  BY ServerConfigsTyped DEF ServerInv, Server!User
<1>2. Valid(config) => Server!AcceptsUser(u)
  <2> SUFFICES ASSUME UsersFine(config.users, n) PROVE Server!AcceptsUser(u)
    BY DEF Valid
  <2>1. \A j \in 1..(entry - 1) : j \in 1..n /\ j # entry
    BY <1>1
  <2>2. u.username \notin usernames /\ u.address \notin addresses
    BY <1>1, <2>1, SMTT(30) DEF UsersFine, MapsHold
  <2> QED
    BY <1>1, <2>2 DEF UsersFine, Server!AcceptsUser
<1>4. CASE Server!AcceptsUser(u)
  <2>1. /\ usernames' = usernames \cup {u.username} /\ addresses' = addresses \cup {u.address}
        /\ entry' = entry + 1 /\ UNCHANGED <<pass, pc, refused, config>>
    BY <1>4 DEF Server!User
  <2>2. UsersFine(config.users, entry)
    BY <1>1, <1>4, SMTT(30) DEF UsersFine, MapsHold, Server!AcceptsUser
  <2>3. entry' - 1 = entry /\ entry - 1 \in Nat
    BY <1>1, <2>1
  <2>4. MapsHold(entry - 1)'
    BY <1>1, <2>1, <2>3 DEF MapsHold
  <2> QED
    BY <1>1, <2>1, <2>2, <2>3, <2>4 DEF ServerInv
<1>5. CASE ~Server!AcceptsUser(u)
  <2>1. pc' = "error" /\ refused' = "other" /\ UNCHANGED <<pass, entry, config>>
    BY <1>5 DEF Server!User, Server!Refuse
  <2> QED
    BY <1>2, <1>5, <2>1 DEF ServerInv
<1> QED
  BY <1>4, <1>5

LEMMA OtherKeep ==
    ServerInv /\ (Server!UsersDone \/ Server!DNS \/ Server!Validated) => ServerInv'
<1> SUFFICES ASSUME ServerInv, Server!UsersDone \/ Server!DNS \/ Server!Validated
             PROVE  ServerInv'
  OBVIOUS
<1>1. config' = config
  BY DEF Server!UsersDone, Server!DNS, Server!Validated
<1>3. Len(config.users) \in Nat /\ Len(config.dns) \in Nat
  BY ServerConfigsTyped DEF ServerInv
<1>4. CASE Server!UsersDone
  BY <1>1, <1>3, <1>4 DEF Server!UsersDone, ServerInv, DnsFine
<1>5. CASE Server!DNS
  <2>1. pc = "dns" /\ entry \in 1..Len(config.dns)
    BY <1>3, <1>5 DEF Server!DNS, ServerInv
  <2>2. /\ FieldsFine(config) /\ UsersFine(config.users, Len(config.users))
        /\ DnsFine(config.dns, entry - 1) /\ config \in ServerConfigs
    BY <1>3, <2>1 DEF ServerInv
  <2>3. CASE Server!AcceptsDNS(config.dns[entry])
    <3>1. entry' = entry + 1 /\ UNCHANGED <<pass, pc, refused, config>>
      BY <1>5, <2>3 DEF Server!DNS
    <3>2. DnsFine(config.dns, entry) /\ entry' - 1 = entry
      BY <2>1, <2>2, <2>3, <3>1 DEF DnsFine, Server!AcceptsDNS
    <3> QED
      BY <2>1, <2>2, <3>1, <3>2 DEF ServerInv
  <2>4. CASE ~Server!AcceptsDNS(config.dns[entry])
    <3>1. pc' = "error" /\ refused' = "other" /\ UNCHANGED <<pass, entry, config>>
      BY <1>5, <2>4 DEF Server!DNS, Server!Refuse
    <3>2. pass = 1
      BY <1>3, <2>1, <2>4 DEF ServerInv, Valid, DnsFine, Server!AcceptsDNS
    <3> QED
      BY <2>2, <3>1, <3>2 DEF ServerInv
  <2> QED
    BY <2>3, <2>4
<1>6. CASE Server!Validated
  <2>1. pc = "dns" /\ entry = Len(config.dns) + 1
    BY <1>3, <1>6 DEF Server!Validated, ServerInv
  <2>2. FieldsFine(config) /\ UsersFine(config.users, Len(config.users))
        /\ DnsFine(config.dns, Len(config.dns))
    BY <1>3, <2>1 DEF ServerInv
  <2>3. Server!Parses(config)
    <3>1. \A a \in Range(config.dns) : a \notin {Server!Missing, Server!Bad}
      BY <2>2, ServerConfigsTyped DEF DnsFine, Server!Is4, Range, ServerInv
    <3>2. \A u \in Range(config.users) : u.address \notin {Server!Missing, Server!Bad}
      BY <2>2, ServerConfigsTyped DEF UsersFine, Server!Is4, Range, ServerInv
    <3>3. config.exit.enabled => config.exit.address \notin {Server!Missing, Server!Bad}
      BY <2>2 DEF FieldsFine, Server!validateExit, Server!Is4
    <3> QED
      BY <3>1, <3>2, <3>3 DEF Server!Parses, Server!Range, Range
  <2>4. CASE Len(config.dns) > 2
    <3>1. /\ pc' = "error" /\ refused' = "other" /\ pass = 1
          /\ UNCHANGED <<pass, entry, config>>
      BY <1>3, <1>6, <2>4 DEF Server!Validated, Server!Refuse, ServerInv, Valid
    <3> QED
      BY <3>1 DEF ServerInv
  <2>5. CASE ~(Len(config.dns) > 2)
    <3>1. /\ pc' \in {"head", "ok"} /\ pass' = 2
          /\ UNCHANGED <<entry, config, refused>>
          /\ pass = 1 => refused # "other"
      BY <1>6, <2>1, <2>3, <2>5 DEF Server!Validated, ServerInv
    <3>2. Valid(config)
      BY <1>3, <2>2, <2>5 DEF Valid
    <3> QED
      BY <3>1, <3>2 DEF ServerInv
  <2> QED
    BY <2>4, <2>5
<1> QED
  BY <1>4, <1>5, <1>6

(* Nothing but validate touches what ServerInv is about. *)
LEMMA ServerKept == ServerInv /\ [OpenNext]_<<startup, vars, wire>> => ServerInv'
<1>1. ServerInv /\ UNCHANGED startup => ServerInv'
  <2> SUFFICES ASSUME ServerInv, UNCHANGED startup PROVE ServerInv'
    OBVIOUS
  <2>1. MapsHold(entry - 1) => MapsHold(entry - 1)'
    BY DEF MapsHold, startup
  <2> QED
    BY <2>1 DEF ServerInv, startup
<1> QED
  BY <1>1, FieldsKeep, UserKeep, OtherKeep DEF OpenNext, Server!Next

(* For any configuration, the one the server runs with gives every user an *)
(* address of its own, MTUs within the limits and at most two IPv4 DNS     *)
(* servers.                                                                *)
THEOREM AcceptedIsFit == OpenSpec => []FitForSessions
<1>1. ServerInv => FitForSessions
  <2> SUFFICES ASSUME ServerInv, pc = "ok" PROVE FitForSessions
    BY DEF FitForSessions
  <2>1. Valid(config) /\ config \in ServerConfigs
    BY DEF ServerInv
  <2>2. /\ DOMAIN config.users = 1..Len(config.users)
        /\ DOMAIN config.dns = 1..Len(config.dns)
    BY <2>1, ServerConfigsTyped
  <2>3. \A j, k \in DOMAIN config.users :
           j # k => /\ config.users[j].username # config.users[k].username
                    /\ config.users[j].address # config.users[k].address
    BY <2>1, <2>2 DEF Valid, UsersFine
  <2>4. config.exit.enabled => config.exit.mtu \in Server!MTUs
    BY <2>1, Zenon DEF Valid, FieldsFine, Server!validateExit
  <2>5. \A a \in Range(config.dns) : Server!Is4(a)
    BY <2>1, <2>2 DEF Valid, DnsFine, Range
  <2> QED
    BY <2>1, <2>3, <2>4, <2>5 DEF Valid, FieldsFine, FitForSessions
<1> QED
  BY <1>1, ServerStarts, ServerKept, PTL DEF OpenSpec

(* For any configuration, what DecodeConfig accepted normalized accepts,   *)
(* and none of its parsers panics.                                         *)
THEOREM AcceptedTwice == OpenSpec => []SecondPassAgrees
<1>1. ServerInv => SecondPassAgrees
  BY DEF ServerInv, SecondPassAgrees
<1> QED
  BY <1>1, ServerStarts, ServerKept, PTL DEF OpenSpec

-----------------------------------------------------------------------------
(* The client's configuration.  What of it enters an OPEN fits its fields, *)
(* whichever lines were read.                                              *)
ShortTexts == {v \in Seq(Char) : Len(v) <= 31}

MtuOrNone == {0} \cup (46..1600)

PipeIds == 0..32767

Bits == {0, 1}

Suits(f, v) ==
    /\ f = "username" => v \in ShortTexts
    /\ f = "password" => v \in ShortTexts
    /\ f = "mtu" => v \in MtuOrNone
    /\ f = "encrypt" => v \in Bits
    /\ f = "pipeid" => v \in PipeIds
    /\ f = "pipeidx" => v \in Bits

Fits(c) == DOMAIN c = DOMAIN NoConfig /\ \A f \in DOMAIN c : Suits(f, c[f])

TextFields ==
    {"tun_name", "server", "username", "password", "srpassword", "up_script", "down_script"}

NumberFields == {"port", "mtu", "pipeid", "pipeidx", "srencryptmode"}

LEMMA FieldNames ==
    /\ DOMAIN TextMax = TextFields
    /\ DOMAIN NumberRange = NumberFields
    /\ DOMAIN NoConfig = TextFields \cup NumberFields \cup {"encrypt", "srlinks"}
<1>1. DOMAIN TextMax = TextFields
  BY DEF TextMax, TextFields
<1>2. DOMAIN NumberRange = NumberFields
  BY DEF NumberRange, NumberFields
<1> QED
  BY <1>1, <1>2 DEF NoConfig

(* What Suits says, field by field. *)
LEMMA SuitsMeans ==
    /\ \A v : Suits("username", v) <=> v \in ShortTexts
    /\ \A v : Suits("password", v) <=> v \in ShortTexts
    /\ \A v : Suits("mtu", v) <=> v \in MtuOrNone
    /\ \A v : Suits("encrypt", v) <=> v \in Bits
    /\ \A v : Suits("pipeid", v) <=> v \in PipeIds
    /\ \A v : Suits("pipeidx", v) <=> v \in Bits
    /\ \A f, v : f \notin {"username", "password", "mtu", "encrypt", "pipeid", "pipeidx"}
                    => Suits(f, v)
  BY DEF Suits

LEMMA NoConfigFits == Fits(NoConfig)
<1>1. <<>> \in ShortTexts /\ 0 \in MtuOrNone /\ 0 \in Bits /\ 0 \in PipeIds
  BY DEF ShortTexts, MtuOrNone, Bits, PipeIds
<1>2. \A f \in NumberFields \cup {"encrypt"} : Suits(f, 0)
  BY <1>1 DEF Suits, NumberFields
<1>3. \A f : f \notin NumberFields \cup {"encrypt"} => Suits(f, <<>>)
  BY <1>1 DEF Suits, NumberFields
<1>4. \A f \in DOMAIN NoConfig :
         NoConfig[f] = IF f \in NumberFields \cup {"encrypt"} THEN 0 ELSE <<>>
  BY FieldNames DEF NoConfig
<1> QED
  BY <1>2, <1>3, <1>4 DEF Fits

LEMMA StoredFits ==
  ASSUME NEW text \in Seq(Char), NEW f \in {"username", "password"}
  PROVE  Suits(f, Stored(text, f))
<1>1. TextMax[f] = 31
  BY DEF TextMax
<1> DEFINE n == IF Len(text) > 31 THEN 31 ELSE Len(text)
<1>2. n \in 0..Len(text) /\ n <= 31 /\ Stored(text, f) = SubSeq(text, 1, n)
  BY <1>1 DEF Stored
<1> HIDE DEF n
<1>3. \A i \in 1..n : text[i] \in Char
  BY <1>2, ElementOfSeq
<1>4. SubSeq(text, 1, n) \in Seq(Char) /\ Len(SubSeq(text, 1, n)) = IF 1 <= n THEN n - 1 + 1 ELSE 0
  BY <1>2, <1>3, SubSeqProperties
<1>5. Stored(text, f) \in ShortTexts
  BY <1>2, <1>4 DEF ShortTexts
<1> QED
  BY <1>5, SuitsMeans, Zenon

LEMMA NumbersSuit ==
    /\ NumberRange["mtu"] \subseteq MtuOrNone
    /\ NumberRange["pipeid"] \subseteq PipeIds
    /\ NumberRange["pipeidx"] \subseteq Bits
<1>1. ASSUME NEW n \in NumberRange["mtu"] PROVE n \in MtuOrNone
  <2>1. n \in 46..1600
    BY <1>1 DEF NumberRange
  <2> QED
    BY <2>1 DEF MtuOrNone
<1>2. NumberRange["pipeid"] = PipeIds
  BY DEF NumberRange, PipeIds
<1>3. ASSUME NEW n \in NumberRange["pipeidx"] PROVE n \in Bits
  <2>1. n \in 0..1
    BY <1>3 DEF NumberRange
  <2> QED
    BY <2>1 DEF Bits
<1> QED
  BY <1>1, <1>2, <1>3, Zenon

LEMMA Assigned ==
  ASSUME NEW c, Fits(c), NEW k, NEW v, Suits(k, v), NEW e, e = [c EXCEPT ![k] = v]
  PROVE  Fits(e)
  BY DEF Fits

LEMMA LineFits ==
  ASSUME NEW c, Fits(c), NEW l \in ClientLines
  PROVE  Fits(ReadLine(c, l))
<1> DEFINE d == ReadLine(c, l)
<1>1. \A k, v, e : Suits(k, v) /\ e = [c EXCEPT ![k] = v] => Fits(e)
  BY Assigned
<1>2. CASE IsHeader(l)
  <2>1. d = c \/ \E t : d = [c EXCEPT !["tun_name"] = t]
    BY <1>2 DEF ReadLine, ReadHeader
  <2>2. \A t : Suits("tun_name", t)
    BY SuitsMeans
  <2> QED
    BY <1>1, <2>1, <2>2
<1>3. CASE ~IsHeader(l)
  <2>1. CASE l.key \in TextFields \ {"tun_name"}
    <3>1. d = [c EXCEPT ![l.key] = Stored(l.text, l.key)]
      BY <1>3, <2>1, FieldNames DEF ReadLine, TextFields, NumberFields
    <3>2. l.text \in Seq(Char)
      BY <2>1, FieldNames DEF ClientLines, TextFields, NumberFields
    <3>3. Suits(l.key, Stored(l.text, l.key))
      <4>1. \A f \in TextFields : f \notin NumberFields \cup {"encrypt"}
        BY DEF TextFields, NumberFields
      <4>2. \A f, v : f \notin NumberFields \cup {"encrypt", "username", "password"} => Suits(f, v)
        BY SuitsMeans, Zenon DEF NumberFields
      <4> QED
        BY <2>1, <3>2, <4>1, <4>2, StoredFits, Zenon
    <3> QED
      BY <1>1, <3>1, <3>3, Zenon
  <2>2. CASE l.key \in NumberFields
    <3>1. d = IF Takes(l.key, l.number) THEN [c EXCEPT ![l.key] = l.number] ELSE c
      BY <1>3, <2>2, FieldNames DEF ReadLine, TextFields, NumberFields
    <3>2. Takes(l.key, l.number) => Suits(l.key, l.number)
      <4>1. /\ NumberRange["mtu"] \subseteq MtuOrNone
            /\ NumberRange["pipeid"] \subseteq PipeIds
            /\ NumberRange["pipeidx"] \subseteq Bits
        BY NumbersSuit, Zenon
      <4>2. \A f, n : Takes(f, n) => n \in NumberRange[f]
        BY Zenon DEF Takes
      <4>3. /\ \A n : Takes("mtu", n) => Suits("mtu", n)
            /\ \A n : Takes("pipeid", n) => Suits("pipeid", n)
            /\ \A n : Takes("pipeidx", n) => Suits("pipeidx", n)
        BY <4>1, <4>2, SuitsMeans, Zenon
      <4>4. \A n : Suits("port", n) /\ Suits("srencryptmode", n)
        BY SuitsMeans
      <4> QED
        BY <2>2, <4>3, <4>4, Zenon DEF NumberFields
    <3> QED
      BY <1>1, <3>1, <3>2
  <2>3. CASE l.key = "encrypt"
    <3>1. d = [c EXCEPT !["encrypt"] = IF l.number = 1 THEN 1 ELSE 0]
      BY <1>3, <2>3, FieldNames DEF ReadLine, TextFields, NumberFields
    <3>2. Suits("encrypt", IF l.number = 1 THEN 1 ELSE 0)
      BY SuitsMeans DEF Bits
    <3> QED
      BY <1>1, <3>1, <3>2, Zenon
  <2>4. CASE l.key = "srlinks"
    <3>1. d = [c EXCEPT !["srlinks"] = ReadLinks(l.items)]
      BY <1>3, <2>4, FieldNames DEF ReadLine, TextFields, NumberFields
    <3>2. \A v : Suits("srlinks", v)
      BY SuitsMeans
    <3> QED
      BY <1>1, <3>1, <3>2, Zenon
  <2>5. CASE l.key \notin (TextFields \ {"tun_name"}) \cup NumberFields \cup {"encrypt", "srlinks"}
    <3>1. d = c
      BY <1>3, <2>5, FieldNames DEF ReadLine, TextFields, NumberFields
    <3> QED
      BY <3>1
  <2> QED
    BY <2>1, <2>2, <2>3, <2>4, <2>5
<1> QED
  BY <1>2, <1>3

Started == {"tun", "resolve", "socket", "running"}

(* The client up to its loop: past cfg_valid the configuration is valid,   *)
(* and once the keys are derived they stay those of the configuration.     *)
ClientInv ==
    /\ file \subseteq ClientLines /\ Fits(cfg)
    /\ phase # "load" => pc = "ok"
    /\ phase \in Started => cfg_valid(cfg)
    /\ phase \in Started \ {"tun"} => keys.xor = derive_xor_key(cfg)
    /\ stage # "none" => phase = "running"

LEMMA ClientStarts == OpenInit => ClientInv
  BY FilesAssumption, NoConfigFits DEF OpenInit, Init, ClientInv, Started

(* sr_setup_keys changes nothing that enters the keys or cfg_valid. *)
LEMMA ModeKeeps ==
  ASSUME NEW c, Fits(c), NEW m, NEW d, d = [c EXCEPT !["srencryptmode"] = m]
  PROVE  /\ Fits(d)
         /\ cfg_valid(c) => cfg_valid(d)
         /\ derive_xor_key(d) = derive_xor_key(c)
<1>1. \A v : Suits("srencryptmode", v)
  BY SuitsMeans
<1>2. DOMAIN c = TextFields \cup NumberFields \cup {"encrypt", "srlinks"}
  BY FieldNames DEF Fits
<1>3. \A f \in DOMAIN c : f # "srencryptmode" => d[f] = c[f]
  OBVIOUS
<1>4. \A f \in TextFields \cup {"mtu", "port"} : d[f] = c[f]
  BY <1>2, <1>3 DEF TextFields, NumberFields
<1>5. /\ \A f \in {"tun_name", "server", "username", "password"} : d[f] = c[f]
      /\ d["mtu"] = c["mtu"] /\ d["port"] = c["port"]
      /\ d["username"] = c["username"] /\ d["password"] = c["password"]
  BY <1>4 DEF TextFields
<1>6. cfg_valid(c) => cfg_valid(d)
  BY <1>5, Zenon DEF cfg_valid
<1> QED
  BY <1>1, <1>5, <1>6, Assigned DEF derive_xor_key

LEMMA ClientKept == ServerInv /\ ClientInv /\ [OpenNext]_<<startup, vars, wire>> => ClientInv'
<1> SUFFICES ASSUME ServerInv, ClientInv, [OpenNext]_<<startup, vars, wire>> PROVE ClientInv'
  OBVIOUS
<1>1. CASE UNCHANGED vars /\ (pc = "ok" => pc' = "ok") /\ (stage' # "none" => phase = "running")
  BY <1>1 DEF ClientInv, vars, Started
<1>2. pc = "ok" => ~Server!Next
  BY DEF Server!Next, Server!Fields, Server!User, Server!UsersDone, Server!DNS, Server!Validated
<1>3. CASE Server!Next /\ UNCHANGED <<vars, wire>>
  BY <1>1, <1>2, <1>3 DEF wire, ClientInv
<1>4. CASE (SendOpen \/ parseOpenPacket \/ handleOpen \/ handle_openack) /\ UNCHANGED <<startup, vars>>
  <2>1. stage' # "none" => phase = "running"
    BY <1>4 DEF SendOpen, parseOpenPacket, handleOpen, handle_openack, ClientInv
  <2> QED
    BY <1>1, <1>4, <2>1 DEF startup
<1>5. CASE UNCHANGED <<startup, vars, wire>>
  BY <1>1, <1>5 DEF startup, wire, ClientInv
<1>6. CASE pc = "ok" /\ Next /\ UNCHANGED <<startup, wire>>
  <2>1. pc = "ok" /\ pc' = "ok" /\ stage' = stage
    BY <1>6 DEF startup, wire
  <2>2. CASE \E l \in file : Load(l)
    <3>1. PICK l \in file : Load(l)
      BY <2>2
    <3>2. Fits(cfg') /\ phase = "load" /\ UNCHANGED <<file, phase>>
      BY <3>1, LineFits DEF Load, ClientInv
    <3> QED
      BY <2>1, <3>2 DEF ClientInv, Started
  <2>3. CASE Loaded
    BY <2>1, <2>3 DEF Loaded, ClientInv, Started
  <2>4. CASE TunOpened
    <3>1. /\ cfg' = [cfg EXCEPT !["srencryptmode"] = SrMode(cfg)]
          /\ phase = "tun" /\ phase' = "resolve" /\ file' = file
          /\ keys'.xor = derive_xor_key(cfg)
      BY <2>4 DEF TunOpened
    <3>2. Fits(cfg') /\ cfg_valid(cfg') /\ derive_xor_key(cfg') = derive_xor_key(cfg)
      BY <3>1, ModeKeeps DEF ClientInv, Started
    <3> QED
      BY <2>1, <3>1, <3>2 DEF ClientInv, Started
  <2>5. CASE resolve_server \/ SocketCreated
    BY <2>1, <2>5 DEF resolve_server, SocketCreated, ClientInv, Started
  <2>6. CASE Fails("file", "load") \/ Fails("tun", "tun") \/ Fails("socket", "socket")
    BY <2>1, <2>6 DEF Fails, ClientInv, Started
  <2> QED
    BY <1>6, <2>2, <2>3, <2>4, <2>5, <2>6 DEF Next
<1> QED
  BY <1>3, <1>4, <1>5, <1>6 DEF OpenNext

-----------------------------------------------------------------------------
(* Bodies.  A symbol is a byte, or a byte of an enciphered block.          *)
Symbol == Byte \cup [key : Seq(Char), byte : Byte]
Values == {v \in Seq(Symbol) : Len(v) <= 253}

LEMMA ShortValue ==
  ASSUME NEW v \in Seq(Symbol), Len(v) \in {1, 2, 4, 8, 16}
  PROVE  v \in Values
<1> DEFINE n == Len(v)
<1>1. n = 1 \/ n = 2 \/ n = 4 \/ n = 8 \/ n = 16
  OBVIOUS
<1> HIDE DEF n
<1>2. n <= 253
  BY <1>1
<1> QED
  BY <1>2 DEF Values, n

(* body begins with a TLV. *)
Starts(body, type, value, tail) ==
    /\ type \in Byte /\ value \in Values /\ tail \in Seq(Symbol)
    /\ body = TLV(type, value) \o tail

IsTLV(t, type, value) == t.type = type /\ t.value = value

LEMMA SmallMod == ASSUME NEW j \in Nat, j < 256 PROVE j % 256 = j
<1>1. j = 256 * (j \div 256) + (j % 256) /\ j % 256 \in 0..255 /\ j \div 256 \in Int
  OBVIOUS
<1>2. j \div 256 = 0
  BY <1>1
<1> QED
  BY <1>1, <1>2

LEMMA Glued ==
  ASSUME NEW a \in Seq(Symbol), NEW b \in Seq(Symbol), NEW u, u = a \o b
  PROVE  /\ u \in Seq(Symbol) /\ Len(u) = Len(a) + Len(b)
         /\ \A i \in 1..Len(u) : u[i] = IF i <= Len(a) THEN a[i] ELSE b[i - Len(a)]
  OBVIOUS

(* v is what u holds from m to n. *)
Lies(v, u, m, n) ==
    /\ u \in Seq(Symbol) /\ v \in Seq(Symbol) /\ m \in Nat /\ m >= 1
    /\ n = m + Len(v) - 1 /\ n <= Len(u)
    /\ \A i \in 1..Len(v) : u[m + i - 1] = v[i]

LEMMA Cut ==
  ASSUME NEW u, NEW v, NEW m, NEW n, Lies(v, u, m, n)
  PROVE  SubSeq(u, m, n) = v
<1> DEFINE w == SubSeq(u, m, n)
<1>0. /\ u \in Seq(Symbol) /\ v \in Seq(Symbol) /\ m \in Nat /\ m >= 1
      /\ n = m + Len(v) - 1 /\ n <= Len(u)
      /\ \A i \in 1..Len(v) : u[m + i - 1] = v[i]
  BY DEF Lies
<1>1. n \in Int /\ Len(v) \in Nat
  BY <1>0
<1>2. \A i \in m..n : u[i] \in Symbol
  BY <1>0, <1>1, ElementOfSeq
<1>3. /\ w \in Seq(Symbol) /\ Len(w) = IF m <= n THEN n - m + 1 ELSE 0
      /\ \A i \in 1..(n - m + 1) : w[i] = u[m + i - 1]
  BY <1>0, <1>1, <1>2, SubSeqProperties
<1> HIDE DEF w
<1>4. Len(w) = Len(v) /\ \A i \in 1..Len(w) : w[i] = v[i]
  BY <1>0, <1>1, <1>3
<1>5. w = v
  BY <1>0, <1>3, <1>4, SeqEqual
<1> QED
  BY <1>5 DEF w

(* Of a body that begins with a TLV, that TLV is read and what follows is  *)
(* left.                                                                   *)
LEMMA ReadsFirst ==
  ASSUME NEW type, NEW value, NEW tail, NEW body, Starts(body, type, value, tail)
  PROVE  /\ body # <<>> /\ WellFormed(body)
         /\ IsTLV(First(body), type, value)
         /\ After(body) = tail
<1> DEFINE n == Len(value)
           k == n + 2
           head == <<type, k>>
           tlv == head \o value
<1>0. value \in Seq(Symbol) /\ Len(value) <= 253 /\ tail \in Seq(Symbol) /\ type \in Byte
  BY DEF Values, Starts
<1>1. n \in Nat /\ Len(tail) \in Nat /\ n <= 253 /\ k \in Nat
  BY <1>0
<1>2. k % 256 = k /\ k \in Byte
  <2>1. k < 256 /\ k >= 0
    BY <1>1
  <2> HIDE DEF k
  <2>2. k % 256 = k
    BY <1>1, <2>1, SmallMod
  <2> QED
    BY <1>1, <2>1, <2>2 DEF Byte
<1>3. TLV(type, value) = tlv
  BY <1>2 DEF TLV
<1>4. head \in Seq(Symbol) /\ Len(head) = 2 /\ head[1] = type /\ head[2] = k
  <2> HIDE DEF k
  <2> QED BY <1>0, <1>2 DEF Symbol
<1> HIDE DEF head
<1>5. /\ tlv \in Seq(Symbol) /\ Len(tlv) = k
      /\ \A i \in 1..k : tlv[i] = IF i <= 2 THEN head[i] ELSE value[i - 2]
  <2>1. head \in Seq(Symbol)
    BY <1>4
  <2>2. PICK u : u = head \o value
    OBVIOUS
  <2>3. /\ u \in Seq(Symbol) /\ Len(u) = Len(head) + Len(value)
        /\ \A i \in 1..Len(u) : u[i] = IF i <= Len(head) THEN head[i] ELSE value[i - Len(head)]
    <3> HIDE DEF n, k, tlv
    <3> QED BY <1>0, <2>1, <2>2, Glued
  <2> QED
    BY <1>1, <1>4, <2>2, <2>3
<1> HIDE DEF tlv
<1>6. body = tlv \o tail
  BY <1>3, Zenon DEF Starts
<1>7. /\ body \in Seq(Symbol) /\ Len(body) = Len(tlv) + Len(tail)
      /\ \A i \in 1..Len(body) : body[i] = IF i <= Len(tlv) THEN tlv[i] ELSE tail[i - Len(tlv)]
  <2>1. tlv \in Seq(Symbol)
    BY <1>5
  <2> QED
    BY <1>0, <1>6, <2>1, Glued
<1>8. /\ body \in Seq(Symbol) /\ Len(body) = k + Len(tail)
      /\ body[1] = type /\ body[2] = k
      /\ \A i \in 1..n : body[3 + i - 1] = value[i]
      /\ \A i \in 1..Len(tail) : body[k + 1 + i - 1] = tail[i]
  <2>1. Len(body) = k + Len(tail) /\ body[1] = tlv[1] /\ body[2] = tlv[2]
    BY <1>1, <1>5, <1>7
  <2>2. body[1] = type /\ body[2] = k
    BY <1>1, <1>4, <1>5, <2>1
  <2>3. \A i \in 1..n : body[3 + i - 1] = value[i]
    BY <1>1, <1>5, <1>7
  <2>4. \A i \in 1..Len(tail) : body[k + 1 + i - 1] = tail[i]
    <3> SUFFICES ASSUME NEW i \in 1..Len(tail) PROVE body[k + 1 + i - 1] = tail[i]
      OBVIOUS
    <3> DEFINE j == k + 1 + i - 1
    <3>1. j \in 1..Len(body) /\ ~(j <= Len(tlv)) /\ j - Len(tlv) = i
      BY <1>1, <1>5, <2>1
    <3> HIDE DEF j
    <3> QED
      BY <1>7, <3>1 DEF j
  <2> QED
    BY <1>7, <2>1, <2>2, <2>3, <2>4
<1>9. SubSeq(body, 3, k) = value
  <2> DEFINE m == 3
  <2>1. /\ m \in Nat /\ m >= 1 /\ k = m + Len(value) - 1 /\ k <= Len(body)
        /\ \A i \in 1..Len(value) : body[m + i - 1] = value[i]
    BY <1>1, <1>8
  <2>2. m = 3
    OBVIOUS
  <2> HIDE DEF m, n, k
  <2>3. Lies(value, body, m, k)
    BY <1>0, <1>8, <2>1 DEF Lies
  <2>4. SubSeq(body, m, k) = value
    BY <2>3, Cut, Zenon
  <2> QED
    BY <2>2, <2>4
<1>10. SubSeq(body, k + 1, Len(body)) = tail
  <2> HIDE DEF k
  <2> DEFINE m == k + 1
  <2>1. \A i \in 1..Len(tail) : body[m + i - 1] = tail[i]
    BY <1>8
  <2>2. /\ m \in Nat /\ m >= 1 /\ Len(body) = m + Len(tail) - 1
        /\ Len(body) <= Len(body)
    BY <1>1, <1>8
  <2> HIDE DEF m
  <2>3. body \in Seq(Symbol)
    BY <1>8
  <2>4. Lies(tail, body, m, Len(body))
    BY <1>0, <2>1, <2>2, <2>3 DEF Lies
  <2>5. SubSeq(body, m, Len(body)) = tail
    BY <2>4, Cut, Zenon
  <2> QED
    BY <2>5 DEF m
<1>11. WellFormed(body) /\ body # <<>>
  BY <1>1, <1>8 DEF WellFormed
<1>12. First(body).type = type /\ First(body).value = value
  <2> HIDE DEF k
  <2> QED BY <1>8, <1>9 DEF First
<1>13. After(body) = tail
  <2> HIDE DEF k
  <2> QED BY <1>8, <1>10, <1>11 DEF After
<1> QED
  BY <1>11, <1>12, <1>13 DEF IsTLV

LEMMA TLVTyped ==
  ASSUME NEW type \in Byte, NEW value \in Seq(Symbol)
  PROVE  TLV(type, value) \in Seq(Symbol)
<1> DEFINE k == (Len(value) + 2) % 256
           head == <<type, k>>
<1>1. k \in Byte
  <2>1. \A j \in Nat : j % 256 \in 0..255
    OBVIOUS
  <2>2. Len(value) + 2 \in Nat
    OBVIOUS
  <2> QED
    BY <2>1, <2>2, Zenon DEF Byte
<1> HIDE DEF k
<1>2. head \in Seq(Symbol)
  BY <1>1 DEF Symbol
<1> HIDE DEF head
<1>3. TLV(type, value) = head \o value
  BY DEF TLV, head, k
<1> QED
  BY <1>2, <1>3, Glued

Joined(l, x, y) == x \in Seq(Symbol) /\ y \in Seq(Symbol) /\ l = x \o y

LEMMA Regrouped ==
  ASSUME NEW x, NEW y, NEW z, NEW l, NEW xy, NEW yz,
         Joined(xy, x, y), Joined(yz, y, z), Joined(l, xy, z)
  PROVE  Joined(l, x, yz)
<1>1. x \in Seq(Symbol) /\ y \in Seq(Symbol) /\ z \in Seq(Symbol)
  BY Zenon DEF Joined
<1>2. yz \in Seq(Symbol)
  <2>1. yz = y \o z
    BY Zenon DEF Joined
  <2> QED
    BY <1>1, <2>1, Glued
<1>3. (x \o y) \o z = x \o (y \o z)
  BY <1>1, ConcatAssociative
<1> QED
  BY <1>1, <1>2, <1>3, Zenon DEF Joined

Wide(j) == j \in Nat /\ j < 65536
PipeWord(id, idx) == id + idx * 32768

LEMMA TwoBytes ==
  ASSUME NEW n, Wide(n)
  PROVE  /\ Bytes2(n) \in Seq(Symbol) /\ Len(Bytes2(n)) = 2
         /\ Word(Bytes2(n)) = n
<1> DEFINE h == n \div 256
           l == n % 256
<1>0. n \in Nat /\ n < 65536
  BY DEF Wide
<1>1. h < 256 /\ h >= 0 /\ h \in Int
  BY <1>0
<1>2. l \in 0..255 /\ n = h * 256 + l
  BY <1>0
<1> HIDE DEF h, l
<1>3. h % 256 = h /\ h \in Symbol /\ l \in Symbol
  BY <1>1, <1>2 DEF Symbol, Byte
<1>4. Bytes2(n) = <<h, l>>
  BY <1>3 DEF Bytes2, h, l
<1>5. <<h, l>> \in Seq(Symbol) /\ Len(<<h, l>>) = 2
  BY <1>3
<1>6. Word(<<h, l>>) = n
  BY <1>1, <1>2 DEF Word
<1> QED
  BY <1>4, <1>5, <1>6

LEMMA FieldSuits ==
  ASSUME NEW c, Fits(c)
  PROVE  /\ Suits("username", c.username) /\ Suits("password", c.password)
         /\ Suits("mtu", c.mtu) /\ Suits("encrypt", c.encrypt)
         /\ Suits("pipeid", c.pipeid) /\ Suits("pipeidx", c.pipeidx)
<1>1. DOMAIN c = TextFields \cup NumberFields \cup {"encrypt", "srlinks"}
  BY FieldNames DEF Fits
<1>2. {"username", "password", "mtu", "encrypt", "pipeid", "pipeidx"} \subseteq DOMAIN c
  BY <1>1 DEF TextFields, NumberFields
<1>3. /\ Suits("username", c["username"]) /\ Suits("password", c["password"])
      /\ Suits("mtu", c["mtu"]) /\ Suits("encrypt", c["encrypt"])
      /\ Suits("pipeid", c["pipeid"]) /\ Suits("pipeidx", c["pipeidx"])
  BY <1>2 DEF Fits
<1> QED
  BY <1>3, Zenon

LEMMA TextValues ==
  ASSUME NEW c, Fits(c)
  PROVE  /\ c.username \in Seq(Char) /\ Len(c.username) <= 31
         /\ c.password \in Seq(Char) /\ Len(c.password) <= 31
<1>1. c.username \in ShortTexts /\ c.password \in ShortTexts
  BY FieldSuits, SuitsMeans, Zenon
<1> QED
  BY <1>1 DEF ShortTexts

(* A body of OPEN, from its end. *)
Block(c) == PasswordBlock(c.username, c.password)
Piped(c) == c.pipeid # 0 \/ c.pipeidx # 0
Flag(c) == When(c.encrypt = 1, TLV(8, <<c.encrypt>>))
Pipe(c) == When(Piped(c), TLV(10, Bytes2(PipeWord(c.pipeid, c.pipeidx))))
AfterBlock(c) == Flag(c) \o Pipe(c)
AfterName(c) == TLV(2, Block(c)) \o AfterBlock(c)
AfterMtu(c) == TLV(1, c.username) \o AfterName(c)

LEMMA TextTyped == ASSUME NEW t \in Seq(Char) PROVE t \in Seq(Symbol)
<1>1. Char \subseteq Symbol
  BY DEF Char, Symbol, Byte
<1> QED
  BY <1>1, SeqMonotonic

LEMMA BlockTyped ==
  ASSUME NEW u \in Seq(Char), NEW w \in Seq(Byte)
  PROVE  PasswordBlock(u, w) \in Seq(Symbol) /\ Len(PasswordBlock(u, w)) = 16
<1> DEFINE q(b) == IF b <= Len(w) THEN w[b] ELSE 0
<1>1. \A b \in 1..16 : q(b) \in Byte
  <2>1. 0 \in Byte
    BY DEF Byte
  <2>2. \A b \in 1..16 : b <= Len(w) => w[b] \in Byte
    BY ElementOfSeq
  <2> QED
    BY <2>1, <2>2
<1> HIDE DEF q
<1>2. \A b \in 1..16 : [key |-> u, byte |-> q(b)] \in Symbol
  BY <1>1 DEF Symbol
<1>3. PasswordBlock(u, w) = [b \in 1..16 |-> [key |-> u, byte |-> q(b)]]
  BY DEF PasswordBlock, q
<1>4. PasswordBlock(u, w) \in [1..16 -> Symbol]
  BY <1>2, <1>3
<1>5. PasswordBlock(u, w) \in Seq(Symbol)
  BY <1>4, SeqDef
<1>6. DOMAIN PasswordBlock(u, w) = 1..16
  BY <1>4
<1> QED
  BY <1>5, <1>6, LenProperties

LEMMA PipeNumber ==
  ASSUME NEW v \in PipeIds, NEW w \in Bits
  PROVE  Wide(PipeWord(v, w))
<1>1. v \in Nat /\ v < 32768
  BY SMTT(30) DEF PipeIds
<1>2. w = 0 \/ w = 1
  BY DEF Bits
<1>3. ASSUME w = 0 PROVE PipeWord(v, w) \in Nat /\ PipeWord(v, w) < 65536
  BY <1>1, <1>3 DEF PipeWord
<1>4. ASSUME w = 1 PROVE PipeWord(v, w) \in Nat /\ PipeWord(v, w) < 65536
  BY <1>1, <1>4 DEF PipeWord
<1> QED
  BY <1>2, <1>3, <1>4 DEF Wide

LEMMA MtuIsWide == ASSUME NEW v \in MtuOrNone PROVE Wide(v)
<1>1. CASE v = 0
  BY <1>1 DEF Wide
<1>2. CASE v \in 46..1600
  BY <1>2 DEF Wide
<1> QED
  BY <1>1, <1>2 DEF MtuOrNone

LEMMA BodyParts ==
  ASSUME NEW c, Fits(c)
  PROVE  /\ Len(Bytes2(c.mtu)) = 2 /\ Word(Bytes2(c.mtu)) = c.mtu /\ Len(Block(c)) = 16
         /\ Pipe(c) \in Seq(Symbol)
         /\ Starts(build_open_pkt(c), 3, Bytes2(c.mtu), AfterMtu(c))
         /\ Starts(AfterMtu(c), 1, c.username, AfterName(c))
         /\ Starts(AfterName(c), 2, Block(c), AfterBlock(c))
         /\ c.encrypt = 1 => Starts(AfterBlock(c), 8, <<c.encrypt>>, Pipe(c))
         /\ Piped(c) => Starts(Pipe(c), 10, Bytes2(PipeWord(c.pipeid, c.pipeidx)), <<>>)
<1> DEFINE n == PipeWord(c.pipeid, c.pipeidx)
<1>1. /\ c.username \in Seq(Char) /\ Len(c.username) <= 31
      /\ c.password \in Seq(Char) /\ Len(c.password) <= 31
  BY TextValues, Zenon
<1>2. Wide(c.mtu) /\ c.encrypt \in Byte /\ Wide(n)
  <2>1. \A v \in MtuOrNone : Wide(v)
    BY MtuIsWide
  <2>2. Bits \subseteq Byte
    BY DEF Bits, Byte
  <2>3. /\ Suits("mtu", c.mtu) /\ Suits("encrypt", c.encrypt)
        /\ Suits("pipeid", c.pipeid) /\ Suits("pipeidx", c.pipeidx)
    BY FieldSuits
  <2> QED
    BY <2>1, <2>2, <2>3, SuitsMeans, PipeNumber, Zenon
<1> HIDE DEF n
<1>3. /\ Bytes2(c.mtu) \in Seq(Symbol) /\ Len(Bytes2(c.mtu)) = 2 /\ Word(Bytes2(c.mtu)) = c.mtu
      /\ Bytes2(n) \in Seq(Symbol) /\ Len(Bytes2(n)) = 2
  BY <1>2, TwoBytes
<1>4. c.username \in Seq(Symbol) /\ c.password \in Seq(Byte)
  <2>1. Char \subseteq Byte
    BY DEF Char, Byte
  <2> QED
    BY <1>1, <2>1, TextTyped, SeqMonotonic
<1> DEFINE block == Block(c)
           a == TLV(3, Bytes2(c.mtu))
           b == TLV(1, c.username)
           d == TLV(2, block)
           f == Flag(c)
           p == Pipe(c)
<1>5. block \in Seq(Symbol) /\ Len(block) = 16
  BY <1>1, <1>4, BlockTyped DEF Block
<1>6. <<c.encrypt>> \in Seq(Symbol) /\ <<>> \in Seq(Symbol)
  <2>1. c.encrypt \in Symbol
    BY <1>2 DEF Symbol
  <2> QED
    BY <2>1
<1>7. 1 \in Byte /\ 2 \in Byte /\ 3 \in Byte /\ 8 \in Byte /\ 10 \in Byte
  BY DEF Byte
<1> HIDE DEF block
<1>8. /\ a \in Seq(Symbol) /\ b \in Seq(Symbol) /\ d \in Seq(Symbol)
      /\ TLV(8, <<c.encrypt>>) \in Seq(Symbol) /\ TLV(10, Bytes2(n)) \in Seq(Symbol)
  BY <1>3, <1>4, <1>5, <1>6, <1>7, TLVTyped
<1>9. f \in Seq(Symbol) /\ p \in Seq(Symbol)
  BY <1>6, <1>8 DEF Flag, Pipe, When, n
<1> DEFINE ab == a \o b
           abd == ab \o d
           abdf == abd \o f
<1>10. build_open_pkt(c) = abdf \o p
  BY DEF build_open_pkt, Flag, Pipe, Piped, PipeWord, Block, block
<1>11. /\ AfterBlock(c) = f \o p /\ AfterName(c) = d \o AfterBlock(c)
       /\ AfterMtu(c) = b \o AfterName(c)
  BY DEF AfterBlock, AfterName, AfterMtu, block
<1> HIDE DEF a, b, d, f, p
<1>12. AfterBlock(c) \in Seq(Symbol)
  BY <1>9, <1>11
<1>13. AfterName(c) \in Seq(Symbol)
  BY <1>8, <1>11, <1>12
<1>14. AfterMtu(c) \in Seq(Symbol)
  BY <1>8, <1>11, <1>13
<1> DEFINE whole == build_open_pkt(c)
<1>15. whole = a \o AfterMtu(c)
  <2>1. ab \in Seq(Symbol) /\ abd \in Seq(Symbol) /\ abdf \in Seq(Symbol)
    BY <1>8, <1>9
  <2> HIDE DEF whole, ab, abd, abdf
  <2>2. Joined(whole, abd, AfterBlock(c))
    <3>1. Joined(abdf, abd, f) /\ Joined(whole, abdf, p) /\ Joined(AfterBlock(c), f, p)
      BY <1>9, <1>10, <1>11, <2>1, Zenon DEF Joined, whole, abdf
    <3> QED
      BY <3>1, Regrouped, Zenon
  <2>3. Joined(whole, ab, AfterName(c))
    <3>1. Joined(abd, ab, d) /\ Joined(AfterName(c), d, AfterBlock(c))
      BY <1>8, <1>11, <1>12, <2>1, Zenon DEF Joined, abd
    <3> QED
      BY <2>2, <3>1, Regrouped, Zenon
  <2>4. Joined(whole, a, AfterMtu(c))
    <3>1. Joined(ab, a, b) /\ Joined(AfterMtu(c), b, AfterName(c))
      BY <1>8, <1>11, <1>13, Zenon DEF Joined, ab
    <3> QED
      BY <2>3, <3>1, Regrouped, Zenon
  <2> QED
    BY <2>4, Zenon DEF Joined
<1>16. c.username \in Values
  <2> DEFINE x == Len(c.username)
  <2>1. x \in Nat /\ x <= 31
    BY <1>1
  <2> HIDE DEF x
  <2>2. x <= 253
    BY <2>1
  <2> QED
    BY <1>4, <2>2 DEF x, Values
<1>17. /\ Bytes2(c.mtu) \in Values /\ Bytes2(n) \in Values /\ block \in Values
  BY <1>3, <1>5, ShortValue, Zenon
<1>18. <<c.encrypt>> \in Values
  <2>1. Len(<<c.encrypt>>) = 1
    OBVIOUS
  <2> QED
    BY <1>6, <2>1, ShortValue, Zenon
<1>19. Starts(build_open_pkt(c), 3, Bytes2(c.mtu), AfterMtu(c))
  BY <1>7, <1>14, <1>15, <1>17, Zenon DEF Starts, a
<1>20. Starts(AfterMtu(c), 1, c.username, AfterName(c))
  BY <1>7, <1>11, <1>13, <1>16, Zenon DEF Starts, b
<1>21. Starts(AfterName(c), 2, block, AfterBlock(c))
  BY <1>7, <1>11, <1>12, <1>17, Zenon DEF Starts, d
<1>22. ASSUME c.encrypt = 1 PROVE Starts(AfterBlock(c), 8, <<c.encrypt>>, Pipe(c))
  <2>1. f = TLV(8, <<c.encrypt>>)
    BY <1>22, Zenon DEF f, Flag, When
  <2> QED
    BY <1>7, <1>9, <1>11, <1>18, <2>1, Zenon DEF Starts, p
<1>23. ASSUME Piped(c) PROVE Starts(Pipe(c), 10, Bytes2(n), <<>>)
  <2>1. p = TLV(10, Bytes2(n))
    BY <1>23, Zenon DEF p, Pipe, When, n
  <2>2. p \o <<>> = p
    BY <1>9, ConcatEmptySeq, Zenon
  <2> QED
    BY <1>6, <1>7, <1>17, <2>1, <2>2, Zenon DEF Starts, p
<1> QED
  BY <1>3, <1>5, <1>9, <1>19, <1>20, <1>21, <1>22, <1>23, Zenon DEF p, block, n

-----------------------------------------------------------------------------
(* The server reads an OPEN.  What it has of the request of c: *)
Req(u, b, m, c) ==
    [username |-> u, block |-> b, mtu |-> m, encrypt |-> c.encrypt = 1, ok |-> TRUE]

Asked(r, u, b, m, c) == r = Req(u, b, m, c)

Whole(r, c) == Asked(r, c.username, Block(c), c.mtu, c)
TLVs == [type : Byte, value : Seq(Symbol)]
NoPipe(ts) == \A t \in Range(ts) : t.type # 10

(* PipeUnderstood of the TLVs ts, for a configuration c *)
Says(t, c) == /\ Word(t.value) % 32768 = c.pipeid
              /\ Word(t.value) \div 32768 = c.pipeidx

Understood(ts, c) ==
    LET pipes == {t \in Range(ts) : t.type = 10}
    IN  /\ pipes = {} <=> c.pipeid = 0 /\ c.pipeidx = 0
        /\ \A t \in pipes : Says(t, c)

(* Which part of the body is left, and what the server has by then. *)
Tail1(body, r, ts, c) == /\ Starts(body, 3, Bytes2(c.mtu), AfterMtu(c))
                         /\ Asked(r, <<>>, <<>>, DefaultMTU, c) /\ NoPipe(ts)
Tail2(body, r, ts, c) == /\ Starts(body, 1, c.username, AfterName(c))
                         /\ Asked(r, <<>>, <<>>, c.mtu, c) /\ NoPipe(ts)
Tail3(body, r, ts, c) == /\ Starts(body, 2, Block(c), AfterBlock(c))
                         /\ Asked(r, c.username, <<>>, c.mtu, c) /\ NoPipe(ts)
Tail4(body, r, ts, c) == /\ c.encrypt = 1 /\ Starts(body, 8, <<c.encrypt>>, Pipe(c))
                         /\ Whole(r, c) /\ NoPipe(ts)
Tail5(body, r, ts, c) == /\ Piped(c)
                         /\ Starts(body, 10, Bytes2(PipeWord(c.pipeid, c.pipeidx)), <<>>)
                         /\ Whole(r, c) /\ NoPipe(ts)
Tail6(body, r, ts, c) == body = <<>> /\ Whole(r, c) /\ Understood(ts, c)

OpenRead(body, r, ts, c) ==
    /\ ts \in Seq(TLVs)
    /\ \/ Tail1(body, r, ts, c) \/ Tail2(body, r, ts, c) \/ Tail3(body, r, ts, c)
       \/ Tail4(body, r, ts, c) \/ Tail5(body, r, ts, c) \/ Tail6(body, r, ts, c)

LEMMA RequestRead ==
  ASSUME NEW u, NEW b, NEW m, NEW c, NEW t,
         NEW r, r = Req(u, b, m, c)
  PROVE  /\ t.type = 3 /\ Len(t.value) >= 2 => ReadOpenTLV(r, t) = Req(u, b, Word(t.value), c)
         /\ t.type = 1 => ReadOpenTLV(r, t) = Req(t.value, b, m, c)
         /\ t.type = 2 /\ Len(t.value) = 16 => ReadOpenTLV(r, t) = Req(u, t.value, m, c)
         /\ t.type = 8 /\ Len(t.value) > 0 /\ (t.value[1] # 0) = (c.encrypt = 1) => ReadOpenTLV(r, t) = r
         /\ t.type = 10 => ReadOpenTLV(r, t) = r
<1> DEFINE n == Len(t.value)
           q == ReadOpenTLV(r, t)
           e == c.encrypt = 1
           ok == (t.type = 2 => n = 16) /\ (t.type = 3 => n >= 2)
           g == t.type = 8 /\ n > 0 => (t.value[1] # 0) = e
<1>1. /\ r.username = u /\ r.block = b /\ r.mtu = m
  BY DEF Req
<1>2. r.encrypt = e
  BY DEF Req
<1>3. r.ok = TRUE
  BY DEF Req
<1>4. q = [username |-> IF t.type = 1 THEN t.value ELSE u,
           block |-> IF t.type = 2 THEN t.value ELSE b,
           mtu |-> IF t.type = 3 /\ n >= 2 THEN Word(t.value) ELSE m,
           encrypt |-> IF t.type = 8 /\ n > 0 THEN t.value[1] # 0 ELSE e,
           ok |-> TRUE /\ ok]
  BY <1>1, <1>2, <1>3, Zenon DEF ReadOpenTLV
<1>5. g => (IF t.type = 8 /\ n > 0 THEN t.value[1] # 0 ELSE e) = e
  BY Zenon
<1>6. ok => (TRUE /\ ok) = TRUE
  BY Zenon
<1>7. g /\ ok => q = [username |-> IF t.type = 1 THEN t.value ELSE u,
                     block |-> IF t.type = 2 THEN t.value ELSE b,
                     mtu |-> IF t.type = 3 /\ n >= 2 THEN Word(t.value) ELSE m,
                     encrypt |-> e, ok |-> TRUE]
  BY <1>4, <1>5, <1>6, Zenon
<1>8. g /\ ok => q = Req(IF t.type = 1 THEN t.value ELSE u, IF t.type = 2 THEN t.value ELSE b,
                       IF t.type = 3 /\ n >= 2 THEN Word(t.value) ELSE m, c)
  BY <1>7, Zenon DEF Req
<1>9. t.type # 8 => g
  OBVIOUS
<1> HIDE DEF q, g, n
<1>10. ASSUME t.type = 3, n >= 2 PROVE q = Req(u, b, Word(t.value), c)
  BY <1>8, <1>9, <1>10
<1>11. ASSUME t.type = 1 PROVE q = Req(t.value, b, m, c)
  BY <1>8, <1>9, <1>11
<1>12. ASSUME t.type = 2, n = 16 PROVE q = Req(u, t.value, m, c)
  BY <1>8, <1>9, <1>12
<1>13. ASSUME t.type = 8, n > 0, (t.value[1] # 0) = e PROVE q = r
  <2>1. g
    BY <1>13, Zenon DEF g
  <2> QED
    BY <1>8, <1>13, <2>1
<1>14. ASSUME t.type = 10 PROVE q = r
  BY <1>8, <1>9, <1>14
<1> QED
  BY <1>10, <1>11, <1>12, <1>13, <1>14 DEF q, n

LEMMA MtuRead ==
  ASSUME NEW u, NEW b, NEW m, NEW c, NEW r, Asked(r, u, b, m, c),
         NEW t, NEW v, IsTLV(t, 3, v), Len(v) = 2
  PROVE  Asked(ReadOpenTLV(r, t), u, b, Word(v), c)
<1>1. Len(t.value) >= 2 /\ t.type = 3 /\ t.value = v
  BY DEF IsTLV
<1> QED
  BY <1>1, RequestRead DEF Asked

LEMMA NameRead ==
  ASSUME NEW u, NEW b, NEW m, NEW c, NEW r, Asked(r, u, b, m, c), NEW t, NEW v, IsTLV(t, 1, v)
  PROVE  Asked(ReadOpenTLV(r, t), v, b, m, c)
  BY RequestRead DEF Asked, IsTLV

LEMMA BlockRead ==
  ASSUME NEW u, NEW b, NEW m, NEW c, NEW r, Asked(r, u, b, m, c),
         NEW t, NEW v, IsTLV(t, 2, v), Len(v) = 16
  PROVE  Asked(ReadOpenTLV(r, t), u, v, m, c)
  BY RequestRead DEF Asked, IsTLV

LEMMA FlagRead ==
  ASSUME NEW u, NEW b, NEW m, NEW c, NEW r, Asked(r, u, b, m, c), c.encrypt = 1,
         NEW t, NEW v, IsTLV(t, 8, v), Len(v) > 0, v[1] # 0
  PROVE  Asked(ReadOpenTLV(r, t), u, b, m, c)
<1>1. (t.value[1] # 0) = (c.encrypt = 1) /\ t.type = 8 /\ Len(t.value) > 0
  BY DEF IsTLV
<1> QED
  BY <1>1, RequestRead DEF Asked

LEMMA PipeRead ==
  ASSUME NEW u, NEW b, NEW m, NEW c, NEW r, Asked(r, u, b, m, c), NEW t, NEW v, IsTLV(t, 10, v)
  PROVE  Asked(ReadOpenTLV(r, t), u, b, m, c)
  BY RequestRead DEF Asked, IsTLV

LEMMA Appended ==
  ASSUME NEW ts \in Seq(TLVs), NEW t \in TLVs
  PROVE  Append(ts, t) \in Seq(TLVs) /\ Range(Append(ts, t)) = Range(ts) \cup {t}
<1>1. /\ Append(ts, t) \in Seq(TLVs) /\ Len(Append(ts, t)) = Len(ts) + 1
      /\ \A i \in 1..Len(ts) : Append(ts, t)[i] = ts[i]
      /\ Append(ts, t)[Len(ts) + 1] = t
  BY AppendProperties
<1>2. DOMAIN ts = 1..Len(ts) /\ DOMAIN Append(ts, t) = 1..(Len(ts) + 1)
  BY <1>1
<1> DEFINE n == Len(ts)
           a == Append(ts, t)
<1>3. n \in Nat /\ DOMAIN ts = 1..n /\ DOMAIN a = 1..(n + 1)
      /\ (\A i \in 1..n : a[i] = ts[i]) /\ a[n + 1] = t
  BY <1>1, <1>2
<1> HIDE DEF n, a
<1>4. Range(a) \subseteq Range(ts) \cup {t}
  BY <1>3 DEF Range
<1>5. Range(ts) \cup {t} \subseteq Range(a)
  BY <1>3 DEF Range
<1> QED
  BY <1>1, <1>4, <1>5 DEF a

LEMMA Halves ==
  ASSUME NEW v \in Nat, v < 32768
  PROVE  /\ v % 32768 = v /\ v \div 32768 = 0
         /\ (v + 32768) % 32768 = v /\ (v + 32768) \div 32768 = 1
<1>1. v \div 32768 = 0
  OBVIOUS
<1>2. v % 32768 = v
  OBVIOUS
<1>3. (v + 32768) \div 32768 = 1
  OBVIOUS
<1>4. (v + 32768) % 32768 = v
  OBVIOUS
<1> QED
  BY <1>1, <1>2, <1>3, <1>4

LEMMA PipeWordBack ==
  ASSUME NEW v \in PipeIds, NEW w \in Bits
  PROVE  PipeWord(v, w) % 32768 = v /\ PipeWord(v, w) \div 32768 = w
<1>1. v \in Nat /\ v < 32768
  BY SMTT(30) DEF PipeIds
<1>2. w = 0 \/ w = 1
  BY DEF Bits
<1>3. /\ v % 32768 = v /\ v \div 32768 = 0
      /\ (v + 32768) % 32768 = v /\ (v + 32768) \div 32768 = 1
  BY <1>1, Halves
<1>4. CASE w = 0
  <2>1. PipeWord(v, w) = v
    BY <1>1, <1>4 DEF PipeWord
  <2> QED
    BY <1>3, <1>4, <2>1
<1>5. CASE w = 1
  <2>1. PipeWord(v, w) = v + 32768
    BY <1>1, <1>5 DEF PipeWord
  <2> QED
    BY <1>3, <1>5, <2>1
<1> QED
  BY <1>2, <1>4, <1>5

LEMMA ReadsOne ==
  ASSUME NEW type, NEW value, NEW tail, NEW body, Starts(body, type, value, tail),
         NEW ts \in Seq(TLVs), NoPipe(ts)
  PROVE  /\ Append(ts, First(body)) \in Seq(TLVs)
         /\ Range(Append(ts, First(body))) = Range(ts) \cup {First(body)}
         /\ type # 10 => NoPipe(Append(ts, First(body)))
<1> DEFINE t == First(body)
<1>1. IsTLV(t, type, value)
  BY ReadsFirst, Zenon
<1>2. t \in TLVs
  <2>1. t = [type |-> t.type, value |-> t.value]
    BY DEF First
  <2>2. [type |-> type, value |-> value] \in TLVs
    BY DEF TLVs, Values, Starts
  <2> QED
    BY <1>1, <2>1, <2>2, Zenon DEF IsTLV
<1> HIDE DEF t
<1>3. Append(ts, t) \in Seq(TLVs) /\ Range(Append(ts, t)) = Range(ts) \cup {t}
  BY <1>2, Appended
<1>4. type # 10 => NoPipe(Append(ts, t))
  BY <1>1, <1>3, Zenon DEF NoPipe, IsTLV
<1> QED
  BY <1>3, <1>4 DEF t

(* What is left once the flag is read, or if there is none *)
LEMMA PipeLeft ==
  ASSUME NEW c, Fits(c), NEW ts, NoPipe(ts), NEW r, Whole(r, c)
  PROVE  Tail5(Pipe(c), r, ts, c) \/ Tail6(Pipe(c), r, ts, c)
<1>1. CASE Piped(c)
  BY <1>1, BodyParts, Zenon DEF Tail5
<1>2. CASE ~Piped(c)
  <2>1. Pipe(c) = <<>>
    BY <1>2, Zenon DEF Pipe, Piped, When
  <2>2. c.pipeid = 0 /\ c.pipeidx = 0
    BY <1>2, Zenon DEF Piped
  <2>3. {t \in Range(ts) : t.type = 10} = {}
    BY Zenon DEF NoPipe
  <2>4. Understood(ts, c)
    BY <2>2, <2>3, Zenon DEF Understood
  <2> QED
    BY <2>1, <2>4, Zenon DEF Tail6
<1> QED
  BY <1>1, <1>2

LEMMA BlockLeft ==
  ASSUME NEW c, Fits(c), NEW ts, NoPipe(ts), NEW r, Whole(r, c)
  PROVE  \/ Tail4(AfterBlock(c), r, ts, c) \/ Tail5(AfterBlock(c), r, ts, c)
         \/ Tail6(AfterBlock(c), r, ts, c)
<1>1. CASE c.encrypt = 1
  BY <1>1, BodyParts, Zenon DEF Tail4
<1>2. CASE c.encrypt # 1
  <2> DEFINE v == Pipe(c)
  <2>1. AfterBlock(c) = <<>> \o v /\ v \in Seq(Symbol)
    BY <1>2, BodyParts, Zenon DEF AfterBlock, Flag, When
  <2>2. Tail5(v, r, ts, c) \/ Tail6(v, r, ts, c)
    BY PipeLeft, Zenon
  <2> HIDE DEF v
  <2>3. <<>> \o v = v
    BY <2>1
  <2> QED
    BY <2>1, <2>2, <2>3, Zenon
<1> QED
  BY <1>1, <1>2

LEMMA OpenReadOn ==
  ASSUME NEW c, Fits(c), NEW body, NEW r, NEW ts, OpenRead(body, r, ts, c), body # <<>>
  PROVE  /\ WellFormed(body)
         /\ OpenRead(After(body), ReadOpenTLV(r, First(body)), Append(ts, First(body)), c)
<1> DEFINE t == First(body)
           q == ReadOpenTLV(r, t)
           left == After(body)
           us == Append(ts, t)
<1>0. ts \in Seq(TLVs)
  BY Zenon DEF OpenRead
<1>1. 3 # 10 /\ 1 # 10 /\ 2 # 10 /\ 8 # 10
  OBVIOUS
<1> HIDE DEF t, q, left, us
<1>2. \A n, v, tail : Starts(body, n, v, tail) /\ NoPipe(ts) =>
         /\ WellFormed(body) /\ IsTLV(t, n, v) /\ left = tail
         /\ us \in Seq(TLVs) /\ Range(us) = Range(ts) \cup {t} /\ (n # 10 => NoPipe(us))
  BY <1>0, ReadsFirst, ReadsOne, Zenon DEF t, left, us
<1>3. ASSUME Tail1(body, r, ts, c) PROVE WellFormed(body) /\ OpenRead(left, q, us, c)
  <2>1. /\ WellFormed(body) /\ IsTLV(t, 3, Bytes2(c.mtu)) /\ left = AfterMtu(c)
        /\ us \in Seq(TLVs) /\ NoPipe(us)
    BY <1>1, <1>2, <1>3, Zenon DEF Tail1
  <2>2. Len(Bytes2(c.mtu)) = 2 /\ Word(Bytes2(c.mtu)) = c.mtu
    BY BodyParts, Zenon
  <2>3. Asked(q, <<>>, <<>>, Word(Bytes2(c.mtu)), c)
    BY <1>3, <2>1, <2>2, MtuRead, Zenon DEF Tail1, q
  <2>4. Starts(AfterMtu(c), 1, c.username, AfterName(c))
    BY BodyParts, Zenon
  <2>5. Tail2(left, q, us, c)
    BY <2>1, <2>2, <2>3, <2>4, Zenon DEF Tail2
  <2> QED
    BY <2>1, <2>5, Zenon DEF OpenRead
<1>4. ASSUME Tail2(body, r, ts, c) PROVE WellFormed(body) /\ OpenRead(left, q, us, c)
  <2>1. /\ WellFormed(body) /\ IsTLV(t, 1, c.username) /\ left = AfterName(c)
        /\ us \in Seq(TLVs) /\ NoPipe(us)
    BY <1>1, <1>2, <1>4, Zenon DEF Tail2
  <2>3. Asked(q, c.username, <<>>, c.mtu, c)
    BY <1>4, <2>1, NameRead, Zenon DEF Tail2, q
  <2>4. Starts(AfterName(c), 2, Block(c), AfterBlock(c))
    BY BodyParts, Zenon
  <2>5. Tail3(left, q, us, c)
    BY <2>1, <2>3, <2>4, Zenon DEF Tail3
  <2> QED
    BY <2>1, <2>5, Zenon DEF OpenRead
<1>5. ASSUME Tail3(body, r, ts, c) PROVE WellFormed(body) /\ OpenRead(left, q, us, c)
  <2>1. /\ WellFormed(body) /\ IsTLV(t, 2, Block(c)) /\ left = AfterBlock(c)
        /\ us \in Seq(TLVs) /\ NoPipe(us)
    BY <1>1, <1>2, <1>5, Zenon DEF Tail3
  <2>2. Len(Block(c)) = 16
    BY BodyParts, Zenon
  <2>3. Asked(q, c.username, Block(c), c.mtu, c)
    BY <1>5, <2>1, <2>2, BlockRead, Zenon DEF Tail3, q
  <2>4. Tail4(left, q, us, c) \/ Tail5(left, q, us, c) \/ Tail6(left, q, us, c)
    BY <2>1, <2>3, BlockLeft, Zenon DEF Whole
  <2> QED
    BY <2>1, <2>4, Zenon DEF OpenRead
<1>6. ASSUME Tail4(body, r, ts, c) PROVE WellFormed(body) /\ OpenRead(left, q, us, c)
  <2> DEFINE v == <<c.encrypt>>
  <2>1. /\ WellFormed(body) /\ IsTLV(t, 8, v) /\ left = Pipe(c)
        /\ us \in Seq(TLVs) /\ NoPipe(us)
    BY <1>1, <1>2, <1>6, Zenon DEF Tail4
  <2>2. c.encrypt = 1
    BY <1>6, Zenon DEF Tail4
  <2>3. Len(v) > 0 /\ v[1] # 0
    BY <2>2
  <2> HIDE DEF v
  <2>4. Whole(q, c)
    BY <1>6, <2>1, <2>2, <2>3, FlagRead, Zenon DEF Tail4, Whole, q
  <2>5. Tail5(left, q, us, c) \/ Tail6(left, q, us, c)
    BY <2>1, <2>4, PipeLeft, Zenon
  <2> QED
    BY <2>1, <2>5, Zenon DEF OpenRead
<1>7. ASSUME Tail5(body, r, ts, c) PROVE WellFormed(body) /\ OpenRead(left, q, us, c)
  <2> DEFINE w == PipeWord(c.pipeid, c.pipeidx)
             v == Bytes2(w)
  <2>1. /\ WellFormed(body) /\ IsTLV(t, 10, v) /\ left = <<>>
        /\ us \in Seq(TLVs) /\ Range(us) = Range(ts) \cup {t} /\ NoPipe(ts)
    BY <1>2, <1>7, Zenon DEF Tail5
  <2>2. Wide(w) /\ w % 32768 = c.pipeid /\ w \div 32768 = c.pipeidx
    <3>1. Suits("pipeid", c.pipeid) /\ Suits("pipeidx", c.pipeidx)
      BY FieldSuits
    <3>2. c.pipeid \in PipeIds /\ c.pipeidx \in Bits
      BY <3>1, SuitsMeans, Zenon
    <3> QED
      BY <3>2, PipeNumber, PipeWordBack
  <2>3. Whole(q, c)
    BY <1>7, <2>1, PipeRead, Zenon DEF Tail5, Whole, q
  <2> HIDE DEF w
  <2>4. Word(v) = w
    BY <2>2, TwoBytes
  <2> HIDE DEF v
  <2>5. {p \in Range(us) : p.type = 10} = {t}
    BY <2>1 DEF NoPipe, IsTLV
  <2>6. Says(t, c)
    BY <2>1, <2>2, <2>4 DEF Says, IsTLV
  <2>7. Understood(us, c)
    <3>1. ~(c.pipeid = 0 /\ c.pipeidx = 0)
      BY <1>7, Zenon DEF Piped, Tail5
    <3>2. {t} # {}
      OBVIOUS
    <3> QED
      BY <2>5, <2>6, <3>1, <3>2, Zenon DEF Understood
  <2> QED
    BY <2>1, <2>3, <2>7, Zenon DEF OpenRead, Tail6
<1>8. ~Tail6(body, r, ts, c)
  BY DEF Tail6
<1> QED
  BY <1>3, <1>4, <1>5, <1>6, <1>7, <1>8, Zenon DEF OpenRead, t, q, left, us

-----------------------------------------------------------------------------
(* The client reads an OPENACK.  What it has by then: *)
Got(k, m, a, d0, d1, e) ==
    k = [mtu |-> m, address |-> a, dns0 |-> d0, dns1 |-> d1, encrypt |-> e]

Quad == [1..4 -> Byte]
FirstOf(dns) == IF Len(dns) >= 1 THEN dns[1] ELSE NoAddress
SecondOf(dns) == IF Len(dns) >= 2 THEN dns[2] ELSE NoAddress

(* An OPENACK for s, from its end. *)
AckBit(s) == IF s.encrypt THEN 1 ELSE 0
AckFlag(s) == TLV(8, <<AckBit(s)>>)
Both(dns) == dns[1] \o dns[2]
AfterServer(s, dns) == When(Len(dns) >= 2, TLV(6, Both(dns))) \o AckFlag(s)
AfterAddress(s, dns) == When(Len(dns) = 1, TLV(5, dns[1])) \o AfterServer(s, dns)
AfterAckMtu(s, dns) == TLV(4, s.address) \o AfterAddress(s, dns)

IsAck(body, s, dns) ==
    body = TLV(3, Bytes2(s.mtu)) \o TLV(4, s.address)
           \o When(Len(dns) = 1, TLV(5, dns[1]))
           \o When(Len(dns) >= 2, TLV(6, Both(dns)))
           \o AckFlag(s)

(* Which part of the body is left, and what the client has by then. *)
Left1(body, k, s, dns) ==
    /\ Starts(body, 3, Bytes2(s.mtu), AfterAckMtu(s, dns))
    /\ Got(k, 0, NoAddress, NoAddress, NoAddress, FALSE)
Left2(body, k, s, dns) ==
    /\ Starts(body, 4, s.address, AfterAddress(s, dns))
    /\ Got(k, s.mtu, NoAddress, NoAddress, NoAddress, FALSE)
Left3(body, k, s, dns) ==
    /\ Len(dns) = 1 /\ Starts(body, 5, dns[1], AckFlag(s))
    /\ Got(k, s.mtu, s.address, NoAddress, NoAddress, FALSE)
Left4(body, k, s, dns) ==
    /\ Len(dns) >= 2 /\ Starts(body, 6, Both(dns), AckFlag(s))
    /\ Got(k, s.mtu, s.address, NoAddress, NoAddress, FALSE)
Left5(body, k, s, dns) ==
    /\ Starts(body, 8, <<AckBit(s)>>, <<>>)
    /\ Got(k, s.mtu, s.address, FirstOf(dns), SecondOf(dns), FALSE)
Left6(body, k, s, dns) ==
    body = <<>> /\ Got(k, s.mtu, s.address, FirstOf(dns), SecondOf(dns), s.encrypt)

AckRead(body, k, s, dns) ==
    \/ Left1(body, k, s, dns) \/ Left2(body, k, s, dns) \/ Left3(body, k, s, dns)
    \/ Left4(body, k, s, dns) \/ Left5(body, k, s, dns) \/ Left6(body, k, s, dns)

AckFits(s, dns) ==
    /\ Wide(s.mtu) /\ s.address \in Quad /\ s.encrypt \in BOOLEAN
    /\ Len(dns) \in Nat
    /\ Len(dns) >= 1 => dns[1] \in Quad
    /\ Len(dns) >= 2 => dns[2] \in Quad

LEMMA QuadTyped ==
  ASSUME NEW a \in Quad
  PROVE  a \in Seq(Symbol) /\ Len(a) = 4 /\ SubSeq(a, 1, 4) = a
<1>1. a \in [1..4 -> Symbol]
  BY DEF Quad, Symbol
<1>2. a \in Seq(Symbol)
  <2>1. \A S : \A n \in Nat : [1..n -> S] \subseteq Seq(S)
    BY SeqDef
  <2>2. 4 \in Nat
    OBVIOUS
  <2> QED
    BY <1>1, <2>1, <2>2, Zenon
<1>3. Len(a) = 4
  BY <1>1, <1>2, LenProperties
<1>4. SubSeq(a, 1, 4) = a
  <2> DEFINE m == 1
             n == 4
  <2>1. m \in Nat /\ m >= 1 /\ n = m + Len(a) - 1 /\ n <= Len(a)
    BY <1>3
  <2>2. \A i \in 1..Len(a) : a[m + i - 1] = a[i]
    BY <1>3
  <2> HIDE DEF m, n
  <2>3. Lies(a, a, m, n)
    BY <1>2, <2>1, <2>2 DEF Lies
  <2>4. SubSeq(a, m, n) = a
    BY <2>3, Cut, Zenon
  <2> QED
    BY <2>4 DEF m, n
<1> QED
  BY <1>2, <1>3, <1>4

LEMMA PairTyped ==
  ASSUME NEW a \in Quad, NEW b \in Quad, NEW ab, ab = a \o b
  PROVE  /\ ab \in Seq(Symbol) /\ Len(ab) = 8
         /\ SubSeq(ab, 1, 4) = a /\ SubSeq(ab, 5, 8) = b
<1>1. a \in Seq(Symbol) /\ Len(a) = 4 /\ b \in Seq(Symbol) /\ Len(b) = 4
  BY QuadTyped
<1>2. /\ ab \in Seq(Symbol) /\ Len(ab) = Len(a) + Len(b)
      /\ \A i \in 1..Len(ab) : ab[i] = IF i <= Len(a) THEN a[i] ELSE b[i - Len(a)]
  <2>1. a \in Seq(Symbol) /\ b \in Seq(Symbol)
    BY <1>1
  <2> QED
    BY <2>1, Glued
<1>3. Len(ab) = 8
  BY <1>1, <1>2
<1>4. SubSeq(ab, 1, 4) = a
  <2> DEFINE m == 1
             n == 4
  <2>1. m \in Nat /\ m >= 1 /\ n = m + Len(a) - 1 /\ n <= Len(ab)
    BY <1>1, <1>3
  <2>2. \A i \in 1..Len(a) : ab[m + i - 1] = a[i]
    BY <1>1, <1>2, <1>3
  <2> HIDE DEF m, n
  <2>3. Lies(a, ab, m, n)
    BY <1>1, <1>2, <2>1, <2>2 DEF Lies
  <2>4. SubSeq(ab, m, n) = a
    BY <2>3, Cut, Zenon
  <2> QED
    BY <2>4 DEF m, n
<1>5. SubSeq(ab, 5, 8) = b
  <2> DEFINE m == 5
             n == 8
  <2>1. m \in Nat /\ m >= 1 /\ n = m + Len(b) - 1 /\ n <= Len(ab)
    BY <1>1, <1>3
  <2>2. \A i \in 1..Len(b) : ab[m + i - 1] = b[i]
    BY <1>1, <1>2, <1>3
  <2> HIDE DEF m, n
  <2>3. Lies(b, ab, m, n)
    BY <1>1, <1>2, <2>1, <2>2 DEF Lies
  <2>4. SubSeq(ab, m, n) = b
    BY <2>3, Cut, Zenon
  <2> QED
    BY <2>4 DEF m, n
<1> QED
  BY <1>2, <1>3, <1>4, <1>5

LEMMA BothTyped ==
  ASSUME NEW dns, dns[1] \in Quad, dns[2] \in Quad
  PROVE  /\ Both(dns) \in Seq(Symbol) /\ Len(Both(dns)) = 8
         /\ SubSeq(Both(dns), 1, 4) = dns[1] /\ SubSeq(Both(dns), 5, 8) = dns[2]
<1> DEFINE a == dns[1]
           b == dns[2]
           ab == Both(dns)
<1>1. a \in Quad /\ b \in Quad /\ ab = a \o b
  BY DEF Both
<1> HIDE DEF a, b, ab
<1>2. ab \in Seq(Symbol) /\ Len(ab) = 8 /\ SubSeq(ab, 1, 4) = a /\ SubSeq(ab, 5, 8) = b
  BY <1>1, PairTyped
<1> QED
  BY <1>2, Zenon DEF a, b, ab

LEMMA AckTLVRead ==
  ASSUME NEW k, NEW m, NEW a, NEW d0, NEW d1, NEW e, Got(k, m, a, d0, d1, e),
         NEW t, NEW type, NEW v, IsTLV(t, type, v)
  PROVE  /\ type = 3 /\ Len(v) = 2 => Got(ReadAckTLV(k, t), Word(v), a, d0, d1, e)
         /\ type = 4 /\ Len(v) = 4 => Got(ReadAckTLV(k, t), m, SubSeq(v, 1, 4), d0, d1, e)
         /\ type = 5 /\ Len(v) = 4 => Got(ReadAckTLV(k, t), m, a, SubSeq(v, 1, 4), d1, e)
         /\ type = 6 /\ Len(v) = 8 =>
               Got(ReadAckTLV(k, t), m, a, SubSeq(v, 1, 4), SubSeq(v, 5, 8), e)
         /\ type = 8 /\ Len(v) = 1 => Got(ReadAckTLV(k, t), m, a, d0, d1, v[1] # 0)
<1> DEFINE q == ReadAckTLV(k, t)
           n == Len(v)
           A(i) == SubSeq(v, i, i + 3)
           qm == IF type = 3 /\ n >= 2 THEN Word(v) ELSE m
           qa == IF type = 4 /\ n >= 4 THEN A(1) ELSE a
           q0 == IF type \in {5, 6} /\ n >= 4 THEN A(1) ELSE d0
           q1 == IF type = 6 /\ n >= 8 THEN A(5) ELSE d1
           qe == IF type = 8 /\ n >= 1 THEN v[1] # 0 ELSE e
<1>1. k.mtu = m /\ k.address = a /\ k.dns0 = d0 /\ k.dns1 = d1
  BY DEF Got
<1>2. k.encrypt = e
  BY Zenon DEF Got
<1>3. t.type = type /\ t.value = v
  BY DEF IsTLV
<1>4. Got(q, qm, qa, q0, q1, qe)
  BY <1>1, <1>2, <1>3, Zenon DEF ReadAckTLV, Got
<1>5. A(1) = SubSeq(v, 1, 4) /\ A(5) = SubSeq(v, 5, 8)
  OBVIOUS
<1>6. type # 8 => qe = e
  BY Zenon
<1>7. type = 8 /\ n >= 1 => qe = (v[1] # 0)
  BY Zenon
<1> HIDE DEF qe, q, A, n
<1>8. ASSUME type = 3, n = 2 PROVE Got(q, Word(v), a, d0, d1, e)
  <2>1. qm = Word(v) /\ qa = a /\ q0 = d0 /\ q1 = d1 /\ type # 8
    BY <1>8
  <2> QED
    BY <1>4, <1>6, <2>1, Zenon
<1>9. ASSUME type = 4, n = 4 PROVE Got(q, m, A(1), d0, d1, e)
  <2>1. qm = m /\ qa = A(1) /\ q0 = d0 /\ q1 = d1 /\ type # 8
    BY <1>9
  <2> QED
    BY <1>4, <1>6, <2>1, Zenon
<1>10. ASSUME type = 5, n = 4 PROVE Got(q, m, a, A(1), d1, e)
  <2>1. qm = m /\ qa = a /\ q0 = A(1) /\ q1 = d1 /\ type # 8
    BY <1>10
  <2> QED
    BY <1>4, <1>6, <2>1, Zenon
<1>11. ASSUME type = 6, n = 8 PROVE Got(q, m, a, A(1), A(5), e)
  <2>1. qm = m /\ qa = a /\ q0 = A(1) /\ q1 = A(5) /\ type # 8
    BY <1>11
  <2> QED
    BY <1>4, <1>6, <2>1, Zenon
<1>12. ASSUME type = 8, n = 1 PROVE Got(q, m, a, d0, d1, v[1] # 0)
  <2>1. qm = m /\ qa = a /\ q0 = d0 /\ q1 = d1 /\ n >= 1
    BY <1>12
  <2> QED
    BY <1>4, <1>7, <1>12, <2>1, Zenon
<1> QED
  BY <1>5, <1>8, <1>9, <1>10, <1>11, <1>12, Zenon DEF q, n

LEMMA AckParts ==
  ASSUME NEW s, NEW dns, AckFits(s, dns), NEW body, IsAck(body, s, dns)
  PROVE  /\ Starts(body, 3, Bytes2(s.mtu), AfterAckMtu(s, dns))
         /\ Starts(AfterAckMtu(s, dns), 4, s.address, AfterAddress(s, dns))
         /\ Len(dns) = 1 => Starts(AfterAddress(s, dns), 5, dns[1], AckFlag(s))
         /\ Len(dns) >= 2 => Starts(AfterAddress(s, dns), 6, Both(dns), AckFlag(s))
         /\ Len(dns) = 0 => AfterAddress(s, dns) = AckFlag(s)
         /\ Starts(AckFlag(s), 8, <<AckBit(s)>>, <<>>)
<1> DEFINE m == Bytes2(s.mtu)
           n == Len(dns)
           x == TLV(3, m)
           y == TLV(4, s.address)
           g == When(n = 1, TLV(5, dns[1]))
           h == When(n >= 2, TLV(6, Both(dns)))
           f == AckFlag(s)
           bit == <<AckBit(s)>>
<1>1. m \in Seq(Symbol) /\ m \in Values
  <2>1. m \in Seq(Symbol) /\ Len(m) = 2
    BY TwoBytes DEF AckFits
  <2> QED
    BY <2>1, ShortValue, Zenon
<1>2. s.address \in Seq(Symbol) /\ s.address \in Values
  <2>1. s.address \in Seq(Symbol) /\ Len(s.address) = 4
    BY QuadTyped, Zenon DEF AckFits
  <2> QED
    BY <2>1, ShortValue, Zenon
<1>3. n >= 1 => dns[1] \in Seq(Symbol) /\ dns[1] \in Values
  <2>1. n >= 1 => dns[1] \in Seq(Symbol) /\ Len(dns[1]) = 4
    BY QuadTyped, Zenon DEF AckFits
  <2> QED
    BY <2>1, ShortValue, Zenon
<1>4. n \in Nat /\ (n = 1 => n >= 1) /\ (n >= 2 => n >= 1)
  <2>1. n \in Nat
    BY Zenon DEF AckFits
  <2> HIDE DEF n
  <2> QED
    BY <2>1
<1>5. n >= 2 => Both(dns) \in Seq(Symbol) /\ Both(dns) \in Values
  <2>1. n >= 2 => Both(dns) \in Seq(Symbol) /\ Len(Both(dns)) = 8
    <3> SUFFICES ASSUME n >= 2 PROVE Both(dns) \in Seq(Symbol) /\ Len(Both(dns)) = 8
      OBVIOUS
    <3>1. dns[1] \in Quad /\ dns[2] \in Quad
      BY <1>4 DEF AckFits
    <3> QED
      BY <3>1, BothTyped, Zenon
  <2> QED
    BY <2>1, ShortValue, Zenon
<1>6. bit \in Seq(Symbol) /\ bit \in Values
  <2>1. AckBit(s) \in Symbol
    BY DEF AckBit, Symbol, Byte
  <2>2. bit \in Seq(Symbol) /\ Len(bit) = 1
    BY <2>1
  <2> QED
    BY <2>2, ShortValue, Zenon
<1>7. 3 \in Byte /\ 4 \in Byte /\ 5 \in Byte /\ 6 \in Byte /\ 8 \in Byte
  BY DEF Byte
<1> HIDE DEF m, bit, n
<1>8. x \in Seq(Symbol) /\ y \in Seq(Symbol) /\ f \in Seq(Symbol)
  BY <1>1, <1>2, <1>6, <1>7, TLVTyped, Zenon DEF AckFlag, bit
<1>9. g \in Seq(Symbol) /\ h \in Seq(Symbol)
  BY <1>3, <1>4, <1>5, <1>7, TLVTyped, EmptySeq, Zenon DEF When
<1> DEFINE xy == x \o y
           xyg == xy \o g
           xygh == xyg \o h
           hf == h \o f
           ghf == g \o hf
           yghf == y \o ghf
<1>10. body = xygh \o f
  BY DEF IsAck, m, n
<1>11. AfterServer(s, dns) = hf /\ AfterAddress(s, dns) = ghf /\ AfterAckMtu(s, dns) = yghf
  BY Zenon DEF AfterServer, AfterAddress, AfterAckMtu, n
<1> HIDE DEF x, y, g, h, f
<1>12. hf \in Seq(Symbol)
  BY <1>8, <1>9
<1>13. xy \in Seq(Symbol)
  BY <1>8
<1> HIDE DEF hf, xy
<1>14. ghf \in Seq(Symbol)
  BY <1>9, <1>12
<1>15. xyg \in Seq(Symbol)
  BY <1>9, <1>13
<1> HIDE DEF ghf, xyg
<1>16. yghf \in Seq(Symbol)
  BY <1>8, <1>14
<1> HIDE DEF yghf, xygh
<1>17. xygh \in Seq(Symbol)
  BY <1>9, <1>15 DEF xygh
<1>18. Joined(body, xyg, hf)
  <2>1. Joined(xygh, xyg, h) /\ Joined(body, xygh, f) /\ Joined(hf, h, f)
    BY <1>8, <1>9, <1>10, <1>15, <1>17, Zenon DEF Joined, xygh, hf
  <2> QED
    BY <2>1, Regrouped, Zenon
<1>19. Joined(body, xy, ghf)
  <2>1. Joined(xyg, xy, g) /\ Joined(ghf, g, hf)
    BY <1>9, <1>12, <1>13, Zenon DEF Joined, xyg, ghf
  <2> QED
    BY <1>18, <2>1, Regrouped, Zenon
<1>20. body = x \o yghf
  <2>1. Joined(xy, x, y) /\ Joined(yghf, y, ghf)
    BY <1>8, <1>14, Zenon DEF Joined, xy, yghf
  <2>2. Joined(body, x, yghf)
    BY <1>19, <2>1, Regrouped, Zenon
  <2> QED
    BY <2>2, Zenon DEF Joined
<1>21. Starts(body, 3, m, yghf)
  BY <1>1, <1>7, <1>16, <1>20, Zenon DEF Starts, x
<1>22. Starts(yghf, 4, s.address, ghf)
  BY <1>2, <1>7, <1>14, Zenon DEF Starts, y, yghf
<1>23. n = 0 \/ n = 1 => h = <<>>
  BY <1>4 DEF h, When
<1>24. n # 1 => g = <<>>
  BY Zenon DEF g, When
<1>25. h = <<>> => hf = f
  BY <1>8, ConcatEmptySeq, Zenon DEF hf
<1>26. g = <<>> => ghf = hf
  BY <1>12, ConcatEmptySeq, Zenon DEF ghf
<1>27. ASSUME n = 1 PROVE Starts(ghf, 5, dns[1], f)
  <2>1. g = TLV(5, dns[1])
    BY <1>27, Zenon DEF g, When
  <2>2. ghf = TLV(5, dns[1]) \o f
    BY <1>23, <1>25, <1>27, <2>1, Zenon DEF ghf
  <2> QED
    BY <1>3, <1>4, <1>7, <1>8, <1>27, <2>2, Zenon DEF Starts
<1>28. ASSUME n >= 2 PROVE Starts(ghf, 6, Both(dns), f)
  <2>1. h = TLV(6, Both(dns))
    BY <1>28, Zenon DEF h, When
  <2>2. n # 1
    BY <1>28
  <2>3. ghf = TLV(6, Both(dns)) \o f
    BY <1>24, <1>26, <2>1, <2>2, Zenon DEF hf
  <2> QED
    BY <1>5, <1>7, <1>8, <1>28, <2>3, Zenon DEF Starts
<1>29. ASSUME n = 0 PROVE ghf = f
  <2>1. n # 1
    BY <1>29
  <2> QED
    BY <1>23, <1>24, <1>25, <1>26, <1>29, <2>1, Zenon
<1>30. Starts(f, 8, bit, <<>>)
  <2>1. f = TLV(8, bit)
    BY Zenon DEF f, AckFlag, bit
  <2>2. f \o <<>> = f
    BY <1>8, ConcatEmptySeq, Zenon
  <2> QED
    BY <1>6, <1>7, <2>1, <2>2, EmptySeq, Zenon DEF Starts
<1> QED
  BY <1>11, <1>21, <1>22, <1>27, <1>28, <1>29, <1>30, Zenon DEF f, m, n, bit

LEMMA AckReadOn ==
  ASSUME NEW s, NEW dns, AckFits(s, dns), NEW body, NEW k, AckRead(body, k, s, dns), body # <<>>
  PROVE  WellFormed(body) /\ AckRead(After(body), ReadAckTLV(k, First(body)), s, dns)
<1> DEFINE t == First(body)
           q == ReadAckTLV(k, t)
           left == After(body)
<1>1. \A n, v, tail : Starts(body, n, v, tail) =>
         WellFormed(body) /\ IsTLV(t, n, v) /\ left = tail
  BY ReadsFirst, Zenon
<1>2. /\ Starts(AfterAckMtu(s, dns), 4, s.address, AfterAddress(s, dns))
      /\ Len(dns) = 1 => Starts(AfterAddress(s, dns), 5, dns[1], AckFlag(s))
      /\ Len(dns) >= 2 => Starts(AfterAddress(s, dns), 6, Both(dns), AckFlag(s))
      /\ Len(dns) = 0 => AfterAddress(s, dns) = AckFlag(s)
      /\ Starts(AckFlag(s), 8, <<AckBit(s)>>, <<>>)
  <2>1. \E whole : IsAck(whole, s, dns)
    BY DEF IsAck
  <2> QED
    BY <2>1, AckParts, Zenon
<1> HIDE DEF t, q, left
<1>3. ASSUME Left1(body, k, s, dns) PROVE WellFormed(body) /\ AckRead(left, q, s, dns)
  <2>0. Got(k, 0, NoAddress, NoAddress, NoAddress, FALSE)
    BY <1>3, Zenon DEF Left1
  <2>1. WellFormed(body) /\ IsTLV(t, 3, Bytes2(s.mtu)) /\ left = AfterAckMtu(s, dns)
    BY <1>1, <1>3, Zenon DEF Left1
  <2>2. Len(Bytes2(s.mtu)) = 2 /\ Word(Bytes2(s.mtu)) = s.mtu
    BY TwoBytes DEF AckFits
  <2>3. Got(q, s.mtu, NoAddress, NoAddress, NoAddress, FALSE)
    <3>1. Got(q, Word(Bytes2(s.mtu)), NoAddress, NoAddress, NoAddress, FALSE)
      BY <2>1, <2>2, <2>0, AckTLVRead, Zenon DEF q
    <3> QED
      BY <2>2, <3>1, Zenon
  <2> QED
    BY <1>2, <2>1, <2>3, Zenon DEF AckRead, Left2
<1>4. ASSUME Left2(body, k, s, dns) PROVE WellFormed(body) /\ AckRead(left, q, s, dns)
  <2>0. Got(k, s.mtu, NoAddress, NoAddress, NoAddress, FALSE)
    BY <1>4, Zenon DEF Left2
  <2>1. WellFormed(body) /\ IsTLV(t, 4, s.address) /\ left = AfterAddress(s, dns)
    BY <1>1, <1>4, Zenon DEF Left2
  <2>2. Len(s.address) = 4 /\ SubSeq(s.address, 1, 4) = s.address
    BY QuadTyped, Zenon DEF AckFits
  <2>3. Got(q, s.mtu, s.address, NoAddress, NoAddress, FALSE)
    <3>1. Got(q, s.mtu, SubSeq(s.address, 1, 4), NoAddress, NoAddress, FALSE)
      BY <2>1, <2>2, <2>0, AckTLVRead, Zenon DEF q
    <3> QED
      BY <2>2, <3>1, Zenon
  <2>4. CASE Len(dns) = 1
    BY <1>2, <2>1, <2>3, <2>4, Zenon DEF AckRead, Left3
  <2>5. CASE Len(dns) >= 2
    BY <1>2, <2>1, <2>3, <2>5, Zenon DEF AckRead, Left4
  <2>6. CASE Len(dns) = 0
    <3>1. FirstOf(dns) = NoAddress /\ SecondOf(dns) = NoAddress
      BY <2>6 DEF FirstOf, SecondOf
    <3> QED
      BY <1>2, <2>1, <2>3, <2>6, <3>1, Zenon DEF AckRead, Left5
  <2>7. Len(dns) = 0 \/ Len(dns) = 1 \/ Len(dns) >= 2
    <3> DEFINE n == Len(dns)
    <3>1. n \in Nat
      BY Zenon DEF AckFits
    <3> HIDE DEF n
    <3>2. n = 0 \/ n = 1 \/ n >= 2
      BY <3>1
    <3> QED
      BY <3>2 DEF n
  <2> QED
    BY <2>4, <2>5, <2>6, <2>7, Zenon
<1>5. ASSUME Left3(body, k, s, dns) PROVE WellFormed(body) /\ AckRead(left, q, s, dns)
  <2>0. Got(k, s.mtu, s.address, NoAddress, NoAddress, FALSE)
    BY <1>5, Zenon DEF Left3
  <2>1. WellFormed(body) /\ IsTLV(t, 5, dns[1]) /\ left = AckFlag(s) /\ Len(dns) = 1
    BY <1>1, <1>5, Zenon DEF Left3
  <2>2. dns[1] \in Quad
    BY <2>1 DEF AckFits
  <2>3. Len(dns[1]) = 4 /\ SubSeq(dns[1], 1, 4) = dns[1]
    BY <2>2, QuadTyped, Zenon
  <2>4. FirstOf(dns) = dns[1] /\ SecondOf(dns) = NoAddress
    BY <2>1 DEF FirstOf, SecondOf
  <2>5. Got(q, s.mtu, s.address, dns[1], NoAddress, FALSE)
    <3>1. Got(q, s.mtu, s.address, SubSeq(dns[1], 1, 4), NoAddress, FALSE)
      BY <2>1, <2>3, <2>0, AckTLVRead, Zenon DEF q
    <3> QED
      BY <2>3, <3>1, Zenon
  <2> QED
    BY <1>2, <2>1, <2>4, <2>5, Zenon DEF AckRead, Left5
<1>6. ASSUME Left4(body, k, s, dns) PROVE WellFormed(body) /\ AckRead(left, q, s, dns)
  <2>0. Got(k, s.mtu, s.address, NoAddress, NoAddress, FALSE)
    BY <1>6, Zenon DEF Left4
  <2>1. WellFormed(body) /\ IsTLV(t, 6, Both(dns)) /\ left = AckFlag(s) /\ Len(dns) >= 2
    BY <1>1, <1>6, Zenon DEF Left4
  <2>2. dns[1] \in Quad /\ dns[2] \in Quad
    BY <2>1 DEF AckFits
  <2>3. /\ Len(Both(dns)) = 8
        /\ SubSeq(Both(dns), 1, 4) = dns[1] /\ SubSeq(Both(dns), 5, 8) = dns[2]
    BY <2>2, BothTyped, Zenon
  <2>4. FirstOf(dns) = dns[1] /\ SecondOf(dns) = dns[2]
    BY <2>1 DEF FirstOf, SecondOf, AckFits
  <2>5. Got(q, s.mtu, s.address, dns[1], dns[2], FALSE)
    <3>1. Got(q, s.mtu, s.address, SubSeq(Both(dns), 1, 4), SubSeq(Both(dns), 5, 8), FALSE)
      BY <2>1, <2>3, <2>0, AckTLVRead, Zenon DEF q
    <3> QED
      BY <2>3, <3>1, Zenon
  <2> QED
    BY <1>2, <2>1, <2>4, <2>5, Zenon DEF AckRead, Left5
<1>7. ASSUME Left5(body, k, s, dns) PROVE WellFormed(body) /\ AckRead(left, q, s, dns)
  <2>0. Got(k, s.mtu, s.address, FirstOf(dns), SecondOf(dns), FALSE)
    BY <1>7, Zenon DEF Left5
  <2> DEFINE v == <<AckBit(s)>>
  <2>1. WellFormed(body) /\ IsTLV(t, 8, v) /\ left = <<>>
    BY <1>1, <1>7, Zenon DEF Left5
  <2>2. Len(v) = 1 /\ v[1] = AckBit(s)
    OBVIOUS
  <2> HIDE DEF v
  <2>3. Got(q, s.mtu, s.address, FirstOf(dns), SecondOf(dns), v[1] # 0)
    BY <2>1, <2>2, <2>0, AckTLVRead, Zenon DEF q
  <2>4. (v[1] # 0) = s.encrypt
    BY <2>2 DEF AckBit, AckFits
  <2> QED
    BY <2>1, <2>3, <2>4, Zenon DEF AckRead, Left6
<1>8. ~Left6(body, k, s, dns)
  BY DEF Left6
<1> QED
  BY <1>3, <1>4, <1>5, <1>6, <1>7, <1>8, Zenon DEF AckRead, t, q, left

-----------------------------------------------------------------------------
(* The exchange: at each stage, what the receiver has made of the part of  *)
(* the body it has read.                                                   *)
WireInv ==
    /\ stage \in {"none", "sent", "granted", "refused"}
    /\ stage \in {"none", "sent"} => clnt = NothingRead
    /\ stage = "none" => tlvs = <<>>
    /\ stage = "sent" => OpenRead(rest, request, tlvs, cfg)
    /\ stage \in {"granted", "refused"} => Whole(request, cfg) /\ Understood(tlvs, cfg)
    /\ stage = "granted" =>
          /\ Granted(request) /\ session = NewSession(request)
          /\ AckRead(rest, clnt, session, config.dns)
    /\ stage = "refused" => ~Granted(request)

LEMMA WireStarts == OpenInit => WireInv
  BY DEF OpenInit, WireInv

(* Once there is an OPEN, nothing that was read at start changes. *)
LEMMA Frozen ==
  ASSUME ServerInv, ClientInv, stage # "none", [OpenNext]_<<startup, vars, wire>>
  PROVE  pc = "ok" /\ cfg_valid(cfg) /\ Valid(config) /\ cfg' = cfg /\ config' = config
<1>1. phase = "running" /\ pc = "ok"
  BY DEF ClientInv
<1>2. cfg_valid(cfg) /\ Valid(config)
  BY <1>1 DEF ClientInv, ServerInv, Started
<1>3. ~Server!Next
  BY <1>1 DEF Server!Next, Server!Fields, Server!User, Server!UsersDone, Server!DNS, Server!Validated
<1>4. ~Next
  BY <1>1 DEF Next, Load, Loaded, TunOpened, resolve_server, SocketCreated, Fails
<1>5. UNCHANGED <<cfg, config>>
  BY <1>3, <1>4 DEF OpenNext, startup, vars
<1> QED
  BY <1>1, <1>2, <1>5

(* The user whose name an OPEN has *)
LEMMA UserTyped ==
  ASSUME config \in ServerConfigs, Valid(config), NEW x, Known(x)
  PROVE  LET u == UserOf(x)
         IN  /\ u.username = x /\ u.password \in Seq(Byte) /\ u.address \in Quad
             /\ u.allow_encrypt \in BOOLEAN
<1> DEFINE u == UserOf(x)
<1>1. u \in Range(config.users) /\ u.username = x
  BY DEF Known, UserOf
<1>2. config.users \in Seq(UserRecord)
  BY ServerConfigsTyped
<1>3. DOMAIN config.users = 1..Len(config.users)
  BY <1>2
<1>4. PICK j \in 1..Len(config.users) : u = config.users[j]
  BY <1>1, <1>3 DEF Range
<1>5. u \in UserRecord
  BY <1>2, <1>4, ElementOfSeq
<1>6. Server!Is4(u.address)
  BY <1>4 DEF Valid, UsersFine
<1>7. u.address \in Quad
  BY <1>5, <1>6 DEF UserRecord, Address, Quad, Server!Is4
<1>8. u.password \in Seq(Byte) /\ u.allow_encrypt \in BOOLEAN
  BY <1>5 DEF UserRecord
<1> QED
  BY <1>1, <1>7, <1>8

LEMMA ValidMtu == ASSUME NEW c, cfg_valid(c) PROVE c.mtu \in Server!MTUs
  BY DEF cfg_valid, NumberRange, Server!MTUs

LEMMA SessionFits ==
  ASSUME config \in ServerConfigs, Valid(config), NEW c, cfg_valid(c),
         NEW r, Whole(r, c), Known(c.username)
  PROVE  AckFits(NewSession(r), config.dns)
<1> DEFINE s == NewSession(r)
           u == UserOf(c.username)
           dns == config.dns
<1>1. r.username = c.username /\ r.mtu = c.mtu
  BY DEF Whole, Asked, Req
<1>2. r.encrypt \in BOOLEAN
  BY DEF Whole, Asked, Req
<1>3. u.address \in Quad /\ u.allow_encrypt \in BOOLEAN
  BY UserTyped
<1>4. /\ s.address = u.address
      /\ s.mtu = IF c.mtu < config.mtu THEN c.mtu ELSE config.mtu
  BY <1>1 DEF NewSession
<1>5. s.encrypt = (r.encrypt /\ u.allow_encrypt)
  BY <1>1, Zenon DEF NewSession
<1>6. c.mtu \in Server!MTUs /\ config.mtu \in Server!MTUs
  BY ValidMtu, Zenon DEF Valid, FieldsFine
<1> HIDE DEF s
<1>7. s.mtu \in Server!MTUs
  BY <1>4, <1>6
<1>8. \A n \in Server!MTUs : Wide(n)
  BY DEF Server!MTUs, Wide
<1>9. dns \in Seq(Address)
  BY ServerConfigsTyped
<1>10. \A j \in 1..Len(dns) : dns[j] \in Quad
  <2>1. \A j \in 1..Len(dns) : dns[j] \in Address /\ Server!Is4(dns[j])
    BY <1>9, ElementOfSeq DEF Valid, DnsFine
  <2>2. \A a \in Address : Server!Is4(a) => a \in Quad
    BY DEF Address, Quad, Server!Is4
  <2> QED
    BY <2>1, <2>2, Zenon
<1>11. Len(dns) \in Nat
  BY <1>9
<1> HIDE DEF dns
<1>12. (Len(dns) >= 1 => dns[1] \in Quad) /\ (Len(dns) >= 2 => dns[2] \in Quad)
  BY <1>10, <1>11
<1>13. s.encrypt \in BOOLEAN
  BY <1>2, <1>3, <1>5, Zenon
<1> QED
  BY <1>3, <1>4, <1>7, <1>8, <1>11, <1>12, <1>13, Zenon DEF AckFits, s, dns

(* An OPENACK begins as it is built, and the client with nothing read. *)
LEMMA AckBegins ==
  ASSUME NEW s, AckFits(s, config.dns)
  PROVE  AckRead(buildOpenAck(s), NothingRead, s, config.dns)
<1>1. IsAck(buildOpenAck(s), s, config.dns)
  BY DEF IsAck, buildOpenAck, AckFlag, AckBit, Both
<1>2. Starts(buildOpenAck(s), 3, Bytes2(s.mtu), AfterAckMtu(s, config.dns))
  BY <1>1, AckParts, Zenon
<1>3. Got(NothingRead, 0, NoAddress, NoAddress, NoAddress, FALSE)
  BY Zenon DEF Got, NothingRead
<1> QED
  BY <1>2, <1>3, Zenon DEF AckRead, Left1

(* A body that begins with a TLV is not at its end. *)
LEMMA OpenEnds ==
  ASSUME NEW r, NEW ts, NEW c, OpenRead(<<>>, r, ts, c)
  PROVE  Whole(r, c) /\ Understood(ts, c)
<1>1. \A n, v, tail : ~Starts(<<>>, n, v, tail)
  BY ReadsFirst, Zenon
<1> QED
  BY <1>1, Zenon DEF OpenRead, Tail1, Tail2, Tail3, Tail4, Tail5, Tail6

LEMMA AckEnds ==
  ASSUME NEW k, NEW s, NEW dns, AckRead(<<>>, k, s, dns)
  PROVE  Got(k, s.mtu, s.address, FirstOf(dns), SecondOf(dns), s.encrypt)
<1>1. \A n, v, tail : ~Starts(<<>>, n, v, tail)
  BY ReadsFirst, Zenon
<1> QED
  BY <1>1, Zenon DEF AckRead, Left1, Left2, Left3, Left4, Left5, Left6

LEMMA RequestBegins ==
  ASSUME NEW c, Fits(c)
  PROVE  OpenRead(build_open_pkt(c), NewRequest(c.encrypt), <<>>, c)
<1>1. c.encrypt = 0 \/ c.encrypt = 1
  <2>1. c.encrypt \in Bits
    BY FieldSuits, SuitsMeans, Zenon
  <2> QED
    BY <2>1 DEF Bits
<1>2. (c.encrypt # 0) = (c.encrypt = 1)
  BY <1>1
<1>3. Asked(NewRequest(c.encrypt), <<>>, <<>>, DefaultMTU, c)
  BY <1>2, Zenon DEF Asked, Req, NewRequest
<1>4. Starts(build_open_pkt(c), 3, Bytes2(c.mtu), AfterMtu(c))
  BY BodyParts, Zenon
<1>5. NoPipe(<<>>) /\ <<>> \in Seq(TLVs)
  BY DEF NoPipe, Range
<1> QED
  BY <1>3, <1>4, <1>5, Zenon DEF OpenRead, Tail1

LEMMA WireKept ==
  ServerInv /\ ClientInv /\ WireInv /\ [OpenNext]_<<startup, vars, wire>> => WireInv'
<1> SUFFICES ASSUME ServerInv, ClientInv, WireInv, [OpenNext]_<<startup, vars, wire>>
             PROVE  WireInv'
  OBVIOUS
<1>1. Fits(cfg) /\ config \in ServerConfigs
  BY DEF ClientInv, ServerInv
<1>2. stage # "none" =>
         pc = "ok" /\ cfg_valid(cfg) /\ Valid(config) /\ cfg' = cfg /\ config' = config
  BY Frozen
<1>4. CASE UNCHANGED wire
  <2>1. UNCHANGED <<stage, rest, tlvs, request, session, clnt>>
    BY <1>4 DEF wire
  <2>2. CASE stage = "none"
    BY <2>1, <2>2 DEF WireInv
  <2>3. CASE stage # "none"
    <3>1. cfg' = cfg /\ config' = config
      BY <1>2, <2>3
    <3> QED
      BY <2>1, <3>1 DEF WireInv, Granted, NewSession, Known, UserOf
  <2> QED
    BY <2>2, <2>3
<1>5. CASE SendOpen /\ UNCHANGED <<startup, vars>>
  <2>1. cfg' = cfg /\ stage = "none" /\ stage' = "sent" /\ clnt' = clnt /\ tlvs' = tlvs
    BY <1>5 DEF SendOpen, vars
  <2>2. OpenRead(build_open_pkt(cfg), NewRequest(cfg.encrypt), <<>>, cfg)
    BY <1>1, RequestBegins
  <2>3. tlvs = <<>> /\ clnt = NothingRead
    BY <2>1 DEF WireInv
  <2>4. OpenRead(rest', request', tlvs', cfg')
    BY <1>5, <2>1, <2>2, <2>3, Zenon DEF SendOpen
  <2> QED
    BY <2>1, <2>3, <2>4 DEF WireInv
<1>6. CASE parseOpenPacket /\ UNCHANGED <<startup, vars>>
  <2>1. /\ cfg' = cfg /\ stage = "sent" /\ stage' = stage /\ clnt' = clnt /\ rest # <<>>
    BY <1>6 DEF parseOpenPacket, vars
  <2>2. OpenRead(rest, request, tlvs, cfg) /\ clnt = NothingRead
    BY <2>1 DEF WireInv
  <2>3. /\ WellFormed(rest)
        /\ OpenRead(After(rest), ReadOpenTLV(request, First(rest)), Append(tlvs, First(rest)), cfg)
    BY <1>1, <2>1, <2>2, OpenReadOn, Zenon
  <2>4. /\ rest' = After(rest) /\ request' = ReadOpenTLV(request, First(rest))
        /\ tlvs' = Append(tlvs, First(rest))
    BY <1>6, <2>3, Zenon DEF parseOpenPacket
  <2>5. OpenRead(rest', request', tlvs', cfg')
    BY <2>1, <2>3, <2>4, Zenon
  <2> QED
    BY <2>1, <2>2, <2>5 DEF WireInv
<1>7. CASE handleOpen /\ UNCHANGED <<startup, vars>>
  <2>1. /\ cfg' = cfg /\ config' = config /\ stage = "sent" /\ rest = <<>>
        /\ UNCHANGED <<tlvs, request, clnt>>
    BY <1>7 DEF handleOpen, vars, startup
  <2>2. Whole(request, cfg) /\ Understood(tlvs, cfg) /\ clnt = NothingRead
    <3>1. OpenRead(rest, request, tlvs, cfg) /\ clnt = NothingRead
      BY <2>1 DEF WireInv
    <3> QED
      BY <2>1, <3>1, OpenEnds, Zenon
  <2>3. Whole(request', cfg') /\ Understood(tlvs', cfg')
    BY <2>1, <2>2, Zenon
  <2>4. Granted(request)' <=> Granted(request)
    BY <2>1 DEF Granted, Known, UserOf
  <2>5. CASE Granted(request)
    <3>1. /\ stage' = "granted" /\ session' = NewSession(request)
          /\ rest' = buildOpenAck(session')
      BY <1>7, <2>5, Zenon DEF handleOpen
    <3>2. NewSession(request)' = NewSession(request)
      BY <2>1 DEF NewSession, UserOf
    <3>3. request.username = cfg.username
      BY <2>2 DEF Whole, Asked, Req
    <3>4. Known(cfg.username)
      BY <2>5, <3>3, Zenon DEF Granted
    <3>5. AckFits(session', config.dns)
      BY <1>1, <1>2, <2>1, <2>2, <3>1, <3>4, SessionFits
    <3>6. AckRead(rest', clnt', session', config'.dns)
      BY <2>1, <2>2, <3>1, <3>5, AckBegins
    <3> QED
      BY <2>3, <2>4, <2>5, <3>1, <3>2, <3>6 DEF WireInv
  <2>6. CASE ~Granted(request)
    <3>1. stage' = "refused"
      BY <1>7, <2>6, Zenon DEF handleOpen
    <3> QED
      BY <2>3, <2>4, <2>6, <3>1 DEF WireInv
  <2> QED
    BY <2>5, <2>6
<1>8. CASE handle_openack /\ UNCHANGED <<startup, vars>>
  <2>1. /\ cfg' = cfg /\ config' = config /\ stage = "granted" /\ rest # <<>>
        /\ UNCHANGED <<stage, tlvs, request, session>>
    BY <1>8 DEF handle_openack, vars, startup
  <2>2. /\ Whole(request, cfg) /\ Understood(tlvs, cfg)
        /\ Granted(request) /\ session = NewSession(request)
        /\ AckRead(rest, clnt, session, config.dns)
    BY <2>1 DEF WireInv
  <2>3. Known(cfg.username)
    <3>1. request.username = cfg.username
      BY <2>2 DEF Whole, Asked, Req
    <3> QED
      BY <2>2, <3>1, Zenon DEF Granted
  <2>4. AckFits(session, config.dns)
    BY <1>1, <1>2, <2>1, <2>2, <2>3, SessionFits
  <2>5. WellFormed(rest) /\ AckRead(After(rest), ReadAckTLV(clnt, First(rest)), session, config.dns)
    BY <2>1, <2>2, <2>4, AckReadOn, Zenon
  <2>6. rest' = After(rest) /\ clnt' = ReadAckTLV(clnt, First(rest))
    BY <1>8, <2>5, Zenon DEF handle_openack
  <2>7. AckRead(rest', clnt', session', config'.dns)
    BY <2>1, <2>5, <2>6, Zenon
  <2>8. Granted(request)' /\ session' = NewSession(request)'
    BY <2>1, <2>2 DEF Granted, Known, UserOf, NewSession
  <2>9. Whole(request', cfg') /\ Understood(tlvs', cfg')
    BY <2>1, <2>2, Zenon
  <2> QED
    BY <2>1, <2>7, <2>8, <2>9 DEF WireInv
<1> QED
  BY <1>4, <1>5, <1>6, <1>7, <1>8 DEF OpenNext

LEMMA WireAlways == OpenSpec => [](ServerInv /\ ClientInv /\ WireInv)
<1>1. OpenInit => ServerInv /\ ClientInv /\ WireInv
  BY ServerStarts, ClientStarts, WireStarts
<1>2. ServerInv /\ ClientInv /\ WireInv /\ [OpenNext]_<<startup, vars, wire>>
      => (ServerInv /\ ClientInv /\ WireInv)'
  BY ServerKept, ClientKept, WireKept
<1> QED
  BY <1>1, <1>2, PTL DEF OpenSpec

LEMMA Running ==
  ASSUME ServerInv, ClientInv, stage # "none"
  PROVE  cfg_valid(cfg) /\ Valid(config) /\ keys.xor = derive_xor_key(cfg)
  BY DEF ClientInv, ServerInv, Started

(* For any two files, once the client runs and the server has read its     *)
(* OPEN to the end, it has the client's name, MTU, wish to encrypt, pipe   *)
(* and the block of its password, and refuses it only for the name or the  *)
(* block.                                                                  *)
THEOREM OpenMeansTheSame == OpenSpec => []OpenUnderstood
<1>1. ServerInv /\ ClientInv /\ WireInv => OpenUnderstood
  <2> SUFFICES ASSUME ServerInv, ClientInv, WireInv, stage \in {"granted", "refused"}
               PROVE  /\ Acceptable(request)
                      /\ request.username = cfg.username
                      /\ request.mtu = cfg.mtu
                      /\ request.encrypt = (cfg.encrypt = 1)
                      /\ PipeUnderstood
                      /\ stage = "refused" <=>
                            \/ ~Known(cfg.username)
                            \/ PasswordBlock(cfg.username, cfg.password)
                                  # PasswordBlock(cfg.username, UserOf(cfg.username).password)
    BY Zenon DEF OpenUnderstood
  <2>1. /\ Whole(request, cfg) /\ Understood(tlvs, cfg)
        /\ stage = "granted" => Granted(request)
        /\ stage = "refused" => ~Granted(request)
    BY DEF WireInv
  <2>2. request.username = cfg.username /\ request.mtu = cfg.mtu /\ request.block = Block(cfg)
    BY <2>1 DEF Whole, Asked, Req
  <2>3. request.encrypt = (cfg.encrypt = 1) /\ request.ok = TRUE
    BY <2>1, Zenon DEF Whole, Asked, Req
  <2>4. stage # "none" /\ (stage = "refused" <=> stage # "granted")
    OBVIOUS
  <2>5. cfg_valid(cfg) /\ Fits(cfg)
    BY <2>4, Running DEF ClientInv
  <2>6. Acceptable(request)
    <3>1. cfg.username # <<>>
      <4>1. cfg["username"] # <<>>
        BY <2>5 DEF cfg_valid
      <4> QED
        BY <4>1, Zenon
    <3>2. Block(cfg) # <<>>
      <4>1. Len(Block(cfg)) = 16
        BY <2>5, BodyParts, Zenon
      <4> QED
        BY <4>1
    <3>3. cfg.mtu \in Server!MTUs
      BY <2>5, ValidMtu, Zenon
    <3> QED
      BY <2>2, <2>3, <3>1, <3>2, <3>3, Zenon DEF Acceptable
  <2>7. PipeUnderstood
    BY <2>1 DEF PipeUnderstood, Understood, Says
  <2>8. Granted(request) <=>
           /\ Known(cfg.username)
           /\ PasswordBlock(cfg.username, cfg.password)
                 = PasswordBlock(cfg.username, UserOf(cfg.username).password)
    BY <2>2, <2>6, Zenon DEF Granted, Block
  <2> QED
    BY <2>1, <2>2, <2>3, <2>4, <2>6, <2>7, <2>8, Zenon
<1> QED
  BY <1>1, WireAlways, PTL

(* For any two files and any number of DNS servers the server accepts, the *)
(* client that has read an OPENACK to the end has what the server granted. *)
THEOREM AckMeansTheSame == OpenSpec => []AckUnderstood
<1>1. WireInv => AckUnderstood
  <2> SUFFICES ASSUME WireInv, stage = "granted", rest = <<>>
               PROVE  /\ clnt.mtu = session.mtu /\ clnt.address = session.address
                      /\ clnt.encrypt = session.encrypt
                      /\ clnt.dns0 = FirstOf(config.dns) /\ clnt.dns1 = SecondOf(config.dns)
    BY Zenon DEF AckUnderstood, FirstOf, SecondOf
  <2>1. Got(clnt, session.mtu, session.address, FirstOf(config.dns), SecondOf(config.dns),
            session.encrypt)
    BY AckEnds DEF WireInv
  <2>2. clnt.encrypt = session.encrypt
    BY <2>1, Zenon DEF Got
  <2> QED
    BY <2>1, <2>2 DEF Got
<1> QED
  BY <1>1, WireAlways, PTL

(* Blocks tell apart passwords of at most 16 characters, none of them NUL. *)
SameBytes(v, m, w, n) ==
    \A b \in 1..16 : (IF b <= m THEN v[b] ELSE 0) = (IF b <= n THEN w[b] ELSE 0)

LEMMA NotShorter ==
  ASSUME NEW v, NEW w, NEW m \in Nat, NEW n \in Nat, n <= 16, SameBytes(v, m, w, n),
         \A i \in 1..n : w[i] # 0
  PROVE  n <= m
<1> SUFFICES ASSUME m < n PROVE FALSE
  OBVIOUS
<1>1. n \in 1..16 /\ n \in 1..n /\ ~(n <= m) /\ n <= n
  OBVIOUS
<1> QED
  BY <1>1 DEF SameBytes

LEMMA BlocksTellApart ==
  ASSUME NEW x, NEW v \in Seq(Byte), NEW w \in Seq(Byte), Len(v) <= 16, Len(w) <= 16,
         \A i \in 1..Len(v) : v[i] # 0, \A i \in 1..Len(w) : w[i] # 0,
         PasswordBlock(x, v) = PasswordBlock(x, w)
  PROVE  v = w
<1> DEFINE m == Len(v)
           n == Len(w)
<1>1. \A b \in 1..16 : /\ PasswordBlock(x, v)[b].byte = IF b <= m THEN v[b] ELSE 0
                       /\ PasswordBlock(x, w)[b].byte = IF b <= n THEN w[b] ELSE 0
  BY DEF PasswordBlock
<1>2. \A b \in 1..16 : (IF b <= m THEN v[b] ELSE 0) = (IF b <= n THEN w[b] ELSE 0)
  BY <1>1
<1>3. m \in Nat /\ n \in Nat /\ m <= 16 /\ n <= 16
  OBVIOUS
<1>4. (\A i \in 1..m : v[i] # 0) /\ (\A i \in 1..n : w[i] # 0)
  OBVIOUS
<1> HIDE DEF m, n
<1>5. n <= m
  <2>1. SameBytes(v, m, w, n)
    BY <1>2 DEF SameBytes
  <2> QED
    BY <1>3, <1>4, <2>1, NotShorter
<1>6. m <= n
  <2>1. SameBytes(w, n, v, m)
    BY <1>2 DEF SameBytes
  <2> QED
    BY <1>3, <1>4, <2>1, NotShorter
<1>7. m = n
  BY <1>3, <1>5, <1>6
<1>8. \A i \in 1..m : i \in 1..16 /\ i <= m
  BY <1>3
<1>9. \A i \in 1..m : v[i] = w[i]
  BY <1>2, <1>7, <1>8
<1> QED
  BY <1>7, <1>9, SeqEqual DEF m, n

(* For any two files, a granted session has the same XOR key at both ends  *)
(* unless a password has more than 16 characters or the server's a NUL.    *)
THEOREM SameKeys == OpenSpec => []KeysAgree
<1>1. ServerInv /\ ClientInv /\ WireInv => KeysAgree
  <2> DEFINE w == UserOf(cfg.username).password
             v == cfg.password
  <2> SUFFICES ASSUME ServerInv, ClientInv, WireInv, stage = "granted",
                      ~(Len(v) > 16), ~(Len(w) > 16), 0 \notin Range(w)
               PROVE  keys.xor = session.xor
    BY Zenon DEF KeysAgree
  <2>1. Whole(request, cfg) /\ Granted(request) /\ session = NewSession(request)
    BY DEF WireInv
  <2>2. request.username = cfg.username /\ request.block = Block(cfg)
    BY <2>1 DEF Whole, Asked, Req
  <2>3. Known(cfg.username) /\ PasswordBlock(cfg.username, v) = PasswordBlock(cfg.username, w)
    BY <2>1, <2>2, Zenon DEF Granted, Block
  <2>4. keys.xor = derive_xor_key(cfg) /\ Valid(config)
    BY Running
  <2>5. w \in Seq(Byte)
    BY <2>3, <2>4, UserTyped DEF ServerInv
  <2>6. v \in Seq(Char)
    BY TextValues, Zenon DEF ClientInv
  <2>7. session.xor = deriveXORKey(cfg.username, w)
    BY <2>1, <2>2 DEF NewSession
  <2> HIDE DEF w
  <2>8. v \in Seq(Byte) /\ \A i \in 1..Len(v) : v[i] # 0
    <3>1. Char \subseteq Byte /\ 0 \notin Char
      BY DEF Char, Byte
    <3> HIDE DEF v
    <3>2. v \in Seq(Byte)
      BY <2>6, <3>1, SeqMonotonic, Zenon
    <3>3. \A i \in 1..Len(v) : v[i] \in Char
      BY <2>6, ElementOfSeq
    <3> QED
      BY <3>1, <3>2, <3>3, Zenon
  <2>9. \A i \in 1..Len(w) : w[i] # 0
    BY <2>5 DEF Range
  <2> HIDE DEF v
  <2>10. v = w
    <3>1. Len(v) <= 16 /\ Len(w) <= 16
      BY <2>5, <2>8
    <3> QED
      BY <2>3, <2>5, <2>8, <2>9, <3>1, BlocksTellApart
  <2> QED
    BY <2>4, <2>7, <2>10 DEF derive_xor_key, deriveXORKey, v
<1> QED
  BY <1>1, WireAlways, PTL
=============================================================================
