---------------------------- MODULE TunnelProofs ----------------------------
(***************************************************************************)
(* Theorems about Tunnel for any number of datagrams in flight, any MTUs   *)
(* and timeouts: the type invariant, that both ends agree on the session   *)
(* they share, and that a CLOSE never hits the session in use.             *)
(***************************************************************************)
EXTENDS Tunnel, SessionTableProofs, FiniteSetTheorems

(* What the client operators do to the fields the session depends on. *)
LEMMA BoundsType ==
    /\ recvNever \in Nat /\ openNever \in Nat
    /\ 0 \in 0..recvNever /\ 0 \in 0..openNever
    /\ recvNever \in 0..recvNever /\ openNever \in 0..openNever
  BY ClientAssumption DEF recvNever, openNever

LEMMA InitialFacts ==
    ASSUME NEW c
    PROVE  /\ InitialClient(TRUE) \in Client
           /\ InitialClient(TRUE).state = "IP_READY"
           /\ ClientReset(c, TRUE) = InitialClient(TRUE)
  <1>1. InitialClient(TRUE) \in Client
    BY BoundsType DEF InitialClient, Client, States
  <1>2. InitialClient(TRUE).state = "IP_READY" /\ InitialClient(TRUE).sock = TRUE
    BY DEF InitialClient
  <1>3. ClientReset(c, TRUE) = [InitialClient(TRUE) EXCEPT !.sock = TRUE]
    BY TunnelAssumption DEF ClientReset
  <1> QED BY <1>1, <1>2, <1>3, ZenonT(40) DEF Client

(* The fields set by an acknowledgement are kept. *)
SameSession(c, d) ==
    /\ d.sess = c.sess /\ d.peer_ip = c.peer_ip
    /\ d.server_mtu = c.server_mtu /\ d.encrypt = c.encrypt

LEMMA OlderFacts ==
    ASSUME NEW c \in Client
    PROVE  Older(c) \in Client /\ Older(c).state = c.state /\ SameSession(c, Older(c))
  <1> DEFINE r == IF c.recvAge < recvNever THEN c.recvAge + 1 ELSE c.recvAge
             o == IF c.openAge < openNever THEN c.openAge + 1 ELSE c.openAge
  <1>1. c.recvAge \in 0..recvNever /\ c.openAge \in 0..openNever
    BY DEF Client
  <1>2. r \in 0..recvNever /\ o \in 0..openNever
    BY <1>1, BoundsType
  <1>3. Older(c) = [c EXCEPT !.recvAge = r, !.openAge = o]
    BY DEF Older
  <1> HIDE DEF r, o
  <1>4. Older(c) \in Client
    BY <1>2, <1>3 DEF Client
  <1>5. Older(c).state = c.state /\ SameSession(c, Older(c))
    BY <1>3 DEF Client, SameSession
  <1> QED BY <1>4, <1>5

LEMMA HeardFacts ==
    ASSUME NEW c \in Client
    PROVE  Heard(c) \in Client /\ Heard(c).state = c.state /\ SameSession(c, Heard(c))
  BY BoundsType DEF Heard, Client, SameSession

LEMMA KeepsFacts ==
    ASSUME NEW c \in Client
    PROVE  /\ TickKeeps(c) \in Client
           /\ SameSession(c, TickKeeps(c))
           /\ TickKeeps(c).state = "ESTABLISHED" => c.state = "ESTABLISHED"
  <1> DEFINE s == StartAuth(c)
             o == IF SendsOpen(c) THEN 0 ELSE s.openAge
             e == IF s.state = "ESTABLISHED" THEN 1 - s.echo ELSE s.echo
  <1>1. s \in Client /\ SameSession(c, s)
        /\ (s.state = "ESTABLISHED" => c.state = "ESTABLISHED")
    <2>1. CASE c.state = "IP_READY"
      <3>1. s = [c EXCEPT !.state = "AUTH_SENT", !.recvAge = 0, !.openAge = openNever]
        BY <2>1 DEF StartAuth
      <3>2. s \in Client
        BY <3>1, BoundsType DEF Client, States
      <3>3. s.state = "AUTH_SENT" /\ SameSession(c, s)
        BY <3>1 DEF Client, SameSession
      <3> QED BY <3>2, <3>3
    <2>2. CASE c.state # "IP_READY"
      BY <2>2 DEF StartAuth, SameSession
    <2> QED BY <2>1, <2>2
  <1>2. s.openAge \in 0..openNever /\ s.echo \in {0, 1}
    BY <1>1 DEF Client
  <1>3. o \in 0..openNever /\ e \in {0, 1}
    BY <1>2, BoundsType
  <1>4. TickKeeps(c) = [s EXCEPT !.openAge = o, !.echo = e]
    BY DEF TickKeeps
  <1> HIDE DEF s, o, e
  <1>5. TickKeeps(c) \in Client
    BY <1>1, <1>3, <1>4 DEF Client
  <1>6. TickKeeps(c).state = s.state /\ SameSession(c, TickKeeps(c))
    BY <1>1, <1>4 DEF Client, SameSession
  <1> QED BY <1>1, <1>5, <1>6

(* handle_openack, with and without the interface *)
LEMMA AckFacts ==
    ASSUME NEW c \in Client, NEW ack \in Openack
    PROVE  LET d == Establish(ApplyTLVs(c, ack), ack)
           IN  /\ d \in Client
               /\ [d EXCEPT !.state = "CLOSED"] \in Client
               /\ [d EXCEPT !.state = "CLOSED"].state = "CLOSED"
               /\ d.sess = ack.id
               /\ ack.ip # Unset => d.peer_ip = ack.ip
               /\ ack.mtu # 0 => d.server_mtu = ack.mtu
               /\ ack.encrypt # "keep" => d.encrypt = (ack.encrypt = "on")
  <1> DEFINE b == ApplyTLVs(c, ack)
             d == Establish(b, ack)
  <1>1. /\ b \in Client
        /\ ack.ip # Unset => b.peer_ip = ack.ip
        /\ ack.mtu # 0 => b.server_mtu = ack.mtu
    BY ZenonT(40) DEF ApplyTLVs, Client, Openack
  <1>2. ack.encrypt # "keep" => b.encrypt = (ack.encrypt = "on")
    BY DEF ApplyTLVs, Client, Openack
  <1>3. d = [b EXCEPT !.state = "ESTABLISHED", !.sess = ack.id, !.recvAge = 0, !.echo = 0]
    BY DEF Establish
  <1>4. ack.id \in SessionIds /\ "ESTABLISHED" \in States /\ "CLOSED" \in States
    BY DEF Openack, States
  <1> HIDE DEF b, d
  <1>5. d \in Client
    BY <1>1, <1>3, <1>4, BoundsType DEF Client
  <1>6. d.sess = ack.id /\ d.peer_ip = b.peer_ip /\ d.server_mtu = b.server_mtu
        /\ d.encrypt = b.encrypt
    BY <1>1, <1>3 DEF Client
  <1>7. [d EXCEPT !.state = "CLOSED"] \in Client
        /\ [d EXCEPT !.state = "CLOSED"].state = "CLOSED"
    BY <1>4, <1>5 DEF Client
  <1> QED BY <1>1, <1>2, <1>5, <1>6, <1>7 DEF d, b

-----------------------------------------------------------------------------
(* What both ends must end up with, whichever OPEN is answered. *)
Granted == WantEncrypt /\ user \in AllowEncrypt

ServerRight ==
    \A k \in Keys : sessions[k] # None =>
        sessions[k].user = user /\ sessions[k].encrypt = Granted

AckRight(ack) ==
    /\ ack.ip = UserAddr[user]
    /\ ack.mtu = EffectiveMTU(CfgMtu)
    /\ ack.encrypt = IF Granted THEN "on" ELSE "off"

AcksRight == \A m \in net : m.type = "OPENACK" => AckRight(m.ack)

ClientRight ==
    clnt.state = "ESTABLISHED" =>
        /\ clnt.sess \in Ids
        /\ clnt.peer_ip = UserAddr[user]
        /\ EffectiveMTU(CfgMtu) # 0 => clnt.server_mtu = EffectiveMTU(CfgMtu)
        /\ clnt.encrypt = Granted

(* A CLOSE in flight left by a socket that is gone: client_reset sends it  *)
(* and then opens a socket on a port no datagram in flight comes from.     *)
ClosesAreOld == \A m \in net : m.type = "CLOSE" => m.from # port

(* The inductive invariant.  Finiteness and Exclusive bound the ports and  *)
(* identifiers in use, so that an unused one is left; AcksRight carries    *)
(* what the server decided to the client; Agree ties the session of the    *)
(* client to the address the server routes.                                *)
IInv ==
    /\ TypeOK
    /\ IsFiniteSet(net)
    /\ Agree(sessions, byAddress)
    /\ Exclusive(sessions)
    /\ ServerRight
    /\ AcksRight
    /\ ClientRight
    /\ ClosesAreOld

LEMMA OneMore ==
    ASSUME NEW S, IsFiniteSet(S), NEW x
    PROVE  /\ IsFiniteSet(S \cup {x})
           /\ Cardinality(S \cup {x}) <= Cardinality(S) + 1
           /\ Cardinality(S \cup {x}) \in Nat
  <1>1. IsFiniteSet(S \cup {x})
        /\ Cardinality(S \cup {x}) =
             IF x \in S THEN Cardinality(S) ELSE Cardinality(S) + 1
    BY FS_AddElement
  <1>2. Cardinality(S) \in Nat /\ Cardinality(S \cup {x}) \in Nat
    BY <1>1, FS_CardinalityType
  <1> QED BY <1>1, <1>2

(* The values of a field of so few datagrams, and two others, leave an     *)
(* unused value to draw.                                                   *)
LEMMA FewValues ==
    ASSUME NEW S, IsFiniteSet(S), Cardinality(S) <= MaxNet,
           NEW R, NEW f \in Surjection(S, R), NEW x, NEW y
    PROVE  /\ IsFiniteSet(R \cup {x} \cup {y})
           /\ Cardinality(R \cup {x} \cup {y}) <= MaxNet + 2
  <1>2. IsFiniteSet(R) /\ Cardinality(R) <= Cardinality(S)
    BY FS_Surjection
  <1>3. Cardinality(R) \in Nat /\ Cardinality(S) \in Nat
    BY <1>2, FS_CardinalityType
  <1>4. IsFiniteSet(R \cup {x}) /\ Cardinality(R \cup {x}) <= Cardinality(R) + 1
        /\ Cardinality(R \cup {x}) \in Nat
    BY <1>2, OneMore
  <1>5. IsFiniteSet(R \cup {x} \cup {y})
        /\ Cardinality(R \cup {x} \cup {y}) <= Cardinality(R \cup {x}) + 1
        /\ Cardinality(R \cup {x} \cup {y}) \in Nat
    BY <1>4, OneMore
  <1> QED BY <1>2, <1>3, <1>4, <1>5, TunnelAssumption

LEMMA SpareLeft ==
    ASSUME NEW B, IsFiniteSet(B), Cardinality(B) <= MaxNet + 2, NEW Used \in SUBSET B,
           NEW T, IsFiniteSet(T) => Cardinality(T) > MaxNet + 2
    PROVE  Unused(T \ Used) \in T \ Used
  <1>1. T \ Used # {}
    <2> SUFFICES ASSUME T \subseteq B
                 PROVE  FALSE
      OBVIOUS
    <2>1. IsFiniteSet(T) /\ Cardinality(T) <= Cardinality(B)
          /\ Cardinality(T) \in Nat /\ Cardinality(B) \in Nat
      BY FS_Subset, FS_CardinalityType
    <2> QED BY <2>1, TunnelAssumption
  <1> QED BY <1>1 DEF Unused

(* All sessions of the server belong to the user, so there is one at most. *)
LEMMA OneLive ==
    ASSUME IInv
    PROVE  \E t : Live(sessions) \subseteq {t}
  <1>1. \A s, t \in Live(sessions) : s = t
    BY DEF IInv, ServerRight, Exclusive, Live
  <1> QED BY <1>1

LEMMA PortLeft ==
    ASSUME IInv
    PROVE  Unused(Remotes \ UsedPorts) \in Remotes \ UsedPorts
  <1> DEFINE f == [m \in net |-> m.from]
             R == {f[m] : m \in net}
  <1> PICK t : Live(sessions) \subseteq {t}
    BY OneLive
  <1>1. UsedPorts \subseteq R \cup {t.remote} \cup {port}
    BY DEF UsedPorts
  <1>2. IsFiniteSet(net) /\ Cardinality(net) <= MaxNet
    BY DEF IInv, TypeOK
  <1>3. f \in Surjection(net, R)
    BY DEF Surjection
  <1>4. IsFiniteSet(Remotes) => Cardinality(Remotes) > MaxNet + 2
    BY TunnelAssumption
  <1> DEFINE B == R \cup {t.remote} \cup {port}
  <1>5. IsFiniteSet(B) /\ Cardinality(B) <= MaxNet + 2
    <2> HIDE DEF f, R
    <2> QED BY <1>2, <1>3, FewValues
  <1> HIDE DEF B
  <1>6. UsedPorts \in SUBSET B
    BY <1>1 DEF B
  <1> QED BY <1>4, <1>5, <1>6, SpareLeft

LEMMA IdLeft ==
    ASSUME IInv
    PROVE  Unused(Ids \ UsedIds) \in Ids \ UsedIds
  <1> DEFINE f == [m \in net |-> IF m.type = "OPENACK" THEN m.ack.id ELSE m.id]
             R == {f[m] : m \in net}
  <1> PICK t : Live(sessions) \subseteq {t}
    BY OneLive
  <1>1. UsedIds \subseteq R \cup {t.id} \cup {clnt.sess}
    <2>1. \A m \in net : m.type = "OPENACK" => m.ack.id = f[m]
      OBVIOUS
    <2>2. \A m \in net : m.type \in {"ECHOREQ", "CLOSE"} => m.id = f[m]
      OBVIOUS
    <2> QED BY <2>1, <2>2 DEF UsedIds
  <1>2. IsFiniteSet(net) /\ Cardinality(net) <= MaxNet
    BY DEF IInv, TypeOK
  <1>3. f \in Surjection(net, R)
    BY DEF Surjection
  <1>4. IsFiniteSet(Ids) => Cardinality(Ids) > MaxNet + 2
    BY TunnelAssumption
  <1> DEFINE B == R \cup {t.id} \cup {clnt.sess}
  <1>5. IsFiniteSet(B) /\ Cardinality(B) <= MaxNet + 2
    <2> HIDE DEF f, R
    <2> QED BY <1>2, <1>3, FewValues
  <1> HIDE DEF B
  <1>6. UsedIds \in SUBSET B
    BY <1>1 DEF B
  <1> QED BY <1>4, <1>5, <1>6, SpareLeft

-----------------------------------------------------------------------------
(* The network keeps its bound and holds nothing that was not sent. *)
SmallNet(S) == IsFiniteSet(S) /\ Cardinality(S) <= MaxNet

LEMMA FewerInFlight ==
    ASSUME NEW S, SmallNet(S), NEW T \in SUBSET S
    PROVE  SmallNet(T)
  <1>1. IsFiniteSet(T) /\ Cardinality(T) <= Cardinality(S)
        /\ Cardinality(T) \in Nat /\ Cardinality(S) \in Nat
    BY FS_Subset, FS_CardinalityType DEF SmallNet
  <1> QED BY <1>1, TunnelAssumption DEF SmallNet

LEMMA WithFacts ==
    ASSUME NEW S, SmallNet(S), NEW m
    PROVE  SmallNet(With(S, m)) /\ With(S, m) \subseteq S \cup {m}
  BY FS_AddElement DEF With, SmallNet

LEMMA DeliveredFacts ==
    ASSUME IInv, NEW m, NEW left \in Delivered(m)
    PROVE  left \subseteq net /\ SmallNet(left)
  <1>1. left \subseteq net
    BY DEF Delivered
  <1>2. SmallNet(net)
    BY DEF IInv, TypeOK, SmallNet
  <1> QED BY <1>1, <1>2, FewerInFlight

(* The part of the invariant about what is in flight. *)
NetOK ==
    /\ SmallNet(net) /\ net \subseteq ToServer \cup ToClient
    /\ AcksRight /\ ClosesAreOld

TablesOK ==
    /\ sessions \in SessionMap /\ byAddress \in AddressMap
    /\ Agree(sessions, byAddress) /\ Exclusive(sessions) /\ ServerRight

ClientOK ==
    /\ clnt \in Client /\ ClientRight /\ port \in Remotes
    /\ heard \in {"nothing", "ack", "echo", "data"}

WeatherOK == path \in {"prompt", "slow", "repeating"} /\ calm \in BOOLEAN

LEMMA Parts == IInv <=> NetOK /\ TablesOK /\ ClientOK /\ WeatherOK
  BY DEF IInv, TypeOK, NetOK, TablesOK, ClientOK, WeatherOK, SmallNet

LEMMA PartsNext == NetOK' /\ TablesOK' /\ ClientOK' /\ WeatherOK' => IInv'
  BY DEF IInv, TypeOK, NetOK, TablesOK, ClientOK, WeatherOK, SmallNet

(* A step that adds at most right datagrams. *)
LEMMA NetStep ==
    ASSUME NetOK, SmallNet(net'), port' = port, NEW new, net' \subseteq net \cup {new},
           \/ new \in net
           \/ /\ new \in ToServer \cup ToClient
              /\ new.type # "CLOSE"
              /\ new.type = "OPENACK" => AckRight(new.ack)
    PROVE  NetOK'
  <1>1. \A m \in net' : m \in net \/ m = new
    OBVIOUS
  <1>2. (net \subseteq ToServer \cup ToClient)'
    BY <1>1 DEF NetOK
  <1>3. AcksRight'
    BY <1>1 DEF NetOK, AcksRight
  <1>4. ClosesAreOld'
    BY <1>1 DEF NetOK, ClosesAreOld
  <1> QED BY <1>2, <1>3, <1>4 DEF NetOK, SmallNet

LEMMA Kept ==
    /\ TablesOK /\ UNCHANGED tables => TablesOK'
    /\ ClientOK /\ UNCHANGED client => ClientOK'
    /\ WeatherOK /\ UNCHANGED weather => WeatherOK'
  BY DEF TablesOK, tables, ServerRight, ClientOK, client, ClientRight, WeatherOK, weather

LEMMA NetSmall == IInv => SmallNet(net)
  BY DEF IInv, TypeOK, SmallNet

-----------------------------------------------------------------------------
(* The client's steps *)

(* The client record goes on with the session it had, if any. *)
LEMMA ClientGoesOn ==
    ASSUME ClientOK, clnt' \in Client, SameSession(clnt, clnt'), port' = port,
           clnt'.state = "ESTABLISHED" => clnt.state = "ESTABLISHED",
           heard' \in {"nothing", "ack", "echo", "data"}
    PROVE  ClientOK'
  BY DEF ClientOK, ClientRight, SameSession

LEMMA ResetStep ==
    ASSUME IInv, NEW c \in Client, SameSession(clnt, c), c.state = clnt.state, Reset(c)
    PROVE  IInv'
  <1>1. port' \in Remotes /\ port' \notin UsedPorts
    BY PortLeft DEF Reset
  <1>2. ClientOK'
    <2>1. clnt' \in Client /\ clnt'.state = "IP_READY"
      BY InitialFacts DEF Reset
    <2> QED BY <1>1, <2>1 DEF Reset, ClientOK, ClientRight
  <1>3. TablesOK' /\ WeatherOK'
    BY Parts, Kept DEF Reset
  <1>4. NetOK'
    <2> DEFINE left == net \cap ToServer
               close == [type |-> "CLOSE", from |-> port, id |-> c.sess]
    <2>1. SmallNet(left)
      BY NetSmall, FewerInFlight
    <2>2. \A m \in left : m.from # port'
      BY <1>1 DEF UsedPorts
    <2>3. \A m \in left : m \in ToServer /\ m.type # "OPENACK"
      BY DEF ToServer
    <2>4. CASE SendsClose(c)
      <3>1. net' = With(left, close)
        BY <2>4 DEF Reset
      <3>2. c.sess \in Ids /\ port \in Remotes
        BY <2>4 DEF SendsClose, SameSession, IInv, TypeOK, ClientRight
      <3>3. close \in ToServer /\ close.type = "CLOSE" /\ close.from = port
        BY <3>2 DEF ToServer
      <3>4. port # port'
        BY <1>1 DEF UsedPorts
      <3>5. SmallNet(net') /\ net' \subseteq left \cup {close}
        BY <2>1, <3>1, WithFacts
      <3> HIDE DEF left, close
      <3> QED BY <2>2, <2>3, <3>3, <3>4, <3>5
              DEF NetOK, SmallNet, AcksRight, ClosesAreOld
    <2>5. CASE ~SendsClose(c)
      <3>1. net' = left
        BY <2>5 DEF Reset
      <3> HIDE DEF left
      <3> QED BY <2>1, <2>2, <2>3, <3>1 DEF NetOK, SmallNet, AcksRight, ClosesAreOld
    <2> QED BY <2>4, <2>5
  <1> QED BY <1>2, <1>3, <1>4, PartsNext

LEMMA TickStep ==
    ASSUME IInv, TickGoesOn
    PROVE  IInv'
  <1> DEFINE c == Older(clnt)
  <1>1. c \in Client /\ c.state = clnt.state /\ SameSession(clnt, c)
    BY OlderFacts DEF IInv, TypeOK
  <1>2. clnt' = TickKeeps(c) /\ UNCHANGED <<port, heard, tables, weather>>
    BY DEF TickGoesOn
  <1>3. ClientOK'
    <2>1. clnt' \in Client /\ SameSession(clnt, clnt')
          /\ (clnt'.state = "ESTABLISHED" => clnt.state = "ESTABLISHED")
      BY <1>1, <1>2, KeepsFacts DEF SameSession
    <2> QED BY <1>2, <2>1, Parts, ClientGoesOn DEF ClientOK
  <1>4. NetOK'
    <2> DEFINE open == [type |-> "OPEN", from |-> port]
               echo == [type |-> "ECHOREQ", from |-> port, id |-> c.sess]
    <2>1. port \in Remotes
      BY DEF IInv, TypeOK
    <2>2. CASE SendsOpen(c)
      <3>1. net' = With(net, open)
        BY <2>2 DEF TickGoesOn
      <3>2. open \in ToServer /\ open.type = "OPEN"
        BY <2>1 DEF ToServer
      <3> HIDE DEF open
      <3> QED BY <1>2, <3>1, <3>2, NetSmall, WithFacts, Parts, NetStep
    <2>3. CASE ~SendsOpen(c) /\ SendsEcho(c)
      <3>1. net' = With(net, echo)
        BY <2>3 DEF TickGoesOn
      <3>2. c.sess \in Ids
        BY <1>1, <2>3 DEF SendsEcho, IInv, ClientRight, SameSession
      <3>3. echo \in ToServer /\ echo.type = "ECHOREQ"
        BY <2>1, <3>2 DEF ToServer
      <3> HIDE DEF echo
      <3> QED BY <1>2, <3>1, <3>3, NetSmall, WithFacts, Parts, NetStep
    <2>4. CASE ~SendsOpen(c) /\ ~SendsEcho(c)
      <3>1. net' = net
        BY <2>4 DEF TickGoesOn
      <3> QED BY <1>2, <3>1, Parts DEF NetOK, SmallNet, AcksRight, ClosesAreOld
    <2> QED BY <2>2, <2>3, <2>4
  <1>5. TablesOK' /\ WeatherOK'
    BY <1>2, Parts, Kept
  <1> QED BY <1>3, <1>4, <1>5, PartsNext

(* An OPENACK, accepted or ignored, with or without the interface *)
LEMMA OpenackStep ==
    ASSUME IInv, NEW m \in net \cap ToClient, RecvOpenack(m) \/ RecvOpenackTunFails(m)
    PROVE  IInv'
  <1>1. m.type = "OPENACK" /\ net' \in Delivered(m) /\ UNCHANGED <<port, tables, weather>>
    BY DEF RecvOpenack, RecvOpenackTunFails
  <1>2. m.ack \in Openack /\ AckRight(m.ack)
    BY <1>1 DEF IInv, AcksRight, ToClient
  <1>3. clnt \in Client
    BY DEF IInv, TypeOK
  <1> DEFINE d == Establish(ApplyTLVs(clnt, m.ack), m.ack)
  <1>4. ClientOK'
    <2>1. CASE RecvOpenack(m) /\ clnt.state = "AUTH_SENT"
      <3>1. clnt' = d /\ heard' = "ack"
        BY <2>1 DEF RecvOpenack
      <3>2. UserAddr[user] # Unset
        BY TunnelAssumption, ClientAssumption, ConfigAssumption
      <3>3. m.ack.id \in Ids /\ m.ack.ip = UserAddr[user]
            /\ m.ack.mtu = EffectiveMTU(CfgMtu)
        BY <1>2, TunnelAssumption DEF AckRight, Openack
      <3>4. m.ack.encrypt # "keep" /\ (m.ack.encrypt = "on") = Granted
        BY <1>2 DEF AckRight, Granted
      <3>5. /\ d \in Client /\ d.sess = m.ack.id
            /\ m.ack.ip # Unset => d.peer_ip = m.ack.ip
            /\ m.ack.mtu # 0 => d.server_mtu = m.ack.mtu
        BY <1>2, <1>3, AckFacts
      <3>6. d.encrypt = (m.ack.encrypt = "on")
        BY <1>2, <1>3, <3>4, AckFacts
      <3> HIDE DEF d
      <3>7. d.encrypt = Granted
        BY <3>4, <3>6
      <3> QED BY <1>1, <3>1, <3>2, <3>3, <3>5, <3>7 DEF ClientOK, ClientRight, IInv, TypeOK
    <2>2. CASE RecvOpenack(m) /\ clnt.state # "AUTH_SENT"
      <3>1. UNCHANGED client
        BY <1>1, <2>2 DEF RecvOpenack, client
      <3> QED BY <3>1, Parts, Kept
    <2>3. CASE RecvOpenackTunFails(m)
      <3>1. clnt' = [d EXCEPT !.state = "CLOSED"] /\ heard' = heard
        BY <2>3 DEF RecvOpenackTunFails
      <3>2. clnt' \in Client /\ clnt'.state = "CLOSED"
        BY <1>2, <1>3, <3>1, AckFacts
      <3> QED BY <1>1, <3>1, <3>2 DEF ClientOK, ClientRight, IInv, TypeOK
    <2> QED BY <2>1, <2>2, <2>3
  <1>5. NetOK'
    BY <1>1, DeliveredFacts, Parts, NetStep
  <1>6. TablesOK' /\ WeatherOK'
    BY <1>1, Parts, Kept
  <1> QED BY <1>4, <1>5, <1>6, PartsNext

LEMMA AliveStep ==
    ASSUME IInv, NEW m \in net, RecvAlive(m)
    PROVE  IInv'
  <1>1. net' \in Delivered(m) /\ UNCHANGED <<port, tables, weather>>
    BY DEF RecvAlive
  <1>2. ClientOK'
    <2>1. CASE clnt.state = "ESTABLISHED"
      <3>1. clnt' = Heard(clnt) /\ heard' \in {"data", "echo"}
        BY <2>1 DEF RecvAlive
      <3>2. clnt' \in Client /\ SameSession(clnt, clnt')
        BY <3>1, HeardFacts DEF IInv, TypeOK
      <3> QED BY <1>1, <2>1, <3>1, <3>2, Parts, ClientGoesOn
    <2>2. CASE clnt.state # "ESTABLISHED"
      <3>1. UNCHANGED client
        BY <1>1, <2>2 DEF RecvAlive, client
      <3> QED BY <3>1, Parts, Kept
    <2> QED BY <2>1, <2>2
  <1>3. NetOK'
    BY <1>1, DeliveredFacts, Parts, NetStep
  <1>4. TablesOK' /\ WeatherOK'
    BY <1>1, Parts, Kept
  <1> QED BY <1>2, <1>3, <1>4, PartsNext

-----------------------------------------------------------------------------
(* The server's steps *)

LEMMA OpenStep ==
    ASSUME IInv, NEW m \in net \cap ToServer, handleOpen(m)
    PROVE  IInv'
  <1> DEFINE s == NewSession(m.from, Unused(Ids \ UsedIds), user, WantEncrypt)
             ack == [type |-> "OPENACK", to |-> s.remote, ack |-> AckOf(s)]
  <1>1. m.type = "OPEN" /\ m.from \in Remotes
    BY DEF handleOpen, ToServer
  <1>2. s \in Session /\ s.remote = m.from /\ s.user = user
    BY <1>1, IdLeft, TunnelAssumption, NewSessionType
  <1>3. s.encrypt = Granted
    BY DEF NewSession, Granted
  <1>4. /\ sessions' = InstallInSessions(sessions, s)
        /\ byAddress' = InstallInAddresses(sessions, byAddress, s)
        /\ UNCHANGED <<client, weather>>
    BY DEF handleOpen
  <1>5. PICK left \in Delivered(m) :
           net' = IF s.remote = port THEN With(left, ack) ELSE left
    BY DEF handleOpen
  <1> HIDE DEF s
  <1>6. sessions \in SessionMap /\ byAddress \in AddressMap
        /\ Agree(sessions, byAddress) /\ Exclusive(sessions) /\ ServerRight
    BY DEF IInv, TypeOK
  <1>7. TablesOK'
    <2>1. sessions' \in SessionMap /\ byAddress' \in AddressMap
      BY <1>2, <1>4, <1>6, InstallType
    <2>2. Agree(sessions', byAddress')
      BY <1>2, <1>4, <1>6, InstallAgrees
    <2>3. Exclusive(sessions')
      BY <1>2, <1>4, <1>6, InstallExclusive
    <2>4. ServerRight'
      <3>1. KeyOf(s) \in Keys
        BY <1>2 DEF KeyOf, Keys, Session
      <3>2. \A k \in Keys : sessions'[k] \in {s, None, sessions[k]}
        BY <1>4, <3>1 DEF InstallInSessions, RemoveFromSessions
      <3> QED BY <1>2, <1>3, <1>6, <3>2 DEF ServerRight
    <2> QED BY <2>1, <2>2, <2>3, <2>4 DEF TablesOK
  <1>8. NetOK'
    <2>1. AckRight(AckOf(s))
      BY <1>2, <1>3 DEF AckRight, AckOf, AddrOf
    <2>2. AckOf(s) \in Openack
      <3>1. s.id \in SessionIds /\ AddrOf(s) \in TunnelIPs
        BY <1>2, TunnelAssumption, ConfigAssumption DEF AddrOf, Session
      <3>2. EffectiveMTU(CfgMtu) \in Mtus \cup {0}
        BY TunnelAssumption, Zenon DEF EffectiveMTU
      <3> QED BY <3>1, <3>2 DEF AckOf, Openack
    <2>3. ack \in ToClient /\ ack.type = "OPENACK" /\ ack.ack = AckOf(s)
      BY <1>1, <1>2, <2>2 DEF ToClient
    <2> HIDE DEF ack
    <2>4. left \subseteq net /\ SmallNet(left)
      BY DeliveredFacts
    <2>5. SmallNet(net') /\ net' \subseteq net \cup {ack}
      BY <1>5, <2>4, WithFacts
    <2>6. port' = port
      BY <1>4 DEF client
    <2> QED BY <2>1, <2>3, <2>5, <2>6, Parts, NetStep
  <1>9. ClientOK' /\ WeatherOK'
    BY <1>4, Parts, Kept
  <1> QED BY <1>7, <1>8, <1>9, PartsNext

(* Steps that leave the maps and the client and send a harmless datagram *)
LEMMA SendStep ==
    ASSUME IInv, UNCHANGED <<client, tables, weather>>, NEW left \in SUBSET net,
           NEW new \in ToClient, new.type \in {"ECHORESP", "DATA"},
           net' \in {left, With(left, new)}
    PROVE  IInv'
  <1>1. SmallNet(left)
    BY NetSmall, FewerInFlight
  <1>2. SmallNet(net') /\ net' \subseteq net \cup {new}
    BY <1>1, WithFacts
  <1>3. port' = port
    BY DEF client
  <1> QED BY <1>2, <1>3, Parts, PartsNext, NetStep, Kept

LEMMA EchoStep ==
    ASSUME IInv, NEW m \in net \cap ToServer, handleEchoReq(m)
    PROVE  IInv'
  <1> DEFINE new == [type |-> "ECHORESP", to |-> m.from]
  <1>1. PICK left \in Delivered(m) : net' \in {left, With(left, new)}
    BY DEF handleEchoReq
  <1>2. left \in SUBSET net
    BY DeliveredFacts
  <1>3. new \in ToClient /\ new.type = "ECHORESP"
    BY DEF ToServer, ToClient
  <1>4. UNCHANGED <<client, tables, weather>>
    BY DEF handleEchoReq
  <1> HIDE DEF new
  <1> QED BY <1>1, <1>2, <1>3, <1>4, SendStep

LEMMA ForwardStep ==
    ASSUME IInv, Forward
    PROVE  IInv'
  <1> DEFINE s == byAddress[UserAddr[user]]
             new == [type |-> "DATA", to |-> s.remote]
  <1>1. net' = With(net, new) /\ s.remote = port /\ UNCHANGED <<client, tables, weather>>
    BY DEF Forward
  <1>2. new \in ToClient /\ new.type = "DATA"
    BY <1>1 DEF IInv, TypeOK, ToClient
  <1> HIDE DEF new
  <1> QED BY <1>1, <1>2, SendStep

(* handleClose takes away the session the CLOSE names and no other. *)
LEMMA CloseStep ==
    ASSUME IInv, NEW m \in net, handleClose(m)
    PROVE  /\ IInv'
           /\ \A k \in Keys : k # <<m.from, m.id>> => sessions'[k] = sessions[k]
  <1> DEFINE named == <<m.from, m.id>>
             gone == {sessions[named]} \ {None}
  <1>1. m.type = "CLOSE" /\ m \in ToServer \cup ToClient
    BY DEF handleClose, IInv, TypeOK
  <1>2. named \in Keys
    BY <1>1 DEF ToServer, ToClient, Keys
  <1>3. /\ sessions' = RemoveFromSessions(sessions, gone)
        /\ byAddress' = RemoveFromAddresses(byAddress, gone)
        /\ net' \in Delivered(m)
        /\ UNCHANGED <<client, weather>>
    BY DEF handleClose
  <1>4. gone \in SUBSET Live(sessions)
    BY <1>2 DEF Live
  <1>5. sessions \in SessionMap /\ byAddress \in AddressMap
        /\ Agree(sessions, byAddress) /\ Exclusive(sessions) /\ ServerRight
    BY DEF IInv, TypeOK
  <1>6. \A s \in gone : KeyOf(s) = named
    BY <1>2, <1>5 DEF Agree
  <1> HIDE DEF gone, named
  <1>7. TablesOK'
    <2>1. sessions' \in SessionMap /\ byAddress' \in AddressMap
      BY <1>3, <1>5, RemoveType
    <2>2. Agree(sessions', byAddress')
      BY <1>3, <1>4, <1>5, RemoveAgrees
    <2>3. Exclusive(sessions')
      BY <1>3, <1>5, RemoveExclusive
    <2>4. ServerRight'
      BY <1>3, <1>5 DEF RemoveFromSessions, ServerRight
    <2> QED BY <2>1, <2>2, <2>3, <2>4 DEF TablesOK
  <1>8. \A k \in Keys : k # named => sessions'[k] = sessions[k]
    BY <1>3, <1>6 DEF RemoveFromSessions
  <1>9. NetOK' /\ ClientOK' /\ WeatherOK'
    <2>1. port' = port
      BY <1>3 DEF client
    <2>2. NetOK'
      BY <1>3, <2>1, DeliveredFacts, Parts, NetStep
    <2> QED BY <1>3, <2>2, Parts, Kept
  <1> QED BY <1>7, <1>8, <1>9, PartsNext DEF named

LEMMA RestartStep ==
    ASSUME IInv, Restart
    PROVE  IInv'
  <1>1. sessions' = NoSessions /\ byAddress' = NoAddresses
        /\ UNCHANGED <<client, net, weather>>
    BY DEF Restart
  <1>2. TablesOK'
    BY <1>1, ConfigAssumption
       DEF TablesOK, NoSessions, NoAddresses, SessionMap, AddressMap, Agree,
           Exclusive, Live, ServerRight
  <1>3. NetOK'
    BY <1>1, Parts DEF client, NetOK, SmallNet, AcksRight, ClosesAreOld
  <1> QED BY <1>1, <1>2, <1>3, Parts, PartsNext, Kept

LEMMA WeatherStep ==
    ASSUME IInv, Lose \/ CalmsDown
    PROVE  IInv'
  <1>1. net' \subseteq net /\ UNCHANGED <<client, tables>>
    BY DEF Lose, CalmsDown
  <1>2. WeatherOK'
    BY Parts DEF Lose, CalmsDown, WeatherOK, weather
  <1>3. SmallNet(net') /\ port' = port
    BY <1>1, NetSmall, FewerInFlight DEF client
  <1>4. NetOK'
    <2>1. \A m \in net' : m \in net
      BY <1>1
    <2> QED BY <1>3, <2>1, Parts DEF NetOK, SmallNet, AcksRight, ClosesAreOld
  <1> QED BY <1>1, <1>2, <1>4, Parts, PartsNext, Kept

-----------------------------------------------------------------------------
LEMMA InitIInv == Init => IInv
  <1> SUFFICES ASSUME Init PROVE IInv
    OBVIOUS
  <1>1. clnt \in Client /\ clnt.state = "IP_READY"
    BY InitialFacts DEF Init
  <1>2. port \in Remotes
    <2>1. Remotes # {}
      BY FS_EmptySet, TunnelAssumption
    <2> QED BY <2>1 DEF Init, Unused
  <1>3. ClientOK /\ WeatherOK
    BY <1>1, <1>2 DEF Init, ClientOK, ClientRight, WeatherOK
  <1>4. TablesOK
    BY ConfigAssumption
       DEF Init, TablesOK, NoSessions, NoAddresses, SessionMap, AddressMap, Agree,
           Exclusive, Live, ServerRight
  <1>5. NetOK
    BY FS_EmptySet, TunnelAssumption DEF Init, NetOK, SmallNet, AcksRight, ClosesAreOld
  <1> QED BY <1>3, <1>4, <1>5, Parts

LEMMA NextIInv == IInv /\ [Next]_vars => IInv'
  <1> SUFFICES ASSUME IInv, [Next]_vars PROVE IInv'
    OBVIOUS
  <1>0. clnt \in Client
    BY DEF IInv, TypeOK
  <1>1. CASE Second
    <2>1. CASE TickReset
      BY <1>0, <2>1, OlderFacts, ResetStep DEF TickReset
    <2> QED BY <1>1, <2>1, TickStep DEF Second
  <1>2. CASE Reconnect
    <2>1. SameSession(clnt, clnt) /\ Reset(clnt)
      BY <1>2 DEF SameSession, Reconnect
    <2> QED BY <1>0, <2>1, ResetStep
  <1>3. CASE \E m \in net \cap ToClient :
                RecvOpenack(m) \/ RecvOpenackTunFails(m) \/ RecvAlive(m)
    BY <1>3, OpenackStep, AliveStep
  <1>4. CASE \E m \in net \cap ToServer : handleOpen(m) \/ handleEchoReq(m) \/ handleClose(m)
    BY <1>4, OpenStep, EchoStep, CloseStep
  <1>5. CASE Forward \/ Restart
    BY <1>5, ForwardStep, RestartStep
  <1>6. CASE Lose \/ CalmsDown
    BY <1>6, WeatherStep
  <1>7. CASE UNCHANGED vars
    <2>1. UNCHANGED <<client, tables, weather>> /\ net' = net /\ port' = port
      BY <1>7 DEF vars, client
    <2>2. NetOK'
      BY <2>1, Parts DEF NetOK, SmallNet, AcksRight, ClosesAreOld
    <2> QED BY <2>1, <2>2, Parts, PartsNext, Kept
  <1> QED BY <1>1, <1>2, <1>3, <1>4, <1>5, <1>6, <1>7 DEF Next

LEMMA Inductive == Spec => []IInv
  BY InitIInv, NextIInv, PTL DEF Spec

(* The two programs and the network between them stay within their types,  *)
(* and no more than MaxNet datagrams are in flight.                        *)
THEOREM TypeCorrect == Spec => []TypeOK
  <1>1. IInv => TypeOK
    BY DEF IInv
  <1> QED BY <1>1, Inductive, PTL

(* Where client and server both have the client's session they agree on    *)
(* its encryption, its address and its MTU, whatever was lost, delayed,    *)
(* repeated, reconnected or restarted before.                              *)
THEOREM BothEndsAgree == Spec => []EndsAgree
  <1>1. IInv => EndsAgree
    <2> SUFFICES ASSUME IInv, Usable PROVE EndsAgree
      BY DEF EndsAgree
    <2> DEFINE k == <<port, clnt.sess>>
               s == sessions[k]
    <2>1. clnt.state = "ESTABLISHED" /\ s # None
      BY DEF Usable
    <2>2. k \in Keys
      BY <2>1 DEF IInv, TypeOK, ClientRight, Keys
    <2>3. s.user = user /\ s.encrypt = Granted
      BY <2>1, <2>2 DEF IInv, ServerRight
    <2>4. /\ clnt.peer_ip = UserAddr[user] /\ clnt.encrypt = Granted
          /\ EffectiveMTU(CfgMtu) # 0 => clnt.server_mtu = EffectiveMTU(CfgMtu)
      BY <2>1 DEF IInv, ClientRight
    <2>5. clnt.peer_ip = AddrOf(s) /\ byAddress[clnt.peer_ip] = s
      BY <2>1, <2>2, <2>3, <2>4 DEF IInv, Agree, AddrOf
    <2>6. EffectiveMTU(CfgMtu) >= 68 => EffMtu(clnt) <= EffectiveMTU(CfgMtu)
      BY <2>4, ClientAssumption, ConfigAssumption
         DEF EffMtu, EffectiveMTU, MinMTU, MaxMTU
    <2>7. s.encrypt = clnt.encrypt
      BY <2>3, <2>4
    <2> HIDE DEF s, k
    <2> QED BY <2>5, <2>6, <2>7 DEF EndsAgree, s, k
  <1> QED BY <1>1, Inductive, PTL

(* A CLOSE, however late or often it arrives, comes from a socket the      *)
(* client no longer has, and handleClose removes only the session it names:*)
(* it never takes away the session an established client is using.         *)
THEOREM ClosesHarmless == Spec => LateCloseHarmless
  <1>1. IInv /\ [Next]_vars => [(\E m \in net : handleClose(m)) /\ Usable => Usable']_vars
    <2> SUFFICES ASSUME IInv, NEW m \in net, handleClose(m), Usable
                 PROVE  Usable'
      OBVIOUS
    <2>1. clnt.state = "ESTABLISHED" /\ sessions[<<port, clnt.sess>>] # None
      BY DEF Usable
    <2>2. <<port, clnt.sess>> \in Keys
      BY <2>1 DEF IInv, TypeOK, ClientRight, Keys
    <2>3. m.from # port
      BY DEF handleClose, IInv, ClosesAreOld
    <2>4. sessions'[<<port, clnt.sess>>] = sessions[<<port, clnt.sess>>]
      BY <2>2, <2>3, CloseStep
    <2>5. clnt' = clnt /\ port' = port
      BY DEF handleClose, client
    <2> QED BY <2>1, <2>4, <2>5 DEF Usable
  <1> QED BY <1>1, Inductive, PTL DEF Spec, LateCloseHarmless
=============================================================================
