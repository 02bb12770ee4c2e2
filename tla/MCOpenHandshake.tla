-------------------------- MODULE MCOpenHandshake ---------------------------
(* The files for TLC: any configuration of the server with a short file of *)
(* the client, and any file of the client with a good configuration.  The  *)
(* addresses of servers are <<201>> and <<202>>, <<110>> is a name.        *)
EXTENDS OpenHandshake

Repeated(ch, n) == [j \in 1..n |-> ch]

MCAddresses == {<<201>>, <<202>>}
MCNames == {<<110>>}

(* The client's lines *)
Text(k, t) == [key |-> k, text |-> t]
Number(k, n) == [key |-> k, number |-> n]

Essential ==
    {Text("none", <<91, 97, 93>>), Text("server", <<201>>), Text("username", <<97>>),
     Text("password", Repeated(98, 16)), Number("port", 4567), Number("mtu", 1500)}

(* Numbers and texts at and over their limits *)
Lines ==
    Essential \cup
    {Number("encrypt", 1), Number("pipeid", 32767), Number("pipeidx", 1),
     Number("mtu", 45), Number("mtu", 1600), Number("port", 65536), Number("pipeid", 32768),
     Text("username", Repeated(97, 32)), Text("username", <<98>>),
     Text("server", <<110>>),
     Text("password", Repeated(98, 17)), Text("password", <<99>>),
     [key |-> "srlinks", items |-> Repeated(<<201>>, 7)],
     [key |-> "srlinks", items |-> <<<<201>>, <<91, 97>>, <<93>>>>], [key |-> "none"]}

(* The server's configurations *)
a == <<10, 0, 0, 1>>
b == <<10, 0, 0, 2>>

User(name, password, address, allowed) ==
    [username |-> name, password |-> password, address |-> address, allow_encrypt |-> allowed]

Good == User(<<97>>, Repeated(98, 16), a, TRUE)
Padded == User(<<98>>, <<99, 0>>, <<10, 0, 0, 3>>, TRUE)
Other == User(Repeated(97, 31), Repeated(98, 16), b, FALSE)

AnyUser == {User(n, <<98>>, x, TRUE) : n \in {<<>>, <<97>>, <<98>>},
               x \in {Server!Missing, Server!Bad, Server!V6, Server!Zero, a, b}}

NoExit == [enabled |-> FALSE, name |-> 0, address |-> <<>>, mtu |-> 0]

AnyExit ==
    {NoExit} \cup [enabled : {TRUE}, name : {0, 15, 16},
                   address : {Server!Missing, Server!Bad, a}, mtu : {0, 45, 46}]

GoodConfig == [mtu |-> 1400, exit |-> NoExit, users |-> <<Good, Padded, Other>>, dns |-> <<a, b>>]

(* Any two users; any exit, MTU and DNS servers with one good user *)
AnyConfig ==
    [mtu : {1400}, exit : {NoExit}, users : {<<u, v>> : u, v \in AnyUser} \cup {<<>>},
     dns : {<<>>}]
    \cup
    [mtu : {0, 45, 46, 1600, 1601}, exit : AnyExit, users : {<<Good>>},
     dns : {<<>>, <<a>>, <<a, b>>, <<a, b, a>>, <<Server!Bad>>, <<a, Server!V6>>}]

MCFiles == {<<c, Essential>> : c \in AnyConfig} \cup {<<GoodConfig, Lines>>}
=============================================================================
