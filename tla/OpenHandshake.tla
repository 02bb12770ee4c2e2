--------------------------- MODULE OpenHandshake ----------------------------
(***************************************************************************)
(* OPEN and OPENACK on the wire: what build_open_pkt of the client         *)
(* (src/src/iwand.c) writes and parseOpenPacket of the server              *)
(* (src/server/protocol.go) reads, what buildOpenAck writes and            *)
(* handle_openack reads, from whatever configurations the two started      *)
(* with.  The server has read its own before the client reads anything:    *)
(* until the OPEN they share nothing.  A body is a sequence of bytes, read *)
(* TLV by TLV.  Signatures are right, and AES stands for itself.           *)
(***************************************************************************)
EXTENDS ClientConfig

CONSTANTS
    Files,         \* the files of both: pairs of what the server's decodes to
                   \* and the lines of the client's
    ListenMayFail  \* of ServerConfig

VARIABLES
    config, pass, pc, entry, usernames, addresses, refused,  \* of ServerConfig
    stage,    \* "none", then OPEN was "sent", then the server "granted" or "refused"
    rest,     \* what the receiver has not read yet of an OPEN or OPENACK
    tlvs,     \* the TLVs the server has read
    request,  \* what it made of them: openRequest
    session,  \* what it granted
    clnt      \* what the client read

startup == <<config, pass, pc, entry, usernames, addresses, refused>>
wire == <<stage, rest, tlvs, request, session, clnt>>

Server == INSTANCE ServerConfig

Byte == 0..255
Char == 1..255

(* What the files may say.  No line of the client's holds a NUL.           *)
ServerConfigs ==
    LET Address == {Server!Missing, Server!Bad, Server!V6} \cup [1..4 -> Byte]
    IN  [mtu : Nat,
         exit : [enabled : BOOLEAN, name : Nat, address : Address, mtu : Nat],
         users : Seq([username : Seq(Byte), password : Seq(Byte), address : Address,
                      allow_encrypt : BOOLEAN]),
         dns : Seq(Address)]

ClientLines ==
    LET Text == Seq(Char)
    IN  [key : DOMAIN TextMax \cup {"none"}, text : Text]
        \cup [key : DOMAIN NumberRange \cup {"encrypt"}, number : Nat]
        \cup [key : {"srlinks"}, items : Seq(Text)]
        \cup [key : {"none"}]

ASSUME FilesAssumption ==
    \A f \in Files : f[1] \in ServerConfigs /\ f[2] \subseteq ClientLines

DefaultMTU == 1400

Bytes2(n) == <<(n \div 256) % 256, n % 256>>
Word(v) == v[1] * 256 + v[2]

(* type, total length, value *)
TLV(type, value) == <<type, (Len(value) + 2) % 256>> \o value

When(condition, body) == IF condition THEN body ELSE <<>>

(* The TLV a body begins with, and what follows it.  At one that is        *)
(* malformed, parseTLVs refuses all and the client keeps what it has read. *)
WellFormed(body) == Len(body) >= 2 /\ body[2] >= 2 /\ body[2] <= Len(body)
First(body) == [type |-> body[1], value |-> SubSeq(body, 3, body[2])]
After(body) == IF WellFormed(body) THEN SubSeq(body, body[2] + 1, Len(body)) ELSE <<>>

(* The password, cut or padded to a block, under MD5("mw" + username):     *)
(* the same in build_open_pkt and encryptedPassword.                       *)
PasswordBlock(username, password) ==
    [b \in 1..16 |->
        [key |-> username, byte |-> IF b <= Len(password) THEN password[b] ELSE 0]]

-----------------------------------------------------------------------------
build_open_pkt(c) ==
    TLV(3, Bytes2(c.mtu)) \o TLV(1, c.username)
    \o TLV(2, PasswordBlock(c.username, c.password))
    \o When(c.encrypt = 1, TLV(8, <<c.encrypt>>))
    \o When(c.pipeid # 0 \/ c.pipeidx # 0, TLV(10, Bytes2(c.pipeid + c.pipeidx * 32768)))

(* parseOpenPacket starts from the second byte of the header. *)
NewRequest(sid) ==
    [username |-> <<>>, block |-> <<>>, mtu |-> DefaultMTU, encrypt |-> sid # 0, ok |-> TRUE]

ReadOpenTLV(r, t) ==
    LET n == Len(t.value)
    IN  [username |-> IF t.type = 1 THEN t.value ELSE r.username,
         block |-> IF t.type = 2 THEN t.value ELSE r.block,
         mtu |-> IF t.type = 3 /\ n >= 2 THEN Word(t.value) ELSE r.mtu,
         encrypt |-> IF t.type = 8 /\ n > 0 THEN t.value[1] # 0 ELSE r.encrypt,
         ok |-> r.ok /\ (t.type = 2 => n = 16) /\ (t.type = 3 => n >= 2)]

Acceptable(r) == r.ok /\ r.username # <<>> /\ r.block # <<>> /\ r.mtu \in Server!MTUs

deriveXORKey(username, password) == [md5 |-> username \o password]

(* Server.users, a map by name *)
Known(username) == \E u \in Range(config.users) : u.username = username
UserOf(username) == CHOOSE u \in Range(config.users) : u.username = username

Granted(r) ==
    /\ Acceptable(r) /\ Known(r.username)
    /\ r.block = PasswordBlock(r.username, UserOf(r.username).password)

NewSession(r) ==
    LET user == UserOf(r.username)
    IN  [address |-> user.address,
         mtu |-> IF r.mtu < config.mtu THEN r.mtu ELSE config.mtu,
         encrypt |-> r.encrypt /\ user.allow_encrypt,
         xor |-> deriveXORKey(r.username, user.password)]

buildOpenAck(s) ==
    TLV(3, Bytes2(s.mtu)) \o TLV(4, s.address)
    \o When(Len(config.dns) = 1, TLV(5, config.dns[1]))
    \o When(Len(config.dns) >= 2, TLV(6, config.dns[1] \o config.dns[2]))
    \o TLV(8, <<IF s.encrypt THEN 1 ELSE 0>>)

NoAddress == <<0, 0, 0, 0>>

(* Faulty variant: the second DNS server is never read. *)
ReadAckTLVShort(c, t) ==
    LET n == Len(t.value)
        Address(i) == SubSeq(t.value, i, i + 3)
    IN  [mtu |-> IF t.type = 3 /\ n >= 2 THEN Word(t.value) ELSE c.mtu,
         address |-> IF t.type = 4 /\ n >= 4 THEN Address(1) ELSE c.address,
         dns0 |-> IF t.type \in {5, 6} /\ n >= 4 THEN Address(1) ELSE c.dns0,
         dns1 |-> IF t.type = 6 /\ n > 8 THEN Address(5) ELSE c.dns1,
         encrypt |-> IF t.type = 8 /\ n >= 1 THEN t.value[1] # 0 ELSE c.encrypt]

ReadAckTLV(c, t) ==
    LET n == Len(t.value)
        Address(i) == SubSeq(t.value, i, i + 3)
    IN  [mtu |-> IF t.type = 3 /\ n >= 2 THEN Word(t.value) ELSE c.mtu,
         address |-> IF t.type = 4 /\ n >= 4 THEN Address(1) ELSE c.address,
         dns0 |-> IF t.type \in {5, 6} /\ n >= 4 THEN Address(1) ELSE c.dns0,
         dns1 |-> IF t.type = 6 /\ n >= 8 THEN Address(5) ELSE c.dns1,
         encrypt |-> IF t.type = 8 /\ n >= 1 THEN t.value[1] # 0 ELSE c.encrypt]

NothingRead ==
    [mtu |-> 0, address |-> NoAddress, dns0 |-> NoAddress, dns1 |-> NoAddress, encrypt |-> FALSE]

NoSession == [address |-> NoAddress, mtu |-> 0, encrypt |-> FALSE, xor |-> NoKey]

-----------------------------------------------------------------------------
OpenInit ==
    /\ \E f \in Files : config = f[1] /\ file = f[2]
    /\ Server!Init
    /\ Init
    /\ stage = "none" /\ rest = <<>> /\ tlvs = <<>>
    /\ request = NewRequest(0) /\ session = NoSession /\ clnt = NothingRead

SendOpen ==
    /\ phase = "running" /\ server = "ready" /\ stage = "none"
    /\ stage' = "sent"
    /\ rest' = build_open_pkt(cfg)
    /\ request' = NewRequest(cfg.encrypt)
    /\ UNCHANGED <<tlvs, session, clnt>>

parseOpenPacket ==
    /\ stage = "sent" /\ rest # <<>>
    /\ rest' = After(rest)
    /\ tlvs' = IF WellFormed(rest) THEN Append(tlvs, First(rest)) ELSE tlvs
    /\ request' = IF WellFormed(rest) THEN ReadOpenTLV(request, First(rest))
                  ELSE [request EXCEPT !.ok = FALSE]
    /\ UNCHANGED <<stage, session, clnt>>

handleOpen ==
    /\ stage = "sent" /\ rest = <<>>
    /\ IF Granted(request)
       THEN /\ stage' = "granted"
            /\ session' = NewSession(request)
            /\ rest' = buildOpenAck(session')
       ELSE stage' = "refused" /\ UNCHANGED <<rest, session>>
    /\ UNCHANGED <<tlvs, request, clnt>>

handle_openack ==
    /\ stage = "granted" /\ rest # <<>>
    /\ rest' = After(rest)
    /\ clnt' = IF WellFormed(rest) THEN ReadAckTLV(clnt, First(rest)) ELSE clnt
    /\ UNCHANGED <<stage, tlvs, request, session>>

OpenNext ==
    \/ Server!Next /\ UNCHANGED <<vars, wire>>
    \/ pc = "ok" /\ Next /\ UNCHANGED <<startup, wire>>
    \/ (SendOpen \/ parseOpenPacket \/ handleOpen \/ handle_openack) /\ UNCHANGED <<startup, vars>>

OpenSpec == OpenInit /\ [][OpenNext]_<<startup, vars, wire>>

-----------------------------------------------------------------------------
(* A configuration the server runs with is what the session maps need:     *)
(* every user has an address of its own (ConfigAssumption of SessionTable, *)
(* with users a map by name), MTUs are ones clients may have, and OPENACK  *)
(* has room for the DNS servers.                                           *)
FitForSessions ==
    pc = "ok" =>
        /\ \A j, k \in DOMAIN config.users :
              j # k => /\ config.users[j].username # config.users[k].username
                       /\ config.users[j].address # config.users[k].address
        /\ config.mtu \in Server!MTUs
        /\ config.exit.enabled => config.exit.mtu \in Server!MTUs
        /\ Len(config.dns) <= 2 /\ \A a \in Range(config.dns) : Server!Is4(a)

(* What DecodeConfig accepted, defaults filled in, normalized does not     *)
(* refuse (unless the listen address no longer resolves) or panic over.    *)
SecondPassAgrees == pass = 2 => pc # "panic" /\ refused # "other"

(* The TLV of the pipe, there unless both its numbers are 0, gives back    *)
(* the identifier and the index put into its 16 bits.                      *)
PipeUnderstood ==
    LET pipes == {t \in Range(tlvs) : t.type = 10}
    IN  /\ pipes = {} <=> cfg.pipeid = 0 /\ cfg.pipeidx = 0
        /\ \A t \in pipes : /\ Word(t.value) % 32768 = cfg.pipeid
                            /\ Word(t.value) \div 32768 = cfg.pipeidx

(* Whatever the file says, if cfg_valid lets the client start, the server  *)
(* can read its OPEN and reads what the client meant, the pipe included,   *)
(* in spite of the texts that were cut and the numbers that were ignored;  *)
(* and it refuses it only for an unknown user or a password that differs   *)
(* within the first 16 characters.                                         *)
OpenUnderstood ==
    stage \in {"granted", "refused"} =>
        /\ Acceptable(request)
        /\ request.username = cfg.username
        /\ request.mtu = cfg.mtu
        /\ request.encrypt = (cfg.encrypt = 1)
        /\ PipeUnderstood
        /\ stage = "refused" <=>
              \/ ~Known(cfg.username)
              \/ PasswordBlock(cfg.username, cfg.password)
                    # PasswordBlock(cfg.username, UserOf(cfg.username).password)

(* With any number of DNS servers, the client reads from an OPENACK what   *)
(* the server granted.                                                     *)
AckUnderstood ==
    stage = "granted" /\ rest = <<>> =>
        /\ clnt.mtu = session.mtu /\ clnt.address = session.address
        /\ clnt.encrypt = session.encrypt
        /\ clnt.dns0 = IF Len(config.dns) >= 1 THEN config.dns[1] ELSE NoAddress
        /\ clnt.dns1 = IF Len(config.dns) >= 2 THEN config.dns[2] ELSE NoAddress

(* OPEN carries 16 characters of a password, and the XOR key is made of    *)
(* all of it at either end: a session is granted whose ends cannot read    *)
(* each other's data only where a password has more than 16 characters,    *)
(* or the server's has a NUL, which padding cannot be told from.           *)
KeysAgree ==
    stage = "granted" /\ keys.xor # session.xor =>
        LET password == UserOf(cfg.username).password
        IN  Len(cfg.password) > 16 \/ Len(password) > 16 \/ 0 \in Range(password)
=============================================================================
