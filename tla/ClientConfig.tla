---------------------------- MODULE ClientConfig ----------------------------
(***************************************************************************)
(* How the client starts (src/src/iwand.c): cfg_load reads the file line   *)
(* by line into g_cfg, cfg_valid decides, main opens the interface,        *)
(* derives the keys, resolves the server and creates the socket.           *)
(*                                                                         *)
(* A text is a sequence of characters.  A line is a record: its key and    *)
(* its text, number (what strtoul makes of the value) or items (the parts  *)
(* between commas); of encrypt, the number is that of its first character. *)
(* White space around keys and values is left out.  A line of key "none"   *)
(* has no '=', or a bracket in its key or in the value of a number;        *)
(* a comment, a blank or an overlong line is one without text.             *)
(* tun_open keeps the name, as on Linux (TunFreeBSD has the other case).   *)
(***************************************************************************)
EXTENDS Integers, Sequences, SequencesExt

CONSTANTS
    Addresses,  \* texts that inet_pton takes for an address
    Names,      \* texts that getaddrinfo may resolve
    Failing     \* what may fail: "file", "tun", "dns", "socket"

VARIABLES
    file,   \* the lines of the file; it has them in any order and number
    phase,  \* "load", "tun", "resolve", "socket", "running", "exited"
    cfg,    \* g_cfg
    keys,   \* xor_key, and sr_decrypt_key (which is also sr_encrypt_key)
    server  \* "unknown", "ready" (STATE_IP_READY), "domain" (STATE_DNS_NEEDED)

vars == <<file, phase, cfg, keys, server>>

LeftBracket == 91
RightBracket == 93
Comma == 44

(* config_t: the longest text of each field, and the numbers it takes *)
TextMax ==
    [tun_name |-> 15, server |-> 63, username |-> 31, password |-> 31,
     srpassword |-> 31, up_script |-> 255, down_script |-> 255]

NumberRange ==
    [port |-> 1..65535, mtu |-> 46..1600, pipeid |-> 0..32767, pipeidx |-> 0..1,
     srencryptmode |-> 0..2]

MaxLinks == 6

NoConfig ==
    LET numbers == DOMAIN NumberRange \cup {"encrypt"}
    IN  [f \in DOMAIN TextMax \cup {"srlinks"} \cup numbers |-> IF f \in numbers THEN 0 ELSE <<>>]

NoKey == <<>>

(* strncpy into a field that stays terminated *)
Stored(text, f) == SubSeq(text, 1, IF Len(text) > TextMax[f] THEN TextMax[f] ELSE Len(text))

-----------------------------------------------------------------------------
(* cfg_load.  A '[' anywhere makes a line a section header, or no line.    *)

(* What a line has that may hold a bracket *)
LineText(l) ==
    CASE "text" \in DOMAIN l -> l.text
      [] "items" \in DOMAIN l ->
           FlattenSeq([i \in DOMAIN l.items |->
                          IF i = 1 THEN l.items[i] ELSE <<Comma>> \o l.items[i]])
      [] OTHER -> <<>>

IsHeader(l) == LeftBracket \in Range(LineText(l))

ReadHeader(c, l) ==
    LET line == LineText(l)
        At(ch) == {i \in DOMAIN line : line[i] = ch}
        lb == CHOOSE i \in At(LeftBracket) : \A j \in At(LeftBracket) : i <= j
        rbs == {i \in At(RightBracket) : \A j \in At(RightBracket) : i >= j}
    IN  IF \E rb \in rbs : rb > lb
        THEN [c EXCEPT !.tun_name =
                 Stored(SubSeq(line, lb + 1, (CHOOSE rb \in rbs : TRUE) - 1), "tun_name")]
        ELSE c

(* An item that is no address is read by strtoul, here as 0; the loop ends *)
(* at an empty last item.                                                  *)
ReadLinks(items) ==
    LET n == IF items # <<>> /\ Last(items) = <<>> THEN Len(items) - 1 ELSE Len(items)
    IN  [i \in 1..(IF n > MaxLinks THEN MaxLinks ELSE n) |->
            IF items[i] \in Addresses THEN items[i] ELSE <<0>>]

Takes(f, n) == n \in NumberRange[f]

ReadLine(c, l) ==
    IF IsHeader(l)
    THEN ReadHeader(c, l)
    ELSE CASE l.key \in DOMAIN TextMax \ {"tun_name"} ->
                [c EXCEPT ![l.key] = Stored(l.text, l.key)]
           [] l.key \in DOMAIN NumberRange /\ Takes(l.key, l.number) ->
                [c EXCEPT ![l.key] = l.number]
           [] l.key = "encrypt" -> [c EXCEPT !.encrypt = IF l.number = 1 THEN 1 ELSE 0]
           [] l.key = "srlinks" -> [c EXCEPT !.srlinks = ReadLinks(l.items)]
           [] OTHER -> c

(* Faulty variant: the MTU is not checked. *)
cfg_valid_any_mtu(c) ==
    /\ \A f \in {"tun_name", "server", "username", "password"} : c[f] # <<>>
    /\ c.port # 0

cfg_valid(c) ==
    /\ \A f \in {"tun_name", "server", "username", "password"} : c[f] # <<>>
    /\ c.mtu \in NumberRange.mtu
    /\ c.port # 0

-----------------------------------------------------------------------------
(* The keys.  MD5 stands for itself; of AES only what its key is.          *)

(* Faulty variant: the key does not depend on the user. *)
derive_xor_key_shared(c) == [md5 |-> c.password]

derive_xor_key(c) == [md5 |-> c.username \o c.password]

(* Password and links, padded to 32 bytes; the cipher takes the first 16.  *)
(* The byte order of an address, which nothing tells apart, is left out.   *)
SrKey(password, links) ==
    LET material == password \o FlattenSeq([i \in DOMAIN links |-> [b \in 1..4 |-> links[i][1]]])
    IN  [b \in 1..16 |-> IF b <= Len(material) THEN material[b] ELSE 0]

(* Mode 2, AES-256, falls back to AES-128. *)
sr_setup_keys(c) ==
    IF c.srlinks = <<>> THEN NoKey ELSE SrKey(c.srpassword, c.srlinks)

SrMode(c) == IF c.srlinks # <<>> /\ c.srencryptmode = 2 THEN 1 ELSE c.srencryptmode

-----------------------------------------------------------------------------
(* main, up to its loop *)

Init ==
    /\ phase = "load"
    /\ cfg = NoConfig
    /\ keys = [xor |-> NoKey, sr |-> NoKey]
    /\ server = "unknown"

Load(l) ==
    /\ phase = "load"
    /\ cfg' = ReadLine(cfg, l)
    /\ UNCHANGED <<file, phase, keys, server>>

Fails(what, at) ==
    /\ phase = at /\ what \in Failing
    /\ phase' = "exited"
    /\ UNCHANGED <<file, cfg, keys, server>>

Loaded ==
    /\ phase = "load"
    /\ phase' = IF cfg_valid(cfg) THEN "tun" ELSE "exited"
    /\ UNCHANGED <<file, cfg, keys, server>>

TunOpened ==
    /\ phase = "tun"
    /\ phase' = "resolve"
    /\ keys' = [xor |-> derive_xor_key(cfg), sr |-> sr_setup_keys(cfg)]
    /\ cfg' = [cfg EXCEPT !.srencryptmode = SrMode(cfg)]
    /\ UNCHANGED <<file, server>>

(* resolve_server: a numeric address needs no query. *)
resolve_server ==
    /\ phase = "resolve"
    /\ phase' = "socket"
    /\ \/ cfg.server \in Addresses \cup Names /\ server' = "ready"
       \/ /\ cfg.server \notin Addresses
          /\ cfg.server \in Names => "dns" \in Failing
          /\ server' = "domain"
    /\ UNCHANGED <<file, cfg, keys>>

SocketCreated ==
    /\ phase = "socket"
    /\ phase' = "running"
    /\ UNCHANGED <<file, cfg, keys, server>>

Next ==
    \/ \E l \in file : Load(l)
    \/ Loaded \/ TunOpened \/ resolve_server \/ SocketCreated
    \/ Fails("file", "load") /\ cfg = NoConfig
    \/ Fails("tun", "tun")
    \/ Fails("socket", "socket")
=============================================================================
