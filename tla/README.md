# iwand in TLA+

A TLA+ model of iwand, an SD-WAN tunnel: a client daemon in C
(`src/src/iwand.c`) that carries the packets of a TUN interface over UDP, and a
server in Go (`src/server/`) that authenticates clients, forwards packets
between them and, optionally, to a TUN device of its own (the *exit*).  The
modules are checked with TLC on small instances; the theorems are proved with
TLAPS for every value of the constants.

## 1. The system

| Part | State | Operations | Interacts with |
|---|---|---|---|
| Server, `server.go` | `sessions` by remote and identifiers, `byAddress` by tunnel address, a mutex | `handleOpen`, `handleEchoReq`, `handleClose`, `handleData`, `handleExitPacket`, shutdown | clients by datagrams; the exit device; two goroutines share the maps |
| Server codec, `protocol.go`, `ip.go` | none | sign, verify, parse OPEN, build answers, XOR, parse IPv4 | called by the handlers |
| Server configuration, `config.go` | none | `validate`, `normalized` | read once at start |
| Exit device, `tun_linux.go` | a descriptor | open, read, write, close | both goroutines |
| Client state machine, `iwand.c` | `iwan_client_t`: state, session, address, MTU, time stamps, socket | `handle_openack`, `handle_openrej`, `handle_close`, `handle_data`, `handle_echo_resp`, `client_reset`, `timer_tick` | server by datagrams; TUN interface; hook scripts |
| Client event loop, `main` | `g_quit`, `g_reconnect`, `last_tick` | poll, input, tick, exit; signal handlers | the state machine |
| Fragment reassembly, `handle_ipfrag` | ten slots, one output buffer | match, accumulate, complete, allocate, expire | fed by IPFRAG and SEGRT datagrams, writes to TUN |
| Segment routing, `handle_segrt` | AES keys | decrypt, dispatch | feeds data and reassembly |
| Client start-up, `cfg_load` to the loop | `g_cfg`, the keys | read lines, validate, open TUN, derive keys, resolve, create the socket | decides what OPEN says |
| MD5 and AES of the client | a context, a key schedule | update, final; encrypt, decrypt | signatures, keys, passwords, segment routing |
| Client TUN, `tun_linux.c`, `tun_freebsd.c` | the kernel's address, MTU, flags | `tun_open`, `tun_set_ip`, `tun_set_mtu`, `tun_clear_ip` | called by the state machine |
| LuCI application, init scripts, packaging | files | none that the protocol depends on | start and stop the daemon |

What is hard here:

* **Order of messages.** OPEN is retried, each copy makes a new session, CLOSE
  and OPEN are delayed and duplicated; the server restarts without memory.
* **Two goroutines.** A decision is taken under the mutex and carried out after
  it is released.
* **Signals.** They arrive anywhere in the client's loop, in particular while it
  waits for a hook script.
* **Partial failure.** Setting up or clearing the interface takes several system
  calls; a new socket may not be had; a script or DNS may block the loop.
* **Bounded slots.** Fragments of several packets compete for slots that expire.
* **Two implementations of one wire format.** Client and server each write and
  read TLVs, cut and pad passwords and derive keys, in C and in Go.
* **Limits.** Fixed fields, 16-byte keys, 64-byte blocks, numbers that are
  ignored when out of range, padding to whole blocks.

The properties that make each part correct are in section 3; `PROJECT.json`
lists the hazards one by one with the line where they bite.

## 2. The modules

| Module | Models | State and actions |
|---|---|---|
| `SessionTable` | the two maps | operators only: what each critical section of the mutex does to the maps |
| `SessionDirectory` | abstract specification | `bound`: where each user is reached; `Bind`, `Unbind` |
| `SessionServer` | `server.go` at run time | maps, program counters of the two goroutines and what each is about to write, context, socket, device; one action per handler outcome, plus the writes, read errors, cancel and close |
| `IwanClient` | the client state machine | operators on the record that stands for `iwan_client_t` |
| `ClientDaemon` | `main` and all it calls | the record, the TUN interface, hooks, signals, `pc` of the loop; one action per branch of the loop, per datagram outcome and per case of `timer_tick` |
| `Tunnel` | client and server joined | `IwanClient` and `SessionTable` over a set of datagrams in flight |
| `FragReassembly` | `handle_ipfrag` | slots with their bytes, what was written last |
| `TunContract` | abstract specification of `tun.h` | operators: the states a call may leave an interface in |
| `TunCalls` | what both TUN files share | the system call about to be made, open descriptors, the interface |
| `TunLinux`, `TunFreeBSD` | `tun_linux.c`, `tun_freebsd.c` | one action per group of system calls, each of which may fail |
| `TunPlatforms` | what the build chooses | one of the two, and what both must satisfy |
| `ClientConfig` | start-up of the client | `g_cfg`, phase, keys; one action per line read and per stage of `main` |
| `OpenHandshake` | `build_open_pkt`, `parseOpenPacket`, `buildOpenAck`, `handle_openack` | `ServerConfig` and `ClientConfig`, then the bodies of OPEN and OPENACK as bytes, what is left to read of them and what each side has read; the reader takes one TLV per step |
| `SegmentRouting` | `handle_segrt`, `sr_decrypt` | the datagram waiting in the socket, well formed or not, and what became of the last one |
| `ServerConfig` | `config.go` | the configuration and the place `validate` has come to, in its first or second pass |
| `Words` | C's `&`, <code>&#124;</code> and `^` | operators only, by tables of nibbles, without the recursion that would keep the provers out |
| `Md5` | MD5 of the client | context, message and how much of it was fed; one action per `md5_update`, and `md5_final` |
| `AesTables`, `Aes` | AES-128 of the client | key schedules and state of the cipher, one action per word of the schedule and per round |
| `PasswordCipher` | how `build_open_pkt` enciphers a password | `Md5` and `Aes`, the digest of the one being the key of the other |
| `SessionTableProofs`, `SessionServerProofs` | theorems about the server | |
| `ClientDaemonProofs`, `TunPlatformsProofs` | theorems about the client and its interface | |
| `TunnelProofs` | theorems about both over a network | |
| `FragReassemblyProofs` | theorems about the packets the client puts together | |
| `ClientCryptoProofs` | theorems about the packets it unwraps, and about its MD5 and AES | |
| `OpenHandshakeProofs` | theorems about the two configurations and the two messages they meet in | |
| `MC*` | instances for TLC | |

`SessionServer` uses `SessionTable` and refines `SessionDirectory`.
`ClientDaemon` and `Tunnel` both run `IwanClient`: the first with everything the
operating system may do and an arbitrary server, the second with a real server
and a network, and an operating system that works except for the TUN setup.
`ClientDaemon` takes what TUN calls do from `TunContract`, and `TunLinux` and
`TunFreeBSD` are checked against it.  In `OpenHandshake` the server reads its
configuration, then the client reads its own, then they meet: until the OPEN they
share nothing, so the order loses no behaviour.  What `ServerConfig` accepts
satisfies the assumption `SessionTable` makes of the configuration.

How the code's data appears in the models:

* `token` and `sessionID` are always drawn, stored and compared together and are
  one identifier.
* In the modules about sessions, MD5 signatures are a Boolean (right or not), a
  password matches or not, and the XOR cipher is symbolic: a payload carries the
  set of keys it is masked with, and XOR toggles one.  `OpenHandshake` has the
  bytes, with MD5 and AES as free constructors; `Md5` and `Aes` have those, with a 32-bit
  word of MD5 as two halves, which TLC's integers can hold, and one of AES as four
  bytes.
* A packet is its two addresses; in `FragReassembly` a byte is its packet and
  position, in `SegmentRouting` a packet is its length, what its header claims and
  the encryption that really lies on it, each independent of the others.
* Client time is relative: seconds since `last_recv_time` and `last_open_time`,
  cut off (`recvNever`, `openNever`) beyond every comparison.  The cut-off value
  also stands for a time stamp of 0.
* A Go map is a function with the value `None` where there is no entry.

A definition whose comment begins "Faulty variant" is a plausible bug of the
definition after it.  No specification uses them; each shows, when it takes that
definition's place, that some property notices.

## 3. What is checked

### server (SessionServer)

Two users, one of them allowed to encrypt, two remotes, two identifiers, one
address outside the tunnel, MTUs below, at and above the limits; with and without
the exit device, with and without a strict check of sources.  Two of each are
what every conflict in the maps needs: one user from two remotes, two users from
one remote, a reused identifier.  Datagrams are unconstrained, so loss,
duplication, delay and peers that never ran an OPEN are covered.

* `IndexesAgree`, `OneSessionEach`: the maps are consistent, and one session per
  user and per remote is all they hold.
* `ReplyStillRight`, `ExitTrafficLegit`, `ExitSnapshotForOwner`: a decision made
  before unlock is right when it takes effect.  For Serve this is because no
  other goroutine changes the maps.  The exit goroutine can write to a session
  that is gone; what it writes is still for the owner of the address and under
  the owner's key.
* `ImplementsDirectory`: only an accepted OPEN and a CLOSE that names the
  session change routing.
* `ShutdownCompletes`: cancelling ends Serve with both descriptors closed.
  Fairness: a goroutine that can run does; nothing is assumed of arriving
  datagrams, packets or errors.

Deadlock is not checked: after shutdown nothing is left to do.

### daemon_safety, daemon_liveness, daemon_hooks, daemon_rejected (ClientDaemon)

* `daemon_safety`: the code's timeouts (6, 2, 15 s), ticks late by up to 2 s, a
  server with a domain name, failing socket, DNS, TUN setup and poll, OPENACKs
  with and without address and with MTUs the client takes and ignores.  Scripts
  and `tun_clear_ip` work, as the properties about them need that.  `Deadlines`,
  `TunFollowsSession`, `SessionFieldsFresh`, `HookFollowsSession`, `DownToldAsUp`:
  see the comments at the end of the module.
* `daemon_liveness`: shorter timeouts (the properties do not depend on their
  values), failing scripts and interface calls.  `QuitTerminates`,
  `ReconnectHonoured`, `NeverStuck`, `SilenceEndsSession`.  Fairness: the process
  is scheduled and the clock runs.  Nothing is assumed of the server.
* `daemon_hooks` finds a violation: `run_script` calls `waitpid` once, and the
  signal handlers are installed without `SA_RESTART`, so a signal lets the next
  script start while the last one runs.
* `daemon_rejected` finds a violation: an OPENACK that is rejected for want of an
  address has already changed the MTU and the encryption flag.

Deadlock is not checked: the daemon exits.

### tunnel (Tunnel)

The path between the ends is chosen at the start. A *prompt* one loses and
reorders, but no second passes while a control datagram is under way; a *slow*
one also delays; a *repeating* one also duplicates. The client asks for
encryption and is refused, the case in which the ends could differ. The timeouts
are 3, 2 and 5 s: OPEN is repeated before the attempt is given up, and an ECHO
is due and may be lost within the data timeout, as with 6, 2 and 15.

* `EndsAgree`: where both ends have a session, they agree on it.
* `LateCloseHarmless`: no CLOSE takes a session away from a client that uses it.
* `HalfOpenHeals`: a client left with a session the server no longer has gives it
  up, unless data for its user keeps coming.  The condition is real:
  `handle_recv` takes any DATA as a sign of life, so such a client stays, able to
  receive and not to send, for as long as there is traffic to it.
* `Connects`: once nothing is lost, restarted or failing any more (which may
  happen at any time, in particular with OPENs and CLOSEs of old sockets still
  under way), the two ends of a prompt path come to a session both can use, and
  keep it.  On a slow path this is false: with a round trip longer than the retry
  interval the repeated OPEN displaces the session whose OPENACK is on its way,
  and DATA for the new one keeps the client from noticing.

Fairness (`FairSpec`): the client's clock runs; on a prompt path the network
delivers what it does not lose, and the server handles what it receives.

Two datagrams in flight (`MaxNet`) are enough for a retried OPEN to overtake the
answer to the first, and for a CLOSE or OPEN of an old socket to meet a new
session.  A datagram beyond the bound is lost, which the network may do anyway.
Ports and identifiers are drawn unused, from just enough numbers that one is
left.

### frag, frag_triples (FragReassembly)

* `frag`: two packets of two fragments, some of which are lost, and a third whose
  fragments come in any order and number, over two slots; slots expire, and the
  client is reset in between.  `TypeOK`: slots stay within their buffers.
  `SlotsNotMixed`: a group never owns two slots and a slot never mixes groups.
  `WritesAreOriginal`: of the first two groups, what is written to TUN is a packet
  that was sent.  A group is given by where its fragments end (`Ends`), so they
  differ in length.
* `frag_triples` finds a violation: with every fragment delivered once and in
  order, a packet in three fragments is written as second, first, third.

A slot holds 2 bytes and the output buffer 3 (the code: 2048 and 4096), so that a
group can outgrow either.  Two slots and three groups make slots run out.

### tun (TunPlatforms)

Either implementation; every system call may fail, each time; two addresses and
two MTUs, so that an old one can be told from a new one; on FreeBSD a wanted name
that is a unit and one that is not.  The calls come in the order the daemon makes
them.

* `NoLeak`: no path leaves a descriptor open.
* `MeetsContract`: what `ClientDaemon` assumes is what happens.  On FreeBSD this
  holds from a cleared interface: `SIOCAIFADDR` adds an address to those an
  unsuccessful `tun_clear_ip` left.
* `OneAddress`: that is the only way to a second address.
* `NamesInterface`: after a failed rename the daemon goes on with the right name.

The number of addresses is not bounded by a guard: `SIOCAIFADDR` never adds one
that is there.  Deadlock is not checked: after a failed `tun_open` the client
exits.

### startup (OpenHandshake)

Every server configuration of two users with good, missing, malformed, IPv6 and
zero addresses, and every exit, MTU and DNS list at the limits with one good user,
each with a plain file of the client; a good configuration with client files of
any lines, in any order and number, from a set with numbers at and over their
limits, a user name that is cut, passwords of 16 and 17 characters, one that a NUL
lengthens on the server, wrong and unknown credentials, a server by address and by name, seven links.  The listen
address may stop resolving between the two passes of `validate`; start-up of the
client fails at each stage.

* `FitForSessions`: what the server starts with suits its session maps.
* `SecondPassAgrees`: what `DecodeConfig` accepted, `normalized` neither refuses
  nor panics over.
* `OpenUnderstood`, `AckUnderstood`: what one side writes the other reads as it
  was meant.
* `KeysAgree`: a session is granted whose ends have different XOR keys only where
  a password is longer than the 16 characters OPEN carries, or where the server's
  contains a NUL (JSON can write one, a line of the client's file cannot): the
  block that is compared is padded with NULs, the key is not.

`FilesAssumption` says what either file can hold at all, and is evaluated on the
files of this instance.

Deadlock is not checked: a client or server that fails to start, or has its
answer, stops.

### segrt (SegmentRouting)

Datagrams of any of 24 lengths, from a bare header to the size of the buffer, that
claim 0, 1 or 255 links, one of three algorithms and any of six paddings, whose
bytes are plain, under this client's key or under something else, with payloads of
0, 1 and 8 bytes.  Most fit together in no way; among them are all the packets a
peer would build of these (`Conforming`), without padding, with part of a block and
with more than one.
A session may open or close while a datagram waits.  What the client reads in
bytes it cannot decipher is any type and any length.

* `DeliversPayload`: a packet meant for this client, as peers build them, is
  unwrapped exactly and not dropped.
* `MalformedHarmless`: of any datagram only received bytes go on; the cipher was
  applied to all of the inner packet or to none of it, and to nothing behind it;
  and a client with SR encryption passes no ciphertext on, unless the header lies
  about the cipher.  (Nothing in a packet would show that: what decryption
  makes of it goes on when its first byte happens to be that of a DATA packet.)

### cipher (PasswordCipher)

Messages of RFC 1321 and messages that end just before, at and after every
boundary of padding, fed in any pieces; the two examples of FIPS 197 and blocks of
one repeated byte; two logins, one with the longest user name and a password that
is cut, whose digests and blocks an independent implementation (OpenSSL) computed.

* `BlocksArePaddedMessage`: however a message was fed, MD5 works on its padded
  form.
* `AgreesWithStandards`: digests and enciphered blocks are the expected ones, and
  the tables are what the field and the affine map they stand for make them.
* `DecryptUndoes`: decryption goes back through encryption, round by round.

Deadlock is not checked: it computes something and is done.

### Differences between text and code

Three are shown by the runs that find a violation.  Others met while modelling:

* `src/openwrt/iwan.conf.example:19` says scripts are called with the `mtu`; they are
  told the one the server announced (`iwand.c:1007`), also where the interface kept
  the client's own because the announced one is out of range.
* `src/README.md:60` writes a comment after a value; `cfg_load` takes comments only
  at the beginning of a line (`iwand.c:505`), so the comment becomes part of the
  value.
* `src/openwrt/iwan.conf.example:3` says a section header names the interface;
  any line with both brackets counts as one (`iwand.c:478`), a password with brackets
  too.  The LuCI init script refuses such values.
* The comment at `iwand.c:789` says the segment routing key comes "via MD5"; the
  code takes the first 16 bytes as they are (`iwand.c:818`), so after 16 characters
  of password the links do not enter it.
* The warning at `iwand.c:587` says a long password is truncated; the XOR key is
  made of all of it (`iwand.c:774`).
* The comment at `iwand.c:1363` says "drop rather than forward ciphertext"; that is
  so only where SR encryption is configured (`iwand.c:1353`), and of what the packet
  itself declares to be ciphertext.

## 4. What is proved

For any sets of users, remotes, identifiers and addresses that satisfy
`ConfigAssumption` (which states what `Config.validate` guarantees: one address
per user) and `ServerAssumption`:

* `SessionServerProofs!TypeCorrect`: `TypeOK`.
* `SessionServerProofs!MapsAgree` (`IndexesAgree`) and `OneEach`
  (`OneSessionEach`).  Neither is inductive alone: an OPEN keeps the maps in
  agreement only because what it displaces at the user's address is all that is
  there, and removes the right sessions only because the maps agree.  The lemmas
  of `SessionTableProofs` show that installing and removing preserve both
  together.
* `SessionServerProofs!RefinesDirectory`: the server implements
  `SessionDirectory`.  Using `MapsAgree`, an accepted OPEN is `Bind`, a CLOSE is
  `Unbind`, and every other step leaves `Bound` unchanged.

* `SessionServerProofs!RepliesStayRight` (`ReplyStillRight`) and
  `ExitStaysLegit` (`ExitTrafficLegit`), together and from `TypeCorrect` and
  `MapsAgree`: each handler's decision is right when it is taken, because the maps
  agree, and it stays right because no step but another handler's changes a map
  and none runs before the write.
* `SessionServerProofs!SnapshotsForOwner` (`ExitSnapshotForOwner`).  Here maps do
  change before the write; the argument is that a user's address and key never do.

For any timeouts, lag, OPENACKs and set of failing calls that satisfy
`ClientAssumption` and `DaemonAssumption`:

* `ClientDaemonProofs!TypeCorrect`, `DeadlinesKept` (`Deadlines`),
  `FieldsStayFresh` (`SessionFieldsFresh`), `InterfaceFollows`
  (`TunFollowsSession`), `HooksPaired` (`HookFollowsSession`).  The inductive
  invariant is their conjunction, with the fact that what the last up script was
  told is what the session's fields still say.  The deadlines need
  `SessionFieldsFresh`: a tick that finds no socket does nothing and still counts
  as a tick, and only a client that waits for nothing can be without a socket.
* `ClientDaemonProofs!DownMirrorsUp`: the action property `DownToldAsUp`, from the
  same invariant.

For any sets of ports and identifiers, timeouts and bound on datagrams in flight
that satisfy `TunnelAssumption` (enough ports and identifiers that an unused one
is left, which is how the kernel and `crypto/rand` are modelled):

* `TunnelProofs!TypeCorrect`, `BothEndsAgree` (`EndsAgree`) and the action property
  `ClosesHarmless` (`LateCloseHarmless`).  `EndsAgree` says nothing about what is
  under way, so it is not inductive.  The invariant adds: the server's maps agree,
  and its sessions are what `handleOpen` makes of this client's OPEN; every
  OPENACK in flight says what the session it is about says (`AcksRight`); the
  client's session is what such an OPENACK said (`ClientRight`); every CLOSE in
  flight comes from a port the client no longer uses (`ClosesAreOld`).  New ports
  and identifiers are unused because sessions and datagrams are finitely many.

For any number of slots, groups, fragments and lengths that satisfy
`FragAssumption` (a fragment fits its slot: `fraglen` has 11 bits):

* `FragReassemblyProofs!TypeCorrect` (no buffer overrun among it) and
  `GroupsNeverMixed` (`SlotsNotMixed`), inductive together with the fact that a
  slot in use belongs to a group.
* `FragReassemblyProofs!TwoFragmentsRight`: `WritesAreOriginal`, if packets whose
  fragments keep their order come in two at most (`TwoAtMost`); `frag_triples`
  shows that with three it is false.  The invariant adds that between the two
  fragments of such a packet its slot, if it has one, holds the first.  Groups
  whose fragments come in any order and number compete for the slots all the same.

For any addresses, MTUs and wanted names:

* `TunPlatformsProofs!DescriptorsNotLeaked` (`NoLeak`), `InterfaceNamed`
  (`NamesInterface`), `AddressesDoNotPileUp` (`OneAddress`) and `ContractMet`
  (`MeetsContract`), on Linux and on FreeBSD.  The invariant says, for every system
  call of every function, which descriptors are open before it and how far the
  interface has come from what it was when the function was called.

For datagrams of every length, with any numbers of links, algorithms, paddings and
payloads that satisfy `SegmentAssumption` (the widths of the fields):

* `ClientCryptoProofs!PayloadsDelivered` (the action property
  `DeliversPayload`) and `MalformedPacketsHarmless` (`MalformedHarmless`).  All
  they need of the past is that `sr_setup_keys` leaves AES-128 as the only mode a
  client decrypts with (`SrInv`): then a packet that passes the test of `sr_decrypt`
  is whole blocks, and its loop ends where the packet does (`AfterTests`).

For messages of every length, cut into pieces of any lengths, and for every block
and every key of 16 bytes (`CipherAssumption`: bytes are bytes):

* `ClientCryptoProofs!HashesPaddedMessage` (`BlocksArePaddedMessage`).  Between
  calls, says `HashInv`, the context holds the data fed so far (`Holds`): whole
  blocks of it were transformed, and the rest is at the start of the buffer, which
  keeps stale bytes behind it.  `UpdateHolds` shows that `md5_update` goes on from
  there, whether the input fills the buffer or not, and `PaddedHolds` that the two
  calls of `md5_final` end with an empty rest.
* `ClientCryptoProofs!DecryptionUndoesEncryption` (`DecryptUndoes`).  `AesInv` says
  that `trace` is a path of encryption under `rk`, that `dk` is `rk` with its rounds
  reversed, and that decryption has come back to a state of the path (after its
  SubBytes and ShiftRows).  Each round is undone by lemmas of its own: a key added
  twice is gone (`KeyAdded`), `aes_inv_sbox` undoes `aes_sbox` (`SboxInverse`), the
  rows turn back (`ConfusedUndone`), and InvMixColumns undoes MixColumns
  (`InvMixUndoes`).  The last is the product of two polynomials: the macros `mul9`
  to `mul14` are sums of powers of `xtime` (`Powers`), `xtime` is linear
  (`XTLinear`), and of the sixteen sums all but one cancel (`Column0` to
  `Column3`).  Nothing is assumed of the tables: the provers go through them entry
  by entry (`SboxInverse`, `TableHigh`, `TableLow`), and `XtimeCut` shows that the
  macro `xtime`, which does not cut to a byte, agrees with `xtime_table` once its
  result is cut.  That bytes are a group under `^` (`Xor`) follows from the bits of
  nibbles.  The key may be a digest, so `KeyInv` needs the digest to be 16 bytes,
  which needs each of the 64 lines of `md5_transform` to keep words words; that
  the recursive functions of the model exist at all (`Iterates`) and stay in a set
  (`Stays`) is shown by induction over the numbers, in a form that the provers
  take: for a set, from the well-foundedness of `<` (`NatInduct`).

For any configuration of the server, with any number of users and DNS servers, and
any file of the client (`FilesAssumption`):

* `OpenHandshakeProofs!AcceptedIsFit` (`FitForSessions`) and `AcceptedTwice`
  (`SecondPassAgrees`).  `ServerInv` says what `validate` has established of the
  users and DNS servers before the entry it has come to, that its two maps hold
  just the names and addresses of those users, and that after the first pass the
  configuration is valid, which is all the second asks for.  So
  `ConfigAssumption` of the first paragraph is not only an assumption.
* `OpenHandshakeProofs!OpenMeansTheSame` (`OpenUnderstood`), `AckMeansTheSame`
  (`AckUnderstood`) and `SameKeys` (`KeysAgree`).  `ClientInv` bounds every field
  that enters an OPEN (`Fits`), whichever lines were read: a length is one byte and
  counts its own header, and the pipe shares 16 bits with its index.  `WireInv`
  says, for every TLV the reader may have come to, what follows it and what the
  reader has got so far; that a body is read back to what was written is the end
  of a chain of steps, one per TLV, each by `ReadsFirst`: of a body that begins
  with a TLV, that TLV is read and the rest is left.  Such steps take the place of
  an induction over the body.

Only model-checked:

* what must eventually happen (`ShutdownCompletes`, `QuitTerminates`,
  `ReconnectHonoured`, `NeverStuck`, `SilenceEndsSession`, `HalfOpenHeals`,
  `Connects`): TLAPS does not prove liveness under fairness;
* `AgreesWithStandards`: it compares with published results, one by one, and with
  a multiplication in the field of AES that is defined by recursion;
* the three violations.

## 5. What is not modelled

* Echo delays, statistics and logs: nothing depends on them.
* Command line and daemonizing, before the configuration is read.
* Header bytes and lengths of ECHO, CLOSE and DATA: they carry the session's
  identifiers and are accepted or not.
* `parseIPv4Packet` byte by byte: a packet parses or not.
* The server's exit device below read, write and close, and JSON decoding.
* A platform with neither TUN implementation: `tun_open` fails there.  On Linux, a
  name with `%d`, for which the kernel would choose another and `tun_open` not
  notice: interface names are taken to be literal.
* LuCI, init scripts, packaging: they start and stop the daemon.
* A time stamp of 0 in the first two seconds after boot, when it is not yet old.

## 6. Plan

Done, in this order: `SessionTable`, `SessionServer` and their refinement;
`IwanClient` and `ClientDaemon`; `Tunnel`; `FragReassembly`; the TUN contract and
its two implementations; start-up and the OPEN handshake; segment routing; MD5
and AES; the server's configuration; the proofs about the server, the daemon, the
tunnel, fragments, the TUN functions, segment routing, the handshake, MD5 and AES.

Left to prove: that the start-up actions of `ClientConfig` never go on after a
failed stage, as a theorem of its own; the refinement of `SessionDirectory` by the
server of `Tunnel`.
