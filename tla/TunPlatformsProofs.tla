------------------------- MODULE TunPlatformsProofs -------------------------
(***************************************************************************)
(* Theorems about TunPlatforms for any names, addresses and MTUs and any   *)
(* set of failing system calls: what the functions of tun.h leave behind.  *)
(***************************************************************************)
EXTENDS TunPlatforms, SequenceTheorems, TLAPS

Names == Wanted \cup Units \cup {Unset}

Interface ==
    [name : Names, addrs : Seq(IPs), mtu : Mtus \cup {KernelMtu}, up : BOOLEAN]

Typed ==
    /\ ifc \in Interface /\ before \in Interface /\ dev \in Names
    /\ platform \in {"Linux", "FreeBSD"} /\ clearFailed \in BOOLEAN
    /\ op \in {"none", "open", "set_ip", "set_mtu", "clear"}
    /\ op \in {"none", "open"} => ifc.addrs = <<>>

(* The system calls of tun_open, and the descriptors it has when it makes  *)
(* them.                                                                   *)
OpenInv ==
    /\ op = "none" => pc = "idle" /\ fds = {}
    /\ op = "open" =>
          /\ \/ pc \in {"open", "open_unit"} /\ fds = {}
             \/ pc \in {"TUNSETIFF", "TUNSLMODE", "TUNSIFHEAD", "TUNSIFMODE", "TUNGIFNAME",
                        "rename_socket"} /\ fds = {"tun"}
             \/ pc = "SIOCSIFNAME" /\ fds = {"tun", "sock"}
             \/ pc = "idle" /\ result = "fail" /\ fds = {}
             \/ pc = "idle" /\ result = "ok" /\ fds = {"tun"} /\ dev = ifc.name
          /\ pc \notin {"open", "open_unit", "idle"} =>
                (platform = "Linux" <=> pc = "TUNSETIFF")

(* The three other functions have a socket except at their first call.     *)
SocketInv ==
    op \in {"set_ip", "set_mtu", "clear"} =>
        /\ fds = IF pc \in {"socket", "idle"} THEN {"tun"} ELSE {"tun", "sock"}
        /\ dev = ifc.name
        /\ pc = "idle" => result \in {"ok", "fail"}

(* tun_set_ip: what it has done to the interface at each call.  The second *)
(* part is about an interface whose old address, if any, is replaced.      *)
SetIpInv ==
    op = "set_ip" =>
        /\ arg \in IPs /\ ifc.mtu = before.mtu
        /\ pc \in {"socket", "SIOCSIFADDR", "SIOCSIFNETMASK", "SIOCAIFADDR", "SIOCDIFADDR",
                   "add_again", "SIOCGIFFLAGS", "SIOCSIFFLAGS", "idle"}
        /\ platform = "FreeBSD" => pc \notin {"SIOCSIFADDR", "SIOCSIFNETMASK"}
        /\ platform = "FreeBSD" /\ ~clearFailed => before.addrs = <<>>
        /\ pc # "idle" => ifc.up = before.up
        /\ platform = "Linux" \/ before.addrs = <<>> =>
              /\ pc # "add_again"
              /\ pc \in {"socket", "SIOCSIFADDR", "SIOCAIFADDR", "SIOCDIFADDR"} =>
                    ifc.addrs = before.addrs
              /\ pc \in {"SIOCSIFNETMASK", "SIOCGIFFLAGS", "SIOCSIFFLAGS"} =>
                    ifc.addrs = <<arg>>
              /\ pc = "idle" /\ result = "ok" => ifc.addrs = <<arg>> /\ ifc.up = TRUE
              /\ pc = "idle" /\ result = "fail" =>
                    ifc.addrs \in {before.addrs, <<arg>>} /\ ifc.up = before.up

SetMtuInv ==
    op = "set_mtu" =>
        /\ arg \in Mtus
        /\ ifc.addrs = before.addrs /\ ifc.up = before.up
        /\ pc \in {"socket", "SIOCSIFMTU", "idle"}
        /\ ifc.mtu = IF pc = "idle" /\ result = "ok" THEN arg ELSE before.mtu
        /\ platform = "FreeBSD" /\ ~clearFailed => Len(before.addrs) <= 1

ClearInv ==
    op = "clear" =>
        /\ ifc.mtu = before.mtu
        /\ pc \in {"socket", "SIOCSIFADDR", "SIOCGIFADDR", "SIOCGIFFLAGS", "SIOCSIFFLAGS",
                   "idle"}
        /\ ifc.up \in {before.up, FALSE}
        /\ platform = "Linux" \/ Len(before.addrs) <= 1 =>
              ifc.addrs \in {before.addrs, <<>>}
        /\ pc \in {"socket", "SIOCGIFADDR"} => ifc.addrs = before.addrs
        /\ platform = "FreeBSD" /\ ~clearFailed =>
              /\ Len(before.addrs) <= 1
              /\ pc \in {"SIOCGIFFLAGS", "SIOCSIFFLAGS", "idle"} => ifc.addrs = <<>>

(* The inductive invariant: at every system call, which descriptors are    *)
(* open and what has been done to the interface since the function began.  *)
IInv == Typed /\ OpenInv /\ SocketInv /\ SetIpInv /\ SetMtuInv /\ ClearInv

LEMMA NoInterfaceType == NoInterface \in Interface /\ NoInterface.addrs = <<>>
  BY EmptySeq DEF NoInterface, Interface, Names

LEMMA InitIInv == Init => IInv
  <1> SUFFICES ASSUME Init PROVE IInv
    OBVIOUS
  <1>1. /\ platform \in {"Linux", "FreeBSD"} /\ clearFailed = FALSE
        /\ pc = "idle" /\ op = "none" /\ fds = {} /\ dev \in Wanted
        /\ ifc = NoInterface /\ before = NoInterface
    BY DEF Init, FreeBSD!Init, FreeBSD!CallsInit, FreeBSD!NoInterface, NoInterface
  <1>2. Typed
    BY <1>1, NoInterfaceType DEF Typed, Names
  <1> QED BY <1>1, <1>2 DEF IInv, OpenInv, SocketInv, SetIpInv, SetMtuInv, ClearInv

(* An interface one of whose fields was set: the other fields are as they  *)
(* were.                                                                   *)
LEMMA NameSet ==
    ASSUME NEW i \in Interface, NEW n \in Names, NEW j, j = [i EXCEPT !.name = n]
    PROVE  /\ j \in Interface /\ j.name = n /\ j.addrs = i.addrs
           /\ j.mtu = i.mtu /\ j.up = i.up
  BY DEF Interface

LEMMA AddrsSet ==
    ASSUME NEW i \in Interface, NEW a \in Seq(IPs), NEW j, j = [i EXCEPT !.addrs = a]
    PROVE  /\ j \in Interface /\ j.name = i.name /\ j.addrs = a
           /\ j.mtu = i.mtu /\ j.up = i.up
  BY DEF Interface

LEMMA MtuSet ==
    ASSUME NEW i \in Interface, NEW m \in Mtus, NEW j, j = [i EXCEPT !.mtu = m]
    PROVE  /\ j \in Interface /\ j.name = i.name /\ j.addrs = i.addrs
           /\ j.mtu = m /\ j.up = i.up
  BY DEF Interface

LEMMA UpSet ==
    ASSUME NEW i \in Interface, NEW u \in BOOLEAN, NEW j, j = [i EXCEPT !.up = u]
    PROVE  /\ j \in Interface /\ j.name = i.name /\ j.addrs = i.addrs
           /\ j.mtu = i.mtu /\ j.up = u
  BY DEF Interface

-----------------------------------------------------------------------------
(* The daemon calls a function. *)
LEMMA BeginStep ==
    ASSUME IInv, CallOpen("open") \/ CallSetIp \/ CallSetMtu \/ CallClear,
           UNCHANGED <<platform, clearFailed>>
    PROVE  IInv'
  <1>1. /\ pc = "idle" /\ before' = ifc /\ UNCHANGED <<fds, dev, ifc>>
        /\ Typed
    BY DEF IInv, CallOpen, CallSetIp, CallSetMtu, CallClear, Begin
  <1>2. CASE CallOpen("open")
    BY <1>1, <1>2 DEF IInv, CallOpen, Begin, Typed, OpenInv, SocketInv, SetIpInv,
                      SetMtuInv, ClearInv
  <1>3. CASE CallSetIp \/ CallSetMtu \/ CallClear
    <2>1. /\ pc' \in {"socket"} /\ op' \in {"set_ip", "set_mtu", "clear"}
          /\ op' = "set_ip" => arg' \in IPs /\ op \in {"open", "clear"}
          /\ op' = "set_mtu" => arg' \in Mtus /\ op = "set_ip" /\ result = "ok"
          /\ "tun" \in fds \/ (op = "set_ip" /\ result = "ok")
      BY <1>3 DEF CallSetIp, CallSetMtu, CallClear, Begin
    <2>2. fds = {"tun"} /\ dev = ifc.name
      BY <1>1, <2>1 DEF IInv, OpenInv, SocketInv, Typed
    <2>3. platform = "FreeBSD" /\ ~clearFailed =>
             /\ op \in {"open", "clear"} => ifc.addrs = <<>>
             /\ Len(ifc.addrs) <= 1
      <3>1. \A a : <<>> \in Seq({a}) /\ Len(<<>>) <= 1 /\ Len(<<a>>) <= 1
        BY EmptySeq
      <3>2. CASE op \in {"none", "open"}
        BY <3>1, <3>2 DEF IInv, Typed
      <3>3. CASE op = "clear"
        BY <1>1, <3>1, <3>3 DEF IInv, ClearInv
      <3>4. CASE op = "set_mtu"
        BY <1>1, <3>4 DEF IInv, SetMtuInv
      <3>5. CASE op = "set_ip"
        <4>1. result \in {"ok", "fail"}
          BY <1>1, <3>5 DEF IInv, SocketInv
        <4>2. platform = "FreeBSD" /\ ~clearFailed => ifc.addrs \in {<<>>, <<arg>>}
          BY <1>1, <3>5, <4>1 DEF IInv, SetIpInv
        <4> QED BY <3>1, <3>5, <4>2
      <3> QED BY <1>1, <3>2, <3>3, <3>4, <3>5 DEF Typed
    <2>4. Typed' /\ OpenInv' /\ SocketInv'
      BY <1>1, <2>1, <2>2 DEF Typed, OpenInv, SocketInv
    <2>5. SetIpInv' /\ SetMtuInv' /\ ClearInv'
      BY <1>1, <2>1, <2>2, <2>3 DEF Typed, SetIpInv, SetMtuInv, ClearInv
    <2> QED BY <2>4, <2>5 DEF IInv
  <1> QED BY <1>2, <1>3

(* The socket of the three functions *)
LEMMA SocketStep ==
    ASSUME IInv, NEW syscall, Socket(syscall), platform' = platform,
           op = "none" \/ op = "open" => pc # "socket",
           op = "set_ip" => syscall = IF platform = "Linux" THEN "SIOCSIFADDR"
                                      ELSE "SIOCAIFADDR",
           op = "set_mtu" => syscall = "SIOCSIFMTU",
           op = "clear" => syscall = IF platform = "Linux" THEN "SIOCSIFADDR"
                                     ELSE "SIOCGIFADDR",
           clearFailed' \in BOOLEAN, clearFailed => clearFailed',
           platform = "FreeBSD" /\ op = "clear" /\ pc' = "idle" => clearFailed'
    PROVE  IInv'
  <1>1. /\ pc = "socket" /\ UNCHANGED <<op, arg, before, dev, ifc>>
        /\ \/ pc' = syscall /\ fds' = fds \cup {"sock"} /\ result' = result
           \/ pc' = "idle" /\ result' = "fail" /\ fds' = fds \ {"sock"}
    BY DEF Socket, Goto, Return, Fails, call
  <1>2. op \in {"set_ip", "set_mtu", "clear"} /\ fds = {"tun"}
    BY <1>1 DEF IInv, Typed, SocketInv
  <1>3. Typed' /\ OpenInv'
    BY <1>1, <1>2 DEF IInv, Typed, OpenInv
  <1>4. SocketInv'
    BY <1>1, <1>2 DEF IInv, Typed, SocketInv
  <1>5. SetIpInv'
    BY <1>1, <1>2 DEF IInv, Typed, SetIpInv
  <1>6. SetMtuInv'
    BY <1>1, <1>2 DEF IInv, Typed, SetMtuInv
  <1>7. ClearInv'
    BY <1>1, <1>2 DEF IInv, Typed, ClearInv
  <1> QED BY <1>3, <1>4, <1>5, <1>6, <1>7 DEF IInv

(* The end of tun_set_ip, and tun_set_mtu *)
LEMMA BringUpStep ==
    ASSUME IInv, BringUp, UNCHANGED <<platform, clearFailed>>
    PROVE  IInv'
  <1>1. /\ op = "set_ip" /\ pc \in {"SIOCGIFFLAGS", "SIOCSIFFLAGS"}
        /\ UNCHANGED <<op, arg, before, dev>>
        /\ \/ /\ pc' = "SIOCSIFFLAGS" /\ UNCHANGED <<fds, ifc, result>>
           \/ /\ pc' = "idle" /\ result' = "ok" /\ fds' = fds \ {"sock"}
              /\ ifc' = [ifc EXCEPT !.up = TRUE]
           \/ /\ pc' = "idle" /\ result' = "fail" /\ fds' = fds \ {"sock"} /\ ifc' = ifc
    BY DEF BringUp, Goto, Return, Fails, call
  <1>2. fds = {"tun", "sock"} /\ ifc \in Interface
    BY <1>1 DEF IInv, SocketInv, Typed
  <1>3. /\ ifc' \in Interface /\ ifc'.name = ifc.name /\ ifc'.addrs = ifc.addrs
        /\ ifc'.mtu = ifc.mtu
        /\ ifc'.up = IF pc' = "idle" /\ result' = "ok" THEN TRUE ELSE ifc.up
    BY <1>1, <1>2, UpSet
  <1>4. Typed' /\ OpenInv' /\ SocketInv' /\ SetMtuInv' /\ ClearInv'
    BY <1>1, <1>2, <1>3 DEF IInv, Typed, OpenInv, SocketInv, SetMtuInv, ClearInv
  <1>5. SetIpInv'
    BY <1>1, <1>3 DEF IInv, SetIpInv
  <1> QED BY <1>4, <1>5 DEF IInv

LEMMA SetMtuStep ==
    ASSUME IInv, SetMtu, UNCHANGED <<platform, clearFailed>>
    PROVE  IInv'
  <1>1. /\ pc = "SIOCSIFMTU" /\ pc' = "idle" /\ fds' = fds \ {"sock"}
        /\ UNCHANGED <<op, arg, before, dev>>
        /\ \/ result' = "ok" /\ ifc' = [ifc EXCEPT !.mtu = arg]
           \/ result' = "fail" /\ ifc' = ifc
    BY DEF SetMtu, Return, Fails, call
  <1>2. op = "set_mtu"
    BY <1>1 DEF IInv, Typed, OpenInv, SetIpInv, ClearInv
  <1>3. fds = {"tun", "sock"} /\ ifc \in Interface /\ arg \in Mtus
    BY <1>1, <1>2 DEF IInv, SocketInv, Typed, SetMtuInv
  <1>4. /\ ifc' \in Interface /\ ifc'.name = ifc.name /\ ifc'.addrs = ifc.addrs
        /\ ifc'.up = ifc.up /\ ifc'.mtu = IF result' = "ok" THEN arg ELSE ifc.mtu
    BY <1>1, <1>3, MtuSet
  <1>5. Typed' /\ OpenInv' /\ SocketInv' /\ SetIpInv' /\ ClearInv'
    BY <1>1, <1>2, <1>3, <1>4 DEF IInv, Typed, OpenInv, SocketInv, SetIpInv, ClearInv
  <1>6. SetMtuInv'
    BY <1>1, <1>2, <1>3, <1>4 DEF IInv, SetMtuInv
  <1> QED BY <1>5, <1>6 DEF IInv

-----------------------------------------------------------------------------
(* Linux *)

LEMMA LinuxOpenStep ==
    ASSUME IInv, platform = "Linux", Linux!OpenDevice \/ Linux!SetIff,
           UNCHANGED <<platform, clearFailed>>
    PROVE  IInv'
  <1>1. /\ UNCHANGED <<op, arg, before, dev>>
        /\ \/ pc = "open" /\ pc' = "TUNSETIFF" /\ fds' = {"tun"} /\ ifc' = ifc
           \/ /\ pc = "open" /\ pc' = "idle" /\ result' = "fail" /\ fds' = fds \ {"sock"}
              /\ ifc' = ifc
           \/ /\ pc = "TUNSETIFF" /\ pc' = "idle" /\ result' = "ok" /\ fds' = fds
              /\ ifc' = [ifc EXCEPT !.name = dev]
           \/ /\ pc = "TUNSETIFF" /\ pc' = "idle" /\ result' = "fail" /\ fds' = {}
              /\ ifc' = ifc
    BY DEF Linux!OpenDevice, Linux!SetIff, Linux!Goto, Linux!Return, Linux!Fails, Linux!call
  <1>2. op = "open" /\ ifc \in Interface /\ dev \in Names /\ ifc.addrs = <<>>
    BY <1>1 DEF IInv, Typed, OpenInv, SetIpInv, SetMtuInv, ClearInv
  <1>3. /\ ifc' \in Interface /\ ifc'.addrs = <<>>
        /\ pc = "TUNSETIFF" /\ result' = "ok" => ifc'.name = dev
    BY <1>1, <1>2, NameSet
  <1>4. OpenInv'
    BY <1>1, <1>2, <1>3 DEF IInv, OpenInv
  <1> QED BY <1>1, <1>2, <1>3, <1>4
          DEF IInv, Typed, SocketInv, SetIpInv, SetMtuInv, ClearInv

LEMMA LinuxSetIpStep ==
    ASSUME IInv, platform = "Linux", Linux!SetIp, UNCHANGED <<platform, clearFailed>>
    PROVE  IInv'
  <1>1. /\ op = "set_ip" /\ UNCHANGED <<op, arg, before, dev>>
        /\ \/ /\ pc = "SIOCSIFADDR" /\ pc' = "SIOCSIFNETMASK" /\ UNCHANGED <<fds, result>>
              /\ ifc' = [ifc EXCEPT !.addrs = <<arg>>]
           \/ /\ pc = "SIOCSIFNETMASK" /\ pc' = "SIOCGIFFLAGS"
              /\ UNCHANGED <<fds, result, ifc>>
           \/ /\ pc \in {"SIOCSIFADDR", "SIOCSIFNETMASK"} /\ pc' = "idle"
              /\ result' = "fail" /\ fds' = fds \ {"sock"} /\ ifc' = ifc
    BY DEF Linux!SetIp, Linux!Goto, Linux!Return, Linux!Fails, Linux!call
  <1>2. fds = {"tun", "sock"} /\ ifc \in Interface /\ <<arg>> \in Seq(IPs)
    BY <1>1 DEF IInv, SocketInv, SetIpInv, Typed
  <1>3. /\ ifc' \in Interface /\ ifc'.name = ifc.name /\ ifc'.mtu = ifc.mtu
        /\ ifc'.up = ifc.up
        /\ ifc'.addrs = IF pc' = "SIOCSIFNETMASK" THEN <<arg>> ELSE ifc.addrs
    <2>1. CASE pc' = "SIOCSIFNETMASK"
      <3> DEFINE a == <<arg>>
      <3>1. ifc' = [ifc EXCEPT !.addrs = a] /\ a \in Seq(IPs)
        BY <1>1, <1>2, <2>1
      <3> HIDE DEF a
      <3>2. /\ ifc' \in Interface /\ ifc'.name = ifc.name /\ ifc'.mtu = ifc.mtu
            /\ ifc'.up = ifc.up /\ ifc'.addrs = a
        BY <1>2, <3>1, AddrsSet
      <3> QED BY <2>1, <3>2 DEF a
    <2>2. CASE pc' # "SIOCSIFNETMASK"
      BY <1>1, <1>2, <2>2
    <2> QED BY <2>1, <2>2
  <1>4. Typed' /\ OpenInv' /\ SocketInv' /\ SetMtuInv' /\ ClearInv'
    BY <1>1, <1>2, <1>3 DEF IInv, Typed, OpenInv, SocketInv, SetMtuInv, ClearInv
  <1>5. SetIpInv'
    BY <1>1, <1>3 DEF IInv, SetIpInv
  <1> QED BY <1>4, <1>5 DEF IInv

LEMMA LinuxClearStep ==
    ASSUME IInv, platform = "Linux", Linux!Clear, UNCHANGED <<platform, clearFailed>>
    PROVE  IInv'
  <1>1. /\ op = "clear" /\ UNCHANGED <<op, arg, before, dev>>
        /\ \/ /\ pc = "SIOCSIFADDR" /\ pc' = "SIOCGIFFLAGS" /\ UNCHANGED <<fds, result>>
              /\ ifc' = [ifc EXCEPT !.addrs = <<>>] \/ ifc' = ifc
           \/ /\ pc = "SIOCGIFFLAGS" /\ pc' = "SIOCSIFFLAGS"
              /\ UNCHANGED <<fds, result, ifc>>
           \/ /\ pc = "SIOCSIFFLAGS" /\ pc' = "idle" /\ result' = "ok"
              /\ fds' = fds \ {"sock"}
              /\ ifc' = [ifc EXCEPT !.up = FALSE] \/ ifc' = ifc
    BY DEF Linux!Clear, Linux!Goto, Linux!Return, Linux!Fails, Linux!call
  <1>2. fds = {"tun", "sock"} /\ ifc \in Interface /\ <<>> \in Seq(IPs)
    BY <1>1, EmptySeq DEF IInv, SocketInv, Typed
  <1>3. /\ ifc' \in Interface /\ ifc'.name = ifc.name /\ ifc'.mtu = ifc.mtu
        /\ ifc'.addrs \in {ifc.addrs, <<>>} /\ ifc'.up \in {ifc.up, FALSE}
    <2>1. CASE ifc' = [ifc EXCEPT !.addrs = <<>>]
      <3> DEFINE a == <<>>
      <3>1. ifc \in Interface /\ a \in Seq(IPs) /\ ifc' = [ifc EXCEPT !.addrs = a]
        BY <1>2, <2>1
      <3> HIDE DEF a
      <3>2. /\ ifc' \in Interface /\ ifc'.name = ifc.name /\ ifc'.addrs = a
            /\ ifc'.mtu = ifc.mtu /\ ifc'.up = ifc.up
        BY <3>1, AddrsSet
      <3> QED BY <3>2, Zenon DEF a
    <2>2. CASE ifc' = [ifc EXCEPT !.up = FALSE]
      BY <1>2, <2>2, UpSet
    <2> QED BY <1>1, <1>2, <2>1, <2>2
  <1>4. Typed' /\ OpenInv' /\ SocketInv' /\ SetMtuInv' /\ SetIpInv'
    BY <1>1, <1>2, <1>3 DEF IInv, Typed, OpenInv, SocketInv, SetMtuInv, SetIpInv
  <1>5. ClearInv'
    BY <1>1, <1>3 DEF IInv, ClearInv
  <1> QED BY <1>4, <1>5 DEF IInv

LEMMA LinuxStep ==
    ASSUME IInv, platform = "Linux", Linux!Next, UNCHANGED <<platform, clearFailed>>
    PROVE  IInv'
  <1>1. CASE Linux!CallOpen("open") \/ Linux!CallSetIp \/ Linux!CallSetMtu \/ Linux!CallClear
    <2>1. CallOpen("open") \/ CallSetIp \/ CallSetMtu \/ CallClear
      BY <1>1 DEF Linux!CallOpen, Linux!CallSetIp, Linux!CallSetMtu, Linux!CallClear,
                  Linux!Begin, CallOpen, CallSetIp, CallSetMtu, CallClear, Begin
    <2> QED BY <2>1, BeginStep
  <1>2. CASE Linux!Socket(IF op = "set_mtu" THEN "SIOCSIFMTU" ELSE "SIOCSIFADDR")
    <2>1. Socket(IF op = "set_mtu" THEN "SIOCSIFMTU" ELSE "SIOCSIFADDR")
      BY <1>2 DEF Linux!Socket, Linux!Goto, Linux!Return, Linux!Fails, Linux!call,
                  Socket, Goto, Return, Fails, call
    <2>2. op = "none" \/ op = "open" => pc # "socket"
      BY DEF IInv, OpenInv
    <2>3. clearFailed' \in BOOLEAN
      BY DEF IInv, Typed
    <2> QED BY <2>1, <2>2, <2>3, SocketStep
  <1>3. CASE Linux!BringUp
    <2>1. BringUp
      BY <1>3 DEF Linux!BringUp, Linux!Goto, Linux!Return, Linux!Fails, Linux!call,
                  BringUp, Goto, Return, Fails, call
    <2> QED BY <2>1, BringUpStep
  <1>4. CASE Linux!SetMtu
    <2>1. SetMtu
      BY <1>4 DEF Linux!SetMtu, Linux!Return, Linux!Fails, Linux!call,
                  SetMtu, Return, Fails, call
    <2> QED BY <2>1, SetMtuStep
  <1> QED BY <1>1, <1>2, <1>3, <1>4, LinuxOpenStep, LinuxSetIpStep, LinuxClearStep
          DEF Linux!Next

-----------------------------------------------------------------------------
(* FreeBSD *)

(* tun_open: whatever it does, addresses come later. *)
LEMMA FreeBSDOpenStep ==
    ASSUME IInv, platform = "FreeBSD", platform' = platform,
           \/ FreeBSD!OpenClone \/ FreeBSD!OpenUnit \/ FreeBSD!SetMode
           \/ FreeBSD!GetName \/ FreeBSD!Rename
    PROVE  IInv'
  <1> DEFINE modes == {"TUNSLMODE", "TUNSIFHEAD", "TUNSIFMODE"}
  <1>1. /\ UNCHANGED <<op, arg, before, clearFailed>>
        /\ pc \in {"open", "open_unit", "TUNGIFNAME", "rename_socket", "SIOCSIFNAME"}
                     \cup modes
        /\ \/ /\ pc \in {"open", "open_unit"} /\ pc' = "TUNSLMODE" /\ fds' = {"tun"}
              /\ dev' = dev /\ \E n \in Units \cup {dev} : ifc' = [ifc EXCEPT !.name = n]
           \/ pc = "open" /\ pc' = "open_unit" /\ UNCHANGED <<fds, ifc, dev>>
           \/ /\ pc \in {"open", "open_unit"} /\ pc' = "idle" /\ result' = "fail"
              /\ fds' = fds \ {"sock"} /\ UNCHANGED <<ifc, dev>>
           \/ /\ pc \in modes \cup {"TUNGIFNAME"} /\ pc' = "idle" /\ result' = "fail"
              /\ fds' = {} /\ ifc' = NoInterface /\ dev' = dev
           \/ /\ pc \in modes /\ pc' \in {"TUNSIFHEAD", "TUNSIFMODE", "TUNGIFNAME"}
              /\ UNCHANGED <<fds, ifc, dev>>
           \/ /\ pc = "TUNGIFNAME" /\ pc' = "rename_socket" /\ UNCHANGED <<fds, ifc, dev>>
           \/ /\ pc = "TUNGIFNAME" /\ pc' = "idle" /\ result' = "ok" /\ ifc.name = dev
              /\ fds' = fds \ {"sock"} /\ UNCHANGED <<ifc, dev>>
           \/ /\ pc = "rename_socket" /\ pc' = "SIOCSIFNAME" /\ fds' = fds \cup {"sock"}
              /\ UNCHANGED <<ifc, dev>>
           \/ /\ pc = "SIOCSIFNAME" /\ pc' = "idle" /\ result' = "ok"
              /\ fds' = fds \ {"sock"} /\ ifc' = [ifc EXCEPT !.name = dev] /\ dev' = dev
           \/ /\ pc \in {"rename_socket", "SIOCSIFNAME"} /\ pc' = "idle" /\ result' = "ok"
              /\ fds' = fds \ {"sock"} /\ ifc' = ifc /\ dev' = ifc.name
    <2> USE DEF FreeBSD!Goto, FreeBSD!Return, FreeBSD!Fails, FreeBSD!call
    <2>1. CASE FreeBSD!OpenClone
      BY <2>1 DEF FreeBSD!OpenClone
    <2>2. CASE FreeBSD!OpenUnit
      BY <2>2 DEF FreeBSD!OpenUnit
    <2>3. CASE FreeBSD!SetMode
      BY <2>3 DEF FreeBSD!SetMode, FreeBSD!AfterMode, FreeBSD!NoInterface, NoInterface
    <2>4. CASE FreeBSD!GetName
      BY <2>4 DEF FreeBSD!GetName, FreeBSD!NoInterface, NoInterface
    <2>5. CASE FreeBSD!Rename
      BY <2>5 DEF FreeBSD!Rename
    <2> QED BY <2>1, <2>2, <2>3, <2>4, <2>5
  <1>2. op = "open"
    BY <1>1 DEF IInv, Typed, OpenInv, SetIpInv, SetMtuInv, ClearInv
  <1>3. ifc \in Interface /\ dev \in Names /\ ifc.addrs = <<>> /\ ifc.name \in Names
    BY <1>2 DEF IInv, Typed, Interface
  <1>4. ifc' \in Interface /\ ifc'.addrs = <<>> /\ dev' \in Names
    <2>1. ASSUME NEW n \in Units \cup {dev}, ifc' = [ifc EXCEPT !.name = n]
          PROVE  ifc' \in Interface /\ ifc'.addrs = <<>> /\ ifc'.name = n
      BY <1>3, <2>1, NameSet DEF Names
    <2>2. dev' \in Names
      BY <1>1, <1>3
    <2>3. CASE ifc' = ifc
      BY <1>1, <1>3, <2>2, <2>3
    <2>4. CASE ifc' = NoInterface
      BY <1>1, <2>2, <2>4, NoInterfaceType
    <2>5. CASE \E n \in Units \cup {dev} : ifc' = [ifc EXCEPT !.name = n]
      BY <1>1, <2>1, <2>2, <2>5
    <2>6. CASE ifc' = [ifc EXCEPT !.name = dev] /\ dev' = dev
      BY <2>1, <2>2, <2>6
    <2> QED BY <1>1, <2>3, <2>4, <2>5, <2>6
  <1>5. pc' = "idle" /\ result' = "ok" => dev' = ifc'.name
    <2>1. ASSUME ifc' = [ifc EXCEPT !.name = dev] PROVE ifc'.name = dev
      BY <1>3, <2>1, NameSet
    <2> QED BY <1>1, <2>1
  <1>6. OpenInv'
    BY <1>1, <1>2, <1>4, <1>5 DEF IInv, OpenInv
  <1> QED BY <1>1, <1>2, <1>4, <1>6
          DEF IInv, Typed, SocketInv, SetIpInv, SetMtuInv, ClearInv

(* The address lists that SIOCAIFADDR and SIOCDIFADDR leave *)
LEMMA AddressLists ==
    ASSUME ifc \in Interface, arg \in IPs
    PROVE  /\ FreeBSD!Added \in Seq(IPs)
           /\ FreeBSD!Has(arg) => FreeBSD!Without(ifc.addrs, arg) \in Seq(IPs)
           /\ ifc.addrs = <<>> => FreeBSD!Added = <<arg>> /\ ~FreeBSD!Has(arg)
  <1> DEFINE a == ifc.addrs
  <1>1. a \in Seq(IPs) /\ Len(a) \in Nat
    BY LenProperties DEF Interface
  <1>2. FreeBSD!Added \in Seq(IPs)
    BY <1>1 DEF FreeBSD!Added
  <1>3. ASSUME FreeBSD!Has(arg)
        PROVE  FreeBSD!Without(a, arg) \in Seq(IPs)
    <2> DEFINE i == CHOOSE j \in 1..Len(a) : a[j] = arg
    <2>1. i \in 1..Len(a)
      BY <1>3 DEF FreeBSD!Has
    <2> HIDE DEF i
    <2>2. i \in Int /\ i - 1 \in Int /\ i + 1 \in Int /\ Len(a) \in Int
          /\ 1..(i - 1) \subseteq 1..Len(a) /\ (i + 1)..Len(a) \subseteq 1..Len(a)
      BY <1>1, <2>1
    <2>3. \A k \in 1..Len(a) : a[k] \in IPs
      BY <1>1, ElementOfSeq
    <2> HIDE DEF a
    <2>4. SubSeq(a, 1, i - 1) \in Seq(IPs)
      BY <2>2, <2>3, SubSeqProperties
    <2>5. SubSeq(a, i + 1, Len(a)) \in Seq(IPs)
      BY <2>2, <2>3, SubSeqProperties
    <2>6. SubSeq(a, 1, i - 1) \o SubSeq(a, i + 1, Len(a)) \in Seq(IPs)
      BY <2>4, <2>5, ConcatProperties
    <2> QED BY <2>6 DEF FreeBSD!Without, i
  <1>4. ASSUME a = <<>>
        PROVE  FreeBSD!Added = <<arg>> /\ ~FreeBSD!Has(arg)
    <2>1. Len(a) = 0
      BY <1>4, EmptySeq
    <2>2. ~FreeBSD!Has(arg)
      BY <2>1 DEF FreeBSD!Has
    <2> QED BY <1>4, <2>2 DEF FreeBSD!Added
  <1> QED BY <1>2, <1>3, <1>4

LEMMA FreeBSDSetIpStep ==
    ASSUME IInv, platform = "FreeBSD", platform' = platform, FreeBSD!SetIp
    PROVE  IInv'
  <1>1. /\ op = "set_ip" /\ UNCHANGED <<op, arg, before, dev, clearFailed>>
        /\ \/ /\ pc \in {"SIOCAIFADDR", "add_again"} /\ pc' = "SIOCGIFFLAGS"
              /\ UNCHANGED <<fds, result>> /\ ifc' = [ifc EXCEPT !.addrs = FreeBSD!Added]
           \/ /\ pc = "SIOCAIFADDR" /\ pc' = "SIOCDIFADDR" /\ UNCHANGED <<fds, result, ifc>>
           \/ /\ pc = "SIOCDIFADDR" /\ FreeBSD!Has(arg) /\ pc' = "add_again"
              /\ UNCHANGED <<fds, result>>
              /\ ifc' = [ifc EXCEPT !.addrs = FreeBSD!Without(ifc.addrs, arg)]
           \/ /\ pc \in {"SIOCAIFADDR", "add_again", "SIOCDIFADDR"} /\ pc' = "idle"
              /\ result' = "fail" /\ fds' = fds \ {"sock"} /\ ifc' = ifc
    BY DEF FreeBSD!SetIp, FreeBSD!Goto, FreeBSD!Return, FreeBSD!Fails, FreeBSD!call
  <1>2. fds = {"tun", "sock"} /\ ifc \in Interface /\ arg \in IPs
    BY <1>1 DEF IInv, SocketInv, SetIpInv, Typed
  <1>3. /\ ifc' \in Interface /\ ifc'.name = ifc.name /\ ifc'.mtu = ifc.mtu
        /\ ifc'.up = ifc.up
        /\ ifc.addrs = <<>> => /\ pc' # "add_again"
                               /\ ifc'.addrs = IF pc' = "SIOCGIFFLAGS" THEN <<arg>> ELSE <<>>
    <2>1. CASE pc' = "SIOCGIFFLAGS"
      <3>1. FreeBSD!Added \in Seq(IPs) /\ (ifc.addrs = <<>> => FreeBSD!Added = <<arg>>)
        BY <1>2, AddressLists
      <3>2. ifc' = [ifc EXCEPT !.addrs = FreeBSD!Added]
        BY <1>1, <2>1
      <3> QED BY <1>2, <2>1, <3>1, <3>2, AddrsSet
    <2>2. CASE pc' = "add_again"
      <3>1. FreeBSD!Without(ifc.addrs, arg) \in Seq(IPs) /\ ifc.addrs # <<>>
        BY <1>1, <1>2, <2>2, AddressLists
      <3>2. ifc' = [ifc EXCEPT !.addrs = FreeBSD!Without(ifc.addrs, arg)]
        BY <1>1, <2>2
      <3> QED BY <1>2, <3>1, <3>2, AddrsSet
    <2>3. CASE pc' \notin {"SIOCGIFFLAGS", "add_again"}
      BY <1>1, <1>2, <2>3
    <2> QED BY <2>1, <2>2, <2>3
  <1>4. Typed' /\ OpenInv' /\ SocketInv' /\ SetMtuInv' /\ ClearInv'
    BY <1>1, <1>2, <1>3 DEF IInv, Typed, OpenInv, SocketInv, SetMtuInv, ClearInv
  <1>5. SetIpInv'
    BY <1>1, <1>3 DEF IInv, SetIpInv
  <1> QED BY <1>4, <1>5 DEF IInv

LEMMA FreeBSDClearAddressStep ==
    ASSUME IInv, platform = "FreeBSD", platform' = platform, FreeBSD!ClearAddress
    PROVE  IInv'
  <1> DEFINE rest == IF ifc.addrs = <<>> THEN ifc.addrs ELSE Tail(ifc.addrs)
  <1>1. /\ op = "clear" /\ UNCHANGED <<op, arg, before, dev, fds, result>>
        /\ pc = "SIOCGIFADDR" /\ pc' = "SIOCGIFFLAGS"
        /\ \/ ifc' = [ifc EXCEPT !.addrs = rest] /\ clearFailed' = clearFailed
           \/ ifc' = ifc /\ clearFailed' = TRUE
    BY DEF FreeBSD!ClearAddress, FreeBSD!Goto, FreeBSD!call
  <1>2. fds = {"tun", "sock"} /\ ifc \in Interface /\ ifc.addrs \in Seq(IPs)
        /\ ifc.addrs = before.addrs
    BY <1>1 DEF IInv, SocketInv, Typed, ClearInv, Interface
  <1>3. rest \in Seq(IPs) /\ (Len(ifc.addrs) <= 1 => rest = <<>>)
    <2>1. CASE ifc.addrs = <<>>
      BY <1>2, <2>1
    <2>2. CASE ifc.addrs # <<>>
      <3>1. /\ Tail(ifc.addrs) \in Seq(IPs) /\ Len(Tail(ifc.addrs)) = Len(ifc.addrs) - 1
            /\ Len(ifc.addrs) \in Nat \ {0}
        BY <1>2, <2>2, HeadTailProperties, EmptySeq
      <3>2. Len(ifc.addrs) <= 1 => Len(Tail(ifc.addrs)) = 0
        <4>1. \A l \in Nat \ {0} : l <= 1 => l - 1 = 0
          OBVIOUS
        <4> QED BY <3>1, <4>1, Zenon
      <3>3. Len(ifc.addrs) <= 1 => Tail(ifc.addrs) = <<>>
        BY <3>1, <3>2, EmptySeq
      <3> QED BY <2>2, <3>1, <3>3
    <2> QED BY <2>1, <2>2
  <1> HIDE DEF rest
  <1>4. /\ ifc' \in Interface /\ ifc'.name = ifc.name /\ ifc'.mtu = ifc.mtu
        /\ ifc'.up = ifc.up
        /\ \/ ifc'.addrs = rest /\ clearFailed' = clearFailed
           \/ ifc'.addrs = ifc.addrs /\ clearFailed' = TRUE
    <2>1. CASE ifc' = [ifc EXCEPT !.addrs = rest] /\ clearFailed' = clearFailed
      BY <1>2, <1>3, <2>1, AddrsSet
    <2> QED BY <1>1, <1>2, <2>1
  <1>5. Typed' /\ OpenInv' /\ SocketInv' /\ SetMtuInv' /\ SetIpInv'
    BY <1>1, <1>2, <1>4 DEF IInv, Typed, OpenInv, SocketInv, SetMtuInv, SetIpInv
  <1>6. ClearInv'
    <2>1. /\ ifc'.mtu = before'.mtu /\ ifc'.up \in {before'.up, FALSE}
          /\ platform = "FreeBSD" /\ ~clearFailed => Len(before.addrs) <= 1
      BY <1>1, <1>4 DEF IInv, ClearInv
    <2>2. Len(before'.addrs) <= 1 => ifc'.addrs \in {before'.addrs, <<>>}
      BY <1>1, <1>2, <1>3, <1>4
    <2>3. ~clearFailed' => Len(before'.addrs) <= 1 /\ ifc'.addrs = <<>>
      BY <1>1, <1>2, <1>3, <1>4, <2>1 DEF IInv, Typed
    <2> QED BY <1>1, <2>1, <2>2, <2>3 DEF ClearInv
  <1> QED BY <1>5, <1>6 DEF IInv

LEMMA FreeBSDClearFlagsStep ==
    ASSUME IInv, platform = "FreeBSD", platform' = platform, FreeBSD!ClearFlags
    PROVE  IInv'
  <1>1. /\ op = "clear" /\ UNCHANGED <<op, arg, before, dev, clearFailed>>
        /\ pc \in {"SIOCGIFFLAGS", "SIOCSIFFLAGS"}
        /\ \/ pc' = "SIOCSIFFLAGS" /\ UNCHANGED <<fds, result, ifc>>
           \/ /\ pc' = "idle" /\ result' = "ok" /\ fds' = fds \ {"sock"}
              /\ ifc' = [ifc EXCEPT !.up = FALSE] \/ ifc' = ifc
    BY DEF FreeBSD!ClearFlags, FreeBSD!Goto, FreeBSD!Return, FreeBSD!Fails, FreeBSD!call
  <1>2. fds = {"tun", "sock"} /\ ifc \in Interface
    BY <1>1 DEF IInv, SocketInv, Typed
  <1>3. /\ ifc' \in Interface /\ ifc'.name = ifc.name /\ ifc'.mtu = ifc.mtu
        /\ ifc'.addrs = ifc.addrs /\ ifc'.up \in {ifc.up, FALSE}
    <2>1. CASE ifc' = [ifc EXCEPT !.up = FALSE]
      BY <1>2, <2>1, UpSet
    <2> QED BY <1>1, <1>2, <2>1
  <1>4. Typed' /\ OpenInv' /\ SocketInv' /\ SetMtuInv' /\ SetIpInv'
    BY <1>1, <1>2, <1>3 DEF IInv, Typed, OpenInv, SocketInv, SetMtuInv, SetIpInv
  <1>5. ClearInv'
    BY <1>1, <1>3 DEF IInv, ClearInv
  <1> QED BY <1>4, <1>5 DEF IInv

LEMMA FreeBSDStep ==
    ASSUME IInv, platform = "FreeBSD", FreeBSD!Next, platform' = platform
    PROVE  IInv'
  <1>1. CASE (\/ FreeBSD!CallOpen("open") \/ FreeBSD!CallSetIp \/ FreeBSD!CallSetMtu
              \/ FreeBSD!CallClear) /\ UNCHANGED clearFailed
    <2>1. CallOpen("open") \/ CallSetIp \/ CallSetMtu \/ CallClear
      BY <1>1 DEF FreeBSD!CallOpen, FreeBSD!CallSetIp, FreeBSD!CallSetMtu,
                  FreeBSD!CallClear, FreeBSD!Begin, CallOpen, CallSetIp, CallSetMtu,
                  CallClear, Begin
    <2> QED BY <1>1, <2>1, BeginStep
  <1>2. CASE FreeBSD!OpenSocket
    <2> DEFINE next == CASE op = "set_mtu" -> "SIOCSIFMTU"
                         [] op = "clear" -> "SIOCGIFADDR"
                         [] OTHER -> "SIOCAIFADDR"
    <2>1. Socket(next)
      BY <1>2 DEF FreeBSD!OpenSocket, FreeBSD!Socket, FreeBSD!Goto, FreeBSD!Return,
                  FreeBSD!Fails, FreeBSD!call, Socket, Goto, Return, Fails, call
    <2>2. op = "none" \/ op = "open" => pc # "socket"
      BY DEF IInv, OpenInv
    <2>3. /\ op = "set_ip" => next = "SIOCAIFADDR"
          /\ op = "set_mtu" => next = "SIOCSIFMTU"
          /\ op = "clear" => next = "SIOCGIFADDR"
      OBVIOUS
    <2>4. /\ clearFailed' \in BOOLEAN /\ (clearFailed => clearFailed')
          /\ op = "clear" /\ pc' = "idle" => clearFailed'
      BY <1>2 DEF FreeBSD!OpenSocket, IInv, Typed
    <2> HIDE DEF next
    <2> QED BY <2>1, <2>2, <2>3, <2>4, SocketStep
  <1>3. CASE FreeBSD!BringUpHere
    <2>1. BringUp /\ UNCHANGED clearFailed
      BY <1>3 DEF FreeBSD!BringUpHere, FreeBSD!BringUp, FreeBSD!Goto, FreeBSD!Return,
                  FreeBSD!Fails, FreeBSD!call, BringUp, Goto, Return, Fails, call
    <2> QED BY <2>1, BringUpStep
  <1>4. CASE FreeBSD!SetMtuHere
    <2>1. SetMtu /\ UNCHANGED clearFailed
      BY <1>4 DEF FreeBSD!SetMtuHere, FreeBSD!SetMtu, FreeBSD!Return, FreeBSD!Fails,
                  FreeBSD!call, SetMtu, Return, Fails, call
    <2> QED BY <2>1, SetMtuStep
  <1> QED BY <1>1, <1>2, <1>3, <1>4, FreeBSDOpenStep, FreeBSDSetIpStep,
             FreeBSDClearAddressStep, FreeBSDClearFlagsStep DEF FreeBSD!Next

-----------------------------------------------------------------------------
LEMMA NextIInv == IInv /\ [Next]_allVars => IInv'
  <1> SUFFICES ASSUME IInv, [Next]_allVars PROVE IInv'
    OBVIOUS
  <1>1. CASE Next
    BY <1>1, LinuxStep, FreeBSDStep DEF Next
  <1>2. CASE UNCHANGED allVars
    <2>1. UNCHANGED <<pc, op, arg, before, result, fds, dev, ifc, platform, clearFailed>>
      BY <1>2 DEF allVars, vars, call
    <2>2. Typed' /\ OpenInv' /\ SocketInv'
      BY <2>1 DEF IInv, Typed, OpenInv, SocketInv
    <2>3. SetIpInv' /\ SetMtuInv' /\ ClearInv'
      BY <2>1 DEF IInv, SetIpInv, SetMtuInv, ClearInv
    <2> QED BY <2>2, <2>3 DEF IInv
  <1> QED BY <1>1, <1>2

LEMMA Inductive == Spec => []IInv
  BY InitIInv, NextIInv, PTL DEF Spec

(* An interface as ClientDaemon sees it, field by field *)
Seen == [ip : IPs \cup {Unset}, mtu : Mtus \cup {KernelMtu}, up : BOOLEAN]

SeenIp(a) == IF a = <<>> THEN Unset ELSE Head(a)

LEMMA SeenType ==
    ASSUME NEW i \in Interface
    PROVE  /\ AsSeen(i) \in Seen
           /\ AsSeen(i).ip = SeenIp(i.addrs) /\ AsSeen(i).mtu = i.mtu /\ AsSeen(i).up = i.up
  <1>1. i.addrs \in Seq(IPs) /\ i.mtu \in Mtus \cup {KernelMtu} /\ i.up \in BOOLEAN
    BY DEF Interface
  <1>2. SeenIp(i.addrs) \in IPs \cup {Unset}
    BY <1>1, HeadTailProperties DEF SeenIp
  <1>3. AsSeen(i) = [ip |-> SeenIp(i.addrs), mtu |-> i.mtu, up |-> i.up]
    BY DEF AsSeen, SeenIp
  <1> QED BY <1>1, <1>2, <1>3 DEF Seen

LEMMA SeenEqual ==
    ASSUME NEW t \in Seen, NEW s \in Seen, t.ip = s.ip, t.mtu = s.mtu, t.up = s.up
    PROVE  t = s
  BY DEF Seen

(* Whichever system calls fail, a function leaves no descriptor behind but *)
(* the one of an interface that tun_open said it opened.                   *)
THEOREM DescriptorsNotLeaked == Spec => []NoLeak
  <1>1. IInv => NoLeak
    BY DEF IInv, Typed, OpenInv, SocketInv, NoLeak
  <1> QED BY <1>1, Inductive, PTL

(* The daemon goes on with the name of the interface it opened, renamed or *)
(* not.                                                                    *)
THEOREM InterfaceNamed == Spec => []NamesInterface
  <1>1. IInv => NamesInterface
    BY DEF IInv, Typed, OpenInv, SocketInv, NamesInterface
  <1> QED BY <1>1, Inductive, PTL

(* On FreeBSD, as long as no tun_clear_ip failed, the interface has one    *)
(* address at most, and none after it was cleared.                         *)
THEOREM AddressesDoNotPileUp == Spec => []OneAddress
  <1>1. IInv => OneAddress
    <2> SUFFICES ASSUME IInv, platform = "FreeBSD", ~clearFailed
                 PROVE  /\ Len(ifc.addrs) <= 1
                        /\ pc = "idle" /\ op = "clear" => ifc.addrs = <<>>
      BY DEF OneAddress
    <2>0. \A a : Len(<<>>) <= 1 /\ Len(<<a>>) <= 1
      BY EmptySeq
    <2>1. CASE op \in {"none", "open"}
      BY <2>0, <2>1 DEF IInv, Typed
    <2>2. CASE op = "set_ip"
      <3>1. pc = "idle" => result \in {"ok", "fail"}
        BY <2>2 DEF IInv, SocketInv
      <3>2. ifc.addrs \in {<<>>, <<arg>>}
        BY <2>2, <3>1 DEF IInv, SetIpInv
      <3> QED BY <2>0, <2>2, <3>2
    <2>3. CASE op = "set_mtu"
      BY <2>3 DEF IInv, SetMtuInv
    <2>4. CASE op = "clear"
      <3>1. Len(before.addrs) <= 1 /\ ifc.addrs \in {before.addrs, <<>>}
        BY <2>4 DEF IInv, ClearInv
      <3> QED BY <2>0, <2>4, <3>1 DEF IInv, ClearInv
    <2> QED BY <2>1, <2>2, <2>3, <2>4 DEF IInv, Typed
  <1> QED BY <1>1, Inductive, PTL

(* Every return from tun_set_ip, tun_set_mtu and tun_clear_ip leaves the   *)
(* interface in a state TunContract allows, which is what ClientDaemon     *)
(* relies on.                                                              *)
THEOREM ContractMet == Spec => []MeetsContract
  <1>1. IInv => MeetsContract
    <2> SUFFICES ASSUME IInv, pc = "idle",
                        platform = "FreeBSD" =>
                            Len(before.addrs) <= (IF op = "set_ip" THEN 0 ELSE 1)
                 PROVE  AsSeen(ifc) \in Results
      BY DEF MeetsContract
    <2> DEFINE now == AsSeen(ifc)
               tun == AsSeen(before)
    <2>1. /\ now \in Seen /\ now.ip = SeenIp(ifc.addrs) /\ now.mtu = ifc.mtu
          /\ now.up = ifc.up
      BY SeenType DEF IInv, Typed
    <2>2. /\ tun \in Seen /\ tun.ip = SeenIp(before.addrs) /\ tun.mtu = before.mtu
          /\ tun.up = before.up
      BY SeenType DEF IInv, Typed
    <2>3. SeenIp(<<>>) = Unset /\ SeenIp(<<arg>>) = arg
      BY DEF SeenIp
    <2> HIDE DEF tun, now
    <2>4. CASE op \in {"none", "open"}
      BY <2>4, Zenon DEF Results, now
    <2>5. CASE op = "set_ip"
      <3>1. platform = "Linux" \/ before.addrs = <<>>
        <4>1. CASE platform = "FreeBSD"
          <5>1. before.addrs \in Seq(IPs) /\ Len(before.addrs) <= 0
            BY <2>5, <4>1 DEF IInv, Typed, Interface
          <5>2. before.addrs # <<>> => Len(before.addrs) \in Nat \ {0}
            BY <5>1, EmptySeq
          <5> QED BY <5>1, <5>2
        <4> QED BY <4>1 DEF IInv, Typed
      <3>2. result \in {"ok", "fail"}
        BY <2>5 DEF IInv, SocketInv
      <3>3. ifc.mtu = before.mtu /\ arg \in IPs
        BY <2>5 DEF IInv, SetIpInv
      <3>4. Results = SetIpResults(tun, arg, result = "ok")
        BY <2>5 DEF Results, tun
      <3>5. CASE result = "ok"
        <4>1. ifc.addrs = <<arg>> /\ ifc.up = TRUE
          BY <2>5, <3>1, <3>5 DEF IInv, SetIpInv
        <4> DEFINE s == [tun EXCEPT !.ip = arg, !.up = TRUE]
        <4>2. s \in Seen /\ s.ip = arg /\ s.mtu = tun.mtu /\ s.up = TRUE
          BY <2>2, <3>3 DEF Seen
        <4>3. Results = {s}
          BY <3>4, <3>5 DEF SetIpResults
        <4> HIDE DEF s
        <4>4. now.ip = arg /\ now.mtu = tun.mtu /\ now.up = TRUE
          BY <2>1, <2>2, <2>3, <3>3, <4>1
        <4>5. now = s
          BY <2>1, <4>2, <4>4, SeenEqual
        <4> QED BY <4>3, <4>5 DEF now
      <3>6. CASE result = "fail"
        <4>1. ifc.addrs \in {before.addrs, <<arg>>} /\ ifc.up = before.up
          BY <2>5, <3>1, <3>6 DEF IInv, SetIpInv
        <4> DEFINE s == [tun EXCEPT !.ip = arg]
        <4>2. s \in Seen /\ s.ip = arg /\ s.mtu = tun.mtu /\ s.up = tun.up
          BY <2>2, <3>3 DEF Seen
        <4>3. Results = {tun, s}
          BY <3>4, <3>6 DEF SetIpResults
        <4> HIDE DEF s
        <4>4. now.ip \in {tun.ip, arg} /\ now.mtu = tun.mtu /\ now.up = tun.up
          BY <2>1, <2>2, <2>3, <3>3, <4>1
        <4>5. now \in {tun, s}
          BY <2>1, <2>2, <4>2, <4>4, SeenEqual
        <4> QED BY <4>3, <4>5 DEF now
      <3> QED BY <3>2, <3>5, <3>6
    <2>6. CASE op = "set_mtu"
      <3>1. ifc.addrs = before.addrs /\ ifc.up = before.up /\ arg \in Mtus
            /\ ifc.mtu = IF result = "ok" THEN arg ELSE before.mtu
        BY <2>6 DEF IInv, SetMtuInv
      <3>2. Results = SetMtuResults(tun, arg, result = "ok")
        BY <2>6 DEF Results, tun
      <3> DEFINE s == [tun EXCEPT !.mtu = arg]
      <3>3. s \in Seen /\ s.ip = tun.ip /\ s.mtu = arg /\ s.up = tun.up
        BY <2>2, <3>1 DEF Seen
      <3>4. Results = IF result = "ok" THEN {s} ELSE {tun}
        BY <3>2 DEF SetMtuResults
      <3> HIDE DEF s
      <3>5. now.ip = tun.ip /\ now.up = tun.up
            /\ now.mtu = IF result = "ok" THEN arg ELSE tun.mtu
        BY <2>1, <2>2, <3>1
      <3>6. now = IF result = "ok" THEN s ELSE tun
        BY <2>1, <2>2, <3>3, <3>5, SeenEqual
      <3> QED BY <3>4, <3>6 DEF now
    <2>7. CASE op = "clear"
      <3>1. ifc.mtu = before.mtu /\ ifc.up \in {before.up, FALSE}
            /\ ifc.addrs \in {before.addrs, <<>>}
        BY <2>7 DEF IInv, ClearInv, Typed
      <3>2. Results = ClearResults(tun)
        BY <2>7 DEF Results, tun
      <3> DEFINE kept == (IF ifc.addrs = before.addrs THEN {"ip"} ELSE {})
                            \cup (IF ifc.up = before.up THEN {"up"} ELSE {})
                 ip == IF "ip" \in kept THEN tun.ip ELSE Unset
                 up == IF "up" \in kept THEN tun.up ELSE FALSE
      <3>3. kept \in SUBSET {"ip", "up"}
        OBVIOUS
      <3>4. ip \in IPs \cup {Unset} /\ up \in BOOLEAN
        BY <2>2 DEF Seen
      <3>5. now.ip = ip /\ now.up = up /\ now.mtu = tun.mtu
        BY <2>1, <2>2, <2>3, <3>1
      <3>6. Cleared(tun, kept) = [tun EXCEPT !.ip = ip, !.up = up]
        BY DEF Cleared
      <3> HIDE DEF kept, ip, up
      <3>7. /\ Cleared(tun, kept) \in Seen /\ Cleared(tun, kept).ip = ip
            /\ Cleared(tun, kept).mtu = tun.mtu /\ Cleared(tun, kept).up = up
        BY <2>2, <3>4, <3>6 DEF Seen
      <3>8. now = Cleared(tun, kept)
        BY <2>1, <3>5, <3>7, SeenEqual
      <3> QED BY <3>2, <3>3, <3>8 DEF ClearResults, now
    <2> QED BY <2>4, <2>5, <2>6, <2>7 DEF IInv, Typed
  <1> QED BY <1>1, Inductive, PTL
=============================================================================
