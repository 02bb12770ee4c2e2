CONSTANTS
    Wanted = {"iwan0", "tun3"}
    Units = {"tun3", "tun4"}
    IPs = {"a", "b"}
    Mtus = {1300, 1400}
    KernelMtu = 1500
    Unset = Unset
    Failing = {"open", "TUNSETIFF", "SIOCSIFADDR", "SIOCSIFNETMASK",
               "open_unit", "TUNSLMODE", "TUNSIFHEAD", "TUNSIFMODE", "TUNGIFNAME",
               "rename_socket", "SIOCSIFNAME", "socket", "SIOCAIFADDR", "EEXIST",
               "SIOCDIFADDR", "add_again", "SIOCGIFADDR",
               "SIOCGIFFLAGS", "SIOCSIFFLAGS", "SIOCSIFMTU"}
SPECIFICATION Spec
INVARIANTS
    NoLeak
    NamesInterface
    MeetsContract
    OneAddress
CHECK_DEADLOCK FALSE
