CONSTANTS
    id = id
    ip = ip
    Unset = Unset
    AuthTimeout = 6
    RetryInterval = 2
    DataTimeout = 15
    MaxLag = 2
    DomainServer = TRUE
    Failing = {"socket", "dns", "tun_set", "poll"}
    Acks <- MCAcks
    CfgMtu = 1400
    Mtus = {46, 1300}
    SessionIds <- MCSessionIds
    TunnelIPs <- MCTunnelIPs
SPECIFICATION Spec
INVARIANTS
    TypeOK
    Deadlines
    TunFollowsSession
    SessionFieldsFresh
    HookFollowsSession
CHECK_DEADLOCK FALSE
PROPERTIES
    DownToldAsUp
