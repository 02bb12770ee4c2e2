CONSTANTS
    id = id
    ip = ip
    Unset = Unset
    AuthTimeout = 3
    RetryInterval = 2
    DataTimeout = 4
    MaxLag = 2
    DomainServer = FALSE
    Failing = {"script", "tun_set", "tun_clear"}
    Acks <- MCOneAck
    CfgMtu = 1400
    Mtus = {1300}
    SessionIds <- MCSessionIds
    TunnelIPs <- MCTunnelIPs
SPECIFICATION FairSpec
PROPERTIES
    QuitTerminates
    ReconnectHonoured
    NeverStuck
    SilenceEndsSession
CHECK_DEADLOCK FALSE
