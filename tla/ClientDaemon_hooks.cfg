CONSTANTS
    id = id
    ip = ip
    Unset = Unset
    AuthTimeout = 3
    RetryInterval = 2
    DataTimeout = 4
    MaxLag = 1
    DomainServer = FALSE
    Failing = {}
    Acks <- MCOneAck
    CfgMtu = 1400
    Mtus = {1300}
    SessionIds <- MCSessionIds
    TunnelIPs <- MCTunnelIPs
SPECIFICATION Spec
PROPERTIES
    HooksNeverOverlap
CHECK_DEADLOCK FALSE
