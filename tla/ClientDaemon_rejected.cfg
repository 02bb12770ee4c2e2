CONSTANTS
    id = id
    ip = ip
    Unset = Unset
    AuthTimeout = 3
    RetryInterval = 2
    DataTimeout = 4
    MaxLag = 1
    DomainServer = FALSE
    Failing = {}
    Acks <- MCAcks
    CfgMtu = 1400
    Mtus = {46, 1300}
    SessionIds <- MCSessionIds
    TunnelIPs <- MCTunnelIPs
SPECIFICATION Spec
PROPERTIES
    RejectedAckLeavesNoTrace
CHECK_DEADLOCK FALSE
