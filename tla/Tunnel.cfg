CONSTANTS
    addr = addr
    user = user
    None = None
    Unset = Unset
    Users <- MCUsers
    Remotes <- MCRemotes
    Ids <- MCIds
    SessionIds <- MCIds
    Addrs <- MCAddrs
    TunnelIPs <- MCAddrs
    UserAddr <- MCUserAddr
    AllowEncrypt <- MCDeny
    WantEncrypt = TRUE
    ServerMTU = 1300
    CfgMtu = 1400
    Mtus = {1300}
    AuthTimeout = 3
    RetryInterval = 2
    DataTimeout = 5
    MaxLag = 1
    DomainServer = FALSE
    MaxNet = 2
SPECIFICATION FairSpec
INVARIANTS
    TypeOK
    EndsAgree
PROPERTIES
    LateCloseHarmless
    HalfOpenHeals
    Connects
