CONSTANTS
    alice = alice
    bob = bob
    r1 = r1
    r2 = r2
    a1 = a1
    a2 = a2
    out = out
    None = None
    Users <- MCUsers
    Remotes <- MCRemotes
    Ids = {1, 2}
    Addrs <- MCAddrs
    UserAddr <- MCUserAddr
    AllowEncrypt <- MCAllowEncrypt
    ServerMTU = 1400
    ClientMTUs <- MCClientMTUs
SPECIFICATION FairSpec
INVARIANTS
    TypeOK
    IndexesAgree
    OneSessionEach
    ReplyStillRight
    ExitTrafficLegit
    ExitSnapshotForOwner
PROPERTIES
    ImplementsDirectory
    ShutdownCompletes
CHECK_DEADLOCK FALSE
