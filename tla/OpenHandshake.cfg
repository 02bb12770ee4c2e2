CONSTANTS
    Files <- MCFiles
    ListenMayFail = TRUE
    Addresses <- MCAddresses
    Names <- MCNames
    Failing = {"file", "tun", "dns", "socket"}
SPECIFICATION OpenSpec
INVARIANTS
    FitForSessions
    SecondPassAgrees
    OpenUnderstood
    AckUnderstood
    KeysAgree
CHECK_DEADLOCK FALSE
