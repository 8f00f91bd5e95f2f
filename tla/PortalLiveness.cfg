SPECIFICATION FairSpec
CONSTANTS
    Clients = {c1}
    NoClient = NoClient
    Workers = {w1}
    ListKinds = {"blocked"}
    PreauthIdle = 0
    AuthIdle = 1
    SessionTimeout = 1
    SessionTimeoutBlock = TRUE
    SessionLimitBlock = TRUE
    FwMayFail = FALSE
    SpoolMayFail = TRUE
    BinAuth = FALSE
    BinauthSeconds = {}
    MaxTime = 1
    MaxId = 1
    MaxSignups = 1
    MaxCtlSignups = 1
PROPERTIES
    SignupOpensNet
    RequestsFinish
    SessionsEnd
