SPECIFICATION Spec
CONSTANTS
    Clients = {c1}
    NoClient = NoClient
    Workers = {w1}
    ListKinds = {"blocked"}
    PreauthIdle = 1
    AuthIdle = 1
    SessionTimeout = 1
    SessionTimeoutBlock = FALSE
    SessionLimitBlock = FALSE
    FwMayFail = FALSE
    SpoolMayFail = FALSE
    BinAuth = FALSE
    BinauthSeconds = {}
    MaxTime = 1
    MaxId = 2
    MaxSignups = 2
    MaxCtlSignups = 2
INVARIANTS
    HandlerClientOnList
