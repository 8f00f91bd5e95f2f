SPECIFICATION Spec
CONSTANTS
    Clients = {c1}
    NoClient = NoClient
    Workers = {w1, w2}
    ListKinds = {"blocked"}
    PreauthIdle = 0
    AuthIdle = 0
    SessionTimeout = 0
    SessionTimeoutBlock = FALSE
    SessionLimitBlock = FALSE
    FwMayFail = TRUE
    SpoolMayFail = TRUE
    BinAuth = TRUE
    BinauthSeconds = {1}
    MaxTime = 1
    MaxId = 1
    MaxSignups = 1
    MaxCtlSignups = 1
SYMMETRY Symmetry
INVARIANTS
    LocksHeld
    OneRowPerSignup
    HandlerClientOnList
