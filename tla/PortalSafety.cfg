SPECIFICATION Spec
CONSTANTS
    Clients = {c1, c2}
    NoClient = NoClient
    Workers = {w1}
    ListKinds = {"blocked"}
    PreauthIdle = 1
    AuthIdle = 1
    SessionTimeout = 1
    SessionTimeoutBlock = TRUE
    SessionLimitBlock = FALSE
    FwMayFail = FALSE
    SpoolMayFail = FALSE
    BinAuth = FALSE
    BinauthSeconds = {}
    MaxTime = 1
    MaxId = 2
    MaxSignups = 1
    MaxCtlSignups = 2
SYMMETRY Symmetry
INVARIANTS
    TypeOK
    FirewallMatchesList
    ListsMatchFirewall
    ShutdownClosesAll
PROPERTIES
    KeepsPolicy
