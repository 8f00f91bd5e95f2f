SPECIFICATION Spec
CONSTANTS
    r1 = r1
    r2 = r2
    r3 = r3
    k1 = k1
    k2 = k2
    k3 = k3
    Rows = {r1, r2, r3}
    Keys = {k1, k2, k3}
    Key <- SharedKey
    NoRow = NoRow
    Instances = {i1, i2}
    NoInstance = NoInstance
    MaxRowsPerRun = 2
    Configs = {"off", "dry", "live"}
    Rejected = {}
    Undecodable = {}
    Cuts = {}
    MayLoseReply = TRUE
    FilesMayFail = TRUE
    MaxCrashes = 1
INVARIANTS
    TypeOK
    MarkedWasAccepted
    AckedRowsReadable
    NoDoubleDelivery
PROPERTIES
    KeepsPromise
