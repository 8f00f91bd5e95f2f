SPECIFICATION FairSpec
CONSTANTS
    r1 = r1
    r2 = r2
    r3 = r3
    k1 = k1
    k2 = k2
    k3 = k3
    Rows = {r1, r2, r3}
    Keys = {k1, k2, k3}
    Key <- OwnKey
    NoRow = NoRow
    Instances = {i1, i2}
    NoInstance = NoInstance
    MaxRowsPerRun = 1
    Configs = {"live"}
    Rejected = {r1}
    Undecodable = {}
    Cuts = {"full", "crash"}
    MayLoseReply = TRUE
    FilesMayFail = FALSE
    MaxCrashes = 1
PROPERTIES
    GuestsArrive
