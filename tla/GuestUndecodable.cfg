SPECIFICATION FairSpec
CONSTANTS
    r1 = r1
    r2 = r2
    r3 = r3
    k1 = k1
    k2 = k2
    k3 = k3
    Rows = {r1, r2}
    Keys = {k1, k2, k3}
    Key <- OwnKey
    NoRow = NoRow
    Instances = {i1, i2}
    NoInstance = NoInstance
    MaxRowsPerRun = 1
    Configs = {"live"}
    Rejected = {}
    Undecodable = {r1}
    Cuts = {}
    MayLoseReply = FALSE
    FilesMayFail = FALSE
    MaxCrashes = 0
PROPERTIES
    GuestsArrive
