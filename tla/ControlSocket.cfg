SPECIFICATION Spec
CONSTANTS
    p1 = p1
    p2 = p2
    Peers = {p1, p2}
    Stoppers = {p2}
    Sock = Sock
    NoPeer = NoPeer
    MaxBuf = 3
    Settings <- SmallSettings
INVARIANTS
    TypeOK
    CountCoversOpen
    ExitsOnlyWhenTold
    ExecutedAsSent
    EdgesKept
PROPERTIES
    LinesCarriedOut
    HangupsReleased
CHECK_DEADLOCK FALSE
