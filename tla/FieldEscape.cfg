SPECIFICATION Spec
CONSTANTS
    SrcLen = 3
    DstLens = {3, 5, 6, 10, 15, 27}
INVARIANTS
    TypeOK
    NeverOverruns
    CsvReadBack
    JsonReadBack
    KeptWhole
CHECK_DEADLOCK FALSE
