SPECIFICATION Spec
CONSTANTS
    DiskMayFill = TRUE
    SlowDevice = TRUE
    MaxCuts = 2
    MaxRuns = 2
INVARIANTS
    TypeOK
    EndsWithPortal
    InstallCompletes
    OriginalKept
    DeliveryKept
PROPERTIES
    BootComesUp
    BootKeepsFix
CHECK_DEADLOCK FALSE
