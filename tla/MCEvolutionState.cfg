SPECIFICATION ControlSpec
CONSTANTS
    Caps <- MCCaps
    NoCap = NoCap
    NoRecord = NoRecord
    CapBump = 2
    EnvEnabled = FALSE
    EnvCap = 2
    SaveFaults = TRUE
    IterBound = 6
INVARIANTS
    ControlTypeOK
    StampsMatchState
    DiskMirrorsMemory
PROPERTIES
    DurableControl
