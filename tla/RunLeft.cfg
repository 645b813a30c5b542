SPECIFICATION Spec
CONSTANTS
    MaxId = 2
    MaxProcs = 2
    MaxCrashes = 1
    Shells <- MCShells
    Scarce = FALSE
    NoRecord = NoRecord
INVARIANTS
    NoneIsLeft
CHECK_DEADLOCK FALSE
