SPECIFICATION Spec
CONSTANTS
    MaxId = 2
    MaxProcs = 2
    MaxCrashes = 0
    Shells <- MCShells
    Scarce = FALSE
    NoRecord = NoRecord
INVARIANTS
    RecordIsWhole
CHECK_DEADLOCK FALSE
