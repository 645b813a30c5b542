SPECIFICATION Spec
CONSTANTS
    MaxId = 1
    MaxProcs = 1
    MaxCrashes = 1
    Shells <- MCShells
    Scarce = FALSE
    NoRecord = NoRecord
INVARIANTS
    UnbegunIsFoundGone
CHECK_DEADLOCK FALSE
