SPECIFICATION Spec
CONSTANTS
    MaxId = 2
    MaxProcs = 2
    MaxCrashes = 1
    Shells <- MCShells
    Scarce = TRUE
    NoRecord = NoRecord
INVARIANTS
    LostAreGone
CHECK_DEADLOCK FALSE
