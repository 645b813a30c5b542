SPECIFICATION Spec
CONSTANTS
    MaxId = 2
    MaxProcs = 3
    MaxCrashes = 0
    Shells <- MCShells
    Scarce = FALSE
    NoRecord = NoRecord
INVARIANTS
    EveryProcessIsHeld
PROPERTIES
    StopEndsAll
CHECK_DEADLOCK FALSE
