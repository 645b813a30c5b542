SPECIFICATION Spec
CONSTANTS
    MaxId = 2
    MaxProcs = 2
    MaxCrashes = 1
    Shells <- MCShells
    Scarce = FALSE
    NoRecord = NoRecord
INVARIANTS
    RunIsSound
    NoIdIsGivenTwice
    LostAreGone
    NoRunBesideAnother
PROPERTIES
    TakenBack
    StopEndsAll
CHECK_DEADLOCK FALSE
