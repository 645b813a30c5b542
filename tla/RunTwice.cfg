SPECIFICATION Spec
CONSTANTS
    MaxId = 2
    MaxProcs = 2
    MaxCrashes = 2
    Shells <- MCShells
    Scarce = FALSE
    NoRecord = NoRecord
INVARIANTS
    TypeOK
    KnownPanesAreTakenBack
    NoIdIsGivenTwice
    LostAreGone
    NoRunBesideAnother
CHECK_DEADLOCK FALSE
