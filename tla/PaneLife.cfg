SPECIFICATION Spec
CONSTANTS
    MaxPrograms = 2
    MaxWrites = 1
    MaxTurns = 1
    Shells = {TRUE, FALSE}
    Endless = FALSE
INVARIANTS
    HostIsSound
    ToldOnce
    NothingLeftIsLost
    ClosedLeavesNone
PROPERTIES
    HangupsEnd
    EndsAreTold
CHECK_DEADLOCK FALSE
