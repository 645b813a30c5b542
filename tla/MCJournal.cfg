SPECIFICATION Spec
CONSTANTS
    p1 = p1
    r1 = r1
    All = All
    None = None
    Kept = 2
    SeqMax = 5
    Places <- MCPlaces
    Readers <- MCReaders
INVARIANTS
    TypeOK
    RingIsLogTail
    NothingUndoneIsRead
    GoneIsGone
PROPERTIES
    KeepsItsPromise
    EndedReadsAnswered
CHECK_DEADLOCK FALSE
