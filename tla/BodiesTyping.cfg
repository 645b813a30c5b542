SPECIFICATION Spec
CONSTANTS
    t1 = t1
    a1 = a1
    p1 = p1
    p2 = p2
    Nowhere = Nowhere
    Typists <- OneTypist
    Askers <- NoConn
    Panes <- OnePane
    MaxInputs = 3
    MaxViews = 0
INVARIANTS
    TypingIsSound
PROPERTIES
    PastesTyped
CHECK_DEADLOCK FALSE
