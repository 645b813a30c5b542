SPECIFICATION Spec
CONSTANTS
    t1 = t1
    a1 = a1
    p1 = p1
    p2 = p2
    Nowhere = Nowhere
    Typists <- OneTypist
    Askers <- NoConn
    Panes <- OnePane
    MaxInputs = 1
    MaxViews = 0
PROPERTIES
    ClosedOnceSent
CHECK_DEADLOCK FALSE
