SPECIFICATION Spec
CONSTANTS
    t1 = t1
    a1 = a1
    p1 = p1
    p2 = p2
    Nowhere = Nowhere
    Typists <- NoConn
    Askers <- OneAsker
    Panes <- TwoPanes
    MaxInputs = 1
    MaxViews = 0
PROPERTIES
    EveryPaneTypesNothing
CHECK_DEADLOCK FALSE
