SPECIFICATION Spec
CONSTANTS
    Commands = {1}
    Attachers = {2}
    Asks = {"now", "wait", "read", "fenced", "detach"}
    MaxAsks = 1
    MaxActs = 1
    FramesAtOnce = 1
    Shuts = TRUE
    Stays = FALSE
    Sticks = TRUE
    Stops = FALSE
    Leavers = {2}
    Begun = {2}
CHECK_DEADLOCK FALSE
INVARIANTS StagesAreSound FencesHold
PROPERTIES AsksEnd
