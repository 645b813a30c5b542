SPECIFICATION Spec
CONSTANTS
    Commands = {1}
    Attachers = {2}
    Asks = {"keys"}
    MaxAsks = 1
    MaxActs = 0
    FramesAtOnce = 1
    Shuts = FALSE
    Stays = FALSE
    Sticks = FALSE
    Stops = FALSE
    Leavers = {}
    Begun = {1, 2}
CHECK_DEADLOCK FALSE
PROPERTIES AsksEnd
