SPECIFICATION Spec
CONSTANTS
    Commands = {1}
    Attachers = {2}
    Asks = {"keys"}
    MaxAsks = 2
    MaxActs = 0
    FramesAtOnce = 1
    Shuts = FALSE
    Stays = TRUE
    Sticks = FALSE
    Stops = FALSE
    Leavers = {}
    Begun = {1}
CHECK_DEADLOCK FALSE
PROPERTIES HeldBackGoesOn
