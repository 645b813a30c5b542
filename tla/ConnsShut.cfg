SPECIFICATION Spec
CONSTANTS
    Commands = {1}
    Attachers = {2}
    Asks = {"wait"}
    MaxAsks = 1
    MaxActs = 0
    FramesAtOnce = 1
    Shuts = TRUE
    Stays = FALSE
    Sticks = FALSE
    Stops = FALSE
    Leavers = {}
    Begun = {1, 2}
CHECK_DEADLOCK FALSE
PROPERTIES ShutClientsAreAnswered
