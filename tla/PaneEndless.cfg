SPECIFICATION Spec
CONSTANTS
    MaxPrograms = 2
    MaxWrites = 1
    MaxTurns = 1
    Shells = {FALSE}
    Endless = TRUE
PROPERTY DyingAreReaped
CHECK_DEADLOCK FALSE
