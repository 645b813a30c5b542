SPECIFICATION Spec
CONSTANTS
    Panes = {a, b, c, d}
    Clients = {1}
    Sizes <- MCSmall
    Ratios <- MCHalves
    Directions = {"right", "down"}
    Amounts = {1}
SYMMETRY MCSymmetry
INVARIANTS FocusReaches
CHECK_DEADLOCK FALSE
