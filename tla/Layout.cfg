SPECIFICATION Spec
CONSTANTS
    Panes = {a, b, c}
    Clients = {1}
    Sizes <- MCSizes
    Ratios <- MCRatios
    Directions = {"right", "down"}
    Amounts = {1, 2}
SYMMETRY MCSymmetry
INVARIANTS TilingIsSound ResizesMoveBorders ResizesToWhatFits ChoicesStay
CHECK_DEADLOCK FALSE
