SPECIFICATION Spec
CONSTANTS
    Panes = {a,b}
    Tabs = {t,u}
    Workspaces = {v}
    Clients = {c,d}
    Top = Top
    Outside = Outside
    Screens = {0,1,2}
    Sizes = {1}
    Nested = {}
    Unwritten = TRUE
SYMMETRY MCSymmetry
INVARIANT SizesFollow
CHECK_DEADLOCK FALSE
