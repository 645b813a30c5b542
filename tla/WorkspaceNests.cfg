SPECIFICATION Spec
CONSTANTS
    Panes = {a,b}
    Tabs = {t,u}
    Workspaces = {v,w,x}
    Clients = {c}
    Top = Top
    Outside = Outside
    Screens = {2}
    Sizes = {2}
    Nested = {c}
    Unwritten = FALSE
SYMMETRY MCSymmetry
INVARIANTS SessionIsWhole
PROPERTIES DisplacedAreTold
CHECK_DEADLOCK FALSE
