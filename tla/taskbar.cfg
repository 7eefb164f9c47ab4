CONSTANTS
    Windows = {w1, w2, w3}
    Workspaces = {d1, d2}
    None = None
    Freed = Freed
    MaxEvents = 2
SPECIFICATION Spec
INVARIANTS ButtonsFollow ShownAreHere
PROPERTIES OrderKept NextIsVisible
CHECK_DEADLOCK FALSE
SYMMETRY Symmetry
CONSTRAINT Bound
