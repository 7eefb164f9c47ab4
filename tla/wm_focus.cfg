SPECIFICATION Spec
CONSTANTS
    c1 = c1
    c2 = c2
    Clients = {c1, c2}
    Frames = {f1, f2}
    None = None
    Root = Root
    MaxWorkspaces = 2
    MaxPending = 0
    Ops = {"iconify"}
    TransientFor <- NoTransients
PROPERTIES EnterFocuses
CHECK_DEADLOCK FALSE
