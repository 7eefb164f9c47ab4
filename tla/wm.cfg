SPECIFICATION Spec
CONSTANTS
    c1 = c1
    c2 = c2
    Clients = {c1, c2}
    Frames = {f1, f2}
    None = None
    Root = Root
    MaxWorkspaces = 2
    MaxPending = 1
    Ops = {"send", "iconify", "activate", "click", "toggle", "group", "unfocused"}
    TransientFor <- NoTransients
SYMMETRY Symmetry
INVARIANTS InputAgrees NoFalseFocus Visible TabsFollow
PROPERTIES ImplementsFrameTree
CHECK_DEADLOCK FALSE
