SPECIFICATION CountingSpec
CONSTANTS
    c1 = c1
    c2 = c2
    Clients = {c1, c2}
    Frames = {f1, f2}
    None = None
    Root = Root
    MaxWorkspaces = 2
    MaxPending = 0
    MaxAfter = 1
    Ops = {"send", "iconify", "activate", "click", "toggle", "group", "unfocused",
           "stick", "restore", "size", "mark", "detach"}
    TransientFor <- OneTransient
SYMMETRY FrameSymmetry
INVARIANTS ListsAgree Settles
CHECK_DEADLOCK FALSE
