SPECIFICATION FairSpec
CONSTANTS
    wm = wm
    desktop = desktop
    panel = panel
    Procs = {e1, e2}
    Order <- MCOrder
    Disturb = {"close", "notheme", "crash"}
INVARIANT LockGuardsRunning
PROPERTY StartsInOrder
PROPERTY StartupEnds
CHECK_DEADLOCK FALSE
