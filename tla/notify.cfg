SPECIFICATION FairDaemonSpec
CONSTANTS
    Windows = {w1, w2}
    None = none
    Clients = {c1, c2}
    UIntMax = 3
INVARIANT DaemonTypeOK
INVARIANT IdsDistinct
PROPERTY UpdatesOwn
PROPERTY Expires
CHECK_DEADLOCK FALSE
