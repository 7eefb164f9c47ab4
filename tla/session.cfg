SPECIFICATION FairSession
CONSTANTS
    Programs = {p1}
    MaxRequests = 2
    MaxQueue = 2
    Mishaps = {"nested", "iconify", "late", "refuse", "signal"}
PROPERTY OnlyOnAnswer
PROPERTY StopEnds
CHECK_DEADLOCK FALSE
