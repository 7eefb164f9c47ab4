SPECIFICATION SessionSpec
CONSTANTS
    Programs = {p1}
    MaxRequests = 2
    MaxQueue = 2
    Mishaps = {"nested"}
PROPERTY RestartRestarts
CHECK_DEADLOCK FALSE
