\* Several of the bounded instances stop: a menu is loaded once, time and
\* lines end.
SPECIFICATION Spec
CONSTANTS
    o1 = o1
    o2 = o2
    o3 = o3
    dock = dock
    none = none
    plus = plus
    minus = minus
    times = times
    Icons <- MCThree
    MaxSel = 3
    Screens = {100, 140}
    Percents = {100, 60}
    TrayWindows <- MCWindows
    MaxTimers = 3
    MaxTime = 17
    MaxVersion = 3
    Chars = {"a"}
    Starts <- MCStarts
    Dictionary <- MCDictionary
    Width = 2
    HistorySize = 1
    HistoryUnique = TRUE
    MaxBuf = 2
    MaxLine = 1
    Operators <- MCOperators
    Levels = {0, 1, 2}
    MaxBrackets = 2
    MaxKeys = 8
    Apps = {"d1", "d2", "d3"}
    Position <- MCPosition
    Sizes = {1, 2}
    HeadX = 1
    HeadLength = 3
    MaxLoose = 2
SYMMETRY Symmetry
INVARIANT DesktopRight
INVARIANT CalcRight
INVARIANT PanelRight
INVARIANT StartMenuRight
INVARIANT XdgMenuRight
INVARIANT PromptRight
INVARIANT StackingRight
INVARIANT MenusRight
INVARIANT HarbourRight
CHECK_DEADLOCK FALSE
