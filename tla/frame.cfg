SPECIFICATION FrameSpec
CONSTANTS
    c1 = c1
    c2 = c2
    Children = {c1, c2}
    Arriving <- SomeArriving
    Configs <- AllConfigs
    Requests = {4, 9}
    MaxHeight = 8
INVARIANTS SomethingLeft FlagsAgree ChildFits
SYMMETRY Symmetry
