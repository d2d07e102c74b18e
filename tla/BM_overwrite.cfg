SPECIFICATION Spec
CONSTANTS
    main = main
    left = left
    right = right
    Main = main
    Branch = {main, left, right}
    Path <- FlatPath
    Base0 <- FlatBase2
    Line <- Lines
    Agents = {left, right}
    Ops = {"write", "unlink", "rename", "setattr"}
    ParentsWritten = FALSE
    Mode = {"lazy"}
    HideSets <- NoHide
    TextPath <- JustF
    QuotaFails = TRUE
    MaxLines = 2
    MaxOps = 4
    MaxEpoch = 4
SYMMETRY MCSymmetry
PROPERTIES
    NoSilentOverwrite
CHECK_DEADLOCK FALSE
