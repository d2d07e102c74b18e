SPECIFICATION Spec
CONSTANTS
    main = main
    left = left
    right = right
    Main = main
    Branch = {main, left, right}
    Path <- TwinPath
    Base0 <- TwinBase
    Line <- Lines
    Agents = {left, right}
    Ops = {"write", "create", "mkdir", "unlink", "rmdir", "truncate"}
    ParentsWritten = FALSE
    Mode = {"lazy"}
    HideSets <- NoHide
    TextPath <- NoText
    QuotaFails = FALSE
    MaxLines = 1
    MaxOps = 5
    MaxEpoch = 4
SYMMETRY MCSymmetry
PROPERTIES
    CommitPublishesView
    OneOperationOnePath
CHECK_DEADLOCK FALSE
