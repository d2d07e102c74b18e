SPECIFICATION Spec
CONSTANTS
    main = main
    left = left
    right = right
    Main = main
    Branch = {main, left, right}
    Path <- DirPath
    Base0 <- DirBase
    Line <- Lines
    Agents = {left, right}
    Ops = {"write", "create", "mkdir", "unlink", "rmdir", "setattr", "freeze"}
    ParentsWritten = TRUE
    Mode = {"lazy", "snapshot"}
    HideSets <- HideD
    TextPath <- NoText
    QuotaFails = TRUE
    MaxLines = 1
    MaxOps = 3
    MaxEpoch = 3
SYMMETRY MCSymmetry
INVARIANTS
    HiddenNeverLeaks
PROPERTIES
    SnapshotIsIsolated
CHECK_DEADLOCK FALSE
