SPECIFICATION Spec
CONSTANTS
    main = main
    left = left
    right = right
    Main = main
    Branch = {main, left, right}
    Path <- DirPath
    Base0 <- DirBase
    Line <- Lines
    Agents = {left, right}
    Ops = {"write", "create", "mkdir", "symlink", "unlink", "rmdir", "rename", "revert"}
    ParentsWritten = TRUE
    Mode = {"lazy", "snapshot"}
    HideSets <- NoHide
    TextPath <- NoText
    QuotaFails = FALSE
    MaxLines = 1
    MaxOps = 3
    MaxEpoch = 4
SYMMETRY MCSymmetry
INVARIANTS
    TypeOK
    LineageOK
PROPERTIES
    TombstonesHideSomething
    RevertRestoresInherited
CHECK_DEADLOCK FALSE
