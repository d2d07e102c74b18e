SPECIFICATION Spec
CONSTANTS
    left = left
    right = right
    Path <- MCPath
    Files0 <- MCPath
    Tombs0 <- MCPath
    MaxCommits = 3
    MaxEdits = 1
    MaxFaults = 2
SYMMETRY MCSymmetry
INVARIANTS
    TypeOK
    NothingDestroyedEarly
    NoTornFile
PROPERTY AtomicSpec
CHECK_DEADLOCK FALSE
