SPECIFICATION Spec
CONSTANTS
    folder = folder
    leaf = leaf
    fuse = fuse
    client = client
    Path <- MCPath
    Below <- MCBelow
    Thread <- MCThread
    MaxOps = 3
    MaxBase = 1
    MaxFaults = 1
SYMMETRY MCSymmetry
INVARIANTS
    TypeOK
    TombstonesDurable
    TouchesDurable
    MergeBaseKept
PROPERTY MigrationChangesNothing
CHECK_DEADLOCK FALSE
