SPECIFICATION Spec
CONSTANTS
    Line = {w, x, y}
    OpenLine = {z}
    MaxLen = 3
INVARIANTS
    CleanMergeIsExplained
    NoNeedlessConflict
CHECK_DEADLOCK FALSE
