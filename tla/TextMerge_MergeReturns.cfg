SPECIFICATION Spec
CONSTANTS
    Line = {x, y}
    OpenLine = {z}
    MaxLen = 2
INVARIANT MergeReturns
CHECK_DEADLOCK FALSE
