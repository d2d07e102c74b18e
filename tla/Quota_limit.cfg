SPECIFICATION Spec
CONSTANTS
    Writer = {w1, w2}
    Branch = {kid, elder}
    Child = kid
    Parent = elder
    File = {doc, memo}
    MaxBytes = 3
    MaxSize = 2
    MaxLinked = 1
    Metadata = 1
    Width = 6
    MaxOps = 5
SYMMETRY Interchangeable
INVARIANTS TypeOK  
CHECK_DEADLOCK FALSE
