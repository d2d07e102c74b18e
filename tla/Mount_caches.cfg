SPECIFICATION Spec
CONSTANTS
    Main = main
    Branch = {main, left}
    File = {doc}
    Here = here
    Top = top
    InoPath <- AllPaths
    RootPath <- RootOfMount
    Hits <- NoPrefix
    Allowed = {}
    MaxReq = 3
    MaxIno = 3
    MaxEpoch = 2
CONSTRAINT WithinAllowed
INVARIANTS TypeOK InodesInverse
PROPERTIES NumbersNeverReused FreshReads AckedWrites FrozenKeepsContent JobsAnswered
CHECK_DEADLOCK FALSE
