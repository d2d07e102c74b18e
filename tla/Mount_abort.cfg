SPECIFICATION Spec
CONSTANTS
    Main = main
    Branch = {main, left}
    File = {doc}
    Here = here
    Top = top
    InoPath <- AllPaths
    RootPath <- RootOfMount
    Hits <- NoPrefix
    Allowed = {"abort"}
    MaxReq = 3
    MaxIno = 4
    MaxEpoch = 1
CONSTRAINT WithinAllowed

PROPERTIES AbortDiscards
CHECK_DEADLOCK FALSE
