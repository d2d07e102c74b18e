SPECIFICATION Spec
CONSTANTS
    Main = main
    Branch = {main, left}
    Mountpoint = {mnt}
    NoOne = none
    Proc = {d1, d2, d3}
    Client = {1, 2, 3}
    Command = {"mount", "start", "unmount", "create", "finish", "drop", "shutdown"}
    Eager = FALSE
    MaxCrash = 1
CONSTRAINT InOrder
INVARIANTS TypeOK OneDaemon NeverFallsBack NotifierFollows
PROPERTIES ExitTakesNoMount CommandsEnd
CHECK_DEADLOCK FALSE
