SPECIFICATION Spec
CONSTANTS
    Ops = {"setnx", "hmget"}
    Failing = {"setnx", "MULTI"}
    Malformed = {"hmget"}
    Avoid = {}
    MayClose = TRUE
    MayInterrupt = TRUE
    MaxCmds = 4
INVARIANTS TypeOK 
CHECK_DEADLOCK FALSE
