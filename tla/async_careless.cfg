SPECIFICATION Spec
CONSTANTS
    Avoid = {"earlyCommand"}
    MayFail = TRUE
    MayPush = TRUE
    MaxCmds = 2
INVARIANTS TypeOK Settled Watched
CHECK_DEADLOCK FALSE
