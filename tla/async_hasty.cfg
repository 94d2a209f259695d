SPECIFICATION Spec
CONSTANTS
    Avoid = {"idleDisconnect", "earlyCommand"}
    MayFail = FALSE
    MayPush = FALSE
    MaxCmds = 2
INVARIANTS NoAbort
CHECK_DEADLOCK FALSE
