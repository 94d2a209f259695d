SPECIFICATION FairSpec
CONSTANTS
    Avoid = {"hastyDisconnect", "idleDisconnect", "earlyCommand"}
    MayFail = TRUE
    MayPush = FALSE
    MaxCmds = 3
INVARIANTS NoAbort
PROPERTIES KeepsPromise EveryCommandEnds DisconnectEnds
CHECK_DEADLOCK FALSE
