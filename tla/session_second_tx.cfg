SPECIFICATION Spec
CONSTANTS
    Ops = {"get"}
    Failing = {}
    Malformed = {}
    Avoid = {"strayExec", "emptyPipelinedTx", "queuedHmget", "useAfterClose"}
    MayClose = FALSE
    MayInterrupt = FALSE
    MaxCmds = 6
INVARIANT NeverStarves
CHECK_DEADLOCK FALSE
