SPECIFICATION Spec
CONSTANTS
    Ops = {"set", "get", "incr", "setnx", "hgetall", "hmget"}
    Failing = {"get", "incr"}
    Malformed = {}
    Avoid = {"staleQueue", "strayExec", "emptyPipelinedTx", "queuedHmget", "useAfterClose"}
    MayClose = FALSE
    MayInterrupt = FALSE
    MaxCmds = 4
INVARIANTS NoFault NoValueRejected
CHECK_DEADLOCK FALSE
