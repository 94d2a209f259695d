SPECIFICATION FairSpec
CONSTANTS
    Ops = {"get"}
    Failing = {}
    Malformed = {}
    Avoid = {"staleQueue", "strayExec", "emptyPipelinedTx", "queuedHmget", "useAfterClose"}
    MayClose = TRUE
    MayInterrupt = FALSE
    MaxCmds = 7
INVARIANTS NeverStarves QueueMatchesReplies NothingThrownAway RunAnswered ModesAgree
PROPERTIES KeepsPromise NoEndlessWait
CHECK_DEADLOCK FALSE
