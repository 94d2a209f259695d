SPECIFICATION FairSpec
CONSTANTS
    Cap = 2
    MaxFd = 2
    MayFail = TRUE
    NullErrors = FALSE
    MaxCmds = 3
INVARIANTS TypeOK CommandsInPlace RepliesInPlace DescriptorsAccounted NullMeansError
PROPERTIES KeepsStream CallsReturn
CHECK_DEADLOCK FALSE
