SPECIFICATION Spec
CONSTANTS
    Trees <- AllTrees
    Forests <- AllForests
    Functions <- SomeFunctions
INVARIANTS TypeOK RepliesAsSent NothingLost NoCrash
PROPERTIES AnswersPromptly ErrorIsFinal ErrorFreesAll
CHECK_DEADLOCK FALSE
