SPECIFICATION Spec
CONSTANTS
    w1 = w1
    w2 = w2
    Free = Free
    Workers <- MCWorkers
    Fds <- MCFds
    Answers <- MCAnswers
    LenSize = 1
    MaxCalls = 2
    MaxExits = 1
INVARIANTS TypeOK OneOwner OwnAnswer StuckOnlyAfterExit NobodyIsForgotten
PROPERTY CallReturns
CHECK_DEADLOCK FALSE
