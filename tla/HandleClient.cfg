CONSTANTS
    Requests <- MCRequests
    Streams <- MCStreams
    Limit = 1
    GarbageSizes = {0, 1, 9}
SPECIFICATION Spec
INVARIANTS TypeOK  NeverWaitsForNothing NoCrashWhileClean NothingAfterClose
CHECK_DEADLOCK FALSE
PROPERTY ReturnsUnlessInChunk
