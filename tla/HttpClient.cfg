CONSTANTS
    Calls <- MCCalls
    NoHost = ""
    NotAUrl = "not a URL"
    MaxCalls = 2
    Responses <- MCResponses
    Addresses = 2
    Capacity = 2
    GarbageSizes = {0, 1, 9}
SPECIFICATION Spec
INVARIANTS TypeOK OwnResponse
CHECK_DEADLOCK FALSE
PROPERTY CallEnds
