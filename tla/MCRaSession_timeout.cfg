SPECIFICATION Spec
CONSTANTS
    Ops <- CallOps
    Urls = {u1, u2}
    NoUrl = NoUrl
    MaxRetries = 1
    AllowReconnect = TRUE
    MaxCalls = 3
    NEntries = 1
    Faults = {"timeout"}
INVARIANT OwnAnswer
CHECK_DEADLOCK FALSE
