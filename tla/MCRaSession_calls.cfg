SPECIFICATION FairSpec
CONSTANTS
    Ops <- AllOps
    Urls = {u1, u2}
    NoUrl = NoUrl
    MaxRetries = 2
    AllowReconnect = TRUE
    MaxCalls = 2
    NEntries = 2
    Faults = {"eof", "timeout", "refuse", "callback", "cancel", "limit"}
INVARIANT TypeOK
INVARIANT AtMostOnce
INVARIANT BoundedSends
INVARIANT EntriesOnce
PROPERTY ImplementsAtMostOnceCall
PROPERTY NoEarlyEof
PROPERTY CallReturns
INVARIANT KeptIsUsable
CHECK_DEADLOCK FALSE
