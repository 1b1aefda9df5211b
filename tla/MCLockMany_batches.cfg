SPECIFICATION Spec
CONSTANTS
    a = a
    b = b
    BadPath = BadPath
    Batches <- Lists
    Servers = {"knows", "unknown", "unknownAtOnce"}
    Width = 3
    MaxCalls = 2
    Faults = {"eof", "timeout", "noconnect", "short", "long", "garbled"}
INVARIANT OncePerTarget
INVARIANT QuietAfterCall
PROPERTY CallReturns
INVARIANT EntriesHold
CHECK_DEADLOCK FALSE
