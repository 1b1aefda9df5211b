SPECIFICATION Spec
CONSTANTS
    Tasks = {a, b, c}
    Sessions = {s1, s2, s3, s4}
    MaxSessions = 2
    WarmTargets = {3}
    AcquireTimeout = TRUE
    IdleTimeout = TRUE
    HealthCheck = "OnCheckoutIfIdleFor"
INVARIANT TypeOK
INVARIANT CheckedOutByPermit
INVARIANT NothingSharedOrLost
SYMMETRY Symmetry
