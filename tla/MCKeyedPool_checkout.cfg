SPECIFICATION KeyedSpec
CONSTANTS
    Tasks = {a, b, c}
    Sessions = {s1, s2}
    MaxSessions = 2
    WarmTargets = {}
    AcquireTimeout = FALSE
    IdleTimeout = TRUE
    HealthCheck = "None"
    u1 = u1
    u2 = u2
    Urls <- TwoUrls
    Home = u1
INVARIANT ConnectionBound
PROPERTY FitForUse
PROPERTY CallEnds
