SPECIFICATION FairSpec
CONSTANTS
    Kinds <- OneOfEach
    NEvents = 2
    NRevs = 2
    FailureParts = 2
    ToServer = 1
    ToClient = 2
    MaxCalls = 2
    Faults = {"eof", "timeout", "rogue", "badpath", "abortreport", "refusefinish"}
INVARIANT InSync
INVARIANT ReportsDrainOnce
PROPERTY DriveReturns
INVARIANT Delivery
CHECK_DEADLOCK FALSE
