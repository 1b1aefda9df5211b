SPECIFICATION FairSpec
CONSTANTS
    Scripts <- AllScripts
    BatchSize = 2
    Pipe = 1
    MaxCalls = 2
    Faults = {"eof", "timeout", "refuse", "rogue", "caller"}
INVARIANT PromptAbort
PROPERTY CommitReturns
PROPERTY ImplementsAtMostOnceCall
INVARIANT InStep
PROPERTY TrueOutcome
CHECK_DEADLOCK FALSE
