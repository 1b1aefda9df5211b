SPECIFICATION Spec
CONSTANTS
    Offers <- AllOffers
    Configs <- AllConfigs
    MaxCommands = 2
    Faults = {"version", "noise", "eof", "timeout", "layer", "again"}
PROPERTY ExchangeEnds
INVARIANT WeakestLast
INVARIANT InStep
CHECK_DEADLOCK FALSE
