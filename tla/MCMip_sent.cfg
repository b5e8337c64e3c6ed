SPECIFICATION Spec
CONSTANTS
    MaxConnects = 1
    MaxTries = 2
    MaxOrders = 2
    MaxSignals = 1
    LedSets <- OneLedSet
    Indices = {}
    LedValues = {}
    May = {"hook", "write_error", "connect_error"}
INVARIANTS
    TrueMeansSent
