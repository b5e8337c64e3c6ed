SPECIFICATION Spec
CONSTANTS
    MaxConnects = 1
    MaxTries = 2
    MaxOrders = 3
    MaxSignals = 1
    LedSets <- OneLedSet
    Indices = {1, 2}
    LedValues = {7}
    May = {"hook", "write_error", "connect_error"}
INVARIANTS
    TypeOK
    IdIsCount
    CacheAgrees
PROPERTIES
    IndexSetTouchesOne
