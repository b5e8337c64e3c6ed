\* Two procedures at a time, of any kinds.
SPECIFICATION FairSpec
CONSTANTS
    MaxHandle <- Last
    BufLen = 7
    Services <- ThreeServices
    Includes <- ThreeIncludes
    Chars <- TwoChars
    ValueLen <- TwoValues
    Ranges <- TwoRanges
    WriteLens = {3, 5}
    Kinds = {"primary", "primary_uuid", "include", "char", "read", "write", "single"}
    MaxItems = 2
    MaxProcs = 2
    May = {"error", "garbled", "silent", "cancel", "io_error"}
INVARIANTS
    TypeOK
    CalledBackOnce
    ObjectsExact
    DiscoveryExact
    ReadInOrder
PROPERTIES
    WrittenWhole
    ProceduresEnd
CHECK_DEADLOCK FALSE
