\* Two requests, the second while the answer to the first may be under way.
SPECIFICATION FairSpec
CONSTANTS
    Programs <- AnyOrTwo
    Targets = {"t1", "t2"}
    Times = {1, 2}
    Tries = 2
    OtherEvents <- Strays
    MaxOthers = 1
    May = {"io_error", "refusal", "silent"}
INVARIANTS
    TypeOK
    FilterRestored
    AnswerIsMine
    AnswerFilled
PROPERTIES
    RequestReturns
CHECK_DEADLOCK FALSE
