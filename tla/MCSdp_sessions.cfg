\* Three calls in a session, with everything that may go wrong; ids wrap after two.
SPECIFICATION Spec
CONSTANTS
    Found = {0, 2}
    Weight = 100
    Ids = 2
    Cuts = {1}
    MaxCalls = 3
    Kinds <- SearchOrRegister
    May = {"io_error", "refusal", "silent", "hangup", "close"}
INVARIANTS
    TypeOK
    AnswerWhole
    RecordKnown
CHECK_DEADLOCK FALSE
