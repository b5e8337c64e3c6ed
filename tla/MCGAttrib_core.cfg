\* An honest peer; every fault of the link, cancels and the end of the attrib.
SPECIFICATION Spec
CONSTANTS
    MaxCalls = 3
    MaxSignals = 1
    MaxEvents = 1
    AppOps = {"WRITE_CMD", "READ_REQ", "HANDLE_CNF"}
    EventKinds <- NotifyHandle
    Signals <- Notification
    May = {"unref", "cancel", "io_error", "disconnect"}
INVARIANTS
    TypeOK
    OneOutstanding
    TimerGuardsRequest
    SenderAwake
    EachCommandOnce
    CalledBackOnce
    RefsExact
    AnswerMatchesRequest
PROPERTIES
    NoCallbackAfterEnd
    ImplementsChannel
CHECK_DEADLOCK FALSE
