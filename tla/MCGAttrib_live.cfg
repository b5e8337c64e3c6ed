\* Handlers that iterate the main loop, long reads under one id, a peer that
\* also sends answers nobody asked for: whatever fails, what was written
\* completes, and what was accepted if no write fails.
SPECIFICATION FairSpec
CONSTANTS
    MaxCalls = 3
    MaxSignals = 1
    MaxEvents = 1
    AppOps = {"WRITE_CMD", "READ_REQ"}
    EventKinds <- AnyPdu
    Signals <- StrayAnswer
    May = {"nested", "chain", "cancel", "io_error", "disconnect"}
PROPERTIES
    SentCompletes
    AcceptedCompletes
    LateAnswerIgnored
CHECK_DEADLOCK FALSE
