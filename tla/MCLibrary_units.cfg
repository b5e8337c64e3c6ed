\* Two channels with every fault, every list of three options, and every message in
\* two sizes of buffer.
SPECIFICATION LibrarySpec
CONSTANTS
    ConnectLists <- Connects
    SetLists <- Sets
    MaxChannels = 2
    Security = {TRUE, FALSE}
    May = {"io_error", "close", "server"}
INVARIANTS
    TypeOK
    OneCallback
    SettingsAsAsked
    RoundTrip
CHECK_DEADLOCK FALSE
