CONSTANTS
    c1 = c1
    c2 = c2
    c3 = c3
    Calls = {c1, c2, c3}
    Ids = {1, 2, 3}
    IdOf <- MCIdOf
    None = None
    Error = Error
SPECIFICATION FairSpec
INVARIANTS
    ChannelsEmpty
    NothingPendingAfterClose
    PendingCallsInSend
PROPERTIES
    RemoteCall
    ClosedEndsAll
CHECK_DEADLOCK FALSE
