CONSTANTS
    c1 = c1
    p1 = p1
    p2 = p2
    Callers = {c1}
    Partitions = {p1, p2}
    Offers <- MCOffers
    MaxJoins = 2
    MaxCalls = 3
    EnableAutoCommit = TRUE
SPECIFICATION FairSpec
INVARIANTS
    CloseStopsWork
    LoopsServeSession
    ManualStays
    ListenerFollows
PROPERTY
    StoppedLoopsEnd
CHECK_DEADLOCK FALSE
