CONSTANTS
    b1 = b1
    b2 = b2
    app = app
    loop = loop
    Brokers = {b1, b2}
    Committers = {app, loop}
    NilEndpoint = NilEndpoint
    MaxPartitions = 2
    MaxCalls = 3
    MaxSessions = 2
    MaxMoves = 1
SPECIFICATION CoordFairSpec
PROPERTIES
    SecondAttemptReaches
    CallsEnd
CHECK_DEADLOCK FALSE
