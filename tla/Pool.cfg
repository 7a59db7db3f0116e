CONSTANTS
    other = other
    e1 = e1
    e2 = e2
    Calls = {c1, c2, c3}
    Endpoints = {e1}
    EndpointOf <- MCEndpointOf
    MaxAttempts = 2
    None = None
SPECIFICATION FairSpec
INVARIANTS
    SingleFlight
    OpenConnectionsOwned
PROPERTIES
    EvictedByUser
    EveryGetReturns
CHECK_DEADLOCK FALSE
