CONSTANTS
    t1 = t1
    t2 = t2
    Calls = {c1, c2}
    Topics = {t1, t2}
    Partitions = {0, 1}
    Hashes = {0, 1}
    Requests <- MCRequests
    Bootstraps = 2
    MaxAttempts = 2
    Movable <- MCMovable
    MaxEpoch = 2
SPECIFICATION Spec
INVARIANTS
    RefreshedRoute
    RefusedOnlyOnChange
    CreatesOnlyMissing
    KeysStayWhileLed
PROPERTIES
    CallsReturn
CHECK_DEADLOCK FALSE
