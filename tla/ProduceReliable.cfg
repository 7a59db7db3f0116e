CONSTANTS
    a1 = a1
    a2 = a2
    b1 = b1
    ka = ka
    kb = kb
    Calls = {a1, a2, b1}
    Keys = {ka, kb}
    Endpoints = {e1}
    Pids = {p1, p2}
    NoPid = NoPid
    InitialPid = NoPid
    KeyOf <- MCKeyOf
    SizeOf <- MCSizeOf
    Idempotent = TRUE
    Ordering = TRUE
    MaxAttempts = 2
    MaxInFlight = 1
    MaxCopies = 1
    Lossy = FALSE
SPECIFICATION Spec
INVARIANT MetadataNamesOwnBatch
PROPERTY DeliveryKept
CHECK_DEADLOCK FALSE
