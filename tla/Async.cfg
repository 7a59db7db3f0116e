CONSTANTS
    big = big
    ka = ka
    kb = kb
    Records = {r1, r2, big}
    Keys = {ka, kb}
    KeyOf <- MCKeyOf
    BytesOf <- MCBytesOf
    BatchSize = 2
    BatchBytes = 3
    QueueSize = 2
    Flushers = {f1}
    Closer = closer
    NoOne = NoOne
    NoKey = NoKey
SPECIFICATION FairSpec
INVARIANTS
    TypeOK
    RecordsAccounted
    
    FlushBarrier
    CloseFlushes
PROPERTY EverythingEnds
CHECK_DEADLOCK FALSE
