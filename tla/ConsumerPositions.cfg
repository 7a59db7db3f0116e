CONSTANTS
    p1 = p1
    p2 = p2
    app = app
    loop = loop
    Partitions = {p1, p2}
    Committers = {app, loop}
    OffsetReset = "earliest"
    MaxOffset = 2
    MaxCalls = 4
    MaxEvents = 1
SPECIFICATION Spec
INVARIANTS
    CommittedWasTaken
PROPERTIES
    CommitsForward
SYMMETRY MCSymmetry
CHECK_DEADLOCK FALSE
