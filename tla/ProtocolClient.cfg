CONSTANTS
    c1 = c1
    c2 = c2
    Calls = {c1, c2}
    Supported = {0, 1}
    DefaultVersion = 0
    Ranges <- MCRanges
    MaxAttempts = 2
    MaxID = 3
    MaxChanges = 1
    MaxBreaks = 1
SPECIFICATION Spec
INVARIANTS
    LiveIdsApart
PROPERTIES
    HealthyStays
    FallsBack
SYMMETRY MCSymmetry
CHECK_DEADLOCK FALSE
