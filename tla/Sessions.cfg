CONSTANTS
    r1 = r1
    r2 = r2
    Requests = {r1, r2}
    Batch = 2
    Deltas = {9}
    MaxLegacy = 4
    MaxRequests = 3
    MaxRejected = 1
SPECIFICATION StoreSpec
SYMMETRY Symmetry
CHECK_DEADLOCK FALSE
INVARIANTS
    RecoveredInFull
    TurnsAreAccounted
