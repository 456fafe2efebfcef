CONSTANTS
    r1 = r1
    r2 = r2
    NoLimit = NoLimit
    Runs = {r1, r2}
    a1 = a1
    a2 = a2
    Admins = {a1, a2}
    Scopes = {s1}
    Limits = {2}
    Patches <- SentPatches
    Days = {0, 1, 2}
    MonthOf <- Calendar
    MaxCost = 2
    MaxRuns = 3
    MaxUpdates = 2
    MaxFaults = 1
SPECIFICATION Spec
SYMMETRY Symmetry
CHECK_DEADLOCK FALSE
INVARIANTS
    OvershootBounded
    BarredAreRefused
    PatchesSurvive
    BooksAreExact
