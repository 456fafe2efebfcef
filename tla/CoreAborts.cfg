CONSTANTS
    w1 = w1
    w2 = w2
    r1 = r1
    r2 = r2
    x1 = x1
    Sockets = {w1, w2}
    RunSlots = {r1, r2}
    Aborts = {x1}
    MaxTools = 2
    MaxIds = 2
    MaxRestarts = 1
SPECIFICATION FairCoreSpec
INVARIANTS
    AbortHitsItsId
    NothingStaysBehind
PROPERTIES
    AbortStopsRun
    FramesAreAnswered
