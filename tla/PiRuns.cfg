CONSTANTS
    s1 = s1
    Sessions = {s1}
    KeepTurns = 2
    MaxRuns = 3
    MaxAtOnce = 2
    MaxQueue = 1
    None = None
SPECIFICATION FairSpec
CHECK_DEADLOCK FALSE
INVARIANTS
    OneOutcome
    HistoryIsKept
    RunningIsLive
    AbortReaches
PROPERTY RunEnds
