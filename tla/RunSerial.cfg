CONSTANTS
    c1 = c1
    c2 = c2
    s1 = s1
    s2 = s2
    r1 = r1
    r2 = r2
    m1 = m1
    NoRun = NoRun
    Conns = {c1, c2}
    WsConns = {c1, c2}
    Sessions = {s1, s2}
    ForeignSessions = {s2}
    Runs = {r1, r2}
    ModeReqs = {m1}
    Routes <- HomeRoutes
    MaxFaults = 1
SPECIFICATION FairSpec
INVARIANT LastAcceptedModeWins
PROPERTIES
    ImplementsTurns
    BusyIsReleased
