CONSTANTS
    c1 = c1
    c2 = c2
    s1 = s1
    s2 = s2
    r1 = r1
    r2 = r2
    m1 = m1
    NoRun = NoRun
    Conns = {c1}
    WsConns = {}
    Sessions = {s1}
    ForeignSessions = {}
    Runs = {r1, r2}
    ModeReqs = {m1}
    Routes <- OneRoute
    MaxFaults = 1
SPECIFICATION Spec
SYMMETRY Symmetry
INVARIANTS
    MarkersHaveTurns
    QueuedBehindTurn
    LoneTurnIsGuarded
