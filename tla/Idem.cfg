CONSTANTS
    c1 = c1
    c2 = c2
    n1 = n1
    n2 = n2
    Unnamed = Unnamed
    k1 = k1
    k2 = k2
    x1 = x1
    x2 = x2
    NoRecord = NoRecord
    Payloads = {p1, p2}
    Names = {n1, n2}
    Calls = {x1, x2}
    Keys = {k1, k2}
    Conns = {c1, c2}
    WsConns = {c1, c2}
    NameOf <- TwoNames
    Routes <- MeetingRoutes
    TurnKeys = {k1}
    MaxEffects = 3
    MaxFaults = 1
    MaxExpiries = 1
SPECIFICATION Spec
SYMMETRY Symmetry
INVARIANTS
    RepeatsNeedFaults
    AnswersAgree
    AnswersAreReal
    StrangersGetNoReplay
PROPERTY ImplementsOncePerKey
