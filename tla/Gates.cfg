CONSTANTS
    loc = loc
    t1 = t1
    x = x
    y = y
    a1 = a1
    a2 = a2
    r1 = r1
    Targets = {loc, t1}
    Local = loc
    Settings <- SomeSettings
    Tools = {x, y}
    HighRisk = {x}
    Patches <- SomePatches
    Seeded <- DefaultPolicy
    Runs = {r1}
    Admins = {a1, a2}
    MaxRequests = 3
    None = None
SPECIFICATION Spec
SYMMETRY Symmetry
INVARIANTS
    PlacementHolds
    DenialsHold
