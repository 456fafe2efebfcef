CONSTANTS
    r1 = r1
    r2 = r2
    u0 = u0
    u1 = u1
    u2 = u2
    admin = admin
    bob = bob
    p0 = p0
    p1 = p1
    w0 = w0
    w1 = w1
    t1 = t1
    t2 = t2
    t3 = t3
    Requests = {r1, r2}
    Ids = {u0, u1, u2}
    Names = {admin, bob}
    Foreign = {bob}
    Passwords = {p0, p1}
    Workspaces = {w0, w1}
    Lists <- SomeLists
    Tokens = {t1, t2, t3}
    Admin = admin
    AdminId = u0
    AdminPassword = p0
    Home = w0
    MaxCalls = 3
    MaxFaults = 1
    Null = Null
SPECIFICATION AccountsSpec
SYMMETRY Symmetry
CHECK_DEADLOCK FALSE
INVARIANTS
    AccountsAsAcknowledged
    OneAccountPerName
    TokensOfActive
    OneHeadPerFamily
