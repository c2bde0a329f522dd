CONSTANTS
    p1 = p1  p2 = p2  c1 = c1  c2 = c2  n = n  t = t  x = x  v = v  A = A  B = B
    Pods = {p1, p2}
    Pollers = {p2}
    Caching = {p2}
    Maintenance = {}
    Calls = {c1}
    Ids = {v}
    Newer = {v}
    ByHand = {}
    Tenants = {A, B}
    TenantOf <- MCTenantOf
    TaskTime <- MCTaskTime
    ExpiresAt <- MCExpiresAt
    Modes = {"hide"}
    Skew <- MCSkew
    PutMax = 1
    SyncMax = 1
    Window = 4
    FullEvery = 0
    Stale = 1
    ShortLists = FALSE
    MaxNow = 2
    MaxCalls = 2
    MaxFaults = 1
SPECIFICATION FairSpec
PROPERTIES Served
CHECK_DEADLOCK FALSE
