CONSTANTS
    r1 = r1
    r2 = r2
    r3 = r3
    r4 = r4
    k1 = k1
    k2 = k2
    c1 = c1
    c2 = c2
    c3 = c3
    NoConn = NoConn
    NoOwner = NoOwner
    Requests = {r1, r2, r3}
    Keys = {k1, k2}
    Conns = {c1, c2}
    Customers = {1}
    Products = {1, 2}
    InitStock <- MCInitStock
    AppsUnderTest = {"go", "rust", "node", "bun", "aspnet", "spring", "phoenix"}
    Workloads <- MCWaiting
    MaxFaults = 1
SPECIFICATION FairSpec
INVARIANTS
    NoHoldAndWait
    ServerErrorHasCause
PROPERTY EveryRequestAnswered
