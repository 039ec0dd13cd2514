SPECIFICATION HistorySpec
CONSTANTS
    w1 = w1
    w2 = w2
    t1 = t1
    t2 = t2
    Nobody = Nobody
    Task = {t1, t2}
    Worker = {w1}
    Repeats <- Twice
    RetryFailed <- OneRetry
    Limited = {t1}
    Deps <- Chain
    Slow = {}
    Orders = {"DISABLED", "KILL", "ACTIVE"}
    MaxOrders = 1
    Mortal = {w1}
    Immediate = {}
    MaxRestarts = 1
    MaxRuns = 3
INVARIANTS
    ChildrenFirst
    
PROPERTIES
    ImplementsTaskLife
CHECK_DEADLOCK FALSE
