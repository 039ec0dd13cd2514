SPECIFICATION HistorySpec
CONSTANTS
    w1 = w1
    w2 = w2
    t1 = t1
    t2 = t2
    Nobody = Nobody
    Task = {t1}
    Worker = {w1, w2}
    Repeats <- Once
    RetryFailed <- NoRetry
    Limited = {}
    Deps <- NoDeps
    Slow = {}
    Orders = {}
    MaxOrders = 0
    Mortal = {}
    Immediate = {}
    MaxRestarts = 0
    MaxRuns = 2
SYMMETRY MCSymmetry
INVARIANTS
    NooneTouchesMyTask
