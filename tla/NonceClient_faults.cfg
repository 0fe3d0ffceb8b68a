INIT NonceInit
NEXT NonceNext
SYMMETRY ThreadSymmetry
CONSTANTS
    Threads = {t1, t2}
    Ops = {"sync", "async", "batch"}
    Simulate = TRUE
    Faults = {"rpc", "lost", "reject", "timeout", "evict", "foreign"}
    FirstSeqs = {0, 3}
    MaxCalls = 2
    MaxFaults = 2
INVARIANTS AtMostOnce ErrorMeansNotSent OkMeansIncluded  OneRetryHeals InSync
CHECK_DEADLOCK FALSE
