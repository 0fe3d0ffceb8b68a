INIT NonceInit
NEXT NonceNext
CONSTANTS
    Threads = {t1}
    Ops = {"sync"}
    Simulate = TRUE
    Faults = {"foreign"}
    FirstSeqs = {3}
    MaxCalls = 2
    MaxFaults = 1
INVARIANTS SyncReturnsIncluded
CHECK_DEADLOCK FALSE
