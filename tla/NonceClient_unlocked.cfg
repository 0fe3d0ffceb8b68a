SPECIFICATION NonceSpec
CONSTANTS
    Threads = {t1, t2}
    Ops = {"sync", "svm", "simulate", "signedSync", "signedAsync"}
    Simulate = TRUE
    Faults = {"rpc", "lost", "timeout"}
    FirstSeqs = {0}
    MaxCalls = 2
    MaxFaults = 1
INVARIANTS OneRetryHeals
PROPERTIES CallsReturn
CHECK_DEADLOCK FALSE
