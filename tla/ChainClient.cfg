SPECIFICATION Spec
CONSTANTS
    Senders = {s1}
    Closers = {c1}
    Waiters = {w1}
    Threads = {t1, b}
    Batcher = b
    Ops = {"async", "batch"}
    Limit = 2
    TokenCap = 3
    Simulate = FALSE
    Faults = {"lost", "timeout", "reject"}
    FirstSeqs = {3}
    MaxQueueCalls = 1
    MaxMsgs = 2
    MaxCalls = 3
    MaxCallerCalls = 1
    MaxFaults = 1
INVARIANTS MessageAtMostOnce ChainKeepsOrder CloseSettles
PROPERTIES AllIncluded EveryoneReturns
CHECK_DEADLOCK FALSE
