SPECIFICATION UsageSpec
CONSTANTS
    Senders = {s1, s2}
    Closers = {c1}
    Waiters = {s1}
    Limit = 2
    TokenCap = 4
    MaxQueueCalls = 3
    MaxMsgs = 2
PROPERTIES ImplementsPipe CallsEnd DoneAfterOwnBatch
CHECK_DEADLOCK FALSE
