INIT QueueInit
NEXT QueueNext
CONSTANTS
    Senders = {s1}
    Closers = {c1}
    Waiters = {}
    Limit = 2
    TokenCap = 1
    MaxQueueCalls = 1
    MaxMsgs = 1
INVARIANTS ClosedQueueIsAnError
CHECK_DEADLOCK FALSE
