INIT QueueInit
NEXT QueueNext
SYMMETRY SenderSymmetry
CONSTANTS
    Senders = {s1, s2}
    Closers = {c1, c2}
    Waiters = {w1}
    Limit = 2
    TokenCap = 1
    MaxQueueCalls = 1
    MaxMsgs = 3
INVARIANTS Conservation SubmissionIntact DrainedWhenDone CallPrefix TimerAlive
CHECK_DEADLOCK FALSE
