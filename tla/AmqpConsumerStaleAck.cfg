CONSTANTS
    m1 = m1
    m2 = m2
    Msgs = {m1, m2}
    Malformed = {}
    MaxRetries = 2
    Prefetch = 2
    MaxLosses = 1
    MaxExits = 0
    MaxRequeues = 0
    MaxPairs = 2
SPECIFICATION Spec
INVARIANT RunningIsUnacked
CHECK_DEADLOCK FALSE
