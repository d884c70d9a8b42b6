CONSTANTS
    m1 = m1
    m2 = m2
    Msgs = {m1}
    Malformed = {}
    MaxRetries = 2
    Prefetch = 1
    MaxLosses = 1
    MaxExits = 1
    MaxRequeues = 0
    MaxPairs = 3
SPECIFICATION FairSpec
PROPERTIES ShutdownEnds ConsumptionResumes EventuallySettled
CHECK_DEADLOCK FALSE
