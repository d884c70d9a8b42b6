CONSTANTS
    m1 = m1
    m2 = m2
    Msgs = {m1, m2}
    Malformed = {m2}
    MaxRetries = 2
    Prefetch = 2
    MaxLosses = 1
    MaxExits = 1
    MaxRequeues = 1
    MaxPairs = 2
SPECIFICATION Spec
INVARIANTS TypeOK NothingLostWhileStable UnfailedSurvivesExit DeadLetterAfterAllAttempts OneFateWhileStable DrainNeverMissed
CHECK_DEADLOCK FALSE
