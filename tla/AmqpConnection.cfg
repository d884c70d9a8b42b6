CONSTANTS
    MaxInitialRetries = 2
    AttemptCap = 3
    MaxLosses = 4
SPECIFICATION FairSpec
INVARIANT RecoveryUnderway
PROPERTIES CloseStopsReconnect OutageEnds
CHECK_DEADLOCK FALSE
