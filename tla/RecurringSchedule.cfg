SPECIFICATION FairSpec
CONSTANTS
    Settings <- AllSettings
    Handlers = {h1, h2}
    Lags = {1, 13}
    MaxTriggers = 3
    MaxTroubles = 1
INVARIANTS
    
    OneJob
PROPERTIES
    KeepsRhythm
    AllAreSent
CHECK_DEADLOCK FALSE
