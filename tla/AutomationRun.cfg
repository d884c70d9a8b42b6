SPECIFICATION Spec
CONSTANTS
    Steps = 3
    Flows <- TwoFlows
    Policies = {"unique", "multiply-period"}
    MaxEntries = 2
    MaxMishaps = 1
    MaxRequests = 1
    MaxTrouble = 1
INVARIANTS
    RunningIsCarried
    UniqueEntersOnce
    DedupHolds
    TargetStops
CHECK_DEADLOCK FALSE
