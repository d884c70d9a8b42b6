SPECIFICATION FairSpec
CONSTANTS
    Workers = {"w1", "w2"}
    Steps <- Pipeline
    Source <- Pages
    Refs <- Ends
    Existing = {FALSE}
    Selections <- EverythingOrContacts
    MaxAttempts = 2
    MaxStalls = 1
    MaxRequests = 2
    MaxMishaps = 2
INVARIANT CheckpointCovers
PROPERTIES
    KeepsPromise
    ImportEnds
CHECK_DEADLOCK FALSE
