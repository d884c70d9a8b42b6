SPECIFICATION Spec
CONSTANTS
    b1 = b1
    b2 = b2
    Bodies = {b1, b2}
    Items <- Batches
    MaxPosts = 2
    MaxMishaps = 2
INVARIANTS
    KeyMeansStored
    AnsweredIsStored
    QuietIsCounted
CHECK_DEADLOCK FALSE
