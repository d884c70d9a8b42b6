SPECIFICATION FairSpec
CONSTANTS
    Pages = {p1, p2}
    SimpleLast = p2
    SplitLast = {p1, p2}
    Kinds = {"simple", "split"}
    MaxCalls = 2
    MaxSplitCalls = 1
    MaxMishaps = 1
    p1 = p1
    p2 = p2
INVARIANTS
    StoppedSendsNothing
    SimpleSkipsOnlyWhenCancelled
    OncePerMishap
PROPERTY Completes
CHECK_DEADLOCK FALSE
