SPECIFICATION Spec
CONSTANTS
    m1 = m1
    m2 = m2
    open = open
    click = click
    Messages = {m1, m2}
    Events = {open, click}
    Loads <- RepeatedOrOverlapping
    Free = Free
    MaxAttempts = 2
    MaxMishaps = 2
INVARIANTS
    HoldsItsLock
    MailCountedOnce
    CountedOncePerFailure
    AckedIsCounted
CHECK_DEADLOCK FALSE
