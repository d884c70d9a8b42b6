SPECIFICATION FairSpec
CONSTANTS
    p = p
    q = q
    ann = ann
    bob = bob
    Packages = {p, q}
    Contacts = {ann, bob}
    Campaigns <- MailsOrTemplates
    Limit = 1
    MaxAttempts = 3
    MaxMishaps = 2
INVARIANTS
    OncePerDelivery
    KeptUntilReported
    LimitHolds
PROPERTIES
    Settles
CHECK_DEADLOCK FALSE
