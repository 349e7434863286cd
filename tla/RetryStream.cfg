CONSTANTS
    Block = {b1, b2}
    MaxAttempts = 3
    InitialDelay = 1
    MaxDelay = 2
    RetryAfterCap = 2
    Jitter = TRUE
    RetryAfters = {1, 3}
    Deadlines = {2}
    NoDeadline = NoDeadline
    MaxEvents = 3
SPECIFICATION FairSpec
INVARIANTS
    OneAttemptDelivered
    Accounted
PROPERTIES
    OneLogicalStream
    NoReplay
    NoWorkAfterStop
    CallEnds
