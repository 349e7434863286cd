CONSTANTS
    Frames <- MCFrames
    Prelude = 2
    Crc = 1
    MaxFrame = 50
    Limits <- MCLimits
    MaxBytes = 13
    Alphabets <- MCAlphabets
    SseLimits <- MCSseLimits
    SseMaxBytes = 6
    Registrations <- MCRegistrations
    Stores <- MCStores
    Absent = Absent
    Unfit = Unfit
    NoName = NoName
    Served <- MCServed
    Chains <- MCChains
    MaxRegistrations = 3
    MaxChanges = 1
    MaxAttempts = 2
SPECIFICATION Spec
INVARIANTS
    SplitInvisible
    HeldWithinLimit
    WithinLimits
    FirstCompleteServes
    HeadersAreRight
