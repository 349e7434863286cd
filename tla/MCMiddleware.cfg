CONSTANTS
    Call = {c1, c2, c3, c4}
    Limit = 2
    MaxAttempts = 2
    Canceller = {t1, t2}
    Waiter = {w1, w2, w3}
    Deadlines = {0, 1, 2}
    NoDeadline = NoDeadline
    MaxEvents = 2
    Holds <- MCHolds
    Binary = Binary
    Cases <- MCCases
    Texts <- MCTexts
    MaxDeltas = 2
    ProbeAnswers <- MCProbeAnswers
    MaxTokens = 4
SPECIFICATION MCSpec
INVARIANTS
    PermitsConserved
    HeldWhileInside
    NoLostWakeup
    OneOutcome
    OutcomeIsTrue
    ToldIsDelivered
    OutcomeIsShown
    InputIsWhole
    ProbeIsHonest
PROPERTIES
    EveryCallAdmitted
    CancelEndsWaits
    SilentAfterFinish
    StopsAreHonoured
