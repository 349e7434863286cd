CONSTANTS
    Cases <- MCCases
    Rewrites <- MCRewrites
    LayerOutputs <- MCLayerOutputs
    Replies <- MCReplies
    MaxAttempts = 2
    MaxOptions = 2
    MaxLevels = 3
    FileCalls <- MCFileCalls
    Trees <- MCTrees
    Links <- MCLinks
    Home <- MCHome
    Cwd <- MCCwd
    MaxFileBytes = 2
    MaxTreeChanges = 2
    Rates <- MCRates
    Counters <- MCCounters
    Sayings <- MCSayings
    Shapes <- MCShapes
    MaxCount = 1000
    PerRate = 10
    MediaFloor = 20
    MaxCalls = 3
    MaxSayings = 3
    Kinds <- MCKinds
    Beginnings <- MCBeginnings
    BuilderCalls <- MCBuilderCalls
    MaxBuilderCalls = 4
    Timeouts <- MCTimeouts
    ContextDeadlines <- MCContextDeadlines
    LastInstant = 6
    MaxPasses = 2
    LastYear = 2101
SPECIFICATION MCSpec
INVARIANTS
    OnlyWhatTheRowTakes
    EncodedFaithfully
    DeliveredWithinPolicy
    AnswersTheCall
    RequestsAreWhole
    TotalsAreHonest
PROPERTIES
    RepeatsAreSound
