CONSTANTS
    t1 = t1  t2 = t2
    s1 = s1  s2 = s2
    system = system  threat = threat
    Threads <- TwoThreads
    Subscribers <- TwoSubscribers
    Categories <- TwoCategories
    System = system
    Filters <- SomeFilters
    Callers <- TwoThreads
    Counters <- TwoCounters
    Word = 8
    Half = 4
    Hooks = TRUE
    MaxHeld = 2
    MaxTriggers = 2
    MaxTime = 1
    Names <- KeyNames
    IncidentKinds <- TwoKinds
    Places <- TwoPlaces
    Fingerprints <- OneKey
    MaxKeys = 2
    MaxErasures = 2
    MaxIncidents = 2
    MaxChanges = 1
    HistoryLimit = 2
    MaxEvents = 3
    TickRate = 2
    Shown = 2
    Limit = 3
    MaxClock = 5
    MaxPublished = 4
    None = None
    Regions = {"a", "b"}
    Pids = {1}
    ReadWindow = 1
    ReadLimit = 2
    SpikeAt = 7
    FreezeAt = 7
    AllowList = {"FREEZE", "ISOLATE", "QUARANTINE"}
    NoPid = 0
    MaxMinutes = 2
    MaxReads = 3
    MaxMade = 2
    ScoreWindow = 1
    GriefWindow = 2
    Cooldown = 1
    Steep = 1
    MaxMultiplier = 15
    Sequential = 3
    Parallel = 2
    Uniform = 3
    Busy = 2
    Flood = 3
    Blocks = {1, 2}
    MaxTook = 2
    MaxMoment = 4
    MaxAttempts = 3
SPECIFICATION DefenseSpec
INVARIANTS JudgesAreFair EvidenceHolds ScreenTells ResponseAccounts
PROPERTIES BusDelivers TriggersAccount
SYMMETRY Symmetric
CHECK_DEADLOCK FALSE
