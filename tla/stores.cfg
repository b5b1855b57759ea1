SPECIFICATION StoresSpec
CONSTANTS
    Patterns <- SomePatterns
    Topics <- SomeTopics
    Subscribers = {s1, s2}
    Publishers = {q1, q2}
    Shards = 2
    ShardOf <- TwoShards
    ChannelCapacity = 1
    MaxPatterns = 1
    MaxMatchDepth = 3
    MaxPublished = 2
    CrewShapes <- SomeCrews
    MaxCachedPlans = 1
    PlanTTL = 1
    MaxPlanClock = 4
    Windows = {0, 1, 2, 3}
    MaxTurns = 6
    Callers = {w1, w2}
    TokenLimits <- NoLimitToo
    CostLimits <- NoLimitToo
    Prices <- SomePrices
    MaxCalls = 4
    Tenants = {1, 2}
    TenantBudgets <- SomeBudgets
    TenantUsage <- SomeUsage
    Savers = {d1, d2}
    SizeOf <- LongShortLong
    MaxSaves = 3
    MaxCrashes = 1
    MaxExperiences = 2
    ExpPriorities = {0, 1, 2}
    MaxRecent = 3
    TrendWindow = 2
    MaxActionRecords = 2
    QStates = {1, 2}
    QActions = {1, 2}
    QRewards <- LossAndGain
    QScale = 1024
    Arms = {1, 2, 3}
    MaxLearned = 5
    FrameSizes = {1, 2, 3}
    MaxFrameSize = 2
    MaxFrames = 3
    Asks = {a1, a2, a3}
    TaskTiers = {0, 2, 4}
    Pollers = {p1, p2}
    NoAsk = NoAsk
    Machines = {1, 2, 3}
    Traits <- ThreeNodes
    Asked <- SomeRequests
    HeartbeatTTL = 2
    OfflineTTL = 3
    MaxFleetClock = 4
    Clusters = {1, 2}
    SuspectTimeout = 1
    OfflineTimeout = 2
    EvictTTL = 2
    MaxTerm = 2
    MaxFedClock = 4
    RelayNodes = {m1, m2}
    RelayThreads = {h1, h2}
    Everyone = Everyone
    MaxSeq = 2
    Inventories <- SomeInventories
    Topologies <- SomeTopologies
    DeviceTasks = {k1, k2}
    DeviceKinds = {"cuda", "rocm"}
    AnyKind = AnyKind
    DeviceSizes = {2, 3}
    DeviceNeeds = {1, 2}
    MaxDevices = 2
CHECK_DEADLOCK FALSE
INVARIANTS
    FanOutExact
    RecoversSnapshot
    StoresSound
    MembershipSound
PROPERTY AsksInOrder
