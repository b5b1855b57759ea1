SPECIFICATION EdgeSpec
CONSTANTS
    RequestSet <- SomeRequests
    MaxAgents = 2
    MaxTasks = 3
    MaxStringLen = 2
    A2aMaxStringLen = 2
    A2aMaxMetadata = 2
    MaxConcurrency = 4
    HttpRequests <- SomeHttp
    AuthEnvs <- SomeEnvs
    RouteSlots = 2
    Clients = {c1}
    SharedKey = shared
    Rate = 1
    Burst = 3
    EvictionInterval = 2
    MaxRateClock = 5
    Saved = {d1, d2}
    MaxVersions = 3
    MaxVersionSaves = 6
    MetricCrews = {m1, m2}
    MaxMetricCrews = 4
    PipeCapacity = 1
    MaxInput = 3
    WasmRuns = {e1, e2}
    WasmTimeout = 2
    Responses <- SomeTexts
    Prompts <- SomePrompts
    KeyTail = 2
    LeakWindow = 3
    MaxInputLength = 12
    Rosters <- SomeRosters
    TaskNeeds <- SomeNeeds
    Members <- SomeMembers
    Manager = Manager
    GroupOf <- MindGroup
    Nothing = Nothing
    PriceTables <- SomePrices
    PlanBudgets = {0, 69, 70, 239, 240, 1439, 1800}
    Workloads = {0, 1}
    RetryConfigs <- SomeRetries
    ShiftBits = 3
    UserCounts = {0, 1, 3}
    MaxUsers = 2
    MaxTotalRequests = 6
    Latencies = {1, 2}
    Directories <- SomeDirs
    Packages <- SomePackages
    MaxEntries = 3
    MaxFileSize = 2
    PackageDirs <- SomePkgDirs
    Callers = {k1}
    AllowLists = {{}, {"x"}}
    RunResults <- SomeRuns
    NoTool = NoTool
    Downloads <- SomeDownloads
    MaxDownload = 2
CHECK_DEADLOCK FALSE
INVARIANTS
    EdgeSound
    DecisionsSound
PROPERTY EdgeEnds
