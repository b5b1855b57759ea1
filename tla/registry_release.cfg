SPECIFICATION LiveSpec
CONSTANTS
    Crews = {c1, c2}
    ArenaCrews = {c1}
    Disposable = {c1, c2}
    Runs = {r1, r2}
    None = None
    MaxRetained = 2
    LowWater = 1
    QueueSlack = 0
    PoppedMax = 2
    SpawnMayFail = TRUE
    Reuse = "unheld"
CHECK_DEADLOCK FALSE
INVARIANTS
    NoDangling
    ChannelHasOwner
PROPERTIES
    ImplementsLifecycle
    RunsEnd
