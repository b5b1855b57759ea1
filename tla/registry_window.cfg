SPECIFICATION Spec
CONSTANTS
    Crews = {c1, c2, c3}
    ArenaCrews = {}
    Disposable = {}
    Runs = {r1, r2, r3}
    None = None
    MaxRetained = 2
    LowWater = 1
    QueueSlack = 0
    PoppedMax = 2
    SpawnMayFail = TRUE
    Reuse = "unheld"
SYMMETRY Symmetric
CHECK_DEADLOCK FALSE
INVARIANTS
    HeldIsRegistered
    QueuedHasEnded
    QueueSound
PROPERTIES
    Retention
