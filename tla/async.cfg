SPECIFICATION AsyncSpec
CONSTANTS
    t1 = t1
    t2 = t2
    t3 = t3
    Stranger = Stranger
    k1 = k1
    k2 = k2
    Tasks = {t1, t2, t3}
    KeyOf <- SharedKeys
    HasSchema = {t1}
    MaxRetries = 1
    MaxValidationRetries = 1
    Line <- ThreeInLine
    Modes = {"sequential", "hierarchical", "parallel", "dag"}
    Limits = {0, 2}
    DepChoices <- DagShapes
    Crews = {c1, c2, c3}
    MaxConcurrent = 2
    MaxRetainedCrews = 1
    MaxCancels = 1
    Waiters = {w1, w2, w3}
    Gated = {g1, g2}
    NoWaiter = NoWaiter
    MaxPendingApprovals = 1
    BusCrews = {b1}
    Streams = {s1, s2}
    BusCapacity = 1
    MaxEventChannels = 1
    MaxEmits = 3
    MaxMade = 3
CHECK_DEADLOCK FALSE
INVARIANTS
    AnswersAccounted
    RunSound
    CrewsSound
    ToldTrue
PROPERTY AsyncEnds
