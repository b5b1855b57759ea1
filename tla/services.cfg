SPECIFICATION ServicesSpec
CONSTANTS
    K = 3
    Dags <- AllDags
    Vectors <- AllVectors
    Priorities <- MixedPriorities
    MaxArrivals = 4
    MaxLoads = 1
    Recorders = {w1, w2, w3}
    MaxEntries = 3
    MaxRecords = 6
    Requests = {q1, q2, q3}
    TaskPriorities = {1, 4}
    Workers = {v1, v2, d1}
    Drainers = {d1}
    NoRequest = NoRequest
CHECK_DEADLOCK FALSE
INVARIANTS
    ServicesSound
    SortExact
    ChainSound
PROPERTIES
    QueuesServe
