SPECIFICATION FocusSpec
CONSTANTS
    Runs = {r1, r2}
    t1 = t1
    t2 = t2
    t3 = t3
    n1 = n1
    n2 = n2
    n3 = n3
    Nodes = {n1, n2, n3}
    Barriers = {"a", "b"}
    MaxRetainedRuns = 1
    Tasks = {t1, t2, t3}
    Plans <- FourPlans
    MaxRetries = 1
    MaxRetainedTasks = 1
    MaxFailures = 3
CHECK_DEADLOCK FALSE
PROPERTIES
    AllReachedIsAll
