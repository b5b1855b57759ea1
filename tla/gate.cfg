SPECIFICATION LiveSpec
CONSTANTS
    Tasks = {t1, t2}
    MaxRequests = 3
    None = None
    MaxPending = 2
INVARIANTS
    FailsClosed
    PlaceIsKept
    DecisionStands
PROPERTIES
    WaitEnds
