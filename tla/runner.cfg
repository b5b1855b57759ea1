SPECIFICATION LiveSpec
CONSTANTS
    N = 4
    Kinds = {"sequential", "hierarchical", "parallel", "dag"}
    Ghost = Ghost
    Graphs <- FourGraphs
    Limit = 2
    World = {"cancel", "deadline", "watch", "no thread", "client", "tools"}
INVARIANTS
    RunnerSound
    StreamPairs
    OutcomeExact
PROPERTIES
    CancelStops
    RunReturns
