SPECIFICATION PullSpec
CONSTANTS
    NElements = 4
    W = 2
    Producers = {p1, p2}
    MaxBatch = 4
    MaxItems = 12
    NoData = NoData
INVARIANTS
    PulledInOrder
CHECK_DEADLOCK FALSE
