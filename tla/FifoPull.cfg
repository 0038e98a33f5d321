SPECIFICATION FairPullSpec
CONSTANTS
    NElements = 4
    W = 2
    Producers = {p1}
    MaxBatch = 4
    MaxItems = 12
    NoData = NoData
INVARIANTS
    PulledInOrder
PROPERTIES
    EventuallyConsumed
CHECK_DEADLOCK FALSE
