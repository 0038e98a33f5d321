SPECIFICATION FairSpec
CONSTANTS
    NElements = 4
    W = 2
    Producers = {p1, p2, p3}
    MaxBatch = 4
    MaxItems = 8
    NoData = NoData
INVARIANTS
    ConsumerInOrder
    ReadyExactlyCommitted
    WithinCapacity
    NeverRefused
    FifoInv
PROPERTIES
    OverflowOnlyWhenFull
    ImplementsQueue
    EventuallyConsumed
CHECK_DEADLOCK FALSE
