SPECIFICATION FairSpec
CONSTANTS
    P = 2
    Capacity = 2
    Batch = 3
    MaxItems = 4
INVARIANTS QueueInv ConsumerEndsLast
PROPERTY ProducersEnd
CHECK_DEADLOCK FALSE
