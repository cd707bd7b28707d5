SPECIFICATION FairSpec
CONSTANTS
    P = 2
    Capacity = 2
    Batch = 3
    MaxItems = 4
PROPERTY ConsumerEnds
CHECK_DEADLOCK FALSE
