SPECIFICATION FairSpec
CONSTANTS
    Connections = {"c1", "c2", "c3", "c4"}
    Threads = 2
    QueueSize = 1
    MaxConnections = 2
    MaxRequests = 2
INVARIANTS HandlerInv LoadBounded
PROPERTIES Answered RunningAnswered
CHECK_DEADLOCK FALSE
