SPECIFICATION FairSpec
CONSTANTS
    Sessions = {"s1", "s2"}
    InitSize = 1
    Mlp = 2
    MaxRequests = 3
    MaxDepth = 1
INVARIANTS RouterInv WholeFrames
PROPERTIES SentOnceInOrder QueuedIsSent
CHECK_DEADLOCK FALSE
