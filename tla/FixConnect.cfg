SPECIFICATION Spec
CONSTANTS
    Sessions = {"s1", "s2"}
    InitSize = 1
    Mlp = 2
    MaxRequests = 3
    MaxDepth = 1
PROPERTY ConnectReturnsOk
CHECK_DEADLOCK FALSE
