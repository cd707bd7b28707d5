SPECIFICATION DataFairSpec
CONSTANTS
    IoThreads = 2
    MaxConns = 3
    Stream <- MCStream
    EmptyRequests = {3}
INVARIANTS ServerInv AnswersInOrder
PROPERTIES RequestsAnswered SignalEndsRun
CHECK_DEADLOCK FALSE
