SPECIFICATION Spec
CONSTANTS
    a = a
    b = b
    c = c
    high = high
    low = low
    side = side
    None = None
    Threads <- MCThreads
    Mutexes <- MCMutexes
    Level <- MCLevel
    Top = 9
    LIFO = TRUE
INVARIANTS LayersRespected NoDeadlock StackInv
