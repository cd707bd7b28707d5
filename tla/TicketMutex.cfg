SPECIFICATION FairSpec
CONSTANTS
    a = a
    b = b
    c = c
    Threads <- MCThreads
    TryLockers <- MCTryLockers
    Moduli = {0, 4}
    MaxTickets = 6
INVARIANTS MutualExclusion TicketInv
PROPERTIES ImplementsFifoLock NoStarvation
CHECK_DEADLOCK FALSE
