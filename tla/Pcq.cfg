SPECIFICATION FairSpec
CONSTANTS
    Size = 3
    Half = 4
    MaxItems = 5
INVARIANTS NoSlotRace GuessBounds RingInv RawLifetimesMatch
PROPERTIES InOrder AllDelivered ImplementsFifo
