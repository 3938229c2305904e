CONSTANTS
    a1 = a1
    a2 = a2
    v1 = v1
    Raw = Raw
    Allocs <- MCAllocs
    Values <- MCValues
    MaxSlots = 3
    HandleBits = 3
SPECIFICATION Spec
INVARIANT TypeOK
INVARIANT SlotsPartitioned
INVARIANT StoreMatchesPeakDemand
PROPERTY ImplementsHandlePool
PROPERTY ReceivesOldestReturned
