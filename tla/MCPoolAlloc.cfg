CONSTANTS
    a1 = a1
    a2 = a2
    a3 = a3
    p1 = p1
    Heap = Heap
    NULL = NULL
    Corrupt = Corrupt
    Allocs <- MCAllocs
    Pools <- MCPools
    ElemSize <- MCElemSize
    Capacity <- MCCapacity
    BlockIds <- MCBlockIds
    SizeBits = 3
    MaxN = 3
SYMMETRY MCSymmetry
SPECIFICATION Spec
INVARIANT TypeOK
INVARIANT BlocksReturnToTheirSource
INVARIANT RequestsUpToMaxSizeFit
