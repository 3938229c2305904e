CONSTANTS
    a1 = a1
    a2 = a2
    v1 = v1
    Raw = Raw
    Allocs <- MCOneAlloc
    Values <- MCValues
    MaxSlots = 4
    HandleBits = 2
SPECIFICATION Spec
INVARIANT HandlesStayValid
