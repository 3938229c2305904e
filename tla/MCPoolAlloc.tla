----------------------------- MODULE MCPoolAlloc -----------------------------
EXTENDS PoolAlloc

CONSTANTS a1, a2, a3, p1

MCAllocs   == {a1, a2, a3}
MCPools    == {p1}
\* a1 and a2 allocate the same element type, a3 is a rebound allocator.
MCElemSize == (a1 :> 3) @@ (a2 :> 3) @@ (a3 :> 4)
MCCapacity == (p1 :> 6) @@ (Heap :> 6)
MCBlockIds == 1 .. 2
\* a1 and a2 are interchangeable: same element type, no other difference.
MCSymmetry == Permutations({a1, a2})

=============================================================================
