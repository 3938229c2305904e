------------------------------ MODULE PoolAlloc ------------------------------
(***************************************************************************)
(* The pool allocator pool_allocator<_Tp> (Lsc/pool/Lsc_poolalloc.h).      *)
(*                                                                         *)
(* An allocator object holds one pointer, `_p_pool`: the mempool it takes  *)
(* its blocks from, or NULL for the process heap.  Copies and rebound      *)
(* copies share the pool.  The caller (a container) keeps the blocks it    *)
(* was given and may give a block back through any allocator that compares *)
(* equal to the one it came from.                                          *)
(*                                                                         *)
(* The mempool and the heap are not part of the repository; they are        *)
(* modelled as ledgers of the blocks they have out, with a capacity.       *)
(***************************************************************************)
EXTENDS Naturals, FiniteSets, TLC, FiniteSetsExt, Functions

CONSTANTS
    Allocs,     \* the allocator objects of the program
    ElemSize,   \* ElemSize[a]: sizeof(_Tp) of allocator object a
    Pools,      \* the mempool objects
    Heap,       \* the process heap (malloc / free)
    NULL,       \* the null mempool pointer
    Capacity,   \* Capacity[s]: the bytes source s can have out
    SizeBits,   \* width of size_t
    MaxN,       \* bound of the model: the largest element count asked for
    BlockIds,   \* bound of the model: the addresses a block can have
    Corrupt     \* a source that was handed a block or a size it never issued

Sources == Pools \cup {Heap}

ASSUME /\ ElemSize \in [Allocs -> Nat \ {0}]
       /\ Capacity \in [Sources -> Nat]
       /\ NULL \notin Sources /\ Heap \notin Pools
       /\ SizeBits \in Nat \ {0} /\ MaxN \in Nat

VARIABLES
    _p_pool,    \* _p_pool[a]: the mempool a constructed allocator a is
                \* bound to, or NULL
    ledger,     \* ledger[s]: block -> bytes, what source s has out
    blocks,     \* caller's state: block -> how it was obtained and filled
    thrown      \* whether the last allocate() threw BadAllocException

vars == <<_p_pool, ledger, blocks, thrown>>

\* The allocator objects that are constructed.
alive == DOMAIN _p_pool

size_t == 0 .. (2^SizeBits - 1)

\* `__n * sizeof(_Tp)` in size_t.
Bytes(n, esize) == (n * esize) % (2^SizeBits)

\* Faulty variant: the division is taken of 2^SizeBits.
max_size_RoundedUp(esize) == (2^SizeBits) \div esize

\* `size_t(-1) / sizeof(_Tp)`
max_size(esize) == (2^SizeBits - 1) \div esize

\* `_p_pool ? _p_pool->... : ...`
Source(p) == IF p # NULL THEN p ELSE Heap

-----------------------------------------------------------------------------
(* The sources: mempool::malloc/free and malloc/free *)

InUse(s) == IF ledger[s] = Corrupt THEN 0 ELSE SumFunction(ledger[s])

Unused == BlockIds \ UNION {DOMAIN ledger[s] : s \in {t \in Sources : ledger[t] # Corrupt}}

HasRoom(s, size) == ledger[s] # Corrupt /\ Unused # {} /\ InUse(s) + size <= Capacity[s]

\* A successful malloc hands out an address that is not in use.
Malloc(s, id, size) ==
    /\ HasRoom(s, size)
    /\ id = Min(Unused)
    /\ ledger' = [ledger EXCEPT ![s] = @ @@ (id :> size)]

\* free: the source takes back what it issued.  A block of another source,
\* or a size other than the one issued, damages the source.
Free(s, id, size) ==
    ledger' = [ledger EXCEPT ![s] =
                 IF @ # Corrupt /\ id \in DOMAIN @ /\ @[id] = size
                 THEN Restrict(@, DOMAIN @ \ {id}) ELSE Corrupt]

\* free(p) of the heap carries no size: the heap knows it.
IssuedSize(s, id) ==
    IF ledger[s] # Corrupt /\ id \in DOMAIN ledger[s] THEN ledger[s][id] ELSE 0

-----------------------------------------------------------------------------
(* Constructors and destructor *)

Bound(a, p) ==
    /\ a \notin alive
    /\ _p_pool' = _p_pool @@ (a :> p)
    /\ UNCHANGED <<ledger, blocks, thrown>>

\* pool_allocator(): bound to the heap.
Construct(a) == Bound(a, NULL)

\* pool_allocator(mempool*).
ConstructOn(a, pool) == Bound(a, pool)

\* The copy constructor and the rebinding copy (ElemSize may differ).
CopyConstruct(a, src) == src \in alive /\ Bound(a, _p_pool[src])

\* ~pool_allocator(): nothing is released; the blocks stay with the caller.
Destruct(a) ==
    /\ a \in alive
    /\ _p_pool' = Restrict(_p_pool, alive \ {a})
    /\ UNCHANGED <<ledger, blocks, thrown>>

\* Faulty variant: allocators are taken to be interchangeable.
Equal_Always(p, q) == TRUE

\* operator==, on the pool pointers of the two allocators.
Equal(p, q) == p = q

-----------------------------------------------------------------------------
(* allocate / deallocate *)

Block(a, n) == [from |-> _p_pool[a], n |-> n, esize |-> ElemSize[a], live |-> {}]

\* allocate(n): n * sizeof bytes from the bound source, or the exception.
allocate(a, n) ==
    /\ a \in alive
    /\ LET s == Source(_p_pool[a])  size_ == Bytes(n, ElemSize[a]) IN
        \/ \E id \in BlockIds :
                /\ Malloc(s, id, size_)
                /\ blocks' = blocks @@ (id :> Block(a, n))
                /\ thrown' = FALSE
        \/ /\ ~HasRoom(s, size_)
           /\ thrown' = TRUE
           /\ UNCHANGED <<ledger, blocks>>
    /\ UNCHANGED _p_pool

\* The caller gives back a block whose elements it destroyed, through an
\* allocator of the same element type that equals the one it came from.
MayFree(a, id) ==
    /\ a \in alive
    /\ id \in DOMAIN blocks
    /\ blocks[id].live = {}
    /\ blocks[id].esize = ElemSize[a]
    /\ Equal(_p_pool[a], blocks[id].from)

Forget(id) ==
    /\ blocks' = Restrict(blocks, DOMAIN blocks \ {id})
    /\ UNCHANGED <<_p_pool, thrown>>

\* Faulty variant: the element count is passed on as the byte count.
deallocate_CountAsBytes(a, id) ==
    /\ MayFree(a, id)
    /\ Free(Source(_p_pool[a]), id, blocks[id].n)
    /\ Forget(id)

\* deallocate(p, n): `_p_pool->free(p, sizeof(_Tp) * n)` or `free(p)`.
deallocate(a, id) ==
    /\ MayFree(a, id)
    /\ IF _p_pool[a] # NULL
       THEN Free(_p_pool[a], id, Bytes(ElemSize[a], blocks[id].n))
       ELSE Free(Heap, id, IssuedSize(Heap, id))
    /\ Forget(id)

-----------------------------------------------------------------------------
(* construct / destroy of element i of a block *)

SetLive(id, elems) ==
    /\ blocks' = [blocks EXCEPT ![id].live = elems]
    /\ UNCHANGED <<_p_pool, ledger, thrown>>

\* `::new(__p) value_type(__val)`: the pool is not consulted.
construct(a, id, i) ==
    /\ a \in alive /\ id \in DOMAIN blocks
    /\ i \in 1 .. blocks[id].n /\ i \notin blocks[id].live
    /\ SetLive(id, blocks[id].live \cup {i})

\* `__p->~_Tp()`
destroy(a, id, i) ==
    /\ a \in alive /\ id \in DOMAIN blocks
    /\ i \in blocks[id].live
    /\ SetLive(id, blocks[id].live \ {i})

-----------------------------------------------------------------------------
(* Specification *)

Init ==
    /\ _p_pool = <<>>
    /\ ledger = [s \in Sources |-> <<>>]
    /\ blocks = <<>>
    /\ thrown = FALSE

Next ==
    \E a \in Allocs :
        \/ Construct(a)
        \/ \E pool \in Pools : ConstructOn(a, pool)
        \/ \E src \in Allocs : CopyConstruct(a, src)
        \/ Destruct(a)
        \/ \E n \in 0 .. MaxN : allocate(a, n)
        \/ \E id \in BlockIds : deallocate(a, id)
        \/ \E id \in BlockIds, i \in 1 .. MaxN : construct(a, id, i) \/ destroy(a, id, i)

Spec == Init /\ [][Next]_vars

-----------------------------------------------------------------------------
(* Properties *)

BlockType == [from : Pools \cup {NULL}, n : 0 .. MaxN,
              esize : Range(ElemSize), live : SUBSET (1 .. MaxN)]

TypeOK ==
    /\ alive \subseteq Allocs /\ Range(_p_pool) \subseteq Pools \cup {NULL}
    /\ \A s \in Sources :
            /\ ledger[s] # Corrupt
            /\ DOMAIN ledger[s] \subseteq BlockIds /\ Range(ledger[s]) \subseteq size_t
    /\ DOMAIN blocks \subseteq BlockIds /\ Range(blocks) \subseteq BlockType
    /\ thrown \in BOOLEAN

\* What source s should have out, going by the blocks the caller holds.
Outstanding(s) ==
    LET ids == {id \in DOMAIN blocks : Source(blocks[id].from) = s}
    IN  [id \in ids |-> Bytes(blocks[id].n, blocks[id].esize)]

\* Every block goes back to the source that issued it, with the size it was
\* issued with, although deallocate may run on another allocator object than
\* allocate did: what each pool and the heap have out is at all times
\* exactly the blocks the caller holds.  This rests on the copy
\* constructors sharing _p_pool, on operator== comparing it, and on
\* deallocate recomputing the byte count allocate asked for.
BlocksReturnToTheirSource ==
    \A s \in Sources : ledger[s] = Outstanding(s)

\* max_size() is the limit of what allocate can serve: a request of at most
\* max_size() elements that succeeds is given exactly n * sizeof bytes by
\* its source, for every element size.
RequestsUpToMaxSizeFit ==
    \A id \in DOMAIN blocks :
        LET b == blocks[id] IN
        b.n <= max_size(b.esize) => IssuedSize(Source(b.from), id) = b.n * b.esize

\* A block has room for the elements it was asked to hold: construct on
\* element i of a block of allocate(n), i <= n, writes inside the block.
\* (allocate does not compare n with max_size().)
WritesStayInBlock ==
    \A id \in DOMAIN blocks :
        \A i \in blocks[id].live :
            i * blocks[id].esize <= IssuedSize(Source(blocks[id].from), id)

=============================================================================
