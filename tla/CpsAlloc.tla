------------------------------ MODULE CpsAlloc ------------------------------
(***************************************************************************)
(* The recycling index allocator Lsc_cpsalloc (Lsc/alloc/Lsc_cpsalloc.h).  *)
(*                                                                         *)
(* An allocator owns a backing store `_deque` of raw slots and a list      *)
(* `_free` of recycled handles.  A handle ("pointer") is an unsigned int:  *)
(* the 1-based position of a slot in `_deque`.  The caller (a hash table   *)
(* that keeps its nodes in the allocator) owns the handles it was given    *)
(* and not yet gave back; the allocator itself never checks a handle.      *)
(*                                                                         *)
(* The module models several allocator objects, because swap() and the     *)
(* copy constructors relate two of them.                                   *)
(***************************************************************************)
EXTENDS Naturals, Sequences, FiniteSets, SequencesExt

CONSTANTS
    Allocs,       \* the allocator objects of the program
    Values,       \* the values a slot can hold once constructed
    Raw,          \* the content of a slot that holds no constructed value
    MaxSlots,     \* bound of the model: the longest _deque that is explored
    HandleBits    \* width of `typedef unsigned int pointer`

ASSUME /\ Raw \notin Values
       /\ MaxSlots \in Nat \ {0}
       /\ HandleBits \in Nat \ {0}

VARIABLES
    alive,        \* the allocator objects that are constructed
    _free,        \* _free[a]: Lsc::deque<pointer>, the recycled handles
    _deque,       \* _deque[a]: Lsc::deque<data_t>, the backing store
    ret,          \* the value the last allocate() returned
    held,         \* caller's state: the handles of a it owns
    peak,         \* history: most handles ever owned at once in a's store
    returned      \* history, kept by the caller: the handles it gave back
                  \* to a and has not received since, oldest first

vars == <<alive, _free, _deque, ret, held, peak, returned>>

-----------------------------------------------------------------------------
(* Types *)

Pointer     == 0 .. (2^HandleBits - 1)
NullPointer == 0
Slot        == Values \cup {Raw}

\* Conversion of a size_t to `pointer` in `return _deque.size()`.
ToPointer(n) == n % (2^HandleBits)

\* getp(): the slot of handle p is _deque[p-1]; sequences here start at 1.
getp(p) == (p - 1) + 1

\* Both deques empty: as default-constructed, and after their destroy().
EmptyAlloc(a) ==
    /\ _free'  = [_free  EXCEPT ![a] = <<>>]
    /\ _deque' = [_deque EXCEPT ![a] = <<>>]

-----------------------------------------------------------------------------
(* Construction and destruction of allocator objects *)

\* Lsc_cpsalloc(): create() does nothing, both deques start empty.
Construct(a) ==
    /\ a \notin alive
    /\ alive' = alive \cup {a}
    /\ EmptyAlloc(a)
    /\ UNCHANGED <<ret, held, peak, returned>>

\* Lsc_cpsalloc(const Lsc_cpsalloc&) and the rebinding copy: nothing of
\* the source is copied, the new allocator is empty.
CopyConstruct(a, src) ==
    /\ src \in alive
    /\ Construct(a)

\* operator== and operator!=: two cpsallocs never compare equal.
Equal(a, b) == FALSE

\* The static traits: storage is released on destruction; no locking.
recycle_space == TRUE
thread_safe   == FALSE

-----------------------------------------------------------------------------
(* allocate / deallocate *)

\* `if (__n > 1) return 0;`
Reject(a, n) ==
    /\ n > 1
    /\ ret' = NullPointer
    /\ UNCHANGED <<_free, _deque, held, peak, returned>>

\* The caller receives handle p.
Take(a, p) ==
    /\ ret'  = p
    /\ held' = [held EXCEPT ![a] = @ \cup {p}]
    /\ peak' = [peak EXCEPT ![a] = Max({@, Cardinality(held'[a])})]
    /\ returned' = [returned EXCEPT ![a] = SelectSeq(@, LAMBDA q : q # p)]

\* Faulty variant: the handle is taken from the end deallocate appends to.
Recycle_Back(a, n) ==
    /\ n <= 1
    /\ _free[a] # <<>>
    /\ _free' = [_free EXCEPT ![a] = Front(@)]
    /\ Take(a, Last(_free[a]))
    /\ UNCHANGED _deque

\* `p = _free.front(); _free.pop_front(); return p;`
Recycle(a, n) ==
    /\ n <= 1
    /\ _free[a] # <<>>
    /\ _free' = [_free EXCEPT ![a] = Tail(@)]
    /\ Take(a, Head(_free[a]))
    /\ UNCHANGED _deque

\* `_deque.push_back(data_t()); return _deque.size();`
PushBack(a, n) ==
    /\ n <= 1
    /\ Len(_deque[a]) < MaxSlots
    /\ _deque' = [_deque EXCEPT ![a] = Append(@, Raw)]
    /\ Take(a, ToPointer(Len(_deque'[a])))
    /\ UNCHANGED _free

Grow(a, n) == _free[a] = <<>> /\ PushBack(a, n)

\* Faulty variant: the store grows although a recycled handle is waiting.
allocate_AlwaysGrow(a, n) ==
    /\ a \in alive
    /\ Reject(a, n) \/ PushBack(a, n)
    /\ UNCHANGED alive

allocate(a, n) ==
    /\ a \in alive
    /\ Reject(a, n) \/ Recycle(a, n) \/ Grow(a, n)
    /\ UNCHANGED alive

\* The caller passes a handle it owns, whose slot holds no value.
OwnsRaw(a, p) ==
    /\ a \in alive
    /\ p \in held[a]
    /\ getp(p) \in DOMAIN _deque[a]
    /\ _deque[a][getp(p)] = Raw

PushFree(a, p) ==
    /\ OwnsRaw(a, p)
    /\ _free' = [_free EXCEPT ![a] = Append(@, p)]
    /\ returned' = [returned EXCEPT ![a] = Append(@, p)]
    /\ UNCHANGED <<alive, _deque, ret, peak>>

\* Faulty variant: the handle stays with the caller, who can free it again.
deallocate_KeepsHandle(a, p) == PushFree(a, p) /\ UNCHANGED held

\* `_free.push_back(__p)`: the caller gives back a handle it owns, after
\* destroying its value.
deallocate(a, p) ==
    /\ PushFree(a, p)
    /\ held' = [held EXCEPT ![a] = @ \ {p}]

-----------------------------------------------------------------------------
(* construct / destroy of the value in a slot *)

StoreAt(a, i, v) ==
    /\ i \in DOMAIN _deque[a]
    /\ _deque' = [_deque EXCEPT ![a][i] = v]
    /\ UNCHANGED <<alive, _free, ret, held, peak, returned>>

\* Faulty variant: getp() without the -1.
construct_OffByOne(a, p, v) == OwnsRaw(a, p) /\ StoreAt(a, getp(p) + 1, v)

\* `::new(getp(__p)) value_type(__val)` on a slot the caller owns.
construct(a, p, v) == OwnsRaw(a, p) /\ StoreAt(a, getp(p), v)

\* `getp(__p)->~value_type()`.
destroy_value(a, p) ==
    /\ a \in alive
    /\ p \in held[a]
    /\ getp(p) \in DOMAIN _deque[a]
    /\ _deque[a][getp(p)] # Raw
    /\ StoreAt(a, getp(p), Raw)

-----------------------------------------------------------------------------
(* Whole-allocator operations *)

NoValueLeft(a) == \A i \in DOMAIN _deque[a] : _deque[a][i] = Raw

\* int destroy(): both deques are released.  The slots are raw unions, no
\* value destructor runs, so the caller destroys its values first; with
\* the store gone the caller owns no handle any more.
Release(a) ==
    /\ a \in alive
    /\ NoValueLeft(a)
    /\ EmptyAlloc(a)
    /\ held' = [held EXCEPT ![a] = {}]
    /\ peak' = [peak EXCEPT ![a] = 0]
    /\ returned' = [returned EXCEPT ![a] = <<>>]
    /\ UNCHANGED ret

destroy(a) == Release(a) /\ UNCHANGED alive

\* ~Lsc_cpsalloc(): destroy(), then the object is gone.
Destruct(a) == Release(a) /\ alive' = alive \ {a}

Exchanged(f, a, b) == [f EXCEPT ![a] = f[b], ![b] = f[a]]

SwapStore(a, b) ==
    /\ a \in alive /\ b \in alive /\ a # b
    /\ _deque' = Exchanged(_deque, a, b)
    /\ held'   = Exchanged(held, a, b)
    /\ peak'   = Exchanged(peak, a, b)
    /\ returned' = Exchanged(returned, a, b)
    /\ UNCHANGED <<alive, ret>>

\* Faulty variant: the free lists stay where they were.
swap_StoreOnly(a, b) == SwapStore(a, b) /\ UNCHANGED _free

\* swap(): both deques change owner, and with them the caller's handles.
swap(a, b) == SwapStore(a, b) /\ _free' = Exchanged(_free, a, b)

-----------------------------------------------------------------------------
(* Specification *)

Init ==
    /\ alive  = {}
    /\ _free  = [a \in Allocs |-> <<>>]
    /\ _deque = [a \in Allocs |-> <<>>]
    /\ ret    = NullPointer
    /\ held   = [a \in Allocs |-> {}]
    /\ peak   = [a \in Allocs |-> 0]
    /\ returned = [a \in Allocs |-> <<>>]

Next ==
    \E a \in Allocs :
        \/ Construct(a)
        \/ \E src \in Allocs : CopyConstruct(a, src)
        \/ Destruct(a)
        \/ \E n \in 0 .. 2 : allocate(a, n)
        \/ \E p \in Pointer : deallocate(a, p)
        \/ \E p \in Pointer, v \in Values : construct(a, p, v)
        \/ \E p \in Pointer : destroy_value(a, p)
        \/ destroy(a)
        \/ \E b \in Allocs : swap(a, b)

Spec == Init /\ [][Next]_vars

-----------------------------------------------------------------------------
(* Properties *)

TypeOK ==
    /\ alive \subseteq Allocs
    /\ \A a \in Allocs :
        /\ _free[a]  \in Seq(Pointer) /\ Len(_free[a]) <= MaxSlots
        /\ _deque[a] \in Seq(Slot) /\ Len(_deque[a]) <= MaxSlots
        /\ held[a] \subseteq Pointer
        /\ peak[a] \in 0 .. MaxSlots
        /\ returned[a] \in Seq(Pointer)
    /\ ret \in Pointer

\* Every slot of the backing store is accounted for exactly once: it is
\* either owned by the caller or waiting once in the free list.  allocate,
\* deallocate, destroy and swap keep _free, _deque and the caller's handles
\* in step: no slot leaks, no handle is listed twice, none is both free and
\* owned.
SlotsPartitioned ==
    \A a \in Allocs :
        /\ ToSet(_free[a]) \cap held[a] = {}
        /\ ToSet(_free[a]) \cup held[a] = 1 .. Len(_deque[a])
        /\ Cardinality(ToSet(_free[a])) = Len(_free[a])

\* Recycling works: the backing store is never longer than the largest
\* number of handles the caller owned at one time, whatever the order of
\* allocate and deallocate was.
StoreMatchesPeakDemand ==
    \A a \in Allocs : Len(_deque[a]) = peak[a]

\* A handle the caller owns is valid (spec: 1 <= handle <= length of the
\* backing store).  allocate converts _deque.size() to unsigned int.
HandlesStayValid ==
    \A a \in Allocs : held[a] \subseteq 1 .. Len(_deque[a])

\* The caller gets back first what it gave back first: a handle that
\* allocate hands out for the second time has waited longer than every
\* handle the caller gave back and has not received yet, however allocate,
\* deallocate and swap of the two allocators were interleaved in between
\* (_free.front() against _free.push_back()).  A slot is reused as late as possible, not
\* as soon as possible.
ReceivesOldestReturned ==
    [][\A a \in Allocs :
          (allocate(a, 1) /\ ret' \in ToSet(returned[a])) => ret' = Head(returned[a])]_vars

-----------------------------------------------------------------------------
(* The allocator implements the abstract pool of handles *)

PoolOf(a) == [h \in held[a] |-> _deque[a][getp(h)]]

HP == INSTANCE HandlePool WITH
        Handles <- 1 .. MaxSlots,
        exists  <- alive,
        pool    <- [a \in Allocs |-> PoolOf(a)]

\* Seen through the handles the caller owns, the allocator is a pool of
\* independent cells: allocate yields a handle that is not in use, a cell
\* changes only by construct and destroy on its own handle, swap exchanges
\* two pools, a new or copied allocator is an empty pool.
ImplementsHandlePool == HP!Spec

=============================================================================
