------------------------------ MODULE HashMap ------------------------------
(***************************************************************************)
(* What the hash table engine (Lsc::hashmap, Lsc::phashmap) promises its    *)
(* caller: a table of a fixed capacity that maps keys to values, with the  *)
(* result codes callers script their control flow on.  The engine's source *)
(* is not part of the repository; the module follows its specification     *)
(* and is the table the unit tests of Lsc_test_hashmap_string.h drive.     *)
(* Buckets, hashing and chaining are left to the implementation.           *)
(***************************************************************************)
EXTENDS Naturals, FiniteSets, Sequences, SequencesExt, TLC

CONSTANTS
    Tables,             \* the table objects of the program
    Keys, Vals,
    MaxBuckets,         \* the buckets the allocator can provide
    HASH_INSERT_SEC, HASH_EXIST, HASH_OVERWRITE, HASH_NOEXIST,
    Full, InvalidState, OutOfMemory

ASSUME MaxBuckets \in Nat

VARIABLES
    created,    \* created[t]: Created (TRUE) or Uninitialized (FALSE)
    capacity,   \* capacity[t]: the bucket count fixed by create
    dict,       \* dict[t]: the entries, a function from key to value
    ret,        \* the result code of the last operation
    out         \* the value the last successful get stored through its pointer

table == <<created, capacity, dict, ret, out>>

Empty == <<>>

size(t) == Cardinality(DOMAIN dict[t])

Without(f, k) == [x \in DOMAIN f \ {k} |-> f[x]]

Becomes(t, isCreated, buckets, entries) ==
    /\ created'  = [created  EXCEPT ![t] = isCreated]
    /\ capacity' = [capacity EXCEPT ![t] = buckets]
    /\ dict'     = [dict     EXCEPT ![t] = entries]

Keeps(t, entries) == Becomes(t, created[t], capacity[t], entries)

-----------------------------------------------------------------------------
(* Lifecycle *)

\* create(c), from either state: earlier buckets are released, c new ones
\* allocated, the table is empty.  Without memory the table has no buckets.
create(t, c) ==
    /\ IF c <= MaxBuckets
       THEN Becomes(t, TRUE, c, Empty) /\ ret' = 0
       ELSE Becomes(t, FALSE, 0, Empty) /\ ret' = OutOfMemory
    /\ UNCHANGED out

\* destroy(), from either state: back to Uninitialized.
destroy(t) ==
    /\ Becomes(t, FALSE, 0, Empty)
    /\ ret' = 0
    /\ UNCHANGED out

\* ~hashmap(): a table that was not destroyed releases its storage.
Destruct(t) ==
    /\ Becomes(t, FALSE, 0, Empty)
    /\ UNCHANGED <<ret, out>>

\* clear(): the entries go, buckets and capacity stay; valid without create.
clear(t) ==
    /\ Keeps(t, Empty)
    /\ ret' = 0
    /\ UNCHANGED out

-----------------------------------------------------------------------------
(* Entries *)

\* The result of set and the entries after it.
SetOutcome(t, k, v, overwrite) ==
    CASE ~created[t]                          -> <<InvalidState, dict[t]>>
      [] k \in DOMAIN dict[t] /\ overwrite    -> <<HASH_OVERWRITE, [dict[t] EXCEPT ![k] = v]>>
      [] k \in DOMAIN dict[t] /\ ~overwrite   -> <<HASH_EXIST, dict[t]>>
      [] OTHER -> IF size(t) < capacity[t]
                  THEN <<HASH_INSERT_SEC, dict[t] @@ (k :> v)>>
                  ELSE <<Full, dict[t]>>

set(t, k, v, overwrite) ==
    LET outcome == SetOutcome(t, k, v, overwrite) IN
    /\ ret' = outcome[1]
    /\ Keeps(t, outcome[2])
    /\ UNCHANGED out

\* get(key, &value), or get(key) without the pointer (`wanted` is FALSE):
\* the table is not changed.
get(t, k, wanted) ==
    /\ ret' = IF k \in DOMAIN dict[t] THEN HASH_EXIST ELSE HASH_NOEXIST
    /\ out' = IF k \in DOMAIN dict[t] /\ wanted THEN dict[t][k] ELSE out
    /\ UNCHANGED <<created, capacity, dict>>

erase(t, k) ==
    /\ IF k \in DOMAIN dict[t]
       THEN ret' = HASH_EXIST /\ Keeps(t, Without(dict[t], k))
       ELSE ret' = HASH_NOEXIST /\ Keeps(t, dict[t])
    /\ UNCHANGED out

\* The mapping a collection of (key, value) pairs stands for: for a key
\* that occurs more than once the last pair wins.
Collected(entries) ==
    [k \in {e[1] : e \in ToSet(entries)} |->
        entries[SelectLastInSeq(entries, LAMBDA e : e[1] = k)][2]]

\* What assigning a collection to a table of `buckets` buckets can give: the
\* collection, or Full and some of it when it has more keys than buckets.
AssignOutcomes(buckets, entries) ==
    LET all == Collected(entries) IN
    IF Cardinality(DOMAIN all) <= buckets
    THEN {<<0, all>>}
    ELSE {<<Full, [k \in some |-> all[k]]>> :
            some \in {S \in SUBSET DOMAIN all : Cardinality(S) <= buckets}}

\* assign(first, last): the table holds exactly the collection afterwards.
assign(t, entries) ==
    /\ \E outcome \in AssignOutcomes(capacity[t], entries) :
            ret' = outcome[1] /\ Keeps(t, outcome[2])
    /\ UNCHANGED out

\* `iter->second = v`: a value is replaced through an iterator that stands
\* on the entry of k.
assign_through_iterator(t, k, v) ==
    /\ k \in DOMAIN dict[t]
    /\ Keeps(t, [dict[t] EXCEPT ![k] = v])
    /\ UNCHANGED <<ret, out>>

=============================================================================
