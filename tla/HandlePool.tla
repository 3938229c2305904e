----------------------------- MODULE HandlePool -----------------------------
(***************************************************************************)
(* What an index allocator promises its caller: a pool of cells named by   *)
(* handles.  The caller acquires a handle that is not in use, puts a value *)
(* in its cell, drops the value, releases the handle.  Nothing is said of  *)
(* which handle is acquired, of free lists or of a backing store.          *)
(***************************************************************************)
EXTENDS Naturals, FiniteSets, TLC

CONSTANTS
    Allocs,     \* the pools
    Handles,    \* the handles a pool can give out
    Values,     \* the values a cell can hold
    Raw         \* the content of a cell without a value

VARIABLES
    exists,     \* the pools that exist
    pool        \* pool[a]: the cells in use, a function from handle to content

vars == <<exists, pool>>

Empty == <<>>

InUse(a) == DOMAIN pool[a]

Without(f, h) == [x \in DOMAIN f \ {h} |-> f[x]]

Create(a) ==
    /\ a \notin exists
    /\ exists' = exists \cup {a}
    /\ pool' = [pool EXCEPT ![a] = Empty]

Delete(a) ==
    /\ a \in exists
    /\ exists' = exists \ {a}
    /\ pool' = [pool EXCEPT ![a] = Empty]

Acquire(a, h) ==
    /\ a \in exists
    /\ h \in Handles \ InUse(a)
    /\ pool' = [pool EXCEPT ![a] = @ @@ (h :> Raw)]
    /\ UNCHANGED exists

Release(a, h) ==
    /\ a \in exists
    /\ h \in InUse(a)
    /\ pool[a][h] = Raw
    /\ pool' = [pool EXCEPT ![a] = Without(@, h)]
    /\ UNCHANGED exists

Put(a, h, v) ==
    /\ a \in exists
    /\ h \in InUse(a)
    /\ pool[a][h] = Raw
    /\ pool' = [pool EXCEPT ![a][h] = v]
    /\ UNCHANGED exists

Drop(a, h) ==
    /\ a \in exists
    /\ h \in InUse(a)
    /\ pool[a][h] # Raw
    /\ pool' = [pool EXCEPT ![a][h] = Raw]
    /\ UNCHANGED exists

Reset(a) ==
    /\ a \in exists
    /\ pool' = [pool EXCEPT ![a] = Empty]
    /\ UNCHANGED exists

Exchange(a, b) ==
    /\ a \in exists /\ b \in exists /\ a # b
    /\ pool' = [pool EXCEPT ![a] = pool[b], ![b] = pool[a]]
    /\ UNCHANGED exists

Init ==
    /\ exists = {}
    /\ pool = [a \in Allocs |-> Empty]

Next ==
    \E a \in Allocs :
        \/ Create(a)
        \/ Delete(a)
        \/ \E h \in Handles : Acquire(a, h) \/ Release(a, h) \/ Drop(a, h)
        \/ \E h \in Handles, v \in Values : Put(a, h, v)
        \/ Reset(a)
        \/ \E b \in Allocs : Exchange(a, b)

Spec == Init /\ [][Next]_vars

=============================================================================
