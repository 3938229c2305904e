----------------------------- MODULE AtomicWord -----------------------------
(***************************************************************************)
(* What the atomic primitives of df_atomic.h promise: one word of memory   *)
(* on which every operation of every thread takes effect in one indivisible*)
(* step and returns the value its comment names.                           *)
(***************************************************************************)
EXTENDS Naturals

CONSTANTS
    Threads,    \* the threads that share the word
    WordBits,   \* width of the word
    Operands    \* the values the threads pass as av, nv and cv

VARIABLES
    word,       \* the shared word
    ret         \* ret[t]: the operation t completed last and its result

vars == <<word, ret>>

Word == 0 .. (2^WordBits - 1)

Wrap(n) == n % (2^WordBits)

Result(op, args, val) == [op |-> op, args |-> args, val |-> val]

NoResult == Result("none", <<>>, 0)

\* Thread t completes operation op: the word becomes new, t receives val.
Complete(t, op, args, new, val) ==
    /\ word' = new
    /\ ret' = [ret EXCEPT ![t] = Result(op, args, val)]

\* ++*pv, returns the incremented value.
Inc(t) == Complete(t, "inc", <<>>, Wrap(word + 1), Wrap(word + 1))

\* --*pv, returns the decremented value.
Dec(t) == Complete(t, "dec", <<>>, Wrap(word + 2^WordBits - 1),
                                   Wrap(word + 2^WordBits - 1))

\* *pv += av, returns the initial value.
Add(t, av) == Complete(t, "add", <<av>>, Wrap(word + av), word)

\* *pv = nv, returns the initial value.
Exchange(t, nv) == Complete(t, "exchange", <<nv>>, nv, word)

\* if *pv == cv then *pv = nv; returns the initial value.
CompareExchange(t, nv, cv) ==
    Complete(t, "compare_exchange", <<nv, cv>>,
             IF word = cv THEN nv ELSE word, word)

Init ==
    /\ word \in Word
    /\ ret = [t \in Threads |-> NoResult]

Next ==
    \E t \in Threads :
        \/ Inc(t) \/ Dec(t)
        \/ \E av \in Operands : Add(t, av) \/ Exchange(t, av)
        \/ \E nv, cv \in Operands : CompareExchange(t, nv, cv)

Spec == Init /\ [][Next]_vars

=============================================================================
