------------------------------- MODULE Atomic -------------------------------
(***************************************************************************)
(* The atomic primitives of Lsc/containers/btree/df_atomic.h, at the level *)
(* of the instructions that touch memory.                                  *)
(*                                                                         *)
(* inc, dec and add are one `lock xadd`, compare_exchange is one `lock     *)
(* cmpxchg`; what they do to their result register afterwards is local to  *)
(* the thread.  df_atomic_exchange is not one instruction: the compiler    *)
(* loads *pv into the accumulator (input operand "0" of the asm), then     *)
(* `lock cmpxchg` is repeated until it succeeds (`jne 1b`); a failing      *)
(* cmpxchg reloads the accumulator.  Other threads run between the load    *)
(* and each cmpxchg.                                                       *)
(*                                                                         *)
(* The four widths (8, 16, 32, 64 bits) are one model with WordBits.       *)
(***************************************************************************)
EXTENDS Naturals

CONSTANTS
    Threads,    \* the threads that share the word
    WordBits,   \* width of the word
    Operands,   \* the values the threads pass as av, nv and cv
    MaxOps      \* bound of the model: the operations one thread performs

VARIABLES
    word,       \* *pv
    ret,        \* ret[t]: the operation t completed last and __res
    pc,         \* pc[t]: "idle", or "cas" inside the exchange loop
    eax,        \* eax[t]: the accumulator inside the exchange loop
    nv,         \* nv[t]: the operand register of the exchange
    left        \* left[t]: the operations t still has to perform

vars == <<word, ret, pc, eax, nv, left>>

Abstract == INSTANCE AtomicWord

Word      == Abstract!Word
Wrap(n)   == Abstract!Wrap(n)

\* Thread t is between two operations and has one to perform.
Ready(t) == pc[t] = "idle" /\ left[t] > 0

\* The operation of t is over: `return __res`.
Return(t, op, args, new, val) ==
    /\ word' = new
    /\ ret'  = [ret  EXCEPT ![t] = Abstract!Result(op, args, val)]
    /\ left' = [left EXCEPT ![t] = @ - 1]

\* An operation that is one locked instruction.
Locked(t, op, args, new, val) ==
    /\ Ready(t)
    /\ Return(t, op, args, new, val)
    /\ UNCHANGED <<pc, eax, nv>>

\* Faulty variant: the carry out of the word is kept.
df_atomic_inc_NoWrap(t) == Locked(t, "inc", <<>>, word + 1, word + 1)

\* `mov $1,%0; lock xadd %0,(%1); inc %0`
df_atomic_inc(t) == Locked(t, "inc", <<>>, Wrap(word + 1), Wrap(word + 1))

\* `mov $0xff..ff,%0; lock xadd %0,(%1); dec %0`
df_atomic_dec(t) ==
    LET old == word  minus1 == 2^WordBits - 1
    IN  Locked(t, "dec", <<>>, Wrap(old + minus1), Wrap(old + minus1))

\* `mov %2,%0; lock xadd %0,(%1)`
df_atomic_add(t, av) == Locked(t, "add", <<av>>, Wrap(word + av), word)

\* `lock cmpxchg %3,(%1)` with the accumulator set to cv: the accumulator
\* holds the initial *pv afterwards, equal or not.
df_atomic_compare_exchange(t, n, cv) ==
    Locked(t, "compare_exchange", <<n, cv>>, IF word = cv THEN n ELSE word, word)

\* The input operand "0", *pv: a plain load of *pv before the loop is entered.
ExchangeLoad(t, n) ==
    /\ Ready(t)
    /\ pc'  = [pc  EXCEPT ![t] = "cas"]
    /\ eax' = [eax EXCEPT ![t] = word]
    /\ nv'  = [nv  EXCEPT ![t] = n]
    /\ UNCHANGED <<word, ret, left>>

\* Leaving the loop: the registers are dead.
ExchangeDone(t, new, val) ==
    /\ Return(t, "exchange", <<nv[t]>>, new, val)
    /\ pc'  = [pc  EXCEPT ![t] = "idle"]
    /\ eax' = [eax EXCEPT ![t] = 0]
    /\ nv'  = [nv  EXCEPT ![t] = 0]

\* `jne 1b` after a cmpxchg that found *pv changed.
ExchangeRetry(t, acc) ==
    /\ eax' = [eax EXCEPT ![t] = acc]
    /\ UNCHANGED <<word, ret, pc, nv, left>>

\* Faulty variant: load, then an unconditional store.
ExchangeCas_PlainStore(t) == pc[t] = "cas" /\ ExchangeDone(t, nv[t], eax[t])

\* Faulty variant: a failing compare leaves the accumulator as it was.
ExchangeCas_NoReload(t) ==
    /\ pc[t] = "cas"
    /\ \/ word = eax[t] /\ ExchangeDone(t, nv[t], eax[t])
       \/ word # eax[t] /\ ExchangeRetry(t, eax[t])

\* `1: lock cmpxchg %3,(%1); jne 1b`
ExchangeCas(t) ==
    /\ pc[t] = "cas"
    /\ \/ word = eax[t] /\ ExchangeDone(t, nv[t], eax[t])
       \/ word # eax[t] /\ ExchangeRetry(t, word)

df_atomic_exchange(t, n) == ExchangeLoad(t, n) \/ ExchangeCas(t)

\* The pointer forms cast to the integer of pointer width and back.
df_atomic_exchange_pointer(t, n) == df_atomic_exchange(t, n)

df_atomic_compare_exchange_pointer(t, n, cv) == df_atomic_compare_exchange(t, n, cv)

-----------------------------------------------------------------------------
(* Specification *)

Init ==
    /\ word \in Word
    /\ ret  = [t \in Threads |-> Abstract!NoResult]
    /\ pc   = [t \in Threads |-> "idle"]
    /\ eax  = [t \in Threads |-> 0]
    /\ nv   = [t \in Threads |-> 0]
    /\ left = [t \in Threads |-> MaxOps]

Step(t) ==
    \/ df_atomic_inc(t)
    \/ df_atomic_dec(t)
    \/ \E av \in Operands : df_atomic_add(t, av)
    \/ \E n \in Operands : df_atomic_exchange(t, n) \/ df_atomic_exchange_pointer(t, n)
    \/ \E n, cv \in Operands :
            \/ df_atomic_compare_exchange(t, n, cv)
            \/ df_atomic_compare_exchange_pointer(t, n, cv)

Next == \E t \in Threads : Step(t)

\* Every thread that can take a step is scheduled sooner or later.
Fairness == \A t \in Threads : WF_vars(Step(t))

Spec == Init /\ [][Next]_vars /\ Fairness

-----------------------------------------------------------------------------
(* Properties *)

TypeOK ==
    /\ word \in Word
    /\ pc \in [Threads -> {"idle", "cas"}]
    /\ eax \in [Threads -> Word]
    /\ nv \in [Threads -> Word]
    /\ left \in [Threads -> 0 .. MaxOps]
    /\ \A t \in Threads : ret[t].val \in Word

\* Every primitive is atomic: whatever the threads interleave, each
\* operation takes effect at one instant and returns what an indivisible
\* execution at that instant would return.  For df_atomic_exchange that
\* instant is the cmpxchg that succeeds; the load and the failed attempts
\* before it change nothing a thread can see.
ImplementsAtomicWord == Abstract!Spec

\* df_atomic_exchange returns: once the other threads stop changing the
\* word, the cmpxchg loop finds the accumulator equal to *pv and leaves.
ExchangeReturns ==
    \A t \in Threads : (pc[t] = "cas") ~> (pc[t] = "idle")

=============================================================================
