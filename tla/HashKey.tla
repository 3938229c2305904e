------------------------------ MODULE HashKey ------------------------------
(***************************************************************************)
(* The key hash functors of the unit tests: hash_key                       *)
(* (Lsc_test_hashmap_string.h) and hash_func (Lsc_test_rwhashset.h), the   *)
(* same loop over the bytes of the key,                                    *)
(*                                                                         *)
(*     for (i = 0; i < __key.size(); ++i) key = (key << 8) + __key[i];     *)
(*                                                                         *)
(* `key` is a size_t and `__key[i]` a char, which is signed on the x86     *)
(* build the atomics are written for: a byte of 0x80 and more is added     *)
(* sign-extended.  The previous call is remembered, so that two calls can  *)
(* be compared.                                                            *)
(***************************************************************************)
EXTENDS Integers, Sequences, SequencesExt

CONSTANTS
    CharBits,   \* width of char, and the shift of the loop (8 in the source)
    WordBits,   \* width of size_t
    MaxLen      \* bound of the model: the longest key that is hashed

ASSUME /\ CharBits \in Nat \ {0} /\ MaxLen \in Nat
       /\ WordBits \in Nat /\ WordBits % CharBits = 0

VARIABLES
    __key,      \* the argument of the call
    i,          \* the loop index
    key,        \* the accumulator
    pc,         \* "idle", "loop"
    prev        \* history: argument and result of the call before the last

vars == <<__key, i, key, pc, prev>>

char   == -(2^(CharBits - 1)) .. (2^(CharBits - 1) - 1)
size_t == 0 .. (2^WordBits - 1)
string == BoundedSeq(char, MaxLen)

\* The chars of a key that fit in a size_t.
WordChars == WordBits \div CharBits

\* Faulty variant: the accumulator is shifted one bit short of a char.
Accumulate_ShortShift(k, c) == (k * 2^(CharBits - 1) + c) % (2^WordBits)

\* Faulty variant: the accumulator is not a machine word.
Accumulate_NoWrap(k, c) == k * 2^CharBits + c

\* `(key << 8) + __key[i]`: the shift drops the high char, the char is
\* converted to size_t (sign-extended) and the sum wraps.
Accumulate(k, c) == (k * 2^CharBits + c) % (2^WordBits)

-----------------------------------------------------------------------------

\* The functor is called: `size_t key = 0`, `i = 0`.
Call(s) ==
    /\ pc = "idle"
    /\ pc' = "loop"
    /\ __key' = s /\ i' = 0 /\ key' = 0
    /\ prev' = [arg |-> __key, hash |-> key]

\* One turn of the loop.
hash_key ==
    /\ pc = "loop" /\ i < Len(__key)
    /\ key' = Accumulate(key, __key[i + 1])
    /\ i' = i + 1
    /\ UNCHANGED <<__key, pc, prev>>

\* `return key`
Return ==
    /\ pc = "loop" /\ i >= Len(__key)
    /\ pc' = "idle"
    /\ UNCHANGED <<__key, i, key, prev>>

\* hash_func of the rwhashset test is the same functor.
hash_func == hash_key

Init ==
    /\ __key = <<>> /\ i = 0 /\ key = 0 /\ pc = "idle"
    /\ prev = [arg |-> <<>>, hash |-> 0]

Next == (\E s \in string : Call(s)) \/ hash_func \/ Return

Spec == Init /\ [][Next]_vars

-----------------------------------------------------------------------------
(* Properties *)

TypeOK ==
    /\ __key \in string /\ i \in 0 .. Len(__key) /\ key \in size_t
    /\ pc \in {"idle", "loop"}
    /\ prev \in [arg : string, hash : size_t]

\* The last n chars of s.
Suffix(s, n) == SubSeq(s, Len(s) - Min({n, Len(s)}) + 1, Len(s))

\* A key the hash can tell from every other: it fits in the word and does
\* not begin with a NUL char (a leading zero adds nothing to the sum).
Telling(s) == Len(s) <= WordChars /\ (s # <<>> => s[1] # 0)

\* Only the chars that fit in a size_t count: a key and its last WordChars
\* chars hash alike, negative chars included (the sign extension of a char
\* borrows from the chars before it, never from the ones after it).  Long
\* keys with a common ending share a bucket.
HashOfSuffix ==
    pc = "idle" /\ Suffix(__key, WordChars) = Suffix(prev.arg, WordChars)
        => key = prev.hash

\* Keys that fit in a size_t do not collide, although chars of 0x80 and
\* more are added as negative numbers: the sum `(key << 8) + __key[i]` of
\* two different keys differs.
ShortKeysDoNotCollide ==
    pc = "idle" /\ Telling(__key) /\ Telling(prev.arg) /\ __key # prev.arg
        => key # prev.hash

=============================================================================
