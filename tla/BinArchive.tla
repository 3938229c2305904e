----------------------------- MODULE BinArchive -----------------------------
(***************************************************************************)
(* The binary archive (Lsc::binarchive over a Lsc::filestream): write      *)
(* serialises a table to a stream, read restores a table from it.  The     *)
(* archive's source is not part of the repository; the module follows its  *)
(* specification.  The stream is the sequence                              *)
(*                                                                         *)
(*     capacity, size, key, value, key, value, ...                          *)
(*                                                                         *)
(* with the entries in the order the table's iteration yields them.        *)
(***************************************************************************)
EXTENDS HashMap

CONSTANT DeserializationError

VARIABLE stream     \* the content of the archive file

archive == <<table, stream>>

\* The stream of table t when its iteration visits the keys in `order`.
Serialized(t, order) ==
    <<capacity[t], size(t)>>
        \o FlattenSeq([n \in DOMAIN order |-> <<order[n], dict[t][order[n]]>>])

\* ar.write(table): any order can be the table's internal one.
write(t) ==
    /\ \E order \in SetToSeqs(DOMAIN dict[t]) : stream' = Serialized(t, order)
    /\ ret' = 0
    /\ UNCHANGED <<created, capacity, dict, out>>

\* A stream that holds its header and as many pairs as the header says.
WellFormed(s) == Len(s) >= 2 /\ Len(s) = 2 + 2 * s[2]

\* The (key, value) pairs of a well-formed stream.
Entries(s) == [n \in 1 .. s[2] |-> <<s[2 * n + 1], s[2 * n + 2]>>]

\* Faulty variant: the stored entries are put into the table as it is, with
\* the buckets it has.
read_KeepsCapacity(t) ==
    /\ ret' = 0
    /\ Keeps(t, IF WellFormed(stream) THEN Collected(Entries(stream)) ELSE Empty)
    /\ UNCHANGED <<out, stream>>

\* ar.read(&table): create(stored capacity) followed by assign(stored
\* entries), whatever the table held.  A damaged stream is an error and
\* leaves the table cleared.
read(t) ==
    /\ CASE ~WellFormed(stream) ->
                ret' = DeserializationError /\ Keeps(t, Empty)
         [] WellFormed(stream) /\ stream[1] > MaxBuckets ->
                ret' = OutOfMemory /\ Becomes(t, FALSE, 0, Empty)
         [] OTHER ->
                \E outcome \in AssignOutcomes(stream[1], Entries(stream)) :
                    ret' = outcome[1] /\ Becomes(t, TRUE, stream[1], outcome[2])
    /\ UNCHANGED <<out, stream>>

=============================================================================
