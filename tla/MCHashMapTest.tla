--------------------------- MODULE MCHashMapTest ---------------------------
(***************************************************************************)
(* The unit tests on two strings.  The capacities and loop counts of the   *)
(* source are scaled down: a capacity of up to 100 buckets is one bucket   *)
(* (fewer than the strings), a larger one three (more than the strings, as *)
(* in the source, where no table is filled); a loop of up to 100 turns     *)
(* runs twice, a longer one three times, so that a fill loop draws a       *)
(* string again after it has drawn both.                                   *)
(***************************************************************************)
EXTENDS HashMapTest

CONSTANTS s1, s2

MCStrings == {s1, s2}
MCTables  == {"test", "test_0", "test0", "ht", "ht2"}

\* -1, the error of the table operations.
MCError == -1

MCBuckets(n) == IF n = 0 THEN 0 ELSE IF n <= 100 THEN 1 ELSE 3
MCTimes(n)   == IF n <= 100 THEN 2 ELSE 3

=============================================================================
