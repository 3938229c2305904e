------------------------------ MODULE MCAtomic ------------------------------
EXTENDS Atomic

CONSTANTS t1, t2

\* One thread in the exchange loop and one that interferes.  The threads
\* are not declared symmetric: the run checks a liveness property.
MCTwoThreads == {t1, t2}
MCOperands   == {1, 3}

=============================================================================
