----------------------------- MODULE MCCpsAlloc -----------------------------
(* CpsAlloc instantiated for model checking. *)
EXTENDS CpsAlloc

CONSTANTS a1, a2, v1

MCAllocs == {a1, a2}
MCOneAlloc == {a1}
MCValues == {v1}

=============================================================================
