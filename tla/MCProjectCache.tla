--------------------------- MODULE MCProjectCache ---------------------------
(***************************************************************************)
(* ProjectCache with two keys, of which one fits into the cache.           *)
(***************************************************************************)
EXTENDS ProjectCache

CONSTANTS k1, k2, c1, c2

MCKeys == {k1, k2}
MCCallers == {c1, c2}
MCCells == 1..Cardinality(Callers) + MaxInflight

=============================================================================
