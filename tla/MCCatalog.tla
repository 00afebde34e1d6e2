------------------------------ MODULE MCCatalog ------------------------------
(***************************************************************************)
(* Catalog with more releases and environments than are admitted, and      *)
(* three days.                                                             *)
(***************************************************************************)
EXTENDS Catalog, TLC

CONSTANTS r1, r2, r3, r4, v1, v2, v3

MCReleases == {r1, r2, r3, r4}
MCEnvironments == {v1, v2, v3}

MCSymmetry == Permutations(MCReleases) \cup Permutations(MCEnvironments)

=============================================================================
