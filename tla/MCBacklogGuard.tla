--------------------------- MODULE MCBacklogGuard ---------------------------
(***************************************************************************)
(* BacklogGuard with three events and a limit of two.                      *)
(***************************************************************************)
EXTENDS BacklogGuard

CONSTANTS e1, e2, e3

MCEvents == {e1, e2, e3}

=============================================================================
