---------------------------- MODULE MCProcessing ----------------------------
(***************************************************************************)
(* Processing with two events: enough for a batch with two requests for    *)
(* one event, and for a batch whose steps are done for one event only.     *)
(***************************************************************************)
EXTENDS Processing

CONSTANTS e1, e2

MCEvents == {e1, e2}

MCSymmetry == Permutations(MCEvents)

=============================================================================
