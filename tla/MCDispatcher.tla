---------------------------- MODULE MCDispatcher ----------------------------
(***************************************************************************)
(* Dispatcher on a small instance: one event more than the queue holds;    *)
(* one of them belongs to a project that may be deleted.                   *)
(***************************************************************************)
EXTENDS Dispatcher

CONSTANTS e1, e2

MCEvents == {e1, e2}
MCDeletable == {e2}

=============================================================================
