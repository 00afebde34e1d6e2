----------------------------- MODULE MCDeletion -----------------------------
(***************************************************************************)
(* Deletion with two operations and a call whose event comes before the    *)
(* stored one in the order of the purge, behind the cursor of a pass.      *)
(***************************************************************************)
EXTENDS Deletion

MCOperations == {"op1", "op2"}
MCOneOperation == {"op1"}
MCOriginals == {[project |-> "active", key |-> "active"],
                [project |-> "disabled", key |-> "disabled"]}

=============================================================================
