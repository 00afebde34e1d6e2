-------------------------- MODULE MCNotifications --------------------------
(***************************************************************************)
(* Notifications with two instances: a new issue that notifies two         *)
(* destinations, and an issue that is resolved, regresses and is resolved  *)
(* again, and notifies of the regression.                                  *)
(***************************************************************************)
EXTENDS Notifications

NewIssueToTwo ==
    [targets |-> [new |-> {"d1", "d2"}, regression |-> {}, resolved |-> {}],
     events |-> {1}, commands |-> 0, faults |-> 1, clock |-> 1]

RegressionToOne ==
    [targets |-> [new |-> {}, regression |-> {"d1"}, resolved |-> {}],
     events |-> {1, 2}, commands |-> 2, faults |-> 0, clock |-> 2]

MCInstances == {NewIssueToTwo, RegressionToOne}

=============================================================================
