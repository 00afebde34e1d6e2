-------------------------------- MODULE Issue --------------------------------
(***************************************************************************)
(* The lifecycle of an issue as the stores apply it: mongo/src/issue.rs in *)
(* one update of the issue's document, postgres/src/issues.rs under the    *)
(* lock of its row.  Each operator takes the issue and gives the issue     *)
(* after it and the transitions that are put into the outbox with it.      *)
(***************************************************************************)
EXTENDS Integers, FiniteSets, FiniteSetsExt

CONSTANT NoIssue

Statuses == {"open", "resolved", "ignored"}

\* at: the time of the resolution (w.t, workflow_at); that of a decision to ignore is
\* never compared with anything and left out
IssueRecord == [status : Statuses, at : Nat, regressions : Nat]

NewIssue == [status |-> "open", at |-> 0, regressions |-> 0]

\* notification_transition_id: the kind and the event, or the key of the command.
Transition(kind, cause) == <<kind, cause>>

\* Mutant: an occurrence of the same instant counts as a later one.
RegressesAtOnce(issue, received) == issue.status = "resolved" /\ received >= issue.at

\* Only a resolved issue regresses, and only on what was received after that.
Regresses(issue, received) == issue.status = "resolved" /\ received > issue.at

\* The occurrence received last, by (received_at, event_id).
RegressionCandidate(batch, received) ==
    CHOOSE e \in batch : \A x \in batch :
        received[x] < received[e] \/ (received[x] = received[e] /\ x <= e)

\* apply_occurrence_batch, apply_batch.  first is the occurrence of the earliest
\* occurred_at, a time the client gives.
ApplyOccurrences(issue, batch, first, received) ==
    LET candidate == RegressionCandidate(batch, received)
    IN  IF issue = NoIssue
        THEN [issue |-> NewIssue, outbox |-> {Transition("new", first)}]
        ELSE IF Regresses(issue, received[candidate])
        THEN [issue |-> [NewIssue EXCEPT !.regressions = issue.regressions + 1],
              outbox |-> {Transition("regression", candidate)}]
        ELSE [issue |-> issue, outbox |-> {}]

\* apply_command, for the commands that change the status.  at is when the command was
\* issued.
Applies(issue, action) ==
    /\ issue # NoIssue
    /\ CASE action = "resolve" -> issue.status = "open"
         [] action = "ignore"  -> issue.status # "ignored"
         [] action = "reopen"  -> issue.status # "open"

ApplyCommand(issue, action, key, at) ==
    CASE action = "resolve" ->
            [issue |-> [issue EXCEPT !.status = "resolved", !.at = at],
             outbox |-> {Transition("resolved", key)}]
      [] action = "ignore" ->
            [issue |-> [issue EXCEPT !.status = "ignored", !.at = 0], outbox |-> {}]
      [] action = "reopen" ->
            [issue |-> [issue EXCEPT !.status = "open", !.at = 0], outbox |-> {}]

=============================================================================
