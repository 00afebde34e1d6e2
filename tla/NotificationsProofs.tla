------------------------- MODULE NotificationsProofs -------------------------
(***************************************************************************)
(* Proofs about Notifications: no transition is lost, every regression is  *)
(* counted once, and the outbox implements Outbox, for every number of     *)
(* workers, destinations, events and attempts, and any number of faults.   *)
(***************************************************************************)
EXTENDS Notifications, FiniteSetTheorems, WellFoundedInduction, TLAPS

USE NotificationsAssumption
USE DEF constantVars, issueVars

-----------------------------------------------------------------------------
(* Induction, for a set: the provers do not instantiate one for a predicate *)

\* A non-empty set of naturals has a least element.
LEMMA LeastNat ==
  ASSUME NEW T \in SUBSET Nat, T # {}
  PROVE  \E n \in T : \A m \in T : n <= m
  <1> DEFINE R == {p \in Nat \X Nat : p[1] < p[2]}
  <1>1. IsWellFoundedOn(R, Nat)
    BY NatLessThanWellFounded, Zenon DEF OpToRel
  <1>2. \A m, n \in Nat : m < n => <<m, n>> \in R
    OBVIOUS
  <1> HIDE DEF R
  <1>3. \E n \in T : \A m \in T : ~ (<<m, n>> \in R)
    BY <1>1, WFMin
  <1>4. PICK n \in T : \A m \in T : ~ (<<m, n>> \in R)
    BY <1>3
  <1>5. ASSUME NEW m \in T PROVE n <= m
    <2>1. ~ (m < n)
      BY <1>2, <1>4
    <2> QED BY <2>1
  <1> QED BY <1>5

-----------------------------------------------------------------------------
(* The issue *)

\* A batch that is not empty has a candidate for a regression, its greatest occurrence
\* by receipt and id: there is a last receipt, and a greatest id among those.
LEMMA CandidateInBatch ==
  ASSUME TypeOK, NEW batch \in SUBSET Events, NEW first \in batch
  PROVE  RegressionCandidate(batch, received) \in batch
  <1>1. PICK top \in Events : \A e \in Events : e <= top
    OBVIOUS
  <1>2. /\ given.clock \in Nat /\ top \in Nat
        /\ \A e \in Events : e \in Nat /\ received[e] \in 0..given.clock
    BY <1>1 DEF TypeOK
  <1> DEFINE Ages == {n \in Nat : \E e \in batch : received[e] = given.clock - n}
  <1>3. given.clock - received[first] \in Ages
    BY <1>2
  <1>4. PICK age \in Ages : \A n \in Ages : age <= n
    BY <1>3, LeastNat
  <1>5. PICK latest \in batch : received[latest] = given.clock - age
    BY <1>4
  <1>6. \A e \in batch : received[e] <= received[latest]
    <2> TAKE e \in batch
    <2>1. given.clock - received[e] \in Ages
      BY <1>2
    <2> HIDE DEF Ages
    <2>2. age <= given.clock - received[e]
      BY <1>4, <2>1
    <2> QED BY <2>2, <1>2, <1>5, <1>4 DEF Ages
  <1> DEFINE Below == {n \in Nat : \E e \in batch :
                         received[e] = received[latest] /\ e = top - n}
  <1>7. top - latest \in Below
    BY <1>1, <1>2
  <1>8. PICK d \in Below : \A n \in Below : d <= n
    BY <1>7, LeastNat
  <1>9. PICK c \in batch : received[c] = received[latest] /\ c = top - d
    BY <1>8
  <1>10. \A x \in batch : received[x] < received[c] \/ (received[x] = received[c] /\ x <= c)
    <2> TAKE x \in batch
    <2>1. CASE received[x] = received[latest]
      <3>1. top - x \in Below
        BY <1>1, <1>2, <2>1
      <3> HIDE DEF Below
      <3>2. d <= top - x
        BY <1>8, <3>1
      <3> QED BY <3>2, <1>2, <1>8, <1>9, <2>1 DEF Below
    <2> QED BY <2>1, <1>6, <1>9, <1>2
  <1> QED BY <1>10 DEF RegressionCandidate

\* What a batch of occurrences does: it makes the issue, or one of its events, received
\* after the issue was resolved, regresses it, or nothing changes.
LEMMA OccurrencesFacts ==
  ASSUME TypeOK, NEW batch \in SUBSET Events, NEW first \in batch,
         NEW after, after = ApplyOccurrences(issue, batch, first, received)
  PROVE  \/ /\ issue = NoIssue
            /\ after.issue = NewIssue /\ after.outbox = {<<"new", first>>}
         \/ /\ issue # NoIssue /\ issue.status = "resolved"
            /\ \E c \in batch :
                /\ received[c] > issue.at
                /\ after.issue = [NewIssue EXCEPT !.regressions = issue.regressions + 1]
                /\ after.outbox = {<<"regression", c>>}
         \/ /\ issue # NoIssue
            /\ after.issue = issue /\ after.outbox = {}
  <1> DEFINE c == RegressionCandidate(batch, received)
  <1>1. c \in batch
    BY CandidateInBatch
  <1> HIDE DEF c
  <1>2. after = IF issue = NoIssue
                THEN [issue |-> NewIssue, outbox |-> {Transition("new", first)}]
                ELSE IF Regresses(issue, received[c])
                THEN [issue |-> [NewIssue EXCEPT !.regressions = issue.regressions + 1],
                      outbox |-> {Transition("regression", c)}]
                ELSE [issue |-> issue, outbox |-> {}]
    BY DEF ApplyOccurrences, c
  <1> QED BY <1>1, <1>2 DEF Regresses, Transition

\* What a command does: it counts no regression, and resolves at the time it read.
LEMMA CommandFacts ==
  ASSUME TypeOK, NEW action \in {"resolve", "ignore", "reopen"}, NEW key \in Keys,
         NEW at \in 1..clock, Applies(issue, action),
         NEW after, after = ApplyCommand(issue, action, key, at)
  PROVE  /\ issue \in IssueRecord /\ issue # NoIssue
         /\ after.issue \in IssueRecord
         /\ after.issue.regressions = issue.regressions
         /\ after.issue.status = "resolved" => action = "resolve" /\ after.issue.at = at
         /\ after.outbox \subseteq {<<"resolved", key>>}
  <1>1. issue \in IssueRecord /\ issue # NoIssue
    BY DEF Applies, TypeOK
  <1>2. at \in Nat
    BY DEF TypeOK
  <1>3. CASE action = "resolve"
    BY <1>1, <1>2, <1>3 DEF ApplyCommand, IssueRecord, Statuses, Transition
  <1>4. CASE action = "ignore"
    BY <1>1, <1>2, <1>4 DEF ApplyCommand, IssueRecord, Statuses, Transition
  <1>5. CASE action = "reopen"
    BY <1>1, <1>2, <1>5 DEF ApplyCommand, IssueRecord, Statuses, Transition
  <1> QED BY <1>1, <1>3, <1>4, <1>5

-----------------------------------------------------------------------------
(* Deliveries and claims *)

\* Items are of a transition and a destination.
LEMMA ItemType ==
  ASSUME NEW i \in Items PROVE i[1] \in Transitions /\ i[2] \in Destinations
  BY DEF Items

\* What claims, marks and expansions make of a delivery.
LEMMA DeliveryFacts ==
  /\ NoDelivery \in Delivery /\ NewDelivery \in Delivery
  /\ \A d \in Delivery :
      /\ Claimed(d) \in Delivery /\ Claimed(d).status = d.status
      /\ Claimed(d).attempts >= d.attempts
      /\ Claimed(d).attempts \in 1..(MaxAttempts + 1)
      /\ Claimed(d).attempts <= MaxAttempts => Claimed(d).attempts = d.attempts + 1
      /\ [d EXCEPT !.due = TRUE] \in Delivery
      /\ \A o \in {"delivered", "dead", "retry"} :
          /\ Marked(d, o) \in Delivery
          /\ Marked(d, o).attempts = d.attempts
          /\ d.status # "pending" => Marked(d, o) = d
          /\ Marked(d, o).status = "none" => Marked(d, o) = d
  <1>1. NoDelivery \in Delivery /\ NewDelivery \in Delivery
    BY DEF NoDelivery, NewDelivery, Delivery
  <1>2. ASSUME NEW d \in Delivery
        PROVE  /\ Claimed(d) \in Delivery /\ Claimed(d).status = d.status
               /\ Claimed(d).attempts >= d.attempts
               /\ Claimed(d).attempts \in 1..(MaxAttempts + 1)
               /\ Claimed(d).attempts <= MaxAttempts => Claimed(d).attempts = d.attempts + 1
    <2> DEFINE n == IF d.attempts > MaxAttempts THEN d.attempts ELSE d.attempts + 1
    <2>1. /\ d.status \in {"none", "pending"} \cup Terminal
          /\ d.attempts \in 0..(MaxAttempts + 1)
          /\ d = [status |-> d.status, attempts |-> d.attempts, due |-> d.due]
      BY DEF Delivery
    <2>2. n \in 1..(MaxAttempts + 1) /\ n >= d.attempts
          /\ (n <= MaxAttempts => n = d.attempts + 1)
      BY <2>1
    <2>3. Claimed(d) = [status |-> d.status, attempts |-> n, due |-> FALSE]
      <3>1. CASE d.attempts > MaxAttempts
        <4>1. Claimed(d) = [d EXCEPT !.attempts = d.attempts, !.due = FALSE]
          BY <3>1 DEF Claimed
        <4> QED BY <4>1, <3>1, <2>1
      <3>2. CASE ~(d.attempts > MaxAttempts)
        <4>1. Claimed(d) = [d EXCEPT !.attempts = d.attempts + 1, !.due = FALSE]
          BY <3>2 DEF Claimed
        <4> QED BY <4>1, <3>2, <2>1
      <3> QED BY <3>1, <3>2
    <2> HIDE DEF n
    <2> QED BY <2>1, <2>2, <2>3 DEF Delivery
  <1>3. ASSUME NEW d \in Delivery PROVE [d EXCEPT !.due = TRUE] \in Delivery
    BY DEF Delivery
  <1>4. ASSUME NEW d \in Delivery, NEW o \in {"delivered", "dead", "retry"}
        PROVE  /\ Marked(d, o) \in Delivery
               /\ Marked(d, o).attempts = d.attempts
               /\ d.status # "pending" => Marked(d, o) = d
               /\ Marked(d, o).status = "none" => Marked(d, o) = d
    <2>1. CASE d.status # "pending"
      BY <2>1 DEF Marked
    <2>2. CASE d.status = "pending"
      BY <2>2 DEF Delivery, Marked, Terminal
    <2> QED BY <2>1, <2>2
  <1> QED BY <1>1, <1>2, <1>3, <1>4

\* What Mark records.
LEMMA OutcomeFacts ==
  ASSUME NotificationsInv, NEW w \in Workers, MarkReady(w)
  PROVE  /\ worker[w].claim \in Claims /\ worker[w].claim.item \in Items
         /\ Outcome(w) \in {"delivered", "dead", "retry"}
         /\ Outcome(w) = "delivered" => worker[w].at = "answered"
  <1>1. worker[w] \in Working
    BY DEF NotificationsInv
  <1>2. CASE worker[w] \in [at : {"claimed"}, claim : Claims]
    BY <1>2 DEF Outcome, Claims
  <1>3. CASE worker[w] \in [at : {"answered"}, claim : Claims,
                            result : {"delivered", "permanent", "retryable"}]
    BY <1>3 DEF Outcome, Claims
  <1>4. CASE worker[w] = Idle
    BY <1>4 DEF MarkReady, Idle
  <1> QED BY <1>1, <1>2, <1>3, <1>4 DEF Working

\* The poller and the workers hold what their step says.
LEMMA PollerFacts ==
  ASSUME poller \in Polling
  PROVE  /\ poller.at = "expand" =>
              poller \in [at : {"expand"}, todo : SUBSET Transitions]
         /\ poller.at = "upsert" =>
              poller \in [at : {"upsert"}, todo : SUBSET Transitions,
                         transition : Transitions, left : SUBSET Items]
         /\ poller.at \in {"idle", "expand", "upsert", "claim"}
  BY DEF Polling, Idle

LEMMA WorkerFacts ==
  ASSUME NotificationsInv, NEW w \in Workers
  PROVE  /\ worker[w].at = "claimed" =>
              worker[w] \in [at : {"claimed"}, claim : Claims]
         /\ worker[w] = Idle => worker[w].at = "idle"
         /\ worker[w] # Idle =>
              worker[w].claim \in Claims /\ worker[w].at \in {"claimed", "answered"}
  <1>1. worker[w] \in Working
    BY DEF NotificationsInv
  <1> QED BY <1>1 DEF Working, Idle

\* The types of what Lifecycle changes.
LEMMA LifecycleType ==
  ASSUME NotificationsInv, Lifecycle
  PROVE  TypeOK' /\ (poller \in Polling)' /\ (worker \in [Workers -> Working])'
  <1> USE DEF TypeOK
  <1>0. TypeOK /\ poller \in Polling /\ worker \in [Workers -> Working]
    BY DEF NotificationsInv
  <1>1. CASE Tick
    BY <1>0, <1>1 DEF Tick
  <1>2. ASSUME NEW e \in Events, Receive(e)
        PROVE  TypeOK' /\ (poller \in Polling)' /\ (worker \in [Workers -> Working])'
    <2>1. received' \in [Events -> 0..given.clock]
      BY <1>0, <1>2 DEF Receive
    <2> QED BY <1>0, <1>2, <2>1 DEF Receive
  <1>3. ASSUME NEW e \in Events, MarkProcessed(e)
        PROVE  TypeOK' /\ (poller \in Polling)' /\ (worker \in [Workers -> Working])'
    <2>1. stage' \in [Events -> {"pending", "applied", "processed"}]
      BY <1>0, <1>3 DEF MarkProcessed
    <2> QED BY <1>0, <1>3, <2>1 DEF MarkProcessed
  <1>4. ASSUME NEW batch \in SUBSET Events, NEW first \in batch, Apply(batch, first)
        PROVE  TypeOK' /\ (poller \in Polling)' /\ (worker \in [Workers -> Working])'
    <2> DEFINE after == ApplyOccurrences(issue, batch, first, received)
    <2>1. stage' \in [Events -> {"pending", "applied", "processed"}]
      BY <1>0, <1>4 DEF Apply
    <2>2. /\ after.issue = NoIssue \/ after.issue \in IssueRecord
          /\ after.outbox \subseteq Transitions
      <3>1. issue \in IssueRecord => NewIssue \in IssueRecord
                /\ [NewIssue EXCEPT !.regressions = issue.regressions + 1] \in IssueRecord
        BY DEF NewIssue, IssueRecord, Statuses
      <3>2. NewIssue \in IssueRecord
        BY DEF NewIssue, IssueRecord, Statuses
      <3>3. \A e \in Events : <<"new", e>> \in Transitions
                               /\ <<"regression", e>> \in Transitions
        BY DEF Transitions
      <3> HIDE DEF after
      <3>4. \/ issue = NoIssue
               /\ after.issue = NewIssue /\ after.outbox = {<<"new", first>>}
            \/ /\ issue # NoIssue /\ issue.status = "resolved"
               /\ \E c \in batch :
                   /\ received[c] > issue.at
                   /\ after.issue = [NewIssue EXCEPT !.regressions = issue.regressions + 1]
                   /\ after.outbox = {<<"regression", c>>}
            \/ issue # NoIssue /\ after.issue = issue /\ after.outbox = {}
        BY <1>0, OccurrencesFacts DEF after
      <3>5. issue = NoIssue \/ issue \in IssueRecord
        BY <1>0
      <3> QED BY <3>1, <3>2, <3>3, <3>4, <3>5
    <2>3. issue' = after.issue /\ outbox' = outbox \cup after.outbox
          /\ happened' = happened \cup after.outbox
      BY <1>4 DEF Apply, Effect
    <2> HIDE DEF after
    <2> QED BY <1>0, <1>4, <2>1, <2>2, <2>3 DEF Apply
  <1>5. ASSUME NEW action \in {"resolve", "ignore", "reopen"}, NEW key \in Keys,
               NEW at \in 1..clock, Command(action, key, at)
        PROVE  TypeOK' /\ (poller \in Polling)' /\ (worker \in [Workers -> Working])'
    <2> DEFINE after == ApplyCommand(issue, action, key, at)
    <2>1. after.issue \in IssueRecord /\ after.outbox \subseteq {<<"resolved", key>>}
      BY <1>0, <1>5, CommandFacts DEF Command
    <2>2. <<"resolved", key>> \in Transitions
      BY DEF Transitions
    <2>3. issue' = after.issue /\ outbox' = outbox \cup after.outbox
          /\ happened' = happened \cup after.outbox
      BY <1>5 DEF Command, Effect
    <2> HIDE DEF after
    <2>4. commands' \in 0..given.commands
      BY <1>0, <1>5 DEF Command
    <2>5. outbox' \subseteq Transitions /\ happened' \subseteq Transitions
      BY <1>0, <2>1, <2>2, <2>3
    <2>6. issue' \in IssueRecord
      BY <2>1, <2>3
    <2>7. UNCHANGED <<constantVars, clock, received, stage, deliveries, destination,
                      poller, queue, worker, sends, faults>>
      BY <1>5 DEF Command
    <2>8. backdated' \in BOOLEAN
      BY <1>0, <1>5 DEF Command
    <2> QED BY <1>0, <2>4, <2>5, <2>6, <2>7, <2>8
  <1>6. ASSUME NEW d \in Destinations, NEW s \in {"enabled", "disabled", "deleted"},
               SetDestination(d, s)
        PROVE  TypeOK' /\ (poller \in Polling)' /\ (worker \in [Workers -> Working])'
    <2>1. destination' \in [Destinations -> {"enabled", "disabled", "deleted"}]
      BY <1>0, <1>6 DEF SetDestination
    <2> QED BY <1>0, <1>6, <2>1 DEF SetDestination, Fault
  <1> QED BY <1>1, <1>2, <1>3, <1>4, <1>5, <1>6 DEF Lifecycle

\* The types of what the poller changes.
LEMMA PollerType ==
  ASSUME NotificationsInv, Poller \/ PollFails \/ \E i \in Items : Claim(i)
  PROVE  TypeOK' /\ (poller \in Polling)' /\ (worker \in [Workers -> Working])'
  <1> USE DEF TypeOK
  <1>0. TypeOK /\ poller \in Polling /\ worker \in [Workers -> Working]
    BY DEF NotificationsInv
  <1>1. /\ Idle \in Polling /\ [at |-> "claim"] \in Polling
        /\ \A todo \in SUBSET Transitions :
            /\ [at |-> "expand", todo |-> todo] \in Polling
            /\ \A t \in Transitions, left \in SUBSET Items :
                [at |-> "upsert", todo |-> todo, transition |-> t, left |-> left]
                    \in Polling
    BY DEF Polling
  <1>2. \A p \in Polling : p.at \in {"idle", "expand", "upsert", "claim"}
    BY DEF Polling, Idle
  <1>3. \A i \in Items : Upserted(i) \in Delivery
    BY <1>0, DeliveryFacts DEF Upserted
  <1>4. \A t : ItemsOf(t) \in SUBSET Items
    BY DEF ItemsOf
  <1>5. CASE Poll
    BY <1>0, <1>1, <1>2, <1>5 DEF Poll, PendingTransitions
  <1>6. ASSUME NEW t \in Transitions, ExpandTransaction(t)
        PROVE  TypeOK' /\ (poller \in Polling)' /\ (worker \in [Workers -> Working])'
    <2>1. poller \in [at : {"expand"}, todo : SUBSET Transitions]
      BY <1>0, <1>6, PollerFacts DEF ExpandTransaction
    <2>2. poller' \in Polling
      BY <2>1, <1>6 DEF ExpandTransaction, Polling
    <2>3. deliveries' \in [Items -> Delivery]
      BY <1>0, <1>3, <1>6 DEF ExpandTransaction
    <2> QED BY <1>0, <1>2, <1>6, <2>2, <2>3 DEF ExpandTransaction
  <1>7. ASSUME NEW t \in Transitions, BeginExpansion(t)
        PROVE  TypeOK' /\ (poller \in Polling)' /\ (worker \in [Workers -> Working])'
    <2>1. poller \in [at : {"expand"}, todo : SUBSET Transitions]
      BY <1>0, <1>7, PollerFacts DEF BeginExpansion
    <2>2. poller' \in Polling
      BY <2>1, <1>1, <1>4, <1>7 DEF BeginExpansion
    <2> QED BY <1>0, <1>2, <1>7, <2>2 DEF BeginExpansion
  <1>8. ASSUME NEW i \in Items, UpsertDelivery(i)
        PROVE  TypeOK' /\ (poller \in Polling)' /\ (worker \in [Workers -> Working])'
    <2>1. poller \in [at : {"upsert"}, todo : SUBSET Transitions,
                     transition : Transitions, left : SUBSET Items]
      BY <1>0, <1>8, PollerFacts DEF UpsertDelivery
    <2>2. poller' \in Polling
      BY <2>1, <1>8 DEF UpsertDelivery, Polling
    <2>3. deliveries' \in [Items -> Delivery]
      BY <1>0, <1>3, <1>8 DEF UpsertDelivery
    <2> QED BY <1>0, <1>2, <1>8, <2>2, <2>3 DEF UpsertDelivery
  <1>9. CASE RemoveTransition
    <2>1. poller \in [at : {"upsert"}, todo : SUBSET Transitions,
                     transition : Transitions, left : SUBSET Items]
      BY <1>0, <1>9, PollerFacts DEF RemoveTransition
    <2>2. poller' \in Polling
      BY <2>1, <1>1, <1>9 DEF RemoveTransition
    <2> QED BY <1>0, <1>2, <1>9, <2>2 DEF RemoveTransition
  <1>10. CASE ExpansionDone
    BY <1>0, <1>1, <1>2, <1>10 DEF ExpansionDone
  <1>11. CASE ClaimsDone
    BY <1>0, <1>1, <1>2, <1>11 DEF ClaimsDone
  <1>12. ASSUME NEW i \in Items, Claim(i)
         PROVE  TypeOK' /\ (poller \in Polling)' /\ (worker \in [Workers -> Working])'
    <2>1. deliveries' \in [Items -> Delivery]
          /\ deliveries'[i].attempts \in 1..(MaxAttempts + 1)
      BY <1>0, <1>12, DeliveryFacts DEF Claim
    <2>2. poller' \in Polling
      BY <1>0, <1>1, <1>12 DEF Claim
    <2>3. queue' \in Seq(Claims) /\ Len(queue') <= QueueCapacity
      <3> DEFINE c == [item |-> i, attempt |-> deliveries'[i].attempts,
                       enabled |-> destination[i[2]] = "enabled"]
      <3>1. c \in Claims
        BY <2>1 DEF Claims
      <3>2. queue' = queue \/ queue' = Append(queue, c)
        BY <1>12 DEF Claim
      <3>3. Len(queue) < QueueCapacity
        BY <1>12 DEF Claim, HasRoom
      <3> HIDE DEF c
      <3>4. Append(queue, c) \in Seq(Claims) /\ Len(Append(queue, c)) = Len(queue) + 1
            /\ Len(queue) \in Nat
        BY <1>0, <3>1
      <3>5. queue \in Seq(Claims)
        BY <1>0
      <3>6. CASE queue' = queue
        BY <3>3, <3>4, <3>5, <3>6
      <3>7. CASE queue' = Append(queue, c)
        BY <3>3, <3>4, <3>7
      <3> QED BY <3>2, <3>6, <3>7
    <2> QED BY <1>0, <1>2, <1>12, <2>1, <2>2, <2>3 DEF Claim
  <1>13. CASE PollFails
    <2>1. deliveries' \in [Items -> Delivery]
      <3>1. \/ deliveries' = deliveries
            \/ \E i \in Items : deliveries' = [deliveries EXCEPT ![i] = Claimed(@)]
        BY <1>13 DEF PollFails
      <3>2. deliveries \in [Items -> Delivery]
            /\ \A i \in Items : Claimed(deliveries[i]) \in Delivery
        BY <1>0, DeliveryFacts
      <3> QED BY <3>1, <3>2
    <2>2. poller' \in Polling
      BY <1>1, <1>13 DEF PollFails
    <2> QED BY <1>0, <1>2, <1>13, <2>1, <2>2 DEF PollFails, Fault
  <1> QED BY <1>5, <1>6, <1>7, <1>8, <1>9, <1>10, <1>11, <1>12, <1>13
          DEF Poller, Expand

\* The types of what the workers, leases and restarts change.
LEMMA WorkerType ==
  ASSUME NotificationsInv,
         \/ \E w \in Workers : Work(w) \/ MarkFails(w)
         \/ \E i \in Items : BecomeDue(i) \/ LeaseRunsOut(i)
         \/ Restart
  PROVE  TypeOK' /\ (poller \in Polling)' /\ (worker \in [Workers -> Working])'
  <1> USE DEF TypeOK
  <1>0. TypeOK /\ poller \in Polling /\ worker \in [Workers -> Working]
    BY DEF NotificationsInv
  <1>1. /\ Idle \in Working /\ Idle \in Polling
        /\ \A c \in Claims :
            /\ [at |-> "claimed", claim |-> c] \in Working
            /\ \A r \in {"delivered", "permanent", "retryable"} :
                [at |-> "answered", claim |-> c, result |-> r] \in Working
    BY DEF Working, Polling
  <1>2. \A x \in Working : x # Idle => x.claim \in Claims
    BY DEF Working
  <1>3. ASSUME NEW w \in Workers, Take(w)
        PROVE  TypeOK' /\ (poller \in Polling)' /\ (worker \in [Workers -> Working])'
    <2>1. Head(queue) \in Claims /\ queue' \in Seq(Claims) /\ Len(queue') <= QueueCapacity
      BY <1>0, <1>3 DEF Take
    <2>2. worker' \in [Workers -> Working]
      BY <1>0, <1>1, <1>3, <2>1 DEF Take
    <2> QED BY <1>0, <1>2, <1>3, <2>1, <2>2 DEF Take
  <1>4. ASSUME NEW w \in Workers, Deliver(w)
        PROVE  TypeOK' /\ (poller \in Polling)' /\ (worker \in [Workers -> Working])'
    <2>1. worker[w].claim \in Claims
      BY <1>4, WorkerFacts DEF Deliver, Idle
    <2>2. worker' \in [Workers -> Working]
      <3>1. PICK r \in {"delivered", "permanent", "retryable"} :
              worker' = [worker EXCEPT ![w] =
                [at |-> "answered", claim |-> worker[w].claim, result |-> r]]
        BY <1>4 DEF Deliver
      <3>2. [at |-> "answered", claim |-> worker[w].claim, result |-> r] \in Working
        BY <1>1, <2>1
      <3> QED BY <1>0, <3>1, <3>2
    <2>3. sends' \in [Items -> Nat]
      <3>1. sends' = [sends EXCEPT ![worker[w].claim.item] = @ + 1]
        BY <1>4 DEF Deliver
      <3>2. worker[w].claim.item \in Items
        BY <2>1 DEF Claims
      <3> QED BY <1>0, <3>1, <3>2
    <2> QED BY <1>0, <1>2, <1>4, <2>2, <2>3 DEF Deliver
  <1>5. ASSUME NEW w \in Workers, Mark(w)
        PROVE  TypeOK' /\ (poller \in Polling)' /\ (worker \in [Workers -> Working])'
    <2>1. worker' \in [Workers -> Working]
      BY <1>0, <1>1, <1>5 DEF Mark
    <2>2. deliveries' \in [Items -> Delivery]
      BY <1>0, <1>5, DeliveryFacts, OutcomeFacts DEF Mark
    <2> QED BY <1>0, <1>2, <1>5, <2>1, <2>2 DEF Mark
  <1>6. ASSUME NEW w \in Workers, MarkFails(w)
        PROVE  TypeOK' /\ (poller \in Polling)' /\ (worker \in [Workers -> Working])'
    <2>1. worker' \in [Workers -> Working]
      BY <1>0, <1>1, <1>6 DEF MarkFails
    <2> QED BY <1>0, <1>2, <1>6, <2>1 DEF MarkFails, Fault
  <1>7. ASSUME NEW i \in Items, BecomeDue(i) \/ LeaseRunsOut(i)
        PROVE  TypeOK' /\ (poller \in Polling)' /\ (worker \in [Workers -> Working])'
    <2>1. deliveries' \in [Items -> Delivery]
      <3>1. deliveries' = [deliveries EXCEPT ![i] = [@ EXCEPT !.due = TRUE]]
        BY <1>7 DEF BecomeDue, LeaseRunsOut
      <3> QED BY <1>0, <3>1, DeliveryFacts
    <2> QED BY <1>0, <1>2, <1>7, <2>1 DEF BecomeDue, LeaseRunsOut, Fault
  <1>8. CASE Restart
    BY <1>0, <1>1, <1>8 DEF Restart, Fault, Idle
  <1> QED BY <1>3, <1>4, <1>5, <1>6, <1>7, <1>8 DEF Work

\* The types are kept by every step.
LEMMA TypeStep ==
  ASSUME NotificationsInv, [Next]_vars
  PROVE  TypeOK' /\ (poller \in Polling)' /\ (worker \in [Workers -> Working])'
  <1>1. CASE UNCHANGED vars
    BY <1>1 DEF NotificationsInv, vars, TypeOK
  <1> QED BY <1>1, LifecycleType, PollerType, WorkerType DEF Next

-----------------------------------------------------------------------------
(* Regressions *)

\* The regressions stay counted: an event that regresses the issue was received after
\* it was resolved, and so is not the cause of an earlier regression.  If resolutions
\* are stored with times before that, PostgreSQL counts them all the same: the event of
\* an earlier regression is processed and is not applied again.
LEMMA RegressionStep ==
  ASSUME NotificationsInv, [Next]_vars
  PROVE  (RegressionsCountedOnce /\ RegressionsBefore)'
  <1>0. /\ TypeOK /\ RegressionsCountedOnce /\ RegressionsBefore
        /\ clock \in Nat /\ received \in [Events -> Nat]
        /\ happened \subseteq Transitions
        /\ issue = NoIssue \/ issue \in IssueRecord
    BY DEF NotificationsInv, TypeOK
  <1>1. \A t \in Regressions : t[2] \in Events
    BY <1>0 DEF Regressions, Transitions
  <1>2. CASE UNCHANGED <<constantVars, issueVars>>
    BY <1>0, <1>2 DEF RegressionsCountedOnce, RegressionsBefore, Regressions
  <1>3. CASE Tick
    BY <1>0, <1>1, <1>3 DEF Tick, RegressionsCountedOnce, RegressionsBefore, Regressions
  <1>4. ASSUME NEW e \in Events, Receive(e)
        PROVE  (RegressionsCountedOnce /\ RegressionsBefore)'
    <2>1. \A t \in Regressions : t[2] # e
      BY <1>0, <1>4 DEF Receive, RegressionsBefore
    <2>2. \A t \in Regressions : received'[t[2]] = received[t[2]]
      BY <2>1, <1>0, <1>1, <1>4 DEF Receive
    <2> QED BY <2>2, <1>0, <1>4
            DEF Receive, RegressionsCountedOnce, RegressionsBefore, Regressions
  <1>5. ASSUME NEW e \in Events, MarkProcessed(e)
        PROVE  (RegressionsCountedOnce /\ RegressionsBefore)'
    <2>1. \A x \in Events : stage[x] = "processed" => stage'[x] = "processed"
      BY <1>0, <1>5 DEF MarkProcessed, TypeOK
    <2> QED BY <2>1, <1>0, <1>1, <1>5
            DEF MarkProcessed, RegressionsCountedOnce, RegressionsBefore, Regressions
  <1>6. ASSUME NEW batch \in SUBSET Events, NEW first \in batch, Apply(batch, first)
        PROVE  (RegressionsCountedOnce /\ RegressionsBefore)'
    <2> DEFINE after == ApplyOccurrences(issue, batch, first, received)
    <2>1. /\ issue' = after.issue /\ happened' = happened \cup after.outbox
          /\ UNCHANGED <<transactional, clock, received, backdated>>
          /\ \A e \in batch : received[e] # 0
          /\ transactional => \A e \in batch : stage[e] = "pending"
          /\ transactional => \A e \in batch : stage'[e] = "processed"
          /\ transactional => \A e \in Events \ batch : stage'[e] = stage[e]
      BY <1>6 DEF Apply, Effect
    <2>2. \/ /\ issue = NoIssue
             /\ after.issue = NewIssue /\ after.outbox = {<<"new", first>>}
          \/ /\ issue # NoIssue /\ issue.status = "resolved"
             /\ \E c \in batch :
                 /\ received[c] > issue.at
                 /\ after.issue = [NewIssue EXCEPT !.regressions = issue.regressions + 1]
                 /\ after.outbox = {<<"regression", c>>}
          \/ issue # NoIssue /\ after.issue = issue /\ after.outbox = {}
      BY <1>0, OccurrencesFacts
    <2> HIDE DEF after
    <2>3. CASE issue = NoIssue
      <3>1. Regressions = {}
        BY <1>0, <2>3 DEF RegressionsBefore
      <3>2. Regressions' = {}
        BY <2>1, <2>2, <2>3, <3>1 DEF Regressions
      <3>3. issue'.regressions = 0
        BY <2>1, <2>2, <2>3 DEF NewIssue
      <3> QED BY <3>2, <3>3, <2>1, <1>0, FS_EmptySet
              DEF RegressionsCountedOnce, RegressionsBefore
    <2>4. ASSUME issue # NoIssue, issue.status = "resolved",
                 NEW c \in batch, received[c] > issue.at,
                 after.issue = [NewIssue EXCEPT !.regressions = issue.regressions + 1],
                 after.outbox = {<<"regression", c>>}
          PROVE  (RegressionsCountedOnce /\ RegressionsBefore)'
      <3> DEFINE t == <<"regression", c>>
      <3>1. Regressions' = Regressions \cup {t}
        BY <2>1, <2>4 DEF Regressions
      <3>2. transactional \/ ~backdated => t \notin Regressions
        <4>1. t[2] = c
          OBVIOUS
        <4>2. CASE transactional
          BY <1>0, <2>1, <4>1, <4>2 DEF RegressionsBefore
        <4>3. CASE ~backdated
          <5>1. \A r \in Regressions : received[r[2]] <= issue.at
            BY <1>0, <2>4, <4>3 DEF RegressionsBefore
          <5>2. received[c] \in Nat /\ issue.at \in Nat
            BY <1>0, <2>4 DEF IssueRecord
          <5> QED BY <4>1, <5>1, <5>2, <2>4
        <4> QED BY <4>2, <4>3
      <3>3. /\ IsFiniteSet(Regressions')
            /\ transactional \/ ~backdated =>
                Cardinality(Regressions') = Cardinality(Regressions) + 1
        <4>1. IsFiniteSet(Regressions)
          BY <1>0 DEF RegressionsBefore
        <4> HIDE DEF t
        <4> QED BY <4>1, <3>1, <3>2, FS_AddElement
      <3>4. /\ issue' \in IssueRecord /\ issue' # NoIssue /\ issue'.status = "open"
            /\ issue'.regressions = issue.regressions + 1
        <4>1. issue \in IssueRecord /\ issue.regressions \in Nat
          BY <1>0, <2>4 DEF IssueRecord
        <4>2. issue' = [NewIssue EXCEPT !.regressions = issue.regressions + 1]
          BY <2>1, <2>4
        <4>3. /\ issue' \in IssueRecord /\ issue'.status = "open"
              /\ issue'.regressions = issue.regressions + 1
          BY <4>1, <4>2 DEF NewIssue, IssueRecord, Statuses
        <4> QED BY <4>3
      <3>5. \A r \in Regressions' : received'[r[2]] # 0
        BY <3>1, <2>1, <1>0 DEF RegressionsBefore
      <3>6. \A e \in Events : received'[e] <= clock'
        BY <2>1, <1>0 DEF RegressionsBefore
      <3>7. (transactional => \A r \in Regressions : stage[r[2]] = "processed")'
        <4>1. transactional => \A r \in Regressions : stage'[r[2]] = "processed"
          BY <2>1, <1>0, <1>1 DEF RegressionsBefore
        <4> QED BY <4>1, <3>1, <2>1
      <3>8. RegressionsBefore'
        BY <3>3, <3>4, <3>5, <3>6, <3>7 DEF RegressionsBefore
      <3> QED BY <3>3, <3>4, <3>8, <2>1, <2>4, <1>0 DEF RegressionsCountedOnce
    <2>5. CASE issue # NoIssue /\ after.issue = issue /\ after.outbox = {}
      <3>1. Regressions' = Regressions
        BY <2>1, <2>5 DEF Regressions
      <3>2. transactional => \A r \in Regressions : stage'[r[2]] = "processed"
        BY <2>1, <1>0, <1>1 DEF RegressionsBefore
      <3> QED BY <3>1, <3>2, <2>1, <2>5, <1>0
              DEF RegressionsCountedOnce, RegressionsBefore
    <2> QED BY <2>2, <2>3, <2>4, <2>5
  <1>7. ASSUME NEW action \in {"resolve", "ignore", "reopen"}, NEW key \in Keys,
               NEW at \in 1..clock, Command(action, key, at)
        PROVE  (RegressionsCountedOnce /\ RegressionsBefore)'
    <2> DEFINE after == ApplyCommand(issue, action, key, at)
    <2>1. /\ issue # NoIssue /\ after.issue \in IssueRecord
          /\ after.issue.regressions = issue.regressions
          /\ after.issue.status = "resolved" => action = "resolve" /\ after.issue.at = at
          /\ after.outbox \subseteq {<<"resolved", key>>}
      <3>1. Applies(issue, action)
        BY <1>7 DEF Command
      <3> HIDE DEF after
      <3>2. after = ApplyCommand(issue, action, key, at)
        BY DEF after
      <3>3. /\ TypeOK /\ action \in {"resolve", "ignore", "reopen"} /\ key \in Keys
            /\ at \in 1..clock
        BY <1>0, <1>7
      <3> QED BY <3>1, <3>2, <3>3, CommandFacts
    <2>2. /\ issue' = after.issue /\ happened' = happened \cup after.outbox
          /\ UNCHANGED <<transactional, clock, received, stage>>
          /\ backdated => backdated'
      BY <1>7 DEF Command, Effect
    <2> HIDE DEF after
    <2>3. Regressions' = Regressions
      BY <2>1, <2>2 DEF Regressions
    <2>4. issue' # NoIssue
      BY <2>1, <2>2
    <2>5. action = "resolve" /\ ~backdated' => \A t \in Regressions : received[t[2]] <= at
      <3>1. backdated' = (\/ backdated
                          \/ action = "resolve" /\ \E t \in Regressions : received[t[2]] > at)
        BY <1>7 DEF Command
      <3>2. \A t \in Regressions : received[t[2]] \in Nat
        BY <1>0, <1>1
      <3>3. at \in Nat
        BY <1>0
      <3> QED BY <3>1, <3>2, <3>3
    <2>6. RegressionsCountedOnce'
      BY <2>1, <2>2, <2>3, <1>0 DEF RegressionsCountedOnce
    <2>7. RegressionsBefore'
      BY <2>1, <2>2, <2>3, <2>4, <2>5, <1>0, <1>1 DEF RegressionsBefore
    <2> QED BY <2>6, <2>7
  <1> QED BY <1>2, <1>3, <1>4, <1>5, <1>6, <1>7
          DEF Next, vars, Lifecycle, Poller, Expand, Work, Poll, SetDestination,
              ExpandTransaction, BeginExpansion, UpsertDelivery, RemoveTransition,
              ExpansionDone, Claim, ClaimsDone, BecomeDue, LeaseRunsOut, Take, Deliver,
              Mark, MarkFails, PollFails, Restart

-----------------------------------------------------------------------------
(* Expansions *)

Kept(i) ==
    /\ deliveries[i].status # "none" => deliveries'[i].status # "none"
    /\ deliveries'[i].attempts >= deliveries[i].attempts
    /\ deliveries'[i].status = "none" => deliveries'[i] = NoDelivery

\* A delivery that is stored stays so, and its attempts are not taken back.
LEMMA DeliveryStep ==
  ASSUME NotificationsInv, [Next]_vars
  PROVE  \A i \in Items : Kept(i)
  <1>0. /\ TypeOK /\ deliveries \in [Items -> Delivery]
        /\ \A i \in Items : deliveries[i].status = "none" => deliveries[i] = NoDelivery
        /\ \A i \in Items : deliveries[i] \in Delivery /\ deliveries[i].attempts \in Nat
    BY DEF NotificationsInv, TypeOK, SendsCounted, Delivery
  <1>1. /\ NoDelivery.status = "none" /\ NoDelivery.attempts = 0
        /\ NewDelivery.status = "pending" /\ NewDelivery.attempts = 0
    BY DEF NoDelivery, NewDelivery
  <1>2. CASE UNCHANGED deliveries
    BY <1>0, <1>2 DEF Kept
  <1>3. ASSUME NEW i \in Items, NEW d \in Delivery,
               deliveries' = [deliveries EXCEPT ![i] = d],
               d.status = "none" => d = deliveries[i],
               d.attempts >= deliveries[i].attempts
        PROVE  \A j \in Items : Kept(j)
    BY <1>0, <1>1, <1>3 DEF Kept
  <1>4. ASSUME NEW t \in Transitions, ExpandTransaction(t)
        PROVE  \A i \in Items : Kept(i)
    <2>1. deliveries' = [i \in Items |->
                          IF i \in ItemsOf(t) THEN Upserted(i) ELSE deliveries[i]]
      BY <1>4 DEF ExpandTransaction
    <2> QED BY <1>0, <1>1, <2>1 DEF Upserted, Kept
  <1>5. ASSUME NEW i \in Items, UpsertDelivery(i)
        PROVE  \A j \in Items : Kept(j)
    <2>1. deliveries' = [deliveries EXCEPT ![i] = Upserted(i)]
      BY <1>5 DEF UpsertDelivery
    <2>2. Upserted(i) \in Delivery /\ Upserted(i).status # "none"
          /\ Upserted(i).attempts >= deliveries[i].attempts
      BY <1>0, <1>1, DeliveryFacts DEF Upserted
    <2> QED BY <1>3, <2>1, <2>2
  <1>6. ASSUME NEW i \in Items, Due(i), deliveries' = [deliveries EXCEPT ![i] = Claimed(@)]
        PROVE  \A j \in Items : Kept(j)
    <2>1. /\ Claimed(deliveries[i]) \in Delivery
          /\ Claimed(deliveries[i]).status # "none"
          /\ Claimed(deliveries[i]).attempts >= deliveries[i].attempts
      BY <1>0, <1>6, DeliveryFacts DEF Due
    <2> QED BY <1>3, <1>6, <2>1
  <1>7. ASSUME NEW i \in Items, BecomeDue(i) \/ LeaseRunsOut(i)
        PROVE  \A j \in Items : Kept(j)
    <2>1. /\ deliveries' = [deliveries EXCEPT ![i] = [deliveries[i] EXCEPT !.due = TRUE]]
          /\ deliveries[i].status = "pending"
      BY <1>7 DEF BecomeDue, LeaseRunsOut
    <2>2. /\ [deliveries[i] EXCEPT !.due = TRUE] \in Delivery
          /\ [deliveries[i] EXCEPT !.due = TRUE].status = deliveries[i].status
          /\ [deliveries[i] EXCEPT !.due = TRUE].attempts = deliveries[i].attempts
      BY <1>0 DEF Delivery
    <2>3. /\ [deliveries[i] EXCEPT !.due = TRUE].status # "none"
          /\ [deliveries[i] EXCEPT !.due = TRUE].attempts >= deliveries[i].attempts
      BY <1>0, <2>1, <2>2
    <2> HIDE DEF Kept
    <2> QED BY <1>3, <2>1, <2>2, <2>3
  <1>8. ASSUME NEW w \in Workers, Mark(w)
        PROVE  \A j \in Items : Kept(j)
    <2> DEFINE i == worker[w].claim.item
               d == Marked(deliveries[i], Outcome(w))
    <2>1. deliveries' = [deliveries EXCEPT ![i] = d]
      BY <1>8 DEF Mark
    <2>2. i \in Items /\ Outcome(w) \in {"delivered", "dead", "retry"}
      BY <1>8, OutcomeFacts DEF Mark
    <2>3. /\ d \in Delivery /\ d.attempts = deliveries[i].attempts
          /\ d.status = "none" => d = deliveries[i]
      BY <1>0, <2>2, DeliveryFacts
    <2> HIDE DEF i, d
    <2>4. d.attempts >= deliveries[i].attempts
      BY <1>0, <2>2, <2>3
    <2> QED BY <1>3, <2>1, <2>2, <2>3, <2>4
  <1>9. CASE PollFails
    BY <1>2, <1>6, <1>9 DEF PollFails
  <1>10. ASSUME NEW i \in Items, Claim(i) PROVE \A j \in Items : Kept(j)
    BY <1>6, <1>10 DEF Claim
  <1> QED BY <1>2, <1>4, <1>5, <1>7, <1>8, <1>9, <1>10
          DEF Next, vars, Lifecycle, Poller, Expand, Work, Tick, Receive, MarkProcessed,
              Apply, Command, SetDestination, Poll, BeginExpansion, RemoveTransition,
              ExpansionDone, ClaimsDone, Take, Deliver, MarkFails, Restart

\* No transition is lost by a step: what leaves the outbox has its deliveries stored.
LEMMA ExpansionStep ==
  ASSUME NotificationsInv, [Next]_vars
  PROVE  (NoTransitionLost /\ ExpansionConsistent)'
  <1>0. TypeOK /\ poller \in Polling /\ NoTransitionLost /\ ExpansionConsistent
    BY DEF NotificationsInv
  <1>1. \A i \in Items : deliveries[i].status # "none" => deliveries'[i].status # "none"
    BY DeliveryStep DEF Kept
  <1>2. \A t : ItemsOf(t)' = ItemsOf(t) /\ ItemsOf(t) \subseteq Items
    <2>1. UNCHANGED given
      BY DEF Next, vars, Lifecycle, Poller, Expand, Work, Tick, Receive, MarkProcessed,
         Apply, Command, SetDestination, Poll, BeginExpansion, RemoveTransition,
         ExpansionDone, ClaimsDone, Take, Deliver, MarkFails, Restart, Mark,
         ExpandTransaction, UpsertDelivery, Claim, BecomeDue, LeaseRunsOut, PollFails
    <2> QED BY <2>1 DEF ItemsOf
  <1>3. ASSUME NEW new, outbox' = outbox \cup new, happened' = happened \cup new
        PROVE  NoTransitionLost'
    BY <1>0, <1>1, <1>2, <1>3 DEF NoTransitionLost
  <1>4. ASSUME UNCHANGED <<outbox, happened>> PROVE NoTransitionLost'
    BY <1>0, <1>1, <1>2, <1>4 DEF NoTransitionLost
  <1>5. ASSUME UNCHANGED poller \/ poller'.at # "upsert" PROVE ExpansionConsistent'
    BY <1>0, <1>1, <1>2, <1>5 DEF ExpansionConsistent
  <1>6. CASE \/ \E batch \in SUBSET Events : \E first \in batch : Apply(batch, first)
             \/ \E action \in {"resolve", "ignore", "reopen"}, key \in Keys,
                   at \in 1..clock : Command(action, key, at)
    BY <1>3, <1>5, <1>6 DEF Apply, Command, Effect
  <1>7. ASSUME NEW t \in Transitions, ExpandTransaction(t)
        PROVE  (NoTransitionLost /\ ExpansionConsistent)'
    <2>1. \A i \in ItemsOf(t) : deliveries'[i].status # "none"
      BY <1>2, <1>7 DEF ExpandTransaction, Upserted, NewDelivery
    <2>2. poller'.at # "upsert"
      <3>1. poller \in [at : {"expand"}, todo : SUBSET Transitions]
        BY <1>0, <1>7, PollerFacts DEF ExpandTransaction
      <3> QED BY <3>1, <1>7 DEF ExpandTransaction
    <2>3. outbox' = outbox \ {t} /\ happened' = happened
      BY <1>7 DEF ExpandTransaction
    <2>4. NoTransitionLost'
      BY <1>0, <1>1, <1>2, <2>1, <2>3 DEF NoTransitionLost
    <2> QED BY <2>2, <2>4, <1>5
  <1>8. ASSUME NEW t \in Transitions, BeginExpansion(t)
        PROVE  (NoTransitionLost /\ ExpansionConsistent)'
    <2>1. ExpansionConsistent'
      BY <1>2, <1>8 DEF BeginExpansion, ExpansionConsistent
    <2> QED BY <2>1, <1>4, <1>8 DEF BeginExpansion
  <1>9. ASSUME NEW i \in Items, UpsertDelivery(i)
        PROVE  (NoTransitionLost /\ ExpansionConsistent)'
    <2>1. poller \in [at : {"upsert"}, todo : SUBSET Transitions,
                     transition : Transitions, left : SUBSET Items]
      BY <1>0, <1>9, PollerFacts DEF UpsertDelivery
    <2>2. poller'.transition = poller.transition /\ poller'.left = poller.left \ {i}
      BY <2>1, <1>9 DEF UpsertDelivery
    <2>3. deliveries'[i].status # "none"
      BY <1>0, <1>9 DEF UpsertDelivery, Upserted, NewDelivery, TypeOK
    <2>4. \A j \in ItemsOf(poller.transition) \ poller.left : deliveries[j].status # "none"
      BY <1>0, <1>9 DEF UpsertDelivery, ExpansionConsistent
    <2>5. \A j \in ItemsOf(poller.transition) \ (poller.left \ {i}) :
              deliveries'[j].status # "none"
      BY <2>3, <2>4, <1>1, <1>2
    <2>6. ExpansionConsistent'
      BY <2>2, <2>5, <1>2 DEF ExpansionConsistent
    <2> QED BY <2>6, <1>4, <1>9 DEF UpsertDelivery
  <1>10. CASE RemoveTransition
    <2>1. \A i \in ItemsOf(poller.transition) : deliveries[i].status # "none"
      BY <1>0, <1>10 DEF RemoveTransition, ExpansionConsistent
    <2>2. outbox' = outbox \ {poller.transition} /\ happened' = happened
          /\ poller'.at # "upsert"
      BY <1>10 DEF RemoveTransition
    <2>3. NoTransitionLost'
      BY <1>0, <1>1, <1>2, <2>1, <2>2 DEF NoTransitionLost
    <2> QED BY <2>2, <2>3, <1>5
  <1>11. CASE /\ UNCHANGED <<outbox, happened>>
              /\ UNCHANGED poller \/ poller'.at # "upsert"
    BY <1>4, <1>5, <1>11
  <1>12. ASSUME NEW i \in Items, Claim(i)
         PROVE  (NoTransitionLost /\ ExpansionConsistent)'
    BY <1>11, <1>12 DEF Claim, Idle
  <1>13. CASE PollFails \/ Restart \/ Poll \/ ExpansionDone \/ ClaimsDone
    BY <1>11, <1>13 DEF PollFails, Restart, Poll, ExpansionDone, ClaimsDone, Idle
  <1>14. CASE \E i \in Items : BecomeDue(i) \/ LeaseRunsOut(i)
    BY <1>11, <1>14 DEF BecomeDue, LeaseRunsOut
  <1>15. CASE \E w \in Workers : Work(w) \/ MarkFails(w)
    BY <1>11, <1>15 DEF Work, Take, Deliver, Mark, MarkFails
  <1>16. CASE \/ Tick \/ \E e \in Events : Receive(e) \/ MarkProcessed(e)
              \/ \E d \in Destinations, s \in {"enabled", "disabled", "deleted"} :
                    SetDestination(d, s)
              \/ UNCHANGED vars
    BY <1>11, <1>16 DEF Tick, Receive, MarkProcessed, SetDestination, vars
  <1> QED BY <1>6, <1>7, <1>8, <1>9, <1>10, <1>12, <1>13, <1>14, <1>15, <1>16
          DEF Next, Lifecycle, Poller, Expand

-----------------------------------------------------------------------------
(* Claims *)

\* The claimed attempts that are not made are a finite number.
LEMMA UnsentFinite ==
  ASSUME NEW i \in Items
  PROVE  /\ IsFiniteSet(Unsent(i)) /\ Cardinality(Unsent(i)) \in Nat
         /\ IsFiniteSet(Unsent(i)') /\ Cardinality(Unsent(i)') \in Nat
  <1>1. IsFiniteSet(1..MaxAttempts)
    BY FS_Interval
  <1>2. Unsent(i) \in SUBSET (1..MaxAttempts) /\ Unsent(i)' \in SUBSET (1..MaxAttempts)
    BY DEF Unsent
  <1> QED BY <1>1, <1>2, FS_Subset, FS_CardinalityType

\* With fewer attempts in hand, and no more sends, all are counted still.
LEMMA FewerUnsent ==
  ASSUME NotificationsInv, [Next]_vars, NEW i \in Items,
         sends'[i] = sends[i], Unsent(i)' \subseteq Unsent(i)
  PROVE  /\ deliveries'[i].status = "none" => deliveries'[i] = NoDelivery
         /\ sends'[i] + Cardinality(Unsent(i)') <= deliveries'[i].attempts
         /\ sends'[i] + Cardinality(Unsent(i)') <= MaxAttempts
  <1>1. Cardinality(Unsent(i)') <= Cardinality(Unsent(i))
    BY UnsentFinite, FS_Subset
  <1>2. Kept(i)
    BY DeliveryStep
  <1>3. /\ sends[i] + Cardinality(Unsent(i)) <= deliveries[i].attempts
        /\ sends[i] + Cardinality(Unsent(i)) <= MaxAttempts
        /\ sends[i] \in Nat /\ deliveries[i].attempts \in Nat
    BY DEF NotificationsInv, TypeOK, SendsCounted, Delivery
  <1>4. TypeOK'
    BY TypeStep
  <1>5. deliveries'[i].attempts \in Nat
    BY <1>4 DEF TypeOK, Delivery
  <1> QED BY <1>1, <1>2, <1>3, <1>5, UnsentFinite DEF Kept

\* Two claims of an attempt are not in hand at once, and what is in hand is counted.
LEMMA ClaimStep ==
  ASSUME NotificationsInv, [Next]_vars
  PROVE  (AttemptsDistinct /\ SendsCounted /\ ClaimsCounted)'
  <1>0. /\ TypeOK /\ AttemptsDistinct /\ SendsCounted /\ ClaimsCounted
        /\ deliveries \in [Items -> Delivery] /\ queue \in Seq(Claims)
        /\ worker \in [Workers -> Working] /\ sends \in [Items -> Nat]
    BY DEF NotificationsInv, TypeOK
  <1>1. /\ deliveries' \in [Items -> Delivery] /\ queue' \in Seq(Claims)
        /\ worker' \in [Workers -> Working] /\ sends' \in [Items -> Nat]
    BY TypeStep DEF TypeOK
  <1>2. \A i \in Items : /\ deliveries'[i].attempts >= deliveries[i].attempts
                         /\ deliveries[i].attempts \in 0..(MaxAttempts + 1)
                         /\ deliveries'[i].attempts \in 0..(MaxAttempts + 1)
    BY <1>0, <1>1, DeliveryStep DEF Kept, Delivery
  <1>3. \A c \in Claims : c.item \in Items /\ c.attempt \in 1..(MaxAttempts + 1)
    BY DEF Claims
  <1>4. /\ \A n \in 1..Len(queue) : queue[n] \in Claims
        /\ \A n \in 1..Len(queue') : queue'[n] \in Claims
        /\ Len(queue) \in Nat
    BY <1>0, <1>1
  <1>5. \A w \in Workers : /\ worker[w].at \in {"claimed", "answered"} => worker[w] # Idle
                           /\ worker[w] # Idle => worker[w].claim \in Claims
    BY <1>0 DEF Working, Idle
  <1>5a. \A n \in 1..Len(queue) : queue[n].attempt <= deliveries'[queue[n].item].attempts
    <2> TAKE n \in 1..Len(queue)
    <2>1. queue[n].item \in Items /\ queue[n].attempt \in Nat
      BY <1>3, <1>4
    <2>2. queue[n].attempt <= deliveries[queue[n].item].attempts
      BY <1>0 DEF ClaimsCounted
    <2> QED BY <2>1, <2>2, <1>2
  <1>5b. \A w \in Workers : worker[w] # Idle =>
            worker[w].claim.attempt <= deliveries'[worker[w].claim.item].attempts
    <2> SUFFICES ASSUME NEW w \in Workers, worker[w] # Idle
                 PROVE  worker[w].claim.attempt <= deliveries'[worker[w].claim.item].attempts
      OBVIOUS
    <2>1. worker[w].claim.item \in Items /\ worker[w].claim.attempt \in Nat
      BY <1>3, <1>5
    <2>2. worker[w].claim.attempt <= deliveries[worker[w].claim.item].attempts
      BY <1>0 DEF ClaimsCounted
    <2> QED BY <2>1, <2>2, <1>2
  <1>6. CASE UNCHANGED <<queue, worker, sends>>
    <2>1. \A i \in Items : Unsent(i)' = Unsent(i)
      BY <1>6 DEF Unsent, Held
    <2>2. SendsCounted'
      BY <1>6, <2>1, FewerUnsent DEF SendsCounted
    <2>3. AttemptsDistinct'
      BY <1>0, <1>6 DEF AttemptsDistinct
    <2>4. ClaimsCounted'
      BY <1>0, <1>5a, <1>5b, <1>6 DEF ClaimsCounted
    <2> QED BY <2>2, <2>3, <2>4
  <1>7. ASSUME NEW i \in Items, Claim(i), queue' # queue
        PROVE  (AttemptsDistinct /\ SendsCounted /\ ClaimsCounted)'
    <2> DEFINE a == deliveries'[i].attempts
               c == [item |-> i, attempt |-> a, enabled |-> destination[i[2]] = "enabled"]
    <2>1. /\ queue' = Append(queue, c) /\ UNCHANGED <<worker, sends>>
          /\ deliveries' = [deliveries EXCEPT ![i] = Claimed(@)]
      BY <1>7 DEF Claim
    <2>2. /\ a \in 1..(MaxAttempts + 1)
          /\ a <= MaxAttempts => a = deliveries[i].attempts + 1
      BY <1>0, <2>1, DeliveryFacts
    <2>3. c \in Claims /\ c.item = i /\ c.attempt = a
      BY <2>2 DEF Claims
    <2> HIDE DEF a, c
    <2>4. /\ Len(queue') = Len(queue) + 1 /\ queue'[Len(queue) + 1] = c
          /\ \A n \in 1..Len(queue) : queue'[n] = queue[n]
          /\ \A n \in 1..Len(queue') : n \in 1..Len(queue) \/ n = Len(queue) + 1
      BY <1>0, <2>1, <2>3
    <2>5. /\ \A n \in 1..Len(queue) : ~SameAttempt(queue[n], c) /\ ~SameAttempt(c, queue[n])
          /\ \A w \in Workers : worker[w].at = "claimed" => ~SameAttempt(c, worker[w].claim)
      <3>1. deliveries[i].attempts \in Nat
        BY <1>0, <1>7 DEF Delivery
      <3>2. ASSUME NEW n \in 1..Len(queue)
            PROVE  ~SameAttempt(queue[n], c) /\ ~SameAttempt(c, queue[n])
        <4>1. queue[n] \in Claims /\ queue[n].attempt \in Nat
          BY <1>0, <1>3, <3>2
        <4>2. queue[n].attempt <= deliveries[queue[n].item].attempts
          BY <1>0, <3>2 DEF ClaimsCounted
        <4>3. SUFFICES ASSUME queue[n].item = i, queue[n].attempt = a, a <= MaxAttempts
                       PROVE  FALSE
          BY <2>3 DEF SameAttempt
        <4> QED BY <4>2, <4>3, <2>2, <3>1
      <3>3. ASSUME NEW w \in Workers, worker[w].at = "claimed"
            PROVE  ~SameAttempt(c, worker[w].claim)
        BY <1>0, <1>4, <1>5, <2>2, <2>3, <3>1, <3>3 DEF SameAttempt, ClaimsCounted
      <3> QED BY <3>2, <3>3
    <2>6. AttemptsDistinct'
      <3>1. ASSUME NEW m \in 1..Len(queue'), NEW n \in 1..Len(queue'),
                   SameAttempt(queue'[m], queue'[n])
            PROVE  m = n
        BY <3>1, <2>4, <2>5, <1>0 DEF AttemptsDistinct
      <3>2. ASSUME NEW n \in 1..Len(queue'), NEW w \in Workers, worker'[w].at = "claimed"
            PROVE  ~SameAttempt(queue'[n], worker'[w].claim)
        BY <3>2, <2>1, <2>4, <2>5, <1>0 DEF AttemptsDistinct
      <3>3. \A v, w \in Workers :
              /\ worker'[v].at = "claimed" /\ worker'[w].at = "claimed"
              /\ SameAttempt(worker'[v].claim, worker'[w].claim)
              => v = w
        BY <2>1, <1>0 DEF AttemptsDistinct
      <3> QED BY <3>1, <3>2, <3>3 DEF AttemptsDistinct, SameAttempt
    <2>7. ClaimsCounted'
      <3>1. \A n \in 1..Len(queue') :
              queue'[n].attempt <= deliveries'[queue'[n].item].attempts
        <4> TAKE n \in 1..Len(queue')
        <4>1. CASE n = Len(queue) + 1
          BY <4>1, <2>2, <2>3, <2>4 DEF a
        <4>2. CASE n \in 1..Len(queue)
          BY <4>2, <2>4, <1>5a
        <4> QED BY <4>1, <4>2, <2>4
      <3>2. \A w \in Workers : worker'[w] # Idle =>
              worker'[w].claim.attempt <= deliveries'[worker'[w].claim.item].attempts
        BY <2>1, <1>5b
      <3>3. \A w \in Workers : worker'[w].at = "answered" =>
              sends'[worker'[w].claim.item] > 0
        BY <2>1, <1>0 DEF ClaimsCounted
      <3> QED BY <3>1, <3>2, <3>3 DEF ClaimsCounted
    <2>8. ASSUME NEW claim, Held(claim)' PROVE Held(claim) \/ claim = c
      BY <2>1, <2>4, <2>8 DEF Held
    <2>9. SendsCounted'
      <3>1. ASSUME NEW j \in Items, j # i \/ a > MaxAttempts
            PROVE  Unsent(j)' \subseteq Unsent(j)
        BY <3>1, <2>2, <2>3, <2>8 DEF Unsent
      <3>2. CASE a > MaxAttempts
        BY <3>1, <3>2, <2>1, FewerUnsent DEF SendsCounted
      <3>3. CASE a <= MaxAttempts
        <4>1. Unsent(i)' \subseteq Unsent(i) \cup {a}
          BY <2>2, <2>3, <2>8 DEF Unsent
        <4>2. Cardinality(Unsent(i)') <= Cardinality(Unsent(i)) + 1
          <5>1. /\ IsFiniteSet(Unsent(i) \cup {a})
                /\ Cardinality(Unsent(i) \cup {a}) <= Cardinality(Unsent(i)) + 1
            <6>1. /\ IsFiniteSet(Unsent(i) \cup {a})
                  /\ Cardinality(Unsent(i) \cup {a}) =
                      IF a \in Unsent(i) THEN Cardinality(Unsent(i))
                      ELSE Cardinality(Unsent(i)) + 1
              BY UnsentFinite, FS_AddElement
            <6> QED BY <6>1, UnsentFinite
          <5>2. Cardinality(Unsent(i)') <= Cardinality(Unsent(i) \cup {a})
            BY <4>1, <5>1, FS_Subset
          <5>3. Cardinality(Unsent(i) \cup {a}) \in Nat
            BY <5>1, FS_CardinalityType
          <5> QED BY <5>1, <5>2, <5>3, UnsentFinite
        <4>3. sends[i] + Cardinality(Unsent(i)) <= deliveries[i].attempts
          BY <1>0 DEF SendsCounted
        <4>4. /\ sends'[i] + Cardinality(Unsent(i)') <= deliveries'[i].attempts
              /\ sends'[i] + Cardinality(Unsent(i)') <= MaxAttempts
          <5>1. sends'[i] = sends[i] /\ sends[i] \in Nat /\ deliveries[i].attempts \in Nat
            BY <1>0, <1>2, <2>1
          <5>2. a = deliveries[i].attempts + 1
            BY <2>2, <3>3
          <5> QED BY <4>2, <4>3, <5>1, <5>2, <3>3, UnsentFinite DEF a
        <4>5. deliveries'[i].status = "none" => deliveries'[i] = NoDelivery
          BY DeliveryStep DEF Kept
        <4> QED BY <3>1, <2>1, <4>4, <4>5, FewerUnsent DEF SendsCounted
      <3> QED BY <3>2, <3>3, <2>2
    <2> QED BY <2>6, <2>7, <2>9
  <1>8. ASSUME NEW w \in Workers, Take(w)
        PROVE  (AttemptsDistinct /\ SendsCounted /\ ClaimsCounted)'
    <2> DEFINE h == Head(queue)
    <2>1. /\ queue # <<>> /\ queue' = Tail(queue) /\ UNCHANGED <<deliveries, sends>>
          /\ worker' = [worker EXCEPT ![w] = [at |-> "claimed", claim |-> h]]
      BY <1>8 DEF Take
    <2>2. /\ Len(queue) >= 1 /\ Len(queue') = Len(queue) - 1 /\ h = queue[1]
          /\ \A n \in 1..Len(queue') : queue'[n] = queue[n + 1] /\ n + 1 \in 2..Len(queue)
      BY <1>0, <2>1
    <2>3. 1 \in 1..Len(queue) /\ h \in Claims
      BY <2>2, <1>4
    <2> HIDE DEF h
    <2>4. /\ worker'[w].at = "claimed" /\ worker'[w].claim = h /\ worker'[w] # Idle
          /\ \A v \in Workers : v # w => worker'[v] = worker[v]
      BY <2>1, <1>0 DEF Idle
    <2>5. AttemptsDistinct'
      <3>1. ASSUME NEW m \in 1..Len(queue'), NEW n \in 1..Len(queue'),
                   SameAttempt(queue'[m], queue'[n])
            PROVE  m = n
        <4>1. /\ m + 1 \in 1..Len(queue) /\ n + 1 \in 1..Len(queue)
              /\ SameAttempt(queue[m + 1], queue[n + 1])
          BY <3>1, <2>2, <1>4
        <4>2. m + 1 = n + 1
          BY <4>1, <1>0 DEF AttemptsDistinct
        <4> QED BY <4>2
      <3>2. ASSUME NEW n \in 1..Len(queue'), NEW v \in Workers, worker'[v].at = "claimed"
            PROVE  ~SameAttempt(queue'[n], worker'[v].claim)
        <4>1. n + 1 \in 1..Len(queue) /\ queue'[n] = queue[n + 1] /\ n + 1 # 1
          BY <2>2, <1>4
        <4>2. CASE v = w
          BY <4>1, <4>2, <2>2, <2>3, <2>4, <1>0 DEF AttemptsDistinct
        <4>3. CASE v # w
          BY <4>1, <4>3, <3>2, <2>4, <1>0 DEF AttemptsDistinct
        <4> QED BY <4>2, <4>3
      <3>3. ASSUME NEW u \in Workers, NEW v \in Workers,
                   worker'[u].at = "claimed", worker'[v].at = "claimed",
                   SameAttempt(worker'[u].claim, worker'[v].claim)
            PROVE  u = v
        <4>1. \A x, y : SameAttempt(x, y) => SameAttempt(y, x)
          BY DEF SameAttempt
        <4> QED BY <3>3, <4>1, <2>2, <2>3, <2>4, <1>0 DEF AttemptsDistinct
      <3> QED BY <3>1, <3>2, <3>3 DEF AttemptsDistinct, SameAttempt
    <2>6. ClaimsCounted'
      <3>1. \A n \in 1..Len(queue') :
              queue'[n].attempt <= deliveries'[queue'[n].item].attempts
        BY <2>1, <2>2, <1>0, <1>4 DEF ClaimsCounted
      <3>2. \A v \in Workers : worker'[v] # Idle =>
              worker'[v].claim.attempt <= deliveries'[worker'[v].claim.item].attempts
        BY <2>1, <2>2, <2>3, <2>4, <1>0 DEF ClaimsCounted
      <3>3. \A v \in Workers : worker'[v].at = "answered" =>
              sends'[worker'[v].claim.item] > 0
        BY <2>1, <2>4, <1>0 DEF ClaimsCounted
      <3> QED BY <3>1, <3>2, <3>3 DEF ClaimsCounted
    <2>7. ASSUME NEW claim, Held(claim)' PROVE Held(claim)
      <3>1. CASE \E n \in 1..Len(queue') : queue'[n] = claim
        BY <3>1, <2>2, <1>4 DEF Held
      <3>2. CASE \E v \in Workers : worker'[v].at = "claimed" /\ worker'[v].claim = claim
        BY <3>2, <2>2, <2>3, <2>4 DEF Held
      <3> QED BY <3>1, <3>2, <2>7 DEF Held
    <2>8. \A i \in Items : Unsent(i)' \subseteq Unsent(i)
      BY <2>7 DEF Unsent
    <2>9. SendsCounted'
      BY <2>1, <2>8, FewerUnsent DEF SendsCounted
    <2> QED BY <2>5, <2>6, <2>9
  <1>9. ASSUME NEW w \in Workers, Mark(w) \/ MarkFails(w)
        PROVE  (AttemptsDistinct /\ SendsCounted /\ ClaimsCounted)'
    <2>1. worker' = [worker EXCEPT ![w] = Idle] /\ UNCHANGED <<queue, sends>>
      BY <1>9 DEF Mark, MarkFails
    <2>2. /\ worker'[w] = Idle /\ worker'[w].at = "idle"
          /\ \A v \in Workers : v # w => worker'[v] = worker[v]
      BY <2>1, <1>0 DEF Idle
    <2>3. AttemptsDistinct'
      BY <2>1, <2>2, <1>0 DEF AttemptsDistinct, SameAttempt
    <2>4. ClaimsCounted'
      <3>1. \A n \in 1..Len(queue') :
              queue'[n].attempt <= deliveries'[queue'[n].item].attempts
        BY <2>1, <1>5a
      <3>2. \A v \in Workers : worker'[v] # Idle =>
              worker'[v].claim.attempt <= deliveries'[worker'[v].claim.item].attempts
        BY <2>2, <1>5b
      <3>3. \A v \in Workers : worker'[v].at = "answered" =>
              sends'[worker'[v].claim.item] > 0
        BY <2>1, <2>2, <1>0 DEF ClaimsCounted
      <3> QED BY <3>1, <3>2, <3>3 DEF ClaimsCounted
    <2>5. \A i \in Items : Unsent(i)' \subseteq Unsent(i)
      BY <2>1, <2>2 DEF Unsent, Held
    <2>6. SendsCounted'
      BY <2>1, <2>5, FewerUnsent DEF SendsCounted
    <2> QED BY <2>3, <2>4, <2>6
  <1>10. ASSUME NEW w \in Workers, Deliver(w)
         PROVE  (AttemptsDistinct /\ SendsCounted /\ ClaimsCounted)'
    <2>0. PICK c, i : c = worker[w].claim /\ i = c.item
      OBVIOUS
    <2>1. /\ worker[w].at = "claimed" /\ c \in Claims /\ worker[w] # Idle
          /\ i \in Items /\ c.attempt \in 1..MaxAttempts
          /\ UNCHANGED <<queue, deliveries>>
          /\ sends' = [sends EXCEPT ![i] = @ + 1]
      BY <1>10, <1>3, <1>5, <2>0 DEF Deliver, TooMany
    <2>2. PICK r \in {"delivered", "permanent", "retryable"} :
            worker' = [worker EXCEPT ![w] = [at |-> "answered", claim |-> c, result |-> r]]
      BY <1>10, <2>0 DEF Deliver
    <2>3. /\ worker'[w].at = "answered" /\ worker'[w].claim = c
          /\ \A v \in Workers : v # w => worker'[v] = worker[v]
      BY <2>2, <1>0
    <2>4. /\ sends'[i] = sends[i] + 1 /\ sends[i] \in Nat
          /\ \A j \in Items : j # i => sends'[j] = sends[j]
          /\ \A j \in Items : sends[j] > 0 => sends'[j] > 0
      BY <2>1, <1>0
    <2>5. AttemptsDistinct'
      <3>1. \A v \in Workers : worker'[v].at = "claimed" =>
              worker[v].at = "claimed" /\ worker'[v].claim = worker[v].claim
        BY <2>3
      <3>2. queue' = queue
        BY <2>1
      <3> QED BY <3>1, <3>2, <1>0 DEF AttemptsDistinct, SameAttempt
    <2>6. ClaimsCounted'
      <3>1. \A n \in 1..Len(queue') :
              queue'[n].attempt <= deliveries'[queue'[n].item].attempts
        BY <2>1, <1>0, <2>0 DEF ClaimsCounted
      <3>2. \A v \in Workers : worker'[v] # Idle =>
              worker'[v].claim.attempt <= deliveries'[worker'[v].claim.item].attempts
        BY <2>1, <2>3, <1>0, <2>0 DEF ClaimsCounted
      <3>3. \A v \in Workers : worker'[v].at = "answered" =>
              sends'[worker'[v].claim.item] > 0
        BY <2>0, <2>1, <2>3, <2>4, <1>0, <1>3, <1>5 DEF ClaimsCounted
      <3> QED BY <3>1, <3>2, <3>3 DEF ClaimsCounted
    <2>7. ASSUME NEW claim \in Claims, Held(claim)'
          PROVE  Held(claim) /\ ~SameAttempt(claim, c)
      <3>1. CASE \E n \in 1..Len(queue') : queue'[n] = claim
        BY <3>1, <2>0, <2>1, <1>0 DEF Held, AttemptsDistinct
      <3>2. CASE \E v \in Workers : worker'[v].at = "claimed" /\ worker'[v].claim = claim
        BY <3>2, <2>0, <2>1, <2>3, <1>0 DEF Held, AttemptsDistinct
      <3> QED BY <3>1, <3>2, <2>7 DEF Held
    <2>8. \A j \in Items : Unsent(j)' \subseteq Unsent(j)
      BY <2>7 DEF Unsent
    <2>9. Unsent(i)' \subseteq Unsent(i) \ {c.attempt}
      BY <2>0, <2>1, <2>7 DEF Unsent, SameAttempt
    <2>10. c.attempt \in Unsent(i)
      BY <2>0, <2>1 DEF Unsent, Held
    <2>11. Cardinality(Unsent(i)') <= Cardinality(Unsent(i)) - 1
      <3>1. /\ IsFiniteSet(Unsent(i) \ {c.attempt})
            /\ Cardinality(Unsent(i) \ {c.attempt}) = Cardinality(Unsent(i)) - 1
        BY <2>1, <2>10, UnsentFinite, FS_RemoveElement
      <3> QED BY <3>1, <2>9, FS_Subset
    <2>12. /\ deliveries'[i].status = "none" => deliveries'[i] = NoDelivery
           /\ sends'[i] + Cardinality(Unsent(i)') <= deliveries'[i].attempts
           /\ sends'[i] + Cardinality(Unsent(i)') <= MaxAttempts
      <3>1. /\ deliveries[i].status = "none" => deliveries[i] = NoDelivery
            /\ sends[i] + Cardinality(Unsent(i)) <= deliveries[i].attempts
            /\ sends[i] + Cardinality(Unsent(i)) <= MaxAttempts
        BY <2>1, <1>0 DEF SendsCounted
      <3> QED BY <3>1, <2>1, <2>4, <2>11, <1>2, UnsentFinite
    <2>13. SendsCounted'
      BY <2>4, <2>8, <2>12, FewerUnsent DEF SendsCounted
    <2> QED BY <2>5, <2>6, <2>13
  <1>11. CASE Restart
    <2>1. /\ queue' = <<>> /\ UNCHANGED sends
          /\ \A w \in Workers : worker'[w] = Idle /\ worker'[w].at = "idle"
      BY <1>11 DEF Restart, Idle
    <2>2. \A i \in Items : Unsent(i)' \subseteq Unsent(i)
      BY <2>1 DEF Unsent, Held
    <2>3. SendsCounted'
      BY <2>1, <2>2, FewerUnsent DEF SendsCounted
    <2>4. AttemptsDistinct' /\ ClaimsCounted'
      BY <2>1 DEF AttemptsDistinct, ClaimsCounted
    <2> QED BY <2>3, <2>4
  <1>12. CASE Lifecycle \/ Poller \/ PollFails
    BY <1>6, <1>12
       DEF Lifecycle, Tick, Receive, MarkProcessed, Apply, Command, SetDestination, Poller,
           Poll, Expand, ExpandTransaction, BeginExpansion, UpsertDelivery,
           RemoveTransition, ExpansionDone, ClaimsDone, PollFails
  <1>13. ASSUME NEW i \in Items, Claim(i) \/ BecomeDue(i) \/ LeaseRunsOut(i)
         PROVE  (AttemptsDistinct /\ SendsCounted /\ ClaimsCounted)'
    BY <1>6, <1>7, <1>13 DEF Claim, BecomeDue, LeaseRunsOut
  <1>14. CASE UNCHANGED vars
    BY <1>6, <1>14 DEF vars
  <1> QED BY <1>8, <1>9, <1>10, <1>11, <1>12, <1>13, <1>14 DEF Next, Work

-----------------------------------------------------------------------------
(* The invariant *)

LEMMA InitInv ==
  ASSUME Init PROVE NotificationsInv
  <1>1. TypeOK /\ poller \in Polling /\ worker \in [Workers -> Working]
    <2>1. NoDelivery \in Delivery
      BY DeliveryFacts
    <2>2. /\ Backends \subseteq BOOLEAN /\ given.clock \in Nat \ {0} /\ given.commands \in Nat
          /\ given.faults \in Nat
      BY DEF Init
    <2>3. <<>> \in Seq(Claims) /\ Len(<<>>) = 0
      OBVIOUS
    <2>4. 0 \in 0..given.commands /\ 0 \in 0..given.faults /\ 0 \in 0..given.clock
          /\ 1 \in 1..given.clock
      BY <2>2
    <2>5. poller \in Polling /\ worker \in [Workers -> Working]
      BY DEF Init, Polling, Working
    <2>6. poller.at = "idle" /\ \A w \in Workers : worker[w] = Idle
      BY DEF Init, Idle
    <2>7. /\ clock \in 1..given.clock /\ commands \in 0..given.commands
          /\ faults \in 0..given.faults /\ received \in [Events -> 0..given.clock]
          /\ sends \in [Items -> Nat] /\ deliveries \in [Items -> Delivery]
      BY <2>1, <2>4 DEF Init
    <2>8. queue \in Seq(Claims) /\ Len(queue) <= QueueCapacity
      BY <2>3 DEF Init
    <2> QED BY <2>2, <2>5, <2>6, <2>7, <2>8 DEF Init, TypeOK
  <1>2. NoTransitionLost /\ ExpansionConsistent
    BY DEF Init, NoTransitionLost, ExpansionConsistent, Idle
  <1>3. RegressionsCountedOnce /\ RegressionsBefore
    <2>1. Regressions = {}
      BY DEF Init, Regressions
    <2>2. IsFiniteSet(Regressions)
      BY <2>1, FS_EmptySet
    <2> QED BY <2>1, <2>2 DEF Init, RegressionsCountedOnce, RegressionsBefore
  <1>4. queue = <<>> /\ Len(queue) = 0 /\ \A w \in Workers : worker[w] = [at |-> "idle"]
    BY DEF Init, Idle
  <1>5. \A i \in Items : Unsent(i) = {}
    BY <1>4 DEF Unsent, Held
  <1>6. AttemptsDistinct /\ ClaimsCounted
    BY <1>4 DEF AttemptsDistinct, ClaimsCounted, Idle
  <1>7. SendsCounted
    <2>1. \A i \in Items : sends[i] = 0 /\ deliveries[i] = NoDelivery
      BY DEF Init
    <2>2. Cardinality({}) = 0
      BY FS_EmptySet
    <2>3. \A i \in Items : sends[i] + Cardinality(Unsent(i)) = 0
      BY <2>1, <2>2, <1>5
    <2> QED BY <2>1, <2>3 DEF SendsCounted, NoDelivery
  <1> QED BY <1>1, <1>2, <1>3, <1>6, <1>7 DEF NotificationsInv

\* Regressions, expansions and claims are consistent in every state the issue, its
\* outbox and the dispatcher reach: the inductive invariant.
THEOREM NotificationsInvariant == Spec => []NotificationsInv
  <1>1. Init => NotificationsInv
    BY InitInv
  <1>2. NotificationsInv /\ [Next]_vars => NotificationsInv'
    BY TypeStep, RegressionStep, ExpansionStep, ClaimStep DEF NotificationsInv
  <1> QED BY <1>1, <1>2, PTL DEF Spec

\* Every variable stays within its type.
THEOREM NotificationsTypeOK == Spec => []TypeOK
  <1>1. NotificationsInv => TypeOK
    BY DEF NotificationsInv
  <1> QED BY <1>1, NotificationsInvariant, PTL

\* No change of an issue that notifies is forgotten, wherever an expansion was cut off
\* and however often the process restarted.
THEOREM NotificationsNoTransitionLost == Spec => []NoTransitionLost
  <1>1. NotificationsInv => NoTransitionLost
    BY DEF NotificationsInv
  <1> QED BY <1>1, NotificationsInvariant, PTL

\* The regressions an issue counts are its regression transitions: on PostgreSQL
\* whenever the clock of a resolution was read, and on MongoDB, which applies events
\* again, unless one was stored with a time before the event of an earlier regression.
THEOREM NotificationsRegressionsCountedOnce == Spec => []RegressionsCountedOnce
  <1>1. NotificationsInv => RegressionsCountedOnce
    BY DEF NotificationsInv
  <1> QED BY <1>1, NotificationsInvariant, PTL

-----------------------------------------------------------------------------
(* The refinement *)

\* A step that sends nothing, and only stores deliveries that were not, intends.
LEMMA IntendStep ==
  ASSUME NotificationsInv, UNCHANGED <<given, sends>>, happened \subseteq happened',
         \A i \in Items : \/ deliveries'[i].status = deliveries[i].status
                          \/ /\ deliveries[i].status = "none"
                             /\ deliveries'[i].status = "pending"
  PROVE  Promise!Intend
  <1>1. \A t : ItemsOf(t)' = ItemsOf(t)
    BY DEF ItemsOf
  <1>2. ASSUME NEW i \in Items
        PROVE  Intended'[i] = Intended[i] \/ (Intended[i] = "none" /\ Intended'[i] = "pending")
    BY <1>1 DEF Intended
  <1>3. Intended' = [i \in Items |-> Intended'[i]]
    BY DEF Intended
  <1> QED BY <1>2, <1>3 DEF Promise!Intend

\* Every step is one of the outbox's, or none to it.
LEMMA RefinementStep ==
  ASSUME NotificationsInv, [Next]_vars
  PROVE  [Promise!Next]_<<Intended, sends>>
  <1>0. /\ TypeOK /\ deliveries \in [Items -> Delivery] /\ sends \in [Items -> Nat]
        /\ worker \in [Workers -> Working]
    BY DEF NotificationsInv, TypeOK
  <1>1. CASE UNCHANGED vars
    BY <1>1 DEF vars, Intended, ItemsOf
  <1>2. CASE UNCHANGED <<given, sends, deliveries>> /\ happened \subseteq happened'
    BY <1>2, IntendStep DEF Promise!Next
  <1>3. ASSUME NEW i \in Items, NEW d \in Delivery, d.status = deliveries[i].status,
               deliveries' = [deliveries EXCEPT ![i] = d],
               UNCHANGED <<given, sends, happened>>
        PROVE  Promise!Next
    <2>1. \A j \in Items : deliveries'[j].status = deliveries[j].status
      BY <1>0, <1>3
    <2> QED BY <2>1, <1>3, IntendStep DEF Promise!Next
  <1>4. CASE Lifecycle
    BY <1>2, <1>4 DEF Lifecycle, Tick, Receive, MarkProcessed, Apply, Command, Effect,
       SetDestination
  <1>5. ASSUME NEW t \in Transitions, ExpandTransaction(t) PROVE Promise!Next
    <2>1. \A i \in Items : deliveries'[i] =
              IF i \in ItemsOf(t) THEN Upserted(i) ELSE deliveries[i]
      BY <1>5 DEF ExpandTransaction
    <2>2. \A i \in Items : \/ deliveries'[i].status = deliveries[i].status
                           \/ /\ deliveries[i].status = "none"
                              /\ deliveries'[i].status = "pending"
      BY <2>1 DEF Upserted, NewDelivery
    <2> QED BY <2>2, <1>5, IntendStep DEF ExpandTransaction, Promise!Next
  <1>6. ASSUME NEW i \in Items, UpsertDelivery(i) PROVE Promise!Next
    <2>1. \A j \in Items : deliveries'[j] =
              IF j = i THEN Upserted(i) ELSE deliveries[j]
      BY <1>0, <1>6 DEF UpsertDelivery
    <2>2. \A j \in Items : \/ deliveries'[j].status = deliveries[j].status
                           \/ /\ deliveries[j].status = "none"
                              /\ deliveries'[j].status = "pending"
      BY <2>1 DEF Upserted, NewDelivery
    <2> QED BY <2>2, <1>6, IntendStep DEF UpsertDelivery, Promise!Next
  <1>7. CASE Poll \/ RemoveTransition \/ ExpansionDone \/ ClaimsDone \/ Restart
             \/ (\E t \in Transitions : BeginExpansion(t))
             \/ \E w \in Workers : Take(w) \/ MarkFails(w)
    BY <1>2, <1>7 DEF Poll, RemoveTransition, ExpansionDone, ClaimsDone, Restart,
       BeginExpansion, Take, MarkFails
  <1>8. ASSUME NEW i \in Items, deliveries' = [deliveries EXCEPT ![i] = Claimed(@)],
               UNCHANGED <<given, sends, happened>>
        PROVE  Promise!Next
    <2>1. /\ Claimed(deliveries[i]) \in Delivery
          /\ Claimed(deliveries[i]).status = deliveries[i].status
      BY <1>0, DeliveryFacts
    <2> QED BY <1>3, <1>8, <2>1
  <1>9. CASE PollFails
    <2>1. UNCHANGED <<given, sends, happened>>
      BY <1>9 DEF PollFails
    <2>2. \/ deliveries' = deliveries
          \/ \E i \in Items : deliveries' = [deliveries EXCEPT ![i] = Claimed(@)]
      BY <1>9 DEF PollFails
    <2> QED BY <1>2, <1>8, <2>1, <2>2
  <1>10. ASSUME NEW i \in Items, Claim(i) PROVE Promise!Next
    BY <1>8, <1>10 DEF Claim
  <1>11. ASSUME NEW i \in Items, BecomeDue(i) \/ LeaseRunsOut(i) PROVE Promise!Next
    <2> DEFINE d == [deliveries[i] EXCEPT !.due = TRUE]
    <2>1. /\ deliveries' = [deliveries EXCEPT ![i] = d]
          /\ UNCHANGED <<given, sends, happened>>
      BY <1>11 DEF BecomeDue, LeaseRunsOut
    <2>2. d \in Delivery /\ d.status = deliveries[i].status
      BY <1>0 DEF Delivery
    <2> HIDE DEF d
    <2> QED BY <1>3, <2>1, <2>2
  <1>12. ASSUME NEW w \in Workers, Deliver(w) PROVE Promise!Next
    <2>1. PICK c, i : c = worker[w].claim /\ i = c.item
      OBVIOUS
    <2>2. /\ worker[w].at = "claimed" /\ c \in Claims /\ worker[w] # Idle
          /\ i \in Items /\ c.attempt \in 1..MaxAttempts
          /\ UNCHANGED <<given, happened, deliveries>>
          /\ sends' = [sends EXCEPT ![i] = @ + 1]
      BY <1>12, <2>1, WorkerFacts DEF Deliver, TooMany, Claims, Idle
    <2>3. Intended' = Intended
      BY <2>2 DEF Intended, ItemsOf
    <2>4. Intended[i] # "none"
      <3>1. c.attempt <= deliveries[i].attempts
        BY <2>1, <2>2 DEF NotificationsInv, ClaimsCounted
      <3>2. deliveries[i].status # "none"
        BY <3>1, <2>2 DEF NotificationsInv, SendsCounted, NoDelivery
      <3> QED BY <3>2, <2>2 DEF Intended
    <2>5. sends[i] < MaxAttempts
      <3>1. c.attempt \in Unsent(i)
        BY <2>1, <2>2 DEF Unsent, Held
      <3>2. Cardinality(Unsent(i)) # 0
        BY <3>1, <2>2, UnsentFinite, FS_EmptySet
      <3>3. sends[i] + Cardinality(Unsent(i)) <= MaxAttempts
        BY <2>2 DEF NotificationsInv, SendsCounted
      <3>4. sends[i] \in Nat
        BY <1>0, <2>2
      <3> QED BY <3>2, <3>3, <3>4, <2>2, UnsentFinite
    <2>6. Promise!Send(i)
      BY <2>2, <2>3, <2>4, <2>5 DEF Promise!Send
    <2> QED BY <2>2, <2>6 DEF Promise!Next
  <1>13. ASSUME NEW w \in Workers, Mark(w) PROVE [Promise!Next]_<<Intended, sends>>
    <2>1. PICK i, d : i = worker[w].claim.item /\ d = Marked(deliveries[i], Outcome(w))
      OBVIOUS
    <2>2. /\ i \in Items /\ Outcome(w) \in {"delivered", "dead", "retry"}
          /\ Outcome(w) = "delivered" => worker[w].at = "answered"
      BY <1>13, <2>1, OutcomeFacts DEF Mark
    <2>3. /\ deliveries' = [deliveries EXCEPT ![i] = d]
          /\ UNCHANGED <<given, sends, happened>>
      BY <1>13, <2>1 DEF Mark
    <2>4. d \in Delivery
      BY <1>0, <2>1, <2>2, DeliveryFacts
    <2>5. CASE d.status = deliveries[i].status
      BY <1>3, <2>2, <2>3, <2>4, <2>5
    <2>6. CASE d.status # deliveries[i].status
      <3>1. /\ deliveries[i].status = "pending" /\ d.status = Outcome(w)
            /\ Outcome(w) \in {"delivered", "dead"}
        <4>1. deliveries[i] \in Delivery
          BY <1>0, <2>2
        <4> QED BY <4>1, <2>1, <2>2, <2>6 DEF Marked, Delivery
      <3>2. Intended[i] = "pending"
        BY <3>1, <2>2 DEF Intended
      <3>3. \A t : ItemsOf(t)' = ItemsOf(t)
        BY <2>3 DEF ItemsOf
      <3>4. Intended' = [Intended EXCEPT ![i] = d.status]
        <4>1. ASSUME NEW j \in Items
              PROVE  Intended'[j] = IF j = i THEN d.status ELSE Intended[j]
          BY <1>0, <2>2, <2>3, <3>1, <3>3 DEF Intended
        <4> QED BY <4>1 DEF Intended
      <3>5. Outcome(w) = "delivered" => sends[i] > 0
        BY <2>1, <2>2 DEF NotificationsInv, ClaimsCounted
      <3>6. Promise!Settle(i)
        BY <3>1, <3>2, <3>4, <3>5, <2>3 DEF Promise!Settle
      <3> QED BY <3>6, <2>2 DEF Promise!Next
    <2> QED BY <2>5, <2>6
  <1> QED BY <1>1, <1>4, <1>5, <1>6, <1>7, <1>9, <1>10, <1>11, <1>12, <1>13
          DEF Next, Poller, Expand, Work

\* The issue's outbox and its dispatcher implement Outbox: all that a change calls for
\* is pending with the change, a destination gets max_attempts requests at most, and
\* what has ended does not begin again.
THEOREM NotificationsImplementsOutbox == Spec => ImplementsOutbox
  <1>1. Init => Promise!Init
    <2> SUFFICES ASSUME Init PROVE Promise!Init
      OBVIOUS
    <2>1. \A i \in Items : Intended[i] = "none"
      BY DEF Init, Intended, NoDelivery
    <2>2. Intended = [i \in Items |-> "none"]
      BY <2>1 DEF Intended
    <2> QED BY <2>2 DEF Init, Promise!Init
  <1>2. NotificationsInv /\ [Next]_vars => [Promise!Next]_<<Intended, sends>>
    BY RefinementStep
  <1> QED BY <1>1, <1>2, NotificationsInvariant, PTL
          DEF Spec, ImplementsOutbox, Promise!Spec

=============================================================================
