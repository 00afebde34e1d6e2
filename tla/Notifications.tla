---------------------------- MODULE Notifications ----------------------------
(***************************************************************************)
(* One issue, the outbox of its transitions, and the NotificationDispatcher *)
(* that turns transitions into deliveries and sends these to their         *)
(* destinations: a poller that expands and claims, a bounded queue, and    *)
(* workers.  application/src/notifications.rs, mongo/src/notifications.rs, *)
(* postgres/src/notifications.rs.                                          *)
(*                                                                         *)
(* The time of a lease or of a retry is reduced to whether it has come:    *)
(* any amount of it may pass while a claim waits in the queue.             *)
(***************************************************************************)
EXTENDS Issue, Sequences

CONSTANTS
    Events,        \* event ids
    Keys,          \* idempotency keys of commands, as numbers
    Destinations,
    Workers,       \* worker_concurrency
    QueueCapacity, \* queue_capacity
    MaxAttempts,   \* max_attempts
    Backends,      \* the values of transactional to consider
    Instances      \* bound: the rules, the events, the number of commands and of
                   \* faults (crashes, calls that fail, leases that end under a claim,
                   \* changes of destinations) and the length of time that are
                   \* considered together

Kinds == {"new", "regression", "resolved"}

ASSUME NotificationsAssumption ==
    /\ Events \subseteq Nat
    /\ \E m \in Events : \A e \in Events : e <= m  \* a UUID has 128 bits
    /\ Keys \subseteq Nat
    /\ NoIssue \notin IssueRecord
    /\ QueueCapacity \in Nat \ {0}
    /\ MaxAttempts \in Nat \ {0}
    /\ Backends \subseteq BOOLEAN
    /\ Instances \subseteq [targets : [Kinds -> SUBSET Destinations],
                            events : SUBSET Events, commands : Nat,
                            faults : Nat, clock : Nat \ {0}]

VARIABLES
    transactional, \* TRUE for PostgreSQL, FALSE for MongoDB
    given,         \* the instance; given.targets are the destinations of the rules
                   \* that match a kind of transition
    clock,
    \* durable
    received,      \* receipt time of each event; 0 before it is received
    stage,         \* how far the finalizer is with each event
    issue,
    outbox,        \* issues.n, issue_transitions
    deliveries,
    destination,   \* state of each destination
    \* in memory
    poller,        \* where the polling task is
    queue,         \* claims on their way to the workers
    worker,        \* where each worker is
    \* history
    happened,      \* transitions of the issue
    commands,      \* commands that took effect
    backdated,     \* a resolution was stored with a time before that of an event that
                   \* had regressed the issue
    sends,         \* external attempts of each delivery
    faults

issueVars == <<clock, received, stage, issue, happened, commands, backdated>>

constantVars == <<transactional, given>>

vars == <<constantVars, issueVars, outbox, deliveries, destination, poller, queue,
          worker, sends, faults>>

Transitions == ({"new", "regression"} \X Events) \cup ({"resolved"} \X Keys)

\* notification_delivery_id: the transition, the rule and the destination.  One rule
\* for each kind of transition is considered, and rules do not change.
Items == {i \in Transitions \X Destinations :
            \E g \in Instances :
                i[2] \in g.targets[i[1][1]] /\ i[1][2] \in g.events \cup Keys}

\* The deliveries of a transition: every destination of every rule that matches.
ItemsOf(t) == {i \in Items : i[1] = t /\ i[2] \in given.targets[t[1]]}

Terminal == {"delivered", "dead"}

NoDelivery == [status |-> "none", attempts |-> 0, due |-> FALSE]
NewDelivery == [status |-> "pending", attempts |-> 0, due |-> TRUE]

\* Attempts are counted up to the first one that is too many.
Delivery == [status : {"none", "pending"} \cup Terminal,
             attempts : 0..(MaxAttempts + 1), due : BOOLEAN]

Claims == [item : Items, attempt : 1..(MaxAttempts + 1), enabled : BOOLEAN]

Idle == [at |-> "idle"]

TypeOK ==
    /\ transactional \in BOOLEAN /\ given \in Instances
    /\ clock \in 1..given.clock
    /\ received \in [Events -> 0..given.clock]
    /\ stage \in [Events -> {"pending", "applied", "processed"}]
    /\ issue = NoIssue \/ issue \in IssueRecord
    /\ outbox \subseteq Transitions
    /\ deliveries \in [Items -> Delivery]
    /\ destination \in [Destinations -> {"enabled", "disabled", "deleted"}]
    /\ poller.at \in {"idle", "expand", "upsert", "claim"}
    /\ queue \in Seq(Claims) /\ Len(queue) <= QueueCapacity
    /\ \A w \in Workers : worker[w] # Idle => worker[w].claim \in Claims
    /\ happened \subseteq Transitions
    /\ commands \in 0..given.commands
    /\ backdated \in BOOLEAN
    /\ sends \in [Items -> Nat]
    /\ faults \in 0..given.faults

-----------------------------------------------------------------------------
(* The issue *)

Fault == faults < given.faults /\ faults' = faults + 1

Tick ==
    /\ clock < given.clock
    /\ clock' = clock + 1
    /\ UNCHANGED <<constantVars, received, stage, issue, happened, commands, outbox,
                   backdated, deliveries, destination, poller, queue, worker, sends,
                   faults>>

Receive(e) ==
    /\ e \in given.events
    /\ received[e] = 0
    /\ received' = [received EXCEPT ![e] = clock]
    /\ UNCHANGED <<constantVars, clock, stage, issue, happened, commands, outbox,
                   backdated, deliveries, destination, poller, queue, worker, sends,
                   faults>>

Effect(after) ==
    /\ issue' = after.issue
    /\ outbox' = outbox \cup after.outbox
    /\ happened' = happened \cup after.outbox

\* The finalizer applies a batch of events of the issue.  PostgreSQL marks them
\* processed in the same transaction; MongoDB does so later, and until then they may
\* be applied again.
Apply(batch, first) ==
    /\ \A e \in batch :
        /\ received[e] # 0
        /\ stage[e] \in IF transactional THEN {"pending"} ELSE {"pending", "applied"}
    /\ Effect(ApplyOccurrences(issue, batch, first, received))
    /\ stage' = [e \in Events |->
                   IF e \notin batch THEN stage[e]
                   ELSE IF transactional THEN "processed" ELSE "applied"]
    /\ UNCHANGED <<constantVars, clock, received, commands, backdated, deliveries,
                   destination, poller, queue, worker, sends, faults>>

MarkProcessed(e) ==
    /\ stage[e] = "applied"
    /\ stage' = [stage EXCEPT ![e] = "processed"]
    /\ UNCHANGED <<constantVars, clock, received, issue, happened, commands, outbox,
                   backdated, deliveries, destination, poller, queue, worker, sends,
                   faults>>

Regressions == {t \in happened : t[1] = "regression"}

\* A command reads the clock and goes to the store after that: any amount of time may
\* pass before its write, in which events are received and applied.
Command(action, key, at) ==
    /\ commands < given.commands
    /\ at \in 1..clock
    /\ Applies(issue, action)
    /\ Effect(ApplyCommand(issue, action, key, at))
    /\ commands' = commands + 1
    /\ backdated' = \/ backdated
                    \/ action = "resolve" /\ \E t \in Regressions : received[t[2]] > at
    /\ UNCHANGED <<constantVars, clock, received, stage, deliveries, destination,
                   poller, queue, worker, sends, faults>>

\* NotificationAdminService: upsert_destination, delete_destination.
SetDestination(d, s) ==
    /\ Fault
    /\ destination[d] \notin {"deleted", s}
    /\ destination' = [destination EXCEPT ![d] = s]
    /\ UNCHANGED <<constantVars, issueVars, outbox, deliveries, poller, queue, worker,
                   sends>>

-----------------------------------------------------------------------------
(* The poller: expand_once, then claims for as long as the queue has room *)

PendingTransitions == outbox

Poll ==
    /\ poller = Idle
    /\ poller' = [at |-> "expand", todo |-> PendingTransitions]
    /\ UNCHANGED <<constantVars, issueVars, outbox, deliveries, destination, queue,
                   worker, sends, faults>>

\* Mutant: $set where the code says $setOnInsert.
UpsertedOver(i) == NewDelivery

Upserted(i) ==
    IF deliveries[i].status = "none" THEN NewDelivery ELSE deliveries[i]

\* PostgreSQL: expand is one transaction.
ExpandTransaction(t) ==
    /\ transactional
    /\ poller.at = "expand" /\ t \in poller.todo
    /\ deliveries' = [i \in Items |->
                        IF i \in ItemsOf(t) THEN Upserted(i) ELSE deliveries[i]]
    /\ outbox' = outbox \ {t}
    /\ poller' = [poller EXCEPT !.todo = @ \ {t}]
    /\ UNCHANGED <<constantVars, issueVars, destination, queue, worker, sends,
                   faults>>

\* MongoDB: the deliveries one by one,
BeginExpansion(t) ==
    /\ ~transactional
    /\ poller.at = "expand" /\ t \in poller.todo
    /\ poller' = [at |-> "upsert", todo |-> poller.todo \ {t}, transition |-> t,
                  left |-> ItemsOf(t)]
    /\ UNCHANGED <<constantVars, issueVars, outbox, deliveries, destination, queue,
                   worker, sends, faults>>

UpsertDelivery(i) ==
    /\ poller.at = "upsert" /\ i \in poller.left
    /\ deliveries' = [deliveries EXCEPT ![i] = Upserted(i)]
    /\ poller' = [poller EXCEPT !.left = @ \ {i}]
    /\ UNCHANGED <<constantVars, issueVars, outbox, destination, queue, worker,
                   sends, faults>>

\* Mutant: the transition is removed before its deliveries are written.
RemoveTransitionFirst ==
    /\ poller.at = "upsert"
    /\ outbox' = outbox \ {poller.transition}
    /\ poller' = IF poller.left = {} THEN [at |-> "expand", todo |-> poller.todo]
                                     ELSE poller
    /\ UNCHANGED <<constantVars, issueVars, deliveries, destination, queue, worker,
                   sends, faults>>

\* and the transition after them.
RemoveTransition ==
    /\ poller.at = "upsert" /\ poller.left = {}
    /\ outbox' = outbox \ {poller.transition}
    /\ poller' = [at |-> "expand", todo |-> poller.todo]
    /\ UNCHANGED <<constantVars, issueVars, deliveries, destination, queue, worker,
                   sends, faults>>

ExpansionDone ==
    /\ poller.at = "expand" /\ poller.todo = {}
    /\ poller' = [at |-> "claim"]
    /\ UNCHANGED <<constantVars, issueVars, outbox, deliveries, destination, queue,
                   worker, sends, faults>>

\* Mutant: a delivery whose claim was lost is not due again.
DueOnce(i) == deliveries[i] = NewDelivery

Due(i) == deliveries[i].status = "pending" /\ deliveries[i].due

Claimed(delivery) ==
    [delivery EXCEPT !.attempts = IF @ > MaxAttempts THEN @ ELSE @ + 1, !.due = FALSE]

HasRoom == Len(queue) < QueueCapacity

\* claim_due: the attempt is counted and the delivery leased in one update.  A
\* destination that is gone makes it fail after that, which ends the round.
Claim(i) ==
    /\ poller.at = "claim"
    /\ HasRoom
    /\ Due(i)
    /\ deliveries' = [deliveries EXCEPT ![i] = Claimed(@)]
    /\ IF destination[i[2]] = "deleted"
       THEN /\ poller' = Idle
            /\ UNCHANGED queue
       ELSE /\ queue' = Append(queue, [item |-> i, attempt |-> deliveries'[i].attempts,
                                       enabled |-> destination[i[2]] = "enabled"])
            /\ UNCHANGED poller
    /\ UNCHANGED <<constantVars, issueVars, outbox, destination, worker, sends,
                   faults>>

ClaimsDone ==
    /\ poller.at = "claim"
    /\ ~HasRoom \/ \A i \in Items : ~Due(i)
    /\ poller' = Idle
    /\ UNCHANGED <<constantVars, issueVars, outbox, deliveries, destination, queue,
                   worker, sends, faults>>

\* The claims of a delivery that are still queued or worked on.
InHand(i) ==
    \/ \E n \in 1..Len(queue) : queue[n].item = i
    \/ \E w \in Workers : worker[w] # Idle /\ worker[w].claim.item = i

\* The time of a retry comes, or the lease of a claim that was lost ends.
BecomeDue(i) ==
    /\ deliveries[i].status = "pending" /\ ~deliveries[i].due
    /\ ~InHand(i)
    /\ deliveries' = [deliveries EXCEPT ![i].due = TRUE]
    /\ UNCHANGED <<constantVars, issueVars, outbox, destination, poller, queue, worker,
                   sends, faults>>

-----------------------------------------------------------------------------
(* The workers: deliver_claim *)

Take(w) ==
    /\ worker[w] = Idle
    /\ queue # <<>>
    /\ worker' = [worker EXCEPT ![w] = [at |-> "claimed", claim |-> Head(queue)]]
    /\ queue' = Tail(queue)
    /\ UNCHANGED <<constantVars, issueVars, outbox, deliveries, destination, poller,
                   sends, faults>>

TooMany(claim) == claim.attempt > MaxAttempts

\* The adapter's request: accepted, refused for good, or failed or timed out, with the
\* destination reached or not.
Deliver(w) ==
    /\ worker[w].at = "claimed"
    /\ LET claim == worker[w].claim
       IN  /\ claim.enabled /\ ~TooMany(claim)
           /\ sends' = [sends EXCEPT ![claim.item] = @ + 1]
           /\ \E result \in {"delivered", "permanent", "retryable"} :
                worker' = [worker EXCEPT ![w] =
                    [at |-> "answered", claim |-> claim, result |-> result]]
    /\ UNCHANGED <<constantVars, issueVars, outbox, deliveries, destination, poller,
                   queue, faults>>

\* mark_delivered, mark_dead and schedule_retry change a delivery that is pending.
Marked(delivery, outcome) ==
    IF delivery.status # "pending" THEN delivery
    ELSE IF outcome = "retry" THEN [delivery EXCEPT !.due = FALSE]
    ELSE [delivery EXCEPT !.status = outcome, !.due = FALSE]

\* classify_result and what deliver_claim makes of it.
Outcome(w) ==
    LET claim == worker[w].claim
    IN  IF worker[w].at = "claimed" THEN "dead"
        ELSE CASE worker[w].result = "delivered" -> "delivered"
               [] worker[w].result = "permanent" -> "dead"
               [] worker[w].result = "retryable" ->
                    IF claim.attempt >= MaxAttempts THEN "dead" ELSE "retry"

MarkReady(w) ==
    \/ worker[w].at = "answered"
    \/ /\ worker[w].at = "claimed"
       /\ ~worker[w].claim.enabled \/ TooMany(worker[w].claim)

Mark(w) ==
    /\ MarkReady(w)
    /\ deliveries' = [deliveries EXCEPT ![worker[w].claim.item] = Marked(@, Outcome(w))]
    /\ worker' = [worker EXCEPT ![w] = Idle]
    /\ UNCHANGED <<constantVars, issueVars, outbox, destination, poller, queue,
                   sends, faults>>

-----------------------------------------------------------------------------
(* Faults *)

\* The lease of a claim ends while the claim waits in the queue, or a store is slow to
\* record its result.
LeaseRunsOut(i) ==
    /\ Fault
    /\ deliveries[i].status = "pending" /\ ~deliveries[i].due
    /\ InHand(i)
    /\ deliveries' = [deliveries EXCEPT ![i].due = TRUE]
    /\ UNCHANGED <<constantVars, issueVars, outbox, destination, poller, queue, worker,
                   sends>>

\* The result of an attempt is not recorded; the worker goes on.
MarkFails(w) ==
    /\ Fault
    /\ MarkReady(w)
    /\ worker' = [worker EXCEPT ![w] = Idle]
    /\ UNCHANGED <<constantVars, issueVars, outbox, deliveries, destination, poller,
                   queue, sends>>

\* expand_once ends with its first error, and so does the round of claims.
PollFails ==
    /\ Fault
    /\ \/ /\ poller.at \in {"expand", "upsert"}
          /\ poller' = [at |-> "claim"]
          /\ UNCHANGED deliveries
       \/ /\ poller.at = "claim"
          /\ poller' = Idle
          /\ \/ UNCHANGED deliveries
             \/ \E i \in Items :
                Due(i) /\ deliveries' = [deliveries EXCEPT ![i] = Claimed(@)]
    /\ UNCHANGED <<constantVars, issueVars, outbox, destination, queue, worker,
                   sends>>

\* The process stops, in order or not: claims are dropped with it.
Restart ==
    /\ Fault
    /\ poller' = Idle
    /\ queue' = <<>>
    /\ worker' = [w \in Workers |-> Idle]
    /\ UNCHANGED <<constantVars, issueVars, outbox, deliveries, destination,
                   sends>>

-----------------------------------------------------------------------------

Init ==
    /\ transactional \in Backends
    /\ given \in Instances
    /\ clock = 1
    /\ received = [e \in Events |-> 0]
    /\ stage = [e \in Events |-> "pending"]
    /\ issue = NoIssue
    /\ outbox = {}
    /\ deliveries = [i \in Items |-> NoDelivery]
    /\ destination = [d \in Destinations |-> "enabled"]
    /\ poller = Idle
    /\ queue = <<>>
    /\ worker = [w \in Workers |-> Idle]
    /\ happened = {}
    /\ commands = 0
    /\ backdated = FALSE
    /\ sends = [i \in Items |-> 0]
    /\ faults = 0

Lifecycle ==
    \/ Tick
    \/ \E e \in Events : Receive(e) \/ MarkProcessed(e)
    \/ \E batch \in SUBSET Events : \E first \in batch : Apply(batch, first)
    \/ \E action \in {"resolve", "ignore", "reopen"}, key \in Keys, at \in 1..clock :
        Command(action, key, at)
    \/ \E d \in Destinations, s \in {"enabled", "disabled", "deleted"} :
        SetDestination(d, s)

Expand ==
    \/ \E t \in Transitions : ExpandTransaction(t) \/ BeginExpansion(t)
    \/ \E i \in Items : UpsertDelivery(i)
    \/ RemoveTransition \/ ExpansionDone

Poller == Poll \/ Expand \/ ClaimsDone

Work(w) == Take(w) \/ Deliver(w) \/ Mark(w)

Next ==
    \/ Lifecycle
    \/ Poller
    \/ \E i \in Items : Claim(i) \/ BecomeDue(i) \/ LeaseRunsOut(i)
    \/ \E w \in Workers : Work(w) \/ MarkFails(w)
    \/ PollFails \/ Restart

Spec == Init /\ [][Next]_vars

\* The poller's ticker and the workers run; a request ends with attempt_timeout; a
\* lease ends.  Due deliveries are claimed in the order of their due time, which a
\* claim moves, so that each of them has its turn.
Fairness ==
    /\ WF_vars(Poller)
    /\ \A i \in Items : SF_vars(Claim(i)) /\ WF_vars(BecomeDue(i))
    /\ \A w \in Workers : WF_vars(Work(w))

FairSpec == Spec /\ Fairness

-----------------------------------------------------------------------------
(* Properties *)

\* A change of the issue that notifies is not forgotten: its transition is in the
\* outbox, or all its deliveries are stored, wherever an expansion was cut off.
NoTransitionLost ==
    \A t \in happened :
        t \in outbox \/ \A i \in ItemsOf(t) : deliveries[i].status # "none"

\* Regressions are counted once: each of them has its own transition.  PostgreSQL
\* applies an event once.  MongoDB may apply it again after it has regressed the issue
\* and the issue was resolved once more, and counts it once all the same, unless that
\* resolution was under way for so long that its time is before the event's.
RegressionsCountedOnce ==
    issue # NoIssue /\ (transactional \/ ~backdated) =>
        issue.regressions = Cardinality(Regressions)

\* What the destinations have been told, or are to be, of an item.
Intended ==
    [i \in Items |->
        IF deliveries[i].status # "none" THEN deliveries[i].status
        ELSE IF i[1] \in happened /\ i \in ItemsOf(i[1]) THEN "pending"
        ELSE "none"]

\* What the outbox does for a change, from the change on, is what Outbox allows: all that
\* it calls for is pending at once, a destination gets max_attempts requests at most
\* although claims are lost and leases run out, and what has ended does not begin again.
Promise == INSTANCE Outbox WITH state <- Intended, sends <- sends

ImplementsOutbox == Promise!Spec

-----------------------------------------------------------------------------
(* The inductive invariant of the proofs *)

\* The steps of the poller and of the workers, and what they hold there.
Polling ==
    {Idle, [at |-> "claim"]}
        \cup [at : {"expand"}, todo : SUBSET Transitions]
        \cup [at : {"upsert"}, todo : SUBSET Transitions, transition : Transitions,
              left : SUBSET Items]

Working ==
    {Idle} \cup [at : {"claimed"}, claim : Claims]
        \cup [at : {"answered"}, claim : Claims,
              result : {"delivered", "permanent", "retryable"}]

\* A delivery that an expansion under way does not have before it is stored, so the
\* transition may be removed when none is left.
ExpansionConsistent ==
    poller.at = "upsert" =>
        \A i \in ItemsOf(poller.transition) \ poller.left :
            deliveries[i].status # "none"

\* The event of a regression is processed with it, or the issue was resolved at a time
\* after the events of all its regressions: an event that regresses it again was not
\* among them.
RegressionsBefore ==
    /\ \A e \in Events : received[e] <= clock
    /\ IsFiniteSet(Regressions)
    /\ \A t \in Regressions :
        /\ issue # NoIssue
        /\ received[t[2]] # 0
        /\ transactional => stage[t[2]] = "processed"
        /\ issue.status = "resolved" /\ ~backdated => received[t[2]] <= issue.at

\* A claim that may still be sent.
Held(claim) ==
    \/ \E n \in 1..Len(queue) : queue[n] = claim
    \/ \E w \in Workers : worker[w].at = "claimed" /\ worker[w].claim = claim

\* The attempts at a delivery, of those allowed, that are claimed and not made yet.
Unsent(i) ==
    {a \in 1..MaxAttempts : \E claim \in Claims :
        Held(claim) /\ claim.item = i /\ claim.attempt = a}

SameAttempt(c, d) ==
    c.item = d.item /\ c.attempt = d.attempt /\ c.attempt <= MaxAttempts

\* No attempt is claimed twice, whatever leases ran out.
AttemptsDistinct ==
    /\ \A m, n \in 1..Len(queue) : SameAttempt(queue[m], queue[n]) => m = n
    /\ \A n \in 1..Len(queue), w \in Workers :
        worker[w].at = "claimed" => ~SameAttempt(queue[n], worker[w].claim)
    /\ \A v, w \in Workers :
        /\ worker[v].at = "claimed" /\ worker[w].at = "claimed"
        /\ SameAttempt(worker[v].claim, worker[w].claim)
        => v = w

\* What was sent and what may still be sent has been counted.
SendsCounted ==
    \A i \in Items :
        /\ deliveries[i].status = "none" => deliveries[i] = NoDelivery
        /\ sends[i] + Cardinality(Unsent(i)) <= deliveries[i].attempts
        /\ sends[i] + Cardinality(Unsent(i)) <= MaxAttempts

\* Claims are of stored deliveries, and an answer is one to a request.
ClaimsCounted ==
    /\ \A n \in 1..Len(queue) :
        queue[n].attempt <= deliveries[queue[n].item].attempts
    /\ \A w \in Workers : worker[w] # Idle =>
        worker[w].claim.attempt <= deliveries[worker[w].claim.item].attempts
    /\ \A w \in Workers : worker[w].at = "answered" =>
        sends[worker[w].claim.item] > 0

NotificationsInv ==
    /\ TypeOK
    /\ poller \in Polling
    /\ worker \in [Workers -> Working]
    /\ NoTransitionLost /\ ExpansionConsistent
    /\ RegressionsCountedOnce /\ RegressionsBefore
    /\ AttemptsDistinct /\ SendsCounted /\ ClaimsCounted

-----------------------------------------------------------------------------

\* Every notification a change of the issue calls for ends delivered or dead, unless
\* its destination is deleted, across cut-off expansions, lost claims and restarts; a
\* delivery whose destination was deleted does not hold up the others.
EveryNotificationEnds ==
    \A i \in Items :
        i[1] \in happened /\ i \in ItemsOf(i[1]) ~>
            \/ deliveries[i].status \in Terminal
            \/ destination[i[2]] = "deleted"

=============================================================================
