----------------------------- MODULE Processing -----------------------------
(***************************************************************************)
(* What happens to a stored event once the dispatcher hands it to a        *)
(* worker: Processor::process with its retries, the FinalizerBatcher that  *)
(* coalesces the last stage of many workers, and the finalization of the   *)
(* batch in MongoDB (four separate steps) or PostgreSQL (one transaction). *)
(* application/src/processor.rs, application/src/finalizer.rs,             *)
(* mongo/src/finalizer.rs, postgres/src/finalization.rs, and               *)
(* record_processing_failure of mongo/src/event.rs and                     *)
(* postgres/src/events.rs.                                                 *)
(*                                                                         *)
(* A worker gives up on a stage at its deadline, but what it asked for may *)
(* go on without it: its request stays with the batcher, and an abandoned  *)
(* write of a failure may reach the store later.  The stages before the    *)
(* finalizer change nothing durable and are one step that may fail.        *)
(***************************************************************************)
EXTENDS Integers, Sequences, FiniteSets, SequencesExt

CONSTANTS
    Events,           \* event keys
    Invalid,          \* events that a stage refuses for what they contain
    Colliding,        \* events that only the store refuses: identity collisions
    Deletable,        \* events of projects that may be deleted
    Handed,           \* events whose copy the writer hands over, sooner or later
    Backends,         \* the values of transactional to consider
    MaxAttempts,      \* ProcessorConfig.max_attempts
    ChannelCapacity,  \* FinalizerBatchConfig.channel_capacity
    MaxEvents,        \* FinalizerBatchConfig.max_events
    MaxFaults         \* bound: crashes, shutdowns and abandoned failure records

ASSUME EventsAssumption ==
    /\ IsFiniteSet(Events)
    /\ Invalid \subseteq Events
    /\ Colliding \subseteq Events
    /\ Deletable \subseteq Events
    /\ Handed \subseteq Events
    /\ Backends \subseteq BOOLEAN

\* ProcessorConfig::validate and the checks of FinalizerBatcher::start
ValidConfig ==
    /\ MaxAttempts \in Nat \ {0}
    /\ MaxEvents \in Nat \ {0}
    /\ ChannelCapacity \in Nat
    /\ MaxEvents <= ChannelCapacity

ASSUME ConfigAssumption == ValidConfig

ASSUME BoundsAssumption == MaxFaults \in Nat

VARIABLES
    transactional, \* the backend: TRUE for PostgreSQL, FALSE for MongoDB
    \* durable
    stored,     \* stored[e]: processing state of the event
    attempts,   \* attempts[e]: q.a / attempts
    counted,    \* counted[e]: times e was added to its issue's count
    hourly,     \* hourly[e]: times e was added to its hour bucket
    fenced,     \* events whose project is being deleted
    abandoned,  \* failure records sent and not waited for
    \* in memory
    fresh,      \* events whose copy from the writer was not worked on yet
    worker,     \* worker[e]: where the handler of e is
    scheduled,  \* scheduled[e]: the attempts of the copy it works on
    failure,    \* failure[e]: the class of the failure it met
    channel,    \* the batcher's channel
    batch,      \* the requests of the batch at hand
    phase,      \* what the batcher does with it
    pending,    \* the events of the batch the store found pending
    result,     \* the result all of the batch get
    closed,     \* FinalizerBatcher::close was called
    faults      \* counts towards MaxFaults

durableVars ==
    <<transactional, stored, attempts, counted, hourly, fenced, abandoned>>
workerVars == <<fresh, worker, scheduled, failure>>
batchVars == <<batch, phase, pending, result>>

vars == <<durableVars, workerVars, channel, batchVars, closed, faults>>

\* awaited: the receiver of the request's oneshot still exists.
Requests == [key : Events, awaited : BOOLEAN]
Records == [key : Events, expected : Nat, failed : BOOLEAN]

Phases == {"idle", "collect", "filter", "issues", "hourly", "events",
           "transaction", "reply"}

TypeOK ==
    /\ transactional \in BOOLEAN
    /\ stored \in [Events -> {"pending", "processed", "failed"}]
    /\ attempts \in [Events -> 0..MaxAttempts]
    /\ counted \in [Events -> Nat]
    /\ hourly \in [Events -> Nat]
    /\ fenced \in SUBSET Deletable
    /\ abandoned \in SUBSET Records
    /\ fresh \in SUBSET Events
    /\ worker \in [Events -> {"idle", "stages", "waiting", "failing"}]
    /\ scheduled \in [Events -> 0..MaxAttempts - 1]
    /\ failure \in [Events -> {"none", "temporary", "permanent"}]
    /\ channel \in Seq(Requests)
    /\ batch \in Seq(Requests)
    /\ phase \in Phases
    /\ pending \in SUBSET Events
    /\ result \in {"ok", "temporary", "permanent"}
    /\ closed \in BOOLEAN
    /\ faults \in 0..MaxFaults

-----------------------------------------------------------------------------
(* Processor *)

\* The dispatcher starts the handler: for the writer's copy, which counts no
\* attempts and may be out of date, or for a pending event loaded by a refill.
Schedule(e) ==
    /\ ~closed
    /\ worker[e] = "idle"
    /\ \/ /\ e \in fresh
          /\ fresh' = fresh \ {e}
          /\ scheduled' = [scheduled EXCEPT ![e] = 0]
       \/ /\ stored[e] = "pending"
          /\ e \notin fenced
          /\ scheduled' = [scheduled EXCEPT ![e] = attempts[e]]
          /\ UNCHANGED fresh
    /\ worker' = [worker EXCEPT ![e] = "stages"]
    /\ UNCHANGED <<durableVars, failure, channel, batchVars, closed, faults>>

Fail(e, class) ==
    /\ worker' = [worker EXCEPT ![e] = "failing"]
    /\ failure' = [failure EXCEPT ![e] = class]

\* A stage before the finalizer fails: the project is fenced or the event refused
\* for good, or the stage is unavailable, late or cancelled.
StageFails(e) ==
    /\ worker[e] = "stages"
    /\ \/ Fail(e, "temporary")
       \/ e \in fenced \cup Invalid /\ Fail(e, "permanent")
    /\ UNCHANGED <<durableVars, fresh, scheduled, channel, batchVars, closed,
                   faults>>

\* FinalizerBatcher::finalize: the request enters the channel.
Submit(e) ==
    /\ worker[e] = "stages"
    /\ e \notin Invalid
    /\ ~closed
    /\ Len(channel) < ChannelCapacity
    /\ channel' = Append(channel, [key |-> e, awaited |-> TRUE])
    /\ worker' = [worker EXCEPT ![e] = "waiting"]
    /\ UNCHANGED <<durableVars, fresh, scheduled, failure, batchVars, closed,
                   faults>>

\* The receivers of the oneshots of e are dropped.
Unawait(requests, e) ==
    [i \in 1..Len(requests) |->
        IF requests[i].key = e THEN [requests[i] EXCEPT !.awaited = FALSE]
                               ELSE requests[i]]

\* run_stage: the deadline of the stage, or of the event, passes, or the processor
\* is cancelled.  The request stays where it is.
StageDeadline(e) ==
    /\ worker[e] = "waiting"
    /\ Fail(e, "temporary")
    /\ channel' = Unawait(channel, e)
    /\ batch' = Unawait(batch, e)
    /\ UNCHANGED <<durableVars, fresh, scheduled, phase, pending, result, closed,
                   faults>>

\* Mutant: the next attempt is compared with the limit one too late.
ExhaustedLate(e) == failure[e] = "permanent" \/ scheduled[e] + 1 > MaxAttempts

\* persist_failure: the failure is permanent, or this was the last attempt.
Exhausted(e) == failure[e] = "permanent" \/ scheduled[e] + 1 >= MaxAttempts

\* Mutant: the number of attempts is not compared.
RecordAnyAttempt(r) ==
    IF stored[r.key] = "pending"
    THEN /\ attempts' = [attempts EXCEPT ![r.key] = r.expected + 1]
         /\ stored' = [stored EXCEPT ![r.key] = IF r.failed THEN "failed" ELSE @]
    ELSE UNCHANGED <<attempts, stored>>

\* record_processing_failure: an update of the event if it is still pending and
\* still counts the attempts the copy was scheduled with.
RecordFailure(r) ==
    IF stored[r.key] = "pending" /\ attempts[r.key] = r.expected
    THEN /\ attempts' = [attempts EXCEPT ![r.key] = r.expected + 1]
         /\ stored' = [stored EXCEPT ![r.key] = IF r.failed THEN "failed" ELSE @]
    ELSE UNCHANGED <<attempts, stored>>

FailureOf(e) == [key |-> e, expected |-> scheduled[e], failed |-> Exhausted(e)]

\* The handler returns and its copy of the event is gone.
Return(e) ==
    /\ worker' = [worker EXCEPT ![e] = "idle"]
    /\ scheduled' = [scheduled EXCEPT ![e] = 0]
    /\ failure' = [failure EXCEPT ![e] = "none"]

\* Mutant: a record that finds the event changed is tried again.
WriteFailureAgain(e) ==
    /\ worker[e] = "failing"
    /\ RecordFailure(FailureOf(e))
    /\ IF attempts' # attempts THEN Return(e)
                               ELSE UNCHANGED <<worker, scheduled, failure>>
    /\ UNCHANGED <<transactional, counted, hourly, fenced, abandoned, fresh,
                   channel, batchVars, closed, faults>>

\* write_failure, and the handler returns.
WriteFailure(e) ==
    /\ worker[e] = "failing"
    /\ RecordFailure(FailureOf(e))
    /\ Return(e)
    /\ UNCHANGED <<transactional, counted, hourly, fenced, abandoned, fresh,
                   channel, batchVars, closed, faults>>

\* The store does not answer within state_timeout; the write may come later.
AbandonFailure(e) ==
    /\ worker[e] = "failing"
    /\ faults < MaxFaults
    /\ faults' = faults + 1
    /\ abandoned' = abandoned \cup {FailureOf(e)}
    /\ Return(e)
    /\ UNCHANGED <<transactional, stored, attempts, counted, hourly, fenced, fresh,
                   channel, batchVars, closed>>

LateFailure(r) ==
    /\ r \in abandoned
    /\ abandoned' = abandoned \ {r}
    /\ RecordFailure(r)
    /\ UNCHANGED <<transactional, counted, hourly, fenced, workerVars, channel,
                   batchVars, closed, faults>>

Fence(e) ==
    /\ e \in Deletable \ fenced
    /\ fenced' = fenced \cup {e}
    /\ UNCHANGED <<transactional, stored, attempts, counted, hourly, abandoned,
                   workerVars, channel, batchVars, closed, faults>>

-----------------------------------------------------------------------------
(* run_finalizer_batches and finalize_one_batch *)

Collect ==
    /\ \/ phase = "idle"
       \/ phase = "collect" /\ Len(batch) < MaxEvents
    /\ channel # <<>>
    /\ batch' = Append(batch, Head(channel))
    /\ channel' = Tail(channel)
    /\ phase' = "collect"
    /\ UNCHANGED <<durableVars, workerVars, pending, result, closed, faults>>

BatchKeys == {batch[i].key : i \in 1..Len(batch)}

DuplicateKeys == Cardinality(BatchKeys) < Len(batch)

Reply(a) ==
    /\ phase' = "reply"
    /\ result' = a

\* Finalizer::finalize refuses a batch with two requests for one event;
\* map_finalizer_error calls that a permanent failure of all of the batch.
RefuseBatch ==
    /\ phase = "collect"
    /\ DuplicateKeys
    /\ Reply("permanent")
    /\ UNCHANGED <<durableVars, workerVars, channel, batch, pending, closed,
                   faults>>

\* The batch is full or max_wait has passed.
StartStore ==
    /\ phase = "collect"
    /\ ~DuplicateKeys
    /\ phase' = IF transactional THEN "transaction" ELSE "filter"
    /\ UNCHANGED <<durableVars, workerVars, channel, batch, pending, result, closed,
                   faults>>

Awaited(requests) ==
    {requests[i].key : i \in {j \in 1..Len(requests) : requests[j].awaited}}

\* The workers that get an answer when the whole batch is answered.
Answered == Awaited(batch)

SendReplies ==
    /\ phase = "reply"
    /\ worker' = [e \in Events |-> IF e \notin Answered THEN worker[e]
                                  ELSE IF result = "ok" THEN "idle" ELSE "failing"]
    /\ failure' = [e \in Events |-> IF e \in Answered /\ result # "ok"
                                   THEN result ELSE failure[e]]
    /\ scheduled' = [e \in Events |-> IF e \in Answered /\ result = "ok"
                                     THEN 0 ELSE scheduled[e]]
    /\ phase' = "idle"
    /\ batch' = <<>>
    /\ pending' = {}
    /\ result' = "ok"
    /\ UNCHANGED <<durableVars, fresh, channel, closed, faults>>

\* The drain deadline of a closed batcher: what is left is turned away.
RejectRest ==
    /\ phase = "idle"
    /\ closed
    /\ channel # <<>>
    /\ worker' = [e \in Events |-> IF e \in Awaited(channel)
                                  THEN "failing" ELSE worker[e]]
    /\ failure' = [e \in Events |-> IF e \in Awaited(channel)
                                   THEN "temporary" ELSE failure[e]]
    /\ channel' = <<>>
    /\ UNCHANGED <<durableVars, fresh, scheduled, batchVars, closed, faults>>

-----------------------------------------------------------------------------
(* MongoDB: finalize_inner is a sequence of acknowledged steps. *)

Increment(f, S) == [e \in Events |-> IF e \in S THEN f[e] + 1 ELSE f[e]]

\* Mutant: only events at their first attempt are looked for.
PendingEventsFirstAttempt ==
    /\ phase = "filter"
    /\ pending' = {e \in BatchKeys : stored[e] = "pending" /\ attempts[e] = 0}
    /\ IF pending' = {} THEN Reply("ok") ELSE phase' = "issues" /\ UNCHANGED result
    /\ UNCHANGED <<durableVars, workerVars, channel, batch, closed, faults>>

\* pending_events
PendingEvents ==
    /\ phase = "filter"
    /\ pending' = {e \in BatchKeys : stored[e] = "pending"}
    /\ IF pending' = {} THEN Reply("ok") ELSE phase' = "issues" /\ UNCHANGED result
    /\ UNCHANGED <<durableVars, workerVars, channel, batch, closed, faults>>

UpdateIssues ==
    /\ phase = "issues"
    /\ counted' = Increment(counted, pending)
    /\ phase' = "hourly"
    /\ UNCHANGED <<transactional, stored, attempts, hourly, fenced, abandoned,
                   workerVars, channel, batch, pending, result, closed, faults>>

\* Mutant: an event that was tried before is taken to be counted.
UpdateHourlyOnce ==
    /\ phase = "hourly"
    /\ hourly' = Increment(hourly, {e \in pending : attempts[e] = 0})
    /\ phase' = "events"
    /\ UNCHANGED <<transactional, stored, attempts, counted, fenced, abandoned,
                   workerVars, channel, batch, pending, result, closed, faults>>

UpdateHourly ==
    /\ phase = "hourly"
    /\ hourly' = Increment(hourly, pending)
    /\ phase' = "events"
    /\ UNCHANGED <<transactional, stored, attempts, counted, fenced, abandoned,
                   workerVars, channel, batch, pending, result, closed, faults>>

\* Mutant: the last step trusts the filter of the first.
MarkAllProcessed(S) ==
    stored' = [e \in Events |-> IF e \in S THEN "processed" ELSE stored[e]]

\* The events of S that are pending become processed.
MarkProcessed(S) ==
    stored' = [e \in Events |-> IF e \in S /\ stored[e] = "pending"
                                THEN "processed" ELSE stored[e]]

\* update_catalogs, which leaves the events alone (see Catalog), and finalize_events.
FinalizeEvents ==
    /\ phase = "events"
    /\ MarkProcessed(pending)
    /\ Reply("ok")
    /\ UNCHANGED <<transactional, attempts, counted, hourly, fenced, abandoned,
                   workerVars, channel, batch, pending, closed, faults>>

\* The store is unavailable, or refuses one event of the batch: the whole batch then
\* fails, for good in the second case (map_store_error, map_finalizer_error).
StoreFails ==
    \/ Reply("temporary")
    \/ BatchKeys \cap Colliding # {} /\ Reply("permanent")

\* A step fails after some of its writes were done: groups are written one after
\* the other, the bulk write is unordered, and an acknowledgement may get lost.
MongoFails ==
    /\ phase \in {"filter", "issues", "hourly", "events"}
    /\ \E done \in SUBSET pending :
        /\ IF phase = "issues" THEN counted' = Increment(counted, done)
                               ELSE UNCHANGED counted
        /\ IF phase = "hourly" THEN hourly' = Increment(hourly, done)
                               ELSE UNCHANGED hourly
        /\ IF phase = "events" THEN MarkProcessed(done) ELSE UNCHANGED stored
    /\ StoreFails
    /\ UNCHANGED <<transactional, attempts, fenced, abandoned, workerVars, channel,
                   batch, pending, closed, faults>>

-----------------------------------------------------------------------------
(* PostgreSQL: finalize_inner is one transaction. *)

\* Mutant: finished events are counted again.
EligibleAll == BatchKeys \ fenced

\* The rows locked: pending, and of a project that is not being deleted.
Eligible == {e \in BatchKeys : stored[e] = "pending"} \ fenced

\* The transaction commits, and the acknowledgement arrives or is lost.
Commit ==
    /\ phase = "transaction"
    /\ counted' = Increment(counted, Eligible)
    /\ hourly' = Increment(hourly, Eligible)
    /\ MarkProcessed(Eligible)
    /\ pending' = Eligible
    /\ Reply("ok") \/ Reply("temporary")
    /\ UNCHANGED <<transactional, attempts, fenced, abandoned, workerVars, channel,
                   batch, closed, faults>>

Rollback ==
    /\ phase = "transaction"
    /\ StoreFails
    /\ UNCHANGED <<durableVars, workerVars, channel, batch, pending, closed,
                   faults>>

-----------------------------------------------------------------------------
(* Stopping *)

\* The server has drained the dispatcher and closes the batcher.
CloseBatcher ==
    /\ ~closed
    /\ faults < MaxFaults
    /\ faults' = faults + 1
    /\ closed' = TRUE
    /\ UNCHANGED <<durableVars, workerVars, channel, batchVars>>

Restart ==
    /\ fresh' = {}
    /\ worker' = [e \in Events |-> "idle"]
    /\ failure' = [e \in Events |-> "none"]
    /\ channel' = <<>>
    /\ batch' = <<>>
    /\ phase' = "idle"
    /\ pending' = {}
    /\ closed' = FALSE
    /\ result' = "ok"
    /\ scheduled' = [e \in Events |-> 0]
    /\ UNCHANGED durableVars

Exit ==
    /\ closed
    /\ channel = <<>>
    /\ phase = "idle"
    /\ Restart
    /\ UNCHANGED faults

\* A crash; a write of the batcher that was under way was done in part, which is
\* MongoFails or a lost acknowledgement just before.
Crash ==
    /\ faults < MaxFaults
    /\ faults' = faults + 1
    /\ Restart

-----------------------------------------------------------------------------

\* Every event has been stored.
Init ==
    /\ transactional \in Backends
    /\ stored = [e \in Events |-> "pending"]
    /\ attempts = [e \in Events |-> 0]
    /\ counted = [e \in Events |-> 0]
    /\ hourly = [e \in Events |-> 0]
    /\ fenced = {}
    /\ abandoned = {}
    /\ fresh = Handed
    /\ worker = [e \in Events |-> "idle"]
    /\ scheduled = [e \in Events |-> 0]
    /\ failure = [e \in Events |-> "none"]
    /\ channel = <<>>
    /\ batch = <<>>
    /\ phase = "idle"
    /\ pending = {}
    /\ result = "ok"
    /\ closed = FALSE
    /\ faults = 0

Worker(e) ==
    \/ StageFails(e) \/ Submit(e) \/ StageDeadline(e)
    \/ WriteFailure(e) \/ AbandonFailure(e)

Batcher ==
    \/ Collect \/ RefuseBatch \/ StartStore \/ SendReplies \/ RejectRest
    \/ PendingEvents \/ UpdateIssues \/ UpdateHourly \/ FinalizeEvents
    \/ MongoFails
    \/ Commit \/ Rollback

Next ==
    \/ \E e \in Events : Schedule(e) \/ Worker(e) \/ Fence(e)
    \/ \E r \in abandoned : LateFailure(r)
    \/ Batcher
    \/ CloseBatcher \/ Exit \/ Crash
    \/ /\ \A e \in Events : stored[e] # "pending" \/ e \in fenced
       /\ UNCHANGED vars

Spec == Init /\ [][Next]_vars

\* The dispatcher schedules what is due; tasks are polled and their deadlines pass;
\* a process that shuts down is restarted.
Fairness ==
    /\ \A e \in Events : WF_vars(Schedule(e)) /\ WF_vars(Worker(e))
    /\ WF_vars(Batcher)
    /\ WF_vars(Exit)

FairSpec == Spec /\ Fairness

-----------------------------------------------------------------------------
(* Properties *)

\* An event whose attempts have reached the limit is not pending, so it is not tried
\* once more, and one that failed was tried (persist_failure).
AttemptsWithinLimit ==
    \A e \in Events :
        /\ stored[e] = "pending" => attempts[e] < MaxAttempts
        /\ stored[e] = "failed" => attempts[e] > 0

\* A processed or failed event is never touched again: not by a stale copy of the
\* writer, a request whose worker gave up, a late record of a failure or a batch
\* the store runs after a restart.
TerminalIsFinal ==
    [][\A e \in Events :
        stored[e] # "pending" =>
            stored'[e] = stored[e] /\ attempts'[e] = attempts[e]]_vars

\* Recorded attempts only grow, and by one: a late record of an earlier attempt or
\* of a stale copy cannot give an event its attempts back.
AttemptsMonotone ==
    [][\A e \in Events : attempts'[e] \in {attempts[e], attempts[e] + 1}]_vars

\* When a batch is reported finalized none of its events is pending any more, save
\* those of a project being deleted, which PostgreSQL passes over.
OkMeansDone ==
    phase = "reply" /\ result = "ok" =>
        \A e \in BatchKeys \ fenced : stored[e] # "pending"

\* On MongoDB a processed event was counted in its issue and in its hour, perhaps
\* more than once, and never in the hour more often than in the issue.
CountedAtLeastOnce ==
    \A e \in Events :
        /\ stored[e] = "processed" => hourly[e] >= 1
        /\ hourly[e] <= counted[e]

\* On PostgreSQL exactly the processed events are counted, and they once, whatever
\* is retried, lost or delivered late.
CountedExactlyOnce ==
    transactional =>
        \A e \in Events :
            /\ counted[e] = IF stored[e] = "processed" THEN 1 ELSE 0
            /\ hourly[e] = counted[e]

\* A record of a failure that is still under way leaves its event pending only below
\* the limit.
RecordsWithinLimit ==
    \A r \in abandoned : r.failed \/ r.expected + 1 < MaxAttempts

\* What the steps of finalize_inner that are done have established for the next ones:
\* the events of the batch that are not in pending are settled, and those in pending are
\* counted in the issue before the hour, and in the hour before they are processed.
BatchConsistent ==
    /\ phase \in {"filter", "issues", "hourly", "events"} => ~transactional
    /\ phase \in {"issues", "hourly", "events"} =>
        \A e \in BatchKeys \ pending : stored[e] # "pending"
    /\ phase = "hourly" => \A e \in pending : hourly[e] < counted[e]
    /\ phase = "events" => \A e \in pending : hourly[e] >= 1

\* The inductive invariant.
ProcessingInv ==
    /\ TypeOK
    /\ AttemptsWithinLimit
    /\ RecordsWithinLimit
    /\ BatchConsistent
    /\ OkMeansDone
    /\ CountedAtLeastOnce
    /\ CountedExactlyOnce

\* An event that no stage and no store refuses, and whose project is not deleted, is
\* failed only when all of its attempts are used up.
FailedForCause ==
    \A e \in Events :
        stored[e] = "failed" =>
            e \in Invalid \cup Colliding \cup fenced \/ attempts[e] = MaxAttempts

\* Every event reaches a terminal state, or waits for the purge of its project.
EveryEventSettled ==
    \A e \in Events : <>(stored[e] # "pending" \/ e \in fenced)

=============================================================================
