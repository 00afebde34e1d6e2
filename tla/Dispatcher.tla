----------------------------- MODULE Dispatcher -----------------------------
(***************************************************************************)
(* The bounded dispatcher of crates/application/src/dispatcher.rs: the     *)
(* in-process queue between the durable acceptance of an event and its     *)
(* WorkHandler, refilled from the durable backlog (load_due of             *)
(* mongo/src/event.rs and postgres/src/events.rs).                         *)
(*                                                                         *)
(* Three kinds of actors share the dispatcher: the event writer offers     *)
(* fresh events (AcceptedEventHandoff::offer), the dispatcher task runs    *)
(* run_dispatcher, and the spawned workers run the handler.  An offer is   *)
(* two steps under different locks: the key enters the dedup set, then the *)
(* event enters the queue or the key leaves the set again.                 *)
(*                                                                         *)
(* The handler is abstracted to what it does to the durable event: it is   *)
(* processed (or failed for good), its next attempt is put off, or - the   *)
(* handler panicked or could not record the failure - nothing changed.  A  *)
(* run that gave up at a deadline, or was aborted, may leave a write       *)
(* behind, of its finalization or of its failure, that reaches the event   *)
(* at any later time.                                                      *)
(***************************************************************************)
EXTENDS Integers, Sequences, FiniteSets, SequencesExt

CONSTANTS
    Events,          \* event keys
    None,            \* no event
    Deletable,       \* the events of projects that may be deleted
    QueueCapacity,   \* DispatcherConfig.queue_capacity
    Workers,         \* DispatcherConfig.worker_concurrency
    LowWatermark,    \* DispatcherConfig.low_watermark
    RefillTarget,    \* DispatcherConfig.refill_target
    RefillBatch,     \* DispatcherConfig.refill_batch_size
    ScanFactor,      \* rows scanned per row wanted (8 in mongo/src/event.rs)
    MaxLapses,       \* bound: handler runs that record nothing or leave a write behind
    MaxStops         \* bound: crashes and shutdowns

ASSUME EventsAssumption ==
    /\ IsFiniteSet(Events)
    /\ None \notin Events
    /\ Deletable \subseteq Events

\* validate_config
ValidConfig ==
    /\ QueueCapacity \in Nat \ {0}
    /\ Workers \in 1..QueueCapacity
    /\ LowWatermark \in Nat
    /\ RefillTarget \in Nat
    /\ LowWatermark < RefillTarget
    /\ RefillTarget <= QueueCapacity
    /\ RefillBatch \in 1..RefillTarget

ASSUME ConfigAssumption == ValidConfig

ASSUME BoundsAssumption ==
    /\ ScanFactor \in Nat \ {0}
    /\ MaxLapses \in Nat
    /\ MaxStops \in Nat

VARIABLES
    \* durable
    due,         \* the pending events whose next attempt is due, in due order
    later,       \* pending events whose next attempt lies in the future
    gone,        \* events that are processed, failed for good, or purged
    fenced,      \* events whose project is being deleted
    \* under way to the store, on behalf of handlers that have ended
    lateFinish,  \* events with a finalization left behind
    lateRecord,  \* events with a failure record left behind
    \* in memory
    owed,        \* stored events the writer has still to offer
    freshOffer,  \* the event of the writer's offer between its two steps
    refillOffer, \* the same for the refill
    keys,        \* the dedup set
    queue,       \* the mpsc channel
    working,     \* events whose handler runs
    returned,    \* events whose handler returned and that were not joined yet
    pc,          \* where Dispatcher::start / run_dispatcher is
    startup,     \* the refill is the one of Dispatcher::start
    wanted,      \* rows the refill asks for
    excluded,    \* its snapshot of keys
    loaded,      \* what load_due returned, not offered yet
    shutdown,    \* the ShutdownSignal has been cancelled
    \* history and bounds
    overtaken,   \* events a late write has changed since load_due answered
    lapses,      \* counts towards MaxLapses
    stops        \* counts towards MaxStops

durableVars == <<due, later, gone, fenced>>
refillVars == <<startup, wanted, excluded, loaded>>
offerVars == <<owed, freshOffer, refillOffer>>
workVars == <<working, returned>>
lateVars == <<lateFinish, lateRecord, overtaken>>
boundVars == <<lapses, stops>>

vars == <<durableVars, offerVars, keys, queue, workVars, pc, refillVars,
          shutdown, lateVars, boundVars>>

Closed == {"drain", "stopped"}

TypeOK ==
    /\ due \in Seq(Events)
    /\ later \in SUBSET Events
    /\ gone \in SUBSET Events
    /\ fenced \in SUBSET Deletable
    /\ owed \in SUBSET Events
    /\ freshOffer \in Events \cup {None}
    /\ refillOffer \in Events \cup {None}
    /\ keys \in SUBSET Events
    /\ queue \in Seq(Events)
    /\ working \in SUBSET Events
    /\ returned \in SUBSET Events
    /\ pc \in {"down", "loop", "refill", "loading", "offering"} \cup Closed
    /\ startup \in BOOLEAN
    /\ wanted \in 0..RefillBatch
    /\ excluded \in SUBSET Events
    /\ loaded \in Seq(Events)
    /\ shutdown \in BOOLEAN
    /\ lateFinish \in SUBSET Events
    /\ lateRecord \in SUBSET Events
    /\ overtaken \in SUBSET Events
    /\ lapses \in 0..MaxLapses
    /\ stops \in 0..MaxStops

Least(a, b) == IF a < b THEN a ELSE b

\* The elements of s that are not in X, in their order.  SelectSeq would do, but is
\* opaque to the prover.
Without(s, X) ==
    LET kept[n \in 0..Len(s)] ==
            IF n = 0 THEN <<>>
            ELSE IF s[n] \in X THEN kept[n - 1]
            ELSE Append(kept[n - 1], s[n])
    IN  kept[Len(s)]

Running == working \cup returned

-----------------------------------------------------------------------------
(* The durable backlog *)

\* Late writes find no event to change: both are conditional on a pending one.
Void(e) ==
    /\ lateFinish' = lateFinish \ {e}
    /\ lateRecord' = lateRecord \ {e}

\* The event writer's insert.  The stored event is offered to the dispatcher later,
\* or never, when the insert was abandoned and takes effect on its own: nothing
\* makes FreshOffer happen.
Accept(e) ==
    /\ pc # "down" /\ ~startup
    /\ e \notin ToSet(due) \cup later \cup gone
    /\ due' = Append(due, e)
    /\ owed' = owed \cup {e}
    /\ UNCHANGED <<later, gone, fenced, freshOffer, refillOffer, keys, queue,
                   workVars, pc, refillVars, shutdown, lateVars, boundVars>>

\* The time of the next attempt comes.
Mature(e) ==
    /\ e \in later
    /\ later' = later \ {e}
    /\ due' = Append(due, e)
    /\ UNCHANGED <<gone, fenced, offerVars, keys, queue, workVars, pc, refillVars,
                   shutdown, lateVars, boundVars>>

\* The project of e is set pending-delete ...
Fence(e) ==
    /\ e \in Deletable \ fenced
    /\ fenced' = fenced \cup {e}
    /\ UNCHANGED <<due, later, gone, offerVars, keys, queue, workVars, pc,
                   refillVars, shutdown, lateVars, boundVars>>

\* ... and its events are purged.
Purge(e) ==
    /\ e \in fenced
    /\ e \in ToSet(due) \cup later
    /\ due' = Without(due, {e})
    /\ later' = later \ {e}
    /\ gone' = gone \cup {e}
    /\ Void(e)
    /\ UNCHANGED <<fenced, offerVars, keys, queue, workVars, pc, refillVars,
                   shutdown, overtaken, boundVars>>

\* load_due of MongoDB: the first rows in due order, a bounded multiple of those
\* wanted, from which the rows of fenced projects are then dropped.
DueMongo ==
    LET candidates == Without(due, excluded)
        scanned == SubSeq(candidates, 1, Least(ScanFactor * wanted, Len(candidates)))
        processable == Without(scanned, fenced)
    IN  SubSeq(processable, 1, Least(wanted, Len(processable)))

\* load_due of PostgreSQL: one query joins the projects.
DuePostgres ==
    LET processable == Without(due, excluded \cup fenced)
    IN  SubSeq(processable, 1, Least(wanted, Len(processable)))

-----------------------------------------------------------------------------
(* Offers *)

\* is_accepting
Accepting == ~shutdown /\ pc \notin Closed

\* Mutant: a full queue leaves the key behind.
TrySendLeaking(e) ==
    /\ queue' = IF pc \notin Closed /\ Len(queue) < QueueCapacity
                THEN Append(queue, e) ELSE queue
    /\ UNCHANGED keys

\* try_send, and the removal of the key when the queue is full or closed.
TrySend(e) ==
    \/ /\ pc \notin Closed
       /\ Len(queue) < QueueCapacity
       /\ queue' = Append(queue, e)
       /\ UNCHANGED keys
    \/ /\ pc \in Closed \/ Len(queue) >= QueueCapacity
       /\ keys' = keys \ {e}
       /\ UNCHANGED queue

\* offer: the writer's event is turned away, is a duplicate, or gets its key.
FreshOffer(e) ==
    /\ pc # "down" /\ ~startup
    /\ freshOffer = None
    /\ e \in owed
    /\ owed' = owed \ {e}
    /\ \/ /\ Accepting /\ e \notin keys
          /\ keys' = keys \cup {e}
          /\ freshOffer' = e
       \/ /\ ~Accepting \/ e \in keys
          /\ UNCHANGED <<keys, freshOffer>>
    /\ UNCHANGED <<durableVars, refillOffer, queue, workVars, pc, refillVars,
                   shutdown, lateVars, boundVars>>

FreshSend ==
    /\ freshOffer # None
    /\ TrySend(freshOffer)
    /\ freshOffer' = None
    /\ UNCHANGED <<durableVars, owed, refillOffer, workVars, pc, refillVars,
                   shutdown, lateVars, boundVars>>

-----------------------------------------------------------------------------
(* refill_once *)

\* Mutants: refill_once is spawned instead of awaited in the loop; the shutdown
\* branch is not the first of the biased select.
SelectingDuringRefill == pc \in {"loop", "loading", "offering"} /\ ~shutdown
SelectingShutdownLast == pc = "loop"

\* The task is at its select, and the shutdown branch, the first, is not ready.
Selecting == pc = "loop" /\ ~shutdown

\* A process starts: Dispatcher::start runs its refill before anything else.
Start ==
    /\ pc = "down"
    /\ pc' = "refill"
    /\ startup' = TRUE
    /\ shutdown' = FALSE
    /\ UNCHANGED <<durableVars, offerVars, keys, queue, workVars, wanted, excluded,
                   loaded, lateVars, boundVars>>

\* The poll tick is taken when no branch above it in the biased select is ready.
RefillTick ==
    /\ Selecting
    /\ returned = {}
    /\ queue = <<>> \/ Cardinality(Running) >= Workers
    /\ pc' = "refill"
    /\ UNCHANGED <<durableVars, offerVars, keys, queue, workVars, refillVars,
                   shutdown, lateVars, boundVars>>

\* The queue is above the low watermark, or at the refill target.
RefillSkipped ==
    /\ pc = "refill"
    /\ IF startup THEN Len(queue) >= RefillTarget ELSE Len(queue) > LowWatermark
    /\ pc' = "loop"
    /\ startup' = FALSE
    /\ UNCHANGED <<durableVars, offerVars, keys, queue, workVars, wanted, excluded,
                   loaded, shutdown, lateVars, boundVars>>

RefillBegin ==
    /\ pc = "refill"
    /\ Len(queue) < RefillTarget
    /\ startup \/ Len(queue) <= LowWatermark
    /\ wanted' = Least(RefillTarget - Len(queue), RefillBatch)
    /\ excluded' = keys
    /\ pc' = "loading"
    /\ UNCHANGED <<durableVars, offerVars, keys, queue, workVars, startup, loaded,
                   shutdown, lateVars, boundVars>>

\* load_due answers.  Either backend's query may be the one that ran, so that what
\* holds here holds for both.
RefillLoaded ==
    /\ pc = "loading"
    /\ \/ loaded' = DueMongo
       \/ loaded' = DuePostgres
    /\ excluded' = {}
    /\ overtaken' = {}
    /\ pc' = "offering"
    /\ UNCHANGED <<durableVars, offerVars, keys, queue, workVars, startup, wanted,
                   shutdown, lateFinish, lateRecord, boundVars>>

\* The store is unavailable, returns a row that cannot be decoded, or does not
\* answer in time.  A start then fails; a running dispatcher goes on.
RefillFailed ==
    /\ pc = "loading"
    /\ pc' = IF startup THEN "stopped" ELSE "loop"
    /\ wanted' = 0
    /\ excluded' = {}
    /\ UNCHANGED <<durableVars, offerVars, keys, queue, workVars, startup, loaded,
                   shutdown, lateVars, boundVars>>

\* Mutant: the key is not looked up before it is taken.
RefillOfferBlind ==
    /\ pc = "offering"
    /\ refillOffer = None
    /\ loaded # <<>>
    /\ loaded' = Tail(loaded)
    /\ keys' = keys \cup {Head(loaded)}
    /\ refillOffer' = Head(loaded)
    /\ UNCHANGED <<durableVars, owed, freshOffer, queue, workVars, pc, startup,
                   wanted, excluded, shutdown, lateVars, boundVars>>

RefillOffer ==
    /\ pc = "offering"
    /\ refillOffer = None
    /\ loaded # <<>>
    /\ loaded' = Tail(loaded)
    /\ \/ /\ Accepting /\ Head(loaded) \notin keys
          /\ keys' = keys \cup {Head(loaded)}
          /\ refillOffer' = Head(loaded)
       \/ /\ ~Accepting \/ Head(loaded) \in keys
          /\ UNCHANGED <<keys, refillOffer>>
    /\ UNCHANGED <<durableVars, owed, freshOffer, queue, workVars, pc, startup,
                   wanted, excluded, shutdown, lateVars, boundVars>>

RefillSend ==
    /\ refillOffer # None
    /\ TrySend(refillOffer)
    /\ refillOffer' = None
    /\ UNCHANGED <<durableVars, owed, freshOffer, workVars, pc, refillVars,
                   shutdown, lateVars, boundVars>>

RefillDone ==
    /\ pc = "offering"
    /\ refillOffer = None
    /\ loaded = <<>>
    /\ pc' = "loop"
    /\ startup' = FALSE
    /\ wanted' = 0
    /\ overtaken' = {}
    /\ UNCHANGED <<durableVars, offerVars, keys, queue, workVars, excluded, loaded,
                   shutdown, lateFinish, lateRecord, boundVars>>

-----------------------------------------------------------------------------
(* run_dispatcher and drain_dispatcher *)

\* spawn_work for the head of the queue.
SpawnHead ==
    /\ Cardinality(Running) < Workers
    /\ queue # <<>>
    /\ working' = working \cup {Head(queue)}
    /\ queue' = Tail(queue)
    /\ UNCHANGED <<durableVars, offerVars, keys, returned, pc, refillVars, shutdown,
                   lateVars, boundVars>>

Spawn ==
    /\ Selecting
    /\ returned = {}
    /\ SpawnHead

\* complete_work for a task that ran to its end.
CompleteWork(e) ==
    /\ e \in returned
    /\ returned' = returned \ {e}
    /\ keys' = keys \ {e}
    /\ UNCHANGED <<durableVars, offerVars, queue, working, pc, refillVars, shutdown,
                   lateVars, boundVars>>

Join(e) == Selecting /\ CompleteWork(e)

SeeShutdown ==
    /\ pc = "loop"
    /\ shutdown
    /\ pc' = "drain"
    /\ UNCHANGED <<durableVars, offerVars, keys, queue, workVars, refillVars,
                   shutdown, lateVars, boundVars>>

DrainSpawn == pc = "drain" /\ SpawnHead

DrainJoin(e) ==
    /\ pc = "drain"
    /\ queue = <<>> \/ Cardinality(Running) >= Workers
    /\ CompleteWork(e)

DrainDone ==
    /\ pc = "drain"
    /\ queue = <<>>
    /\ Running = {}
    /\ pc' = "stopped"
    /\ UNCHANGED <<durableVars, offerVars, keys, queue, workVars, refillVars,
                   shutdown, lateVars, boundVars>>

Lapse == lapses < MaxLapses /\ lapses' = lapses + 1

\* Writes of handlers that have ended before them are under way to the store.
LeaveBehind(E) ==
    \E finish \in SUBSET E, record \in SUBSET E :
        /\ lateFinish' = lateFinish \cup finish
        /\ lateRecord' = lateRecord \cup record

\* The handlers that run are aborted, with or without a write under way.
AbortWork ==
    /\ working' = {}
    /\ returned' = {}
    /\ \/ Lapse /\ LeaveBehind(working \ gone)
       \/ UNCHANGED <<lateFinish, lateRecord, lapses>>

\* The deadline: the running handlers are aborted.  Their keys stay in the set.
DrainDeadline ==
    /\ pc = "drain"
    /\ Running # {}
    /\ queue = <<>> \/ Cardinality(Running) >= Workers
    /\ AbortWork
    /\ pc' = "stopped"
    /\ UNCHANGED <<durableVars, offerVars, keys, queue, refillVars, shutdown,
                   overtaken, stops>>

-----------------------------------------------------------------------------
(* The handler *)

HandlerReturns(e) ==
    /\ e \in working
    /\ working' = working \ {e}
    /\ returned' = returned \cup {e}
    /\ UNCHANGED <<fenced, offerVars, keys, queue, pc, refillVars, shutdown,
                   overtaken, stops>>

\* What ends an event ...
Finish(e) ==
    /\ due' = Without(due, {e})
    /\ later' = later \ {e}
    /\ gone' = gone \cup {e}
    /\ Void(e)

\* ... and what puts its next attempt off.  The attempt is counted, so that another
\* record that expects the old count changes nothing.
PutOff(e) ==
    /\ e \in ToSet(due) \cup later
    /\ due' = Without(due, {e})
    /\ later' = later \cup {e}
    /\ lateRecord' = lateRecord \ {e}
    /\ UNCHANGED gone

\* The event is processed or failed for good; a no-op when it already was.
HandlerFinishes(e) ==
    /\ HandlerReturns(e)
    /\ Finish(e)
    /\ UNCHANGED lapses

\* A temporary failure puts the next attempt off; a no-op when it already is.  After a
\* stage deadline the FinalizerRequest may still be with the batcher.
HandlerPutsOff(e) ==
    /\ HandlerReturns(e)
    /\ PutOff(e)
    /\ \/ UNCHANGED <<lateFinish, lapses>>
       \/ lateFinish' = lateFinish \cup {e} /\ Lapse

\* The handler panicked or could not record what happened; the record that timed out,
\* or the finalization before it, may still be under way.
HandlerRecordsNothing(e) ==
    /\ HandlerReturns(e)
    /\ Lapse
    /\ LeaveBehind({e} \ gone)
    /\ UNCHANGED <<due, later, gone>>

\* A late write changes the event.
Overtake(e) ==
    /\ overtaken' = IF pc = "offering" THEN overtaken \cup {e} ELSE overtaken
    /\ UNCHANGED <<fenced, offerVars, keys, queue, workVars, pc, refillVars, shutdown,
                   boundVars>>

\* The finalization that was left behind is done.
LateFinish(e) ==
    /\ e \in lateFinish
    /\ Finish(e)
    /\ Overtake(e)

\* The failure record is: it puts the event off, or was the last attempt's.
LateRecord(e) ==
    /\ e \in lateRecord
    /\ \/ Finish(e)
       \/ PutOff(e) /\ UNCHANGED lateFinish
    /\ Overtake(e)

-----------------------------------------------------------------------------
(* Stopping *)

BeginShutdown ==
    /\ pc # "down"
    /\ ~shutdown
    /\ stops < MaxStops
    /\ stops' = stops + 1
    /\ shutdown' = TRUE
    /\ UNCHANGED <<durableVars, offerVars, keys, queue, workVars, pc, refillVars,
                   lateVars, lapses>>

\* All that is in memory is lost; a write that had reached the store is not.
LoseMemory ==
    /\ pc' = "down"
    /\ owed' = {}
    /\ freshOffer' = None
    /\ refillOffer' = None
    /\ keys' = {}
    /\ queue' = <<>>
    /\ AbortWork
    /\ startup' = FALSE
    /\ wanted' = 0
    /\ excluded' = {}
    /\ loaded' = <<>>
    /\ shutdown' = FALSE
    /\ overtaken' = {}
    /\ UNCHANGED durableVars

Exit ==
    /\ pc = "stopped"
    /\ LoseMemory
    /\ UNCHANGED stops

Crash ==
    /\ pc # "down"
    /\ stops < MaxStops
    /\ stops' = stops + 1
    /\ LoseMemory

-----------------------------------------------------------------------------

Init ==
    /\ due = <<>>
    /\ later = {}
    /\ gone = {}
    /\ fenced = {}
    /\ owed = {}
    /\ freshOffer = None
    /\ refillOffer = None
    /\ keys = {}
    /\ queue = <<>>
    /\ working = {}
    /\ returned = {}
    /\ pc = "down"
    /\ startup = FALSE
    /\ wanted = 0
    /\ excluded = {}
    /\ loaded = <<>>
    /\ shutdown = FALSE
    /\ lateFinish = {}
    /\ lateRecord = {}
    /\ overtaken = {}
    /\ lapses = 0
    /\ stops = 0

\* Dispatcher::start and the dispatcher task.
Task ==
    \/ RefillTick \/ RefillSkipped \/ RefillBegin \/ RefillLoaded \/ RefillFailed
    \/ RefillOffer \/ RefillSend \/ RefillDone
    \/ Spawn \/ SeeShutdown \/ DrainSpawn \/ DrainDone \/ DrainDeadline
    \/ \E e \in Events : Join(e) \/ DrainJoin(e)

Handler(e) == HandlerFinishes(e) \/ HandlerPutsOff(e) \/ HandlerRecordsNothing(e)

Next ==
    \/ \E e \in Events :
        \/ Accept(e) \/ Mature(e) \/ Fence(e) \/ Purge(e)
        \/ FreshOffer(e)
        \/ Handler(e) \/ LateFinish(e) \/ LateRecord(e)
    \/ FreshSend
    \/ Task
    \/ Start \/ BeginShutdown \/ Exit \/ Crash

Spec == Init /\ [][Next]_vars

\* The runtime polls every task that can go on; handlers return (each of their
\* stages has a deadline); the store answers a refill now and then; deleted projects
\* are purged; a supervisor restarts the process.
Fairness ==
    /\ WF_vars(Task) /\ WF_vars(FreshSend)
    /\ SF_vars(RefillLoaded)
    /\ WF_vars(Start \/ Exit)
    /\ WF_vars(\E e \in Events : Handler(e))
    /\ WF_vars(\E e \in Events : Purge(e))

FairSpec == Spec /\ Fairness

-----------------------------------------------------------------------------
(* Properties *)

\* The event of an offer that is between its two steps.
Offered == {freshOffer, refillOffer} \ {None}

\* The dedup set is exactly the events that are being offered, queued, running or
\* returned and not joined: no key is left behind, which would hide its event from
\* every refill until a restart, whichever way fresh offers, a full or closing
\* queue and completions interleave (offer_pending_with_source, complete_work).
NoKeyLeaked ==
    pc # "stopped" => keys = Offered \cup ToSet(queue) \cup Running

\* An event is in one place only, so never two handlers work on it at once.
NoDoubleWork ==
    /\ IsInjective(queue)
    /\ ToSet(queue) \cap Running = {}
    /\ Offered \cap (ToSet(queue) \cup Running) = {}
    /\ working \cap returned = {}
    /\ freshOffer # None => freshOffer # refillOffer

\* What load_due returned is out of date by the time it is offered; still a refill
\* schedules no event that was finished, or put off, in the meantime by a handler
\* of the dispatcher.  Only a late write, which no handler waits for any more, or the
\* purge of a project can get in between.  It holds because refill_once runs inside the
\* select loop: no key of a completed event leaves the set between the snapshot and
\* the last offer.
RefillIsFresh ==
    LET unchanged == ToSet(due) \cup fenced \cup overtaken
    IN  /\ pc = "offering" => ToSet(loaded) \ keys \subseteq unchanged
        /\ refillOffer # None => refillOffer \in unchanged

\* What is in memory at each control point: nothing before a start, no handler until
\* Dispatcher::start has returned or after the drain, and rows of a refill only while
\* it offers them.
MemoryConsistent ==
    /\ pc = "down" => Offered = {} /\ queue = <<>> /\ ~startup
    /\ pc \in {"down", "stopped"} \/ startup => Running = {}
    /\ startup => pc \in {"refill", "loading", "offering", "stopped"}
    /\ refillOffer # None \/ loaded # <<>> => pc = "offering"

\* A loaded event stops being due only through its purge, through a late write or
\* through a handler that has not been joined since.
LoadedTracked ==
    ToSet(loaded) \subseteq ToSet(due) \cup fenced \cup overtaken \cup returned

\* The inductive invariant.
DispatcherInv ==
    /\ TypeOK
    /\ MemoryConsistent
    /\ NoKeyLeaked
    /\ NoDoubleWork
    /\ LoadedTracked
    /\ RefillIsFresh

\* A due event is handed to a worker, or has stopped being due, sooner or later:
\* across a full queue, lost offers, failed refills, aborted drains and crashes.
EveryDueWorked ==
    \A e \in Events : e \in ToSet(due) ~> e \in working \/ e \notin ToSet(due)

\* A shutdown ends the dispatcher, whatever the store and the handlers do.
ShutdownCompletes == shutdown ~> pc \in {"stopped", "down"}

=============================================================================
