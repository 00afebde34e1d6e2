------------------------------ MODULE Deletion ------------------------------
(***************************************************************************)
(* The deletion of one project: the commands that request and cancel it,   *)
(* the fence that keeps new events out, and the worker that purges the     *)
(* project's data one batch at a time.                                     *)
(* application/src/deletion.rs, mongo/src/deletion.rs,                     *)
(* postgres/src/deletion.rs.                                               *)
(*                                                                         *)
(* In PostgreSQL each command and each step of the purge is a transaction  *)
(* that locks the project.  In MongoDB they are sequences of writes, of    *)
(* which any prefix may be done when the process stops or the operation    *)
(* times out, and they run beside each other: commands in HTTP handlers,   *)
(* the purge in its own task.                                              *)
(***************************************************************************)
EXTENDS Integers, Sequences, FiniteSets, FiniteSetsExt

CONSTANTS
    Operations,    \* deletion operations, the clients' idempotency keys
    MongoOperations, \* bound: the ones considered on MongoDB
    Calls,         \* ingest calls; a call writes the event of its own number
    InitialEvents, \* events stored before any of it
    BatchSize,     \* delete_batch_documents
    Backends,      \* the values of transactional to consider
    Originals,     \* the states of project and key to begin with
    MaxFaults,     \* bound: crashes, abandoned commands and failed batches
    None

ASSUME DeletionAssumption ==
    /\ MongoOperations \subseteq Operations
    /\ Calls \subseteq Nat \ {0} /\ IsFiniteSet(Calls)
    /\ InitialEvents \subseteq Nat \ {0} /\ IsFiniteSet(InitialEvents)
    /\ BatchSize \in Nat \ {0}
    /\ Backends \subseteq BOOLEAN
    /\ Originals \subseteq
         [project : {"active", "disabled"}, key : {"active", "disabled"}]
    /\ MaxFaults \in Nat

ASSUME NoneAssumption == None \notin {"active", "disabled", "suspended"}

VARIABLES
    transactional, \* TRUE for PostgreSQL, FALSE for MongoDB
    original,      \* the project's and its key's state before any deletion
    \* durable
    project,       \* projects.state
    key,           \* project_keys.status; None once deleted
    events,        \* the stored events of the project
    bundle,        \* an artifact bundle bound to the project only
    slug,          \* the slug is reserved or used
    jobs,          \* project_deletions
    \* in memory
    fenced,        \* ProjectWorkRegistry: fenced
    call,          \* where each ingest call is
    request,       \* where each request command is, and the state it read
    cancel,        \* where each cancel command is, and the state it restores
    purger,        \* where the worker is, and the job it read
    \* history
    graceOver,     \* operations whose purge_after has passed
    purged,        \* operations on whose behalf data was removed
    faults

jobVars == <<jobs, graceOver, purged>>
dataVars == <<events, bundle, slug>>
memoryVars == <<fenced, call, request, cancel, purger>>
constantVars == <<transactional, original>>

vars == <<constantVars, project, key, dataVars, jobVars, memoryVars, faults>>

\* PURGE_CODES of MongoDB, OWNED and SHARED of PostgreSQL: keys go last in the one
\* and bundle bindings in the other.
Plan == IF transactional THEN <<"events", "keys", "bundles">>
                         ELSE <<"events", "bundles", "keys">>
FIRST == 1
LAST == Len(Plan)

Phases == {"pending_grace", "purging", "deleted", "cancelled"}
Terminal == {"deleted", "cancelled"}
States == {"active", "disabled", "pending_delete", "purging", "deleted"}

\* What a request may find and a cancellation restores.
Previous == {"active", "disabled", "pending_delete"}

\* cursor is 0 when it is not set
Job == [phase : Phases, previous : Previous, code : 1..3, cursor : Nat,
        pass : BOOLEAN]

NoJob == [phase |-> "none"]
Idle == [at |-> "idle"]

TypeOK ==
    /\ transactional \in BOOLEAN /\ original \in Originals
    /\ project \in States
    /\ key \in {"active", "disabled", "suspended", None}
    /\ events \subseteq Calls \cup InitialEvents
    /\ bundle \in {"bound", "orphaned", "gone"}
    /\ slug \in {"reserved", "released"}
    /\ \A o \in Operations : jobs[o] = NoJob \/ jobs[o] \in Job
    /\ fenced \in BOOLEAN
    /\ call \in [Calls -> {"idle", "authorized", "entered", "queued", "done"}]
    /\ graceOver \subseteq Operations
    /\ purged \subseteq Operations
    /\ faults \in 0..MaxFaults

\* The operation whose job is not terminal; an index allows one per project.
Active == {o \in Operations : jobs[o].phase \in {"pending_grace", "purging"}}

-----------------------------------------------------------------------------
(* Ingest through ProjectFencedEventSink *)

\* The project and the key are looked up; the result may be a cached one.
Authorize(c) ==
    /\ call[c] = "idle"
    /\ project = "active" /\ key = "active"
    /\ call' = [call EXCEPT ![c] = "authorized"]
    /\ UNCHANGED <<constantVars, project, key, dataVars, jobVars, fenced, request,
                   cancel, purger, faults>>

\* try_enter: turned away once the project is fenced.
TryEnter(c) ==
    /\ call[c] = "authorized"
    /\ call' = [call EXCEPT ![c] = IF fenced THEN "done" ELSE "entered"]
    /\ UNCHANGED <<constantVars, project, key, dataVars, jobVars, fenced, request,
                   cancel, purger, faults>>

\* The caller goes away: its guard is dropped and its command stays with the writer.
DropCall(c) ==
    /\ call[c] = "entered"
    /\ call' = [call EXCEPT ![c] = "queued"]
    /\ UNCHANGED <<constantVars, project, key, dataVars, jobVars, fenced, request,
                   cancel, purger, faults>>

\* The event is inserted; PostgreSQL looks at the project's state in the same
\* transaction (insert_batch).  The call ends and its guard is dropped.
Insert(c) ==
    /\ call[c] \in {"entered", "queued"}
    /\ call' = [call EXCEPT ![c] = "done"]
    /\ events' = IF transactional /\ project \notin {"active", "disabled"}
                 THEN events ELSE events \cup {c}
    /\ UNCHANGED <<constantVars, project, key, bundle, slug, jobVars, fenced,
                   request, cancel, purger, faults>>

-----------------------------------------------------------------------------
(* ProjectDeletionService::request *)

RequestAt(o, step) == request' = [request EXCEPT ![o] = step]

NewJob(previous) ==
    [phase |-> "pending_grace", previous |-> previous, code |-> FIRST,
     cursor |-> 0, pass |-> FALSE]

\* PostgreSQL: request is one transaction.  The same operation again finds its job,
\* whatever became of it.
RequestTransaction(o) ==
    /\ transactional
    /\ request[o] = Idle
    /\ \/ /\ jobs[o] # NoJob
          /\ UNCHANGED <<project, key, jobs>>
       \/ /\ jobs[o] = NoJob /\ Active = {}
          /\ project \in {"active", "disabled"}
          /\ jobs' = [jobs EXCEPT ![o] = NewJob(project)]
          /\ project' = "pending_delete"
          /\ key' = IF key = "active" THEN "suspended" ELSE key
    /\ RequestAt(o, [at |-> "registry"])
    /\ UNCHANGED <<constantVars, dataVars, graceOver, purged, fenced, call, cancel,
                   purger, faults>>

\* MongoDB: request_deletion_inner reads the project,
ReadProject(o) ==
    /\ ~transactional
    /\ o \in MongoOperations
    /\ request[o] = Idle
    /\ project \in {"active", "disabled", "pending_delete"}
    /\ RequestAt(o, [at |-> "look", previous |-> project])
    /\ UNCHANGED <<constantVars, project, key, dataVars, jobVars, fenced, call,
                   cancel, purger, faults>>

\* looks for a job: one of another operation is a conflict, its own is repaired,
LookForJob(o) ==
    /\ request[o].at = "look"
    /\ RequestAt(o, IF Active = {} THEN [request[o] EXCEPT !.at = "insert"]
                    ELSE IF o \in Active THEN [at |-> "project"] ELSE Idle)
    /\ UNCHANGED <<constantVars, project, key, dataVars, jobVars, fenced, call,
                   cancel, purger, faults>>

\* inserts its job, unless one is there by now or the project was fenced already,
\* which the validator of the collection refuses as a state to restore,
InsertJob(o) ==
    /\ request[o].at = "insert"
    /\ IF Active = {} /\ jobs[o] = NoJob /\ request[o].previous # "pending_delete"
       THEN /\ jobs' = [jobs EXCEPT ![o] = NewJob(request[o].previous)]
            /\ RequestAt(o, [at |-> "project"])
       ELSE /\ RequestAt(o, Idle)
            /\ UNCHANGED jobs
    /\ UNCHANGED <<constantVars, project, key, dataVars, graceOver, purged, fenced,
                   call, cancel, purger, faults>>

\* and fences the project and its keys (fence_project).
FenceProject(o) ==
    /\ request[o].at = "project"
    /\ project' = IF project \in {"active", "disabled"} THEN "pending_delete"
                                                       ELSE project
    /\ RequestAt(o, [at |-> "keys"])
    /\ UNCHANGED <<constantVars, key, dataVars, jobVars, fenced, call, cancel,
                   purger, faults>>

FenceKeys(o) ==
    /\ request[o].at = "keys"
    /\ key' = IF key = "active" THEN "suspended" ELSE key
    /\ RequestAt(o, [at |-> "registry"])
    /\ UNCHANGED <<constantVars, project, dataVars, jobVars, fenced, call, cancel,
                   purger, faults>>

\* fence_and_drain: the calls inside are waited for, or drain_timeout passes.
FenceRegistry(o) ==
    /\ request[o].at = "registry"
    /\ fenced' = TRUE
    /\ RequestAt(o, [at |-> "drain"])
    /\ UNCHANGED <<constantVars, project, key, dataVars, jobVars, call, cancel,
                   purger, faults>>

Drained(o) ==
    /\ request[o].at = "drain"
    /\ RequestAt(o, Idle)
    /\ UNCHANGED <<constantVars, project, key, dataVars, jobVars, fenced, call,
                   cancel, purger, faults>>

-----------------------------------------------------------------------------
(* ProjectDeletionService::cancel *)

CancelAt(o, step) == cancel' = [cancel EXCEPT ![o] = step]

\* Mutant: the project is restored whatever its state.
RestoredAlways(previous) == previous

Restored(previous) == IF project = "pending_delete" THEN previous ELSE project

\* Mutant: keys that were disabled before are enabled too.
ResumedAll == IF key = None THEN None ELSE "active"

Resumed == IF key = "suspended" THEN "active" ELSE key

\* PostgreSQL: one transaction.
CancelTransaction(o) ==
    /\ transactional
    /\ cancel[o] = Idle
    /\ jobs[o].phase = "pending_grace"
    /\ project' = Restored(jobs[o].previous)
    /\ key' = Resumed
    /\ jobs' = [jobs EXCEPT ![o].phase = "cancelled"]
    /\ CancelAt(o, [at |-> "unfence"])
    /\ UNCHANGED <<constantVars, dataVars, graceOver, purged, fenced, call, request,
                   purger, faults>>

\* MongoDB: cancel_deletion_inner reads the job, then writes project, keys and job.
ReadJob(o) ==
    /\ ~transactional
    /\ cancel[o] = Idle
    /\ jobs[o].phase = "pending_grace"
    /\ CancelAt(o, [at |-> "project", previous |-> jobs[o].previous])
    /\ UNCHANGED <<constantVars, project, key, dataVars, jobVars, fenced, call,
                   request, purger, faults>>

RestoreProject(o) ==
    /\ cancel[o].at = "project"
    /\ project' = Restored(cancel[o].previous)
    /\ CancelAt(o, [at |-> "keys"])
    /\ UNCHANGED <<constantVars, key, dataVars, jobVars, fenced, call, request,
                   purger, faults>>

ResumeKeys(o) ==
    /\ cancel[o].at = "keys"
    /\ key' = Resumed
    /\ CancelAt(o, [at |-> "job"])
    /\ UNCHANGED <<constantVars, project, dataVars, jobVars, fenced, call, request,
                   purger, faults>>

\* The job is cancelled if it still is in its grace period; NotCancellable otherwise.
CancelJob(o) ==
    /\ cancel[o].at = "job"
    /\ IF jobs[o].phase = "pending_grace"
       THEN /\ jobs' = [jobs EXCEPT ![o].phase = "cancelled"]
            /\ CancelAt(o, [at |-> "unfence"])
       ELSE /\ CancelAt(o, Idle)
            /\ UNCHANGED jobs
    /\ UNCHANGED <<constantVars, project, key, dataVars, graceOver, purged, fenced,
                   call, request, purger, faults>>

Unfence(o) ==
    /\ cancel[o].at = "unfence"
    /\ fenced' = FALSE
    /\ CancelAt(o, Idle)
    /\ UNCHANGED <<constantVars, project, key, dataVars, jobVars, call, request,
                   purger, faults>>

-----------------------------------------------------------------------------
(* start_project_deletion_worker and purge_next *)

GracePasses(o) ==
    /\ jobs[o].phase = "pending_grace"
    /\ o \notin graceOver
    /\ graceOver' = graceOver \cup {o}
    /\ UNCHANGED <<constantVars, project, key, dataVars, jobs, purged, memoryVars,
                   faults>>

\* Mutant: a purge that has begun is not resumed.
DueOnce(o) == jobs[o].phase = "pending_grace" /\ o \in graceOver

Due(o) ==
    \/ jobs[o].phase = "purging"
    \/ jobs[o].phase = "pending_grace" /\ o \in graceOver

\* The documents of a dataset that are the project's.
Documents(code) ==
    CASE Plan[code] = "events"  -> events
      [] Plan[code] = "keys"    -> IF key = None THEN {} ELSE {1}
      [] Plan[code] = "bundles" -> IF bundle = "bound" THEN {1} ELSE {}

\* The next batch in the order of the identifiers, behind the cursor.
Page(code, cursor) ==
    LET rest == {d \in Documents(code) : d > cursor}
    IN  {d \in rest : Cardinality({x \in rest : x < d}) < BatchSize}

\* delete_owned_batch, detach_artifact_binding_batch: a bundle that loses its last
\* binding is left to the artifact retention.
RemoveBatch(code, page) ==
    /\ events' = IF Plan[code] = "events" THEN events \ page ELSE events
    /\ key' = IF Plan[code] = "keys" /\ page # {} THEN None ELSE key
    /\ bundle' = IF Plan[code] = "bundles" /\ page # {} THEN "orphaned" ELSE bundle

\* persist_batch_cursor: a full batch moves the cursor, any other one goes on to the
\* next dataset.  PostgreSQL needs no cursor.
Stepped(job, page) ==
    IF Cardinality(page) = BatchSize
    THEN [job EXCEPT !.cursor = IF transactional THEN 0 ELSE Max(page)]
    ELSE [job EXCEPT !.code = IF @ < LAST THEN @ + 1 ELSE @, !.cursor = 0]

\* The end of the last dataset was reached and no bundle is waited for.
PassDone(job, code, left) ==
    /\ code = LAST /\ job.code = LAST /\ job.cursor = 0
    /\ left # "orphaned"

\* The first pass of MongoDB takes a poll for each of its 29 datasets at least, and
\* that is taken to be longer than a call: none of the calls under way when the
\* project was fenced outlasts it.
CallsEnded == \A c \in Calls : call[c] \in {"idle", "done"}

\* Mutant: the first pass is the last.
SecondPassSkipped(job) == [job EXCEPT !.pass = TRUE]

\* The second pass, from the beginning.
SecondPass(job) == [job EXCEPT !.code = FIRST, !.cursor = 0, !.pass = TRUE]

\* PostgreSQL: one step of the purge is one transaction, refused when the project is
\* not being deleted.  The commit may or may not be acknowledged: it makes no
\* difference to the worker, which finds the job again.
PurgeTransaction(o) ==
    /\ transactional
    /\ Due(o)
    /\ project \in {"pending_delete", "purging"}
    /\ LET job == [jobs[o] EXCEPT !.phase = "purging"]
           page == Page(job.code, 0)
           full == Cardinality(page) = BatchSize
           done == ~full /\ PassDone(job, job.code, bundle')
       IN  /\ RemoveBatch(job.code, page)
           /\ purged' = IF page = {} THEN purged ELSE purged \cup {o}
           /\ project' = IF done /\ job.pass THEN "deleted" ELSE "purging"
           /\ jobs' = [jobs EXCEPT ![o] =
                 IF ~done THEN Stepped(job, page)
                 ELSE IF ~job.pass THEN SecondPass(job)
                 ELSE [job EXCEPT !.phase = "deleted"]]
    /\ UNCHANGED <<constantVars, slug, graceOver, memoryVars, faults>>

\* MongoDB: purge_next_inner reads a due job,
FindJob(o) ==
    /\ ~transactional
    /\ purger = Idle
    /\ Due(o)
    /\ purger' = [at |-> IF jobs[o].phase = "pending_grace" THEN "project" ELSE "batch",
                  op |-> o, code |-> jobs[o].code, cursor |-> jobs[o].cursor]
    /\ UNCHANGED <<constantVars, project, key, dataVars, jobVars, fenced, call,
                   request, cancel, faults>>

\* marks the project, and
MarkProject ==
    /\ purger.at = "project"
    /\ project' = IF project = "pending_delete" THEN "purging" ELSE project
    /\ purger' = [purger EXCEPT !.at = "job"]
    /\ UNCHANGED <<constantVars, key, dataVars, jobVars, fenced, call, request,
                   cancel, faults>>

\* the job; neither result is looked at.
MarkJob ==
    /\ purger.at = "job"
    /\ jobs' = [jobs EXCEPT ![purger.op] =
                   IF @.phase = "pending_grace" THEN [@ EXCEPT !.phase = "purging"]
                                                ELSE @]
    /\ purger' = [purger EXCEPT !.at = "batch"]
    /\ UNCHANGED <<constantVars, project, key, dataVars, graceOver, purged, fenced,
                   call, request, cancel, faults>>

\* purge_dataset
PurgeBatch ==
    /\ purger.at = "batch"
    /\ LET page == Page(purger.code, purger.cursor)
       IN  /\ RemoveBatch(purger.code, page)
           /\ purged' = IF page = {} THEN purged ELSE purged \cup {purger.op}
           /\ purger' = [at |-> "cursor", op |-> purger.op, code |-> purger.code,
                         page |-> page]
    /\ UNCHANGED <<constantVars, project, slug, jobs, graceOver, fenced, call,
                   request, cancel, faults>>

\* persist_batch_cursor, on the job that is not terminal; the purge of a batch that
\* finds none has failed.
PersistCursor ==
    /\ purger.at = "cursor"
    /\ IF Active = {}
       THEN /\ purger' = Idle
            /\ UNCHANGED jobs
       ELSE /\ jobs' = [o \in Operations |->
                          IF o \in Active THEN Stepped(jobs[o], purger.page)
                                          ELSE jobs[o]]
            /\ purger' = [purger EXCEPT !.at = "advance"]
    /\ UNCHANGED <<constantVars, project, key, dataVars, graceOver, purged, fenced,
                   call, request, cancel, faults>>

\* advance_or_complete: the next batch, the second pass, or the tombstone.
Advance ==
    /\ purger.at = "advance"
    /\ \/ /\ \A o \in Active : ~PassDone(jobs[o], purger.code, bundle)
          /\ purger' = Idle
          /\ UNCHANGED <<project, jobs>>
       \/ \E o \in Active :
          /\ PassDone(jobs[o], purger.code, bundle)
          /\ IF ~jobs[o].pass
             THEN /\ CallsEnded
                  /\ jobs' = [jobs EXCEPT ![o] = SecondPass(@)]
                  /\ purger' = Idle
                  /\ UNCHANGED project
             ELSE /\ project' = IF project = "purging" THEN "deleted" ELSE project
                  /\ purger' = [purger EXCEPT !.at = "complete"]
                  /\ UNCHANGED jobs
    /\ UNCHANGED <<constantVars, key, dataVars, graceOver, purged, fenced, call,
                   request, cancel, faults>>

CompleteJob ==
    /\ purger.at = "complete"
    /\ jobs' = [jobs EXCEPT ![purger.op] =
                   IF @.phase \in Terminal THEN @ ELSE [@ EXCEPT !.phase = "deleted"]]
    /\ purger' = Idle
    /\ UNCHANGED <<constantVars, project, key, dataVars, graceOver, purged, fenced,
                   call, request, cancel, faults>>

\* Mutant: PostgreSQL asks the job as well.
ReleaseSlugOfJob ==
    /\ slug = "reserved"
    /\ project = "deleted"
    /\ \E o \in Operations : jobs[o].phase = "deleted"
    /\ slug' = "released"
    /\ UNCHANGED <<constantVars, project, key, events, bundle, jobVars, memoryVars,
                   faults>>

\* release_one_expired_slug: PostgreSQL asks the tombstone, MongoDB the job.
ReleaseSlug ==
    /\ slug = "reserved"
    /\ project = "deleted"
    /\ ~transactional => \E o \in Operations : jobs[o].phase = "deleted"
    /\ slug' = "released"
    /\ UNCHANGED <<constantVars, project, key, events, bundle, jobVars, memoryVars,
                   faults>>

\* The retention of terminal jobs (a TTL index, or the maintenance), long after the
\* commands on them.
ExpireJob(o) ==
    /\ jobs[o].phase \in Terminal
    /\ request[o] = Idle /\ cancel[o] = Idle /\ purger = Idle
    /\ jobs' = [jobs EXCEPT ![o] = NoJob]
    /\ graceOver' = graceOver \ {o}
    /\ purged' = purged \ {o}
    /\ UNCHANGED <<constantVars, project, key, dataVars, memoryVars, faults>>

\* The artifact retention deletes a bundle without bindings.
CollectBundle ==
    /\ bundle = "orphaned"
    /\ bundle' = "gone"
    /\ UNCHANGED <<constantVars, project, key, events, slug, jobVars, memoryVars,
                   faults>>

-----------------------------------------------------------------------------
(* Faults *)

Fault == faults < MaxFaults /\ faults' = faults + 1

\* A command is dropped: its client is gone, the store fails or operation_timeout
\* passes.  The client may try again.
AbandonCommand(o) ==
    /\ Fault
    /\ \/ request[o] # Idle /\ RequestAt(o, Idle) /\ UNCHANGED cancel
       \/ cancel[o] # Idle /\ CancelAt(o, Idle) /\ UNCHANGED request
    /\ UNCHANGED <<constantVars, project, key, dataVars, jobVars, fenced, call,
                   purger>>

\* The step of the purge fails or times out; the job is due again after its delay.
AbandonPurge ==
    /\ Fault
    /\ purger # Idle
    /\ purger' = Idle
    /\ UNCHANGED <<constantVars, project, key, dataVars, jobVars, fenced, call,
                   request, cancel>>

Crash ==
    /\ Fault
    /\ fenced' = FALSE
    /\ call' = [c \in Calls |-> IF call[c] = "idle" THEN "idle" ELSE "done"]
    /\ request' = [o \in Operations |-> Idle]
    /\ cancel' = [o \in Operations |-> Idle]
    /\ purger' = Idle
    /\ UNCHANGED <<constantVars, project, key, dataVars, jobVars>>

-----------------------------------------------------------------------------

Init ==
    /\ transactional \in Backends
    /\ original \in Originals
    /\ project = original.project
    /\ key = original.key
    /\ events = InitialEvents
    /\ bundle = "bound"
    /\ slug = "reserved"
    /\ jobs = [o \in Operations |-> NoJob]
    /\ fenced = FALSE
    /\ call = [c \in Calls |-> "idle"]
    /\ request = [o \in Operations |-> Idle]
    /\ cancel = [o \in Operations |-> Idle]
    /\ purger = Idle
    /\ graceOver = {}
    /\ purged = {}
    /\ faults = 0

Ingest(c) == Authorize(c) \/ TryEnter(c) \/ DropCall(c) \/ Insert(c)

Request(o) ==
    \/ RequestTransaction(o)
    \/ ReadProject(o) \/ LookForJob(o) \/ InsertJob(o)
    \/ FenceProject(o) \/ FenceKeys(o)
    \/ FenceRegistry(o) \/ Drained(o)

Cancel(o) ==
    \/ CancelTransaction(o)
    \/ ReadJob(o) \/ RestoreProject(o) \/ ResumeKeys(o) \/ CancelJob(o)
    \/ Unfence(o)

Purge ==
    \/ \E o \in Operations : PurgeTransaction(o) \/ FindJob(o)
    \/ MarkProject \/ MarkJob \/ PurgeBatch \/ PersistCursor \/ Advance
    \/ CompleteJob

Next ==
    \/ \E c \in Calls : Ingest(c)
    \/ \E o \in Operations :
        Request(o) \/ Cancel(o) \/ GracePasses(o) \/ ExpireJob(o)
        \/ AbandonCommand(o)
    \/ Purge
    \/ ReleaseSlug \/ CollectBundle
    \/ AbandonPurge \/ Crash

Spec == Init /\ [][Next]_vars

\* Calls and the grace period end, the worker and the retention are polled.
Fairness ==
    /\ \A c \in Calls : WF_vars(TryEnter(c)) /\ WF_vars(Insert(c))
    /\ \A o \in Operations : WF_vars(GracePasses(o))
    /\ WF_vars(Purge)
    /\ WF_vars(CollectBundle)
    /\ WF_vars(ReleaseSlug)

FairSpec == Spec /\ Fairness

-----------------------------------------------------------------------------
(* Properties *)

\* Once the tombstone is written nothing of the project is left and nothing comes
\* back: the second pass finds what was written behind the cursor of the first, also
\* by calls that nobody waited for any more.
TombstoneIsLast ==
    project = "deleted" => events = {} /\ key = None /\ bundle = "gone"

\* A deletion that was cancelled has removed nothing.
CancelledKeepsData ==
    \A o \in Operations : jobs[o].phase = "cancelled" => o \notin purged

\* PostgreSQL: nor has it changed anything.  Without a deletion under way the project and
\* its key are in the state they had before the first one, whatever commands were
\* cancelled, repeated or lost, and however close to the purge.
CancelledChangesNothing ==
    transactional =>
        /\ CancelledKeepsData
        /\ Active = {} /\ project # "deleted" =>
            project = original.project /\ key = original.key

-----------------------------------------------------------------------------
(* The inductive invariant of the proofs *)

\* The steps of the commands and of the worker, and what they hold there.
Requests ==
    {Idle} \cup [at : {"look", "insert"}, previous : Previous]
        \cup [at : {"project", "keys", "registry", "drain"}]

Cancels ==
    {Idle} \cup [at : {"project"}, previous : Previous]
        \cup [at : {"keys", "job", "unfence"}]

Purgers ==
    {Idle} \cup [at : {"project", "job", "batch"}, op : Operations, code : 1..3,
                cursor : Nat]
        \cup [at : {"cursor", "advance", "complete"}, op : Operations, code : 1..3,
              page : SUBSET (Calls \cup InitialEvents \cup {1})]

MemoryOK ==
    /\ jobs \in [Operations -> Job \cup {NoJob}]
    /\ request \in [Operations -> Requests]
    /\ cancel \in [Operations -> Cancels]
    /\ purger \in Purgers
    /\ purger # Idle => jobs[purger.op] # NoJob

\* PostgreSQL takes no step of MongoDB's.
TransactionsOnly ==
    /\ purger = Idle
    /\ \A o \in Operations : request[o].at \in {"idle", "registry", "drain"}
    /\ \A o \in Operations : cancel[o].at \in {"idle", "unfence"}

\* Without a deletion, the project is as it was, or nothing of it is left.
UntouchedWithout ==
    Active = {} =>
        \/ project = original.project /\ key = original.key
        \/ project = "deleted"

\* In the grace period the fence is all that a deletion has done.
OnlyFencedInGrace ==
    \A o \in Operations : jobs[o].phase = "pending_grace" =>
        /\ project = "pending_delete"
        /\ jobs[o] = NewJob(original.project)
        /\ key = IF original.key = "active" THEN "suspended" ELSE original.key

\* The datasets before the one the purge is at are empty, and after the first pass all.
PurgedSoFar ==
    \A o \in Operations : jobs[o].phase = "purging" =>
        /\ project = "purging" /\ jobs[o].cursor = 0
        /\ jobs[o].code > 1 \/ jobs[o].pass => events = {}
        /\ jobs[o].code > 2 \/ jobs[o].pass => key = None
        /\ jobs[o].pass => bundle = "gone"

\* Data is removed on behalf of a purge only.
PurgedByPurge ==
    \A o \in purged : jobs[o].phase \in {"purging", "deleted"}

TransactionalInv ==
    /\ TransactionsOnly
    /\ \A o, p \in Active : o = p
    /\ project = "deleted" => Active = {}
    /\ UntouchedWithout /\ OnlyFencedInGrace
    /\ PurgedSoFar /\ PurgedByPurge
    /\ TombstoneIsLast

\* MongoDB: the worker holds the job that is being purged, as it is stored until the
\* cursor is written, and no job is being purged while it marks one.
WorkerHoldsJob ==
    purger # Idle =>
        /\ \A o \in Operations : jobs[o].phase = "purging" => o = purger.op
        /\ purger.at \in {"project", "job"} => jobs[purger.op].phase # "purging"
        /\ purger.at \notin {"project", "job"} =>
              jobs[purger.op].phase # "pending_grace"
        /\ purger.op \in Active /\ purger.at \in {"project", "job", "batch", "cursor"} =>
              purger.code = jobs[purger.op].code
        /\ purger.op \in Active /\ purger.at \in {"project", "job", "batch"} =>
              purger.cursor = jobs[purger.op].cursor

\* The batch of a deletion that was cancelled meanwhile may be counted for the next
\* one, once: not enough to end a pass in the grace period.
NoPassInGrace ==
    \A o \in Operations : jobs[o].phase = "pending_grace" =>
        /\ ~jobs[o].pass /\ jobs[o].code <= 2
        /\ purger.at \in {"project", "job", "batch", "cursor"} /\ purger.op # o =>
              jobs[o].code = 1

\* In the second pass over a project that is marked, no call is left that could write
\* behind the cursor, and what is before it is gone.
SecondPassOf(o) == jobs[o].phase = "purging" /\ jobs[o].pass /\ project = "purging"

SecondPassBehind ==
    \A o \in Operations : SecondPassOf(o) =>
        /\ CallsEnded
        /\ IF jobs[o].code = 1 THEN \A e \in events : e > jobs[o].cursor
                               ELSE events = {}
        /\ jobs[o].code = 3 \/ (jobs[o].code = 2 /\ jobs[o].cursor > 0) =>
              bundle # "bound"
        /\ jobs[o].code = 3 /\ jobs[o].cursor > 0 => key = None

\* So is the batch that the cursor does not stand behind yet.
SecondPassBatch ==
    \A o \in Operations : SecondPassOf(o) =>
        /\ purger.at = "cursor" /\ purger.code = 1 =>
              IF Cardinality(purger.page) = BatchSize
              THEN \A e \in events : e > Max(purger.page)
              ELSE events = {}
        /\ purger.at = "cursor" /\ purger.code = 2 => bundle # "bound"
        /\ purger.at \in {"cursor", "advance"} /\ purger.code = 3 => key = None

SequentialInv ==
    /\ \A o, p \in Active : o = p
    /\ WorkerHoldsJob /\ NoPassInGrace
    /\ SecondPassBehind /\ SecondPassBatch
    /\ TombstoneIsLast
    /\ project = "deleted" => CallsEnded

DeletionInv ==
    /\ TypeOK /\ MemoryOK
    /\ IF transactional THEN TransactionalInv ELSE SequentialInv

-----------------------------------------------------------------------------

\* A deletion that was requested is completed or cancelled.
DeletionEnds ==
    \A o \in Operations : o \in Active ~> o \notin Active

\* A purge that has marked its project and its job reaches the tombstone on both
\* stores, whatever step of it fails in between, and a cancellation that began before
\* it does not take the project back.
PurgeReachesTombstone ==
    \A o \in Operations :
        jobs[o].phase = "purging" /\ project = "purging" ~> project = "deleted"

\* PostgreSQL: the slug of a deleted project is released, although its job may expire
\* first.
SlugIsReleased == transactional /\ project = "deleted" ~> slug = "released"

=============================================================================
