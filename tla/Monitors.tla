------------------------------ MODULE Monitors ------------------------------
(***************************************************************************)
(* One monitor and its runs.  A cron monitor is fed by check-ins that      *)
(* MonitorWriter stores in small batches (application/src/monitor_writer.rs*)
(* and ingest.rs); an uptime monitor by the checks of UptimeScheduler      *)
(* (application/src/uptime.rs).  The Scheduler ends runs that take too long*)
(* and records the ones that are missing.  An administrator may edit the   *)
(* monitor.  The stores are mongo/src/monitors.rs, where each of these is  *)
(* a series of updates, and postgres/src/monitors.rs, where each is one    *)
(* transaction.                                                            *)
(***************************************************************************)
EXTENDS Naturals, Sequences, SequencesExt, FiniteSets

CONSTANTS
    CheckIns,    \* check-in ids
    Instances,   \* bound: the store, the kind of monitor, the check-ins and which of
                 \* them come with a definition, as they are considered together
    Outcomes,    \* the reported outcomes to consider
    Interval,    \* the schedule: a run every Interval
    Margin,      \* checkin_margin
    MaxRuntime,  \* max_runtime
    MaxUpdates,  \* max_updates of a batch
    MaxClock,    \* bound: length of time
    LastReceipt, \* bound: no check-in is received after it
    MaxMessages, \* bound: check-ins received
    MaxFaults,   \* bound: crashes, calls that fail, edits
    NoRun, NoMonitor

ASSUME MonitorsAssumption ==
    /\ CheckIns \subseteq Nat
    /\ Outcomes \subseteq {"success", "error", "timeout"}
    /\ Instances \subseteq
        [transactional : BOOLEAN, kind : {"cron", "uptime"}, checkIns : SUBSET CheckIns,
         defining : SUBSET ({"in_progress"} \cup Outcomes)]
    /\ {Interval, MaxRuntime, MaxUpdates} \subseteq Nat \ {0}
    /\ {Margin, MaxClock, LastReceipt, MaxMessages, MaxFaults} \subseteq Nat
    /\ LastReceipt + MaxRuntime <= MaxClock

VARIABLES
    given,         \* the instance
    clock,
    \* durable
    monitor,       \* the definition, with what is known of its last run
    runs,          \* their expiry is left out: history outlasts the time considered
    \* in memory
    inbox,         \* check-ins received and not yet stored
    call,          \* persist_monitors, by MonitorWriter or UptimeScheduler
    pass,          \* where the Scheduler is
    edit,          \* upsert_monitor of the native API
    \* history
    messages,      \* check-ins received so far
    edited,        \* an edit was written
    faults

vars == <<given, clock, monitor, runs, inbox, call, pass, edit, messages,
          edited, faults>>

\* TRUE for PostgreSQL, FALSE for MongoDB.
transactional == given.transactional
kind == given.kind

Times == 1..(MaxClock + Interval)

\* MonitorRunId::sdk, missed and uptime.
RunIds == ({"sdk"} \X CheckIns) \cup ({"missed", "uptime"} \X Times)

Terminal == {"success", "error", "timeout", "missed"}

Updates ==
    [id : RunIds, status : Terminal \cup {"in_progress"}, received : 1..MaxClock,
     definition : BOOLEAN]

\* timeout: timeout_at, 0 for none.  seen: last_check_in_at, 0 for none.
RunRecord ==
    [status : Terminal \cup {"in_progress"}, received : 1..MaxClock,
     started : Times, timeout : Nat]

\* created: created_at.  invalid: updated_at is before it, which MonitorDefinition's
\* validate refuses; all else that validate asks for is left out.
MonitorRecord ==
    [next : Times, last : RunIds \cup {NoRun},
     status : Terminal \cup {"in_progress", "none"}, seen : 0..MaxClock,
     lease : BOOLEAN, managed : BOOLEAN, created : 1..MaxClock, invalid : BOOLEAN]

ASSUME NoneAssumption ==
    /\ NoRun \notin RunRecord
    /\ NoMonitor \notin MonitorRecord

Idle == [at |-> "idle"]

TypeOK ==
    /\ given \in Instances
    /\ clock \in 1..MaxClock
    /\ monitor \in MonitorRecord \/ monitor = NoMonitor
    /\ runs \in [RunIds -> RunRecord \cup {NoRun}]
    /\ inbox \subseteq Updates
    /\ call.at \in {"idle", "check", "persist", "define", "read", "write", "project"}
    /\ pass.at \in {"idle", "timeouts", "project", "missed", "advance"}
    /\ edit = Idle \/ edit.monitor \in MonitorRecord \/ edit.monitor = NoMonitor
    /\ messages \in 0..MaxMessages
    /\ edited \in BOOLEAN
    /\ faults \in 0..MaxFaults

-----------------------------------------------------------------------------
(* Schedule, runs and the projection of a run onto its monitor *)

\* MonitorSchedule::next_after, for an interval.
NextAfter(time) == time + Interval

NewMonitor(created, managed) ==
    [next |-> NextAfter(created), last |-> NoRun, status |-> "none", seen |-> 0,
     lease |-> FALSE, managed |-> managed, created |-> created, invalid |-> FALSE]

\* Mutant: a check-in without a definition gets no deadline.
TimeoutAtOfDefinition(update) ==
    IF update.definition THEN update.received + MaxRuntime ELSE 0

\* From the definition a check-in carries or, in the store, from the monitor's.
TimeoutAt(update) == update.received + MaxRuntime

NewRun(update) ==
    [status |-> update.status, received |-> update.received,
     started |-> update.received,
     timeout |-> IF update.status = "in_progress" THEN TimeoutAt(update) ELSE 0]

Ended(run, status, received) == [run EXCEPT !.status = status, !.received = received]

InProgress(run) == run # NoRun /\ run.status = "in_progress"

\* merge, and the loop of persist_inner: the updates of a batch one after the other.
\* accepted are the ones that change something, with how MongoDB writes them; a
\* completion before the start makes the whole batch invalid.
MergeOne(merged, update) ==
    LET run == merged.runs[update.id]
        change(new, insert) ==
            [runs |-> [merged.runs EXCEPT ![update.id] = new],
             accepted |-> Append(merged.accepted, [update |-> update, insert |-> insert]),
             invalid |-> merged.invalid]
    IN  IF run = NoRun THEN change(NewRun(update), TRUE)
        ELSE IF InProgress(run) /\ update.status \in Terminal
        THEN IF update.received < run.started
             THEN [merged EXCEPT !.invalid = TRUE]
             ELSE change(Ended(run, update.status, update.received), FALSE)
        ELSE merged

Merge(updates) ==
    LET merged[n \in 0..Len(updates)] ==
            IF n = 0 THEN [runs |-> runs, accepted |-> <<>>, invalid |-> FALSE]
            ELSE MergeOne(merged[n - 1], updates[n])
    IN  merged[Len(updates)]

\* Of what was accepted for the monitor, the one received last is projected.
Latest(accepted) ==
    LET n == CHOOSE n \in DOMAIN accepted : \A k \in DOMAIN accepted :
                \/ accepted[k].update.received < accepted[n].update.received
                \/ accepted[k].update.received = accepted[n].update.received /\ k <= n
    IN  accepted[n].update

Projected(m, update) ==
    [m EXCEPT !.last = update.id, !.status = update.status, !.seen = update.received,
              !.invalid = update.received < m.created,
              !.next = IF update.status \in Terminal THEN NextAfter(update.received) ELSE @,
              !.lease = @ /\ ~(kind = "uptime" /\ update.status \in Terminal)]

\* Mutant: a run that was received earlier is projected too.
ProjectAlways(m, update) == Projected(m, update)

\* project_run, apply_projection.
Project(m, update) == IF m.seen > update.received THEN m ELSE Projected(m, update)

\* The definitions of a batch; the web's definition is kept.  PostgreSQL validates each
\* of them, and MongoDB what comes of them.
Define(m, update) ==
    IF ~update.definition THEN m
    ELSE IF m = NoMonitor THEN NewMonitor(update.received, FALSE)
    ELSE IF m.managed \/ (transactional /\ m.invalid) THEN m
    ELSE [m EXCEPT !.next = NextAfter(update.received),
                   !.invalid = update.received < m.created]

Defined(updates) ==
    LET defined[n \in 0..Len(updates)] ==
            IF n = 0 THEN monitor ELSE Define(defined[n - 1], updates[n])
    IN  defined[Len(updates)]

\* decode_monitor, encode_monitor, encode_config: an invalid definition is neither read
\* nor written as a whole.
Valid(m) == m # NoMonitor /\ ~m.invalid

-----------------------------------------------------------------------------
(* Time, check-ins *)

Tick ==
    /\ clock < MaxClock
    /\ clock' = clock + 1
    /\ UNCHANGED <<given, monitor, runs, inbox, call, pass, edit, messages,
                   edited, faults>>

\* normalize_check_in.  Requests are concurrent: what is received first need not be
\* stored first, and a client may repeat a check-in.  Check-ins are numbered in the
\* order in which they come.
Receive(c, status) ==
    /\ c \in given.checkIns
    /\ clock <= LastReceipt
    /\ messages < MaxMessages
    /\ c <= messages + 1
    /\ messages' = messages + 1
    /\ inbox' = inbox \cup {[id |-> <<"sdk", c>>, status |-> status,
                             received |-> clock, definition |-> status \in given.defining]}
    /\ UNCHANGED <<given, clock, monitor, runs, call, pass, edit, edited,
                   faults>>

\* run: a batch, in the order of the queue.
Collect ==
    /\ call = Idle
    /\ \E updates \in BoundedSeq(inbox, MaxUpdates) :
        /\ updates # <<>> /\ IsInjective(updates)
        /\ inbox' = inbox \ ToSet(updates)
        /\ call' = [at |-> "persist", updates |-> updates]
    /\ UNCHANGED <<given, clock, monitor, runs, pass, edit, messages, edited,
                   faults>>

-----------------------------------------------------------------------------
(* UptimeScheduler::run_once *)

\* claim_due_uptime.  MongoDB decodes what it has leased.
ClaimUptime ==
    /\ kind = "uptime"
    /\ call = Idle
    /\ monitor.next <= clock /\ ~monitor.lease
    /\ monitor' = [monitor EXCEPT !.lease = TRUE]
    /\ call' = IF Valid(monitor) THEN [at |-> "check", slot |-> monitor.next] ELSE Idle
    /\ UNCHANGED <<given, clock, runs, inbox, pass, edit, messages, edited,
                   faults>>

\* The check ends; its run has the identity of the slot it was claimed for.
CheckEnds(status) ==
    /\ call.at = "check"
    /\ call' = [at |-> "persist",
                updates |-> <<[id |-> <<"uptime", call.slot>>, status |-> status,
                               received |-> clock, definition |-> FALSE]>>]
    /\ UNCHANGED <<given, clock, monitor, runs, inbox, pass, edit, messages,
                   edited, faults>>

\* The lease runs out, under a check or after the process that took it stopped.
LeaseEnds ==
    /\ kind = "uptime"
    /\ monitor.lease
    /\ monitor' = [monitor EXCEPT !.lease = FALSE]
    /\ UNCHANGED <<given, clock, runs, inbox, call, pass, edit, messages,
                   edited, faults>>

-----------------------------------------------------------------------------
(* persist_monitors *)

\* PostgreSQL.
PersistTransaction ==
    /\ transactional
    /\ call.at = "persist"
    /\ call' = Idle
    /\ \E defined \in {Defined(call.updates)}, merged \in {Merge(call.updates)} :
        LET projected == IF merged.accepted = <<>> THEN defined
                         ELSE Project(defined, Latest(merged.accepted))
        IN  IF Valid(defined) /\ ~merged.invalid /\ Valid(projected)
            THEN runs' = merged.runs /\ monitor' = projected
            ELSE UNCHANGED <<monitor, runs>>
    /\ UNCHANGED <<given, clock, inbox, pass, edit, messages, edited, faults>>

\* MongoDB: the monitor is read and the definitions are merged into it,
LoadMonitor ==
    /\ ~transactional
    /\ call.at = "persist"
    /\ LET defined == Defined(call.updates)
       IN  call' = IF (monitor = NoMonitor \/ Valid(monitor)) /\ Valid(defined)
                   THEN [at |-> "define", updates |-> call.updates, monitor |-> defined]
                   ELSE Idle
    /\ UNCHANGED <<given, clock, monitor, runs, inbox, pass, edit, messages,
                   edited, faults>>

\* encode_monitor has every field but the lease, and no last run when there is none.
WrittenBack(m) ==
    IF monitor = NoMonitor THEN m
    ELSE [next |-> m.next, managed |-> m.managed, lease |-> monitor.lease,
          created |-> m.created, invalid |-> FALSE,
          last |-> IF m.seen = 0 THEN monitor.last ELSE m.last,
          status |-> IF m.seen = 0 THEN monitor.status ELSE m.status,
          seen |-> IF m.seen = 0 THEN monitor.seen ELSE m.seen]

\* its document is written back, changed or not,
WriteMonitor ==
    /\ call.at = "define"
    /\ monitor' = WrittenBack(call.monitor)
    /\ call' = [at |-> "read", updates |-> call.updates]
    /\ UNCHANGED <<given, clock, runs, inbox, pass, edit, messages, edited,
                   faults>>

\* the runs are read,
ReadRuns ==
    /\ call.at = "read"
    /\ LET merged == Merge(call.updates)
       IN  call' = IF merged.invalid \/ merged.accepted = <<>> THEN Idle
                   ELSE [at |-> "write", left |-> merged.accepted,
                         latest |-> Latest(merged.accepted)]
    /\ UNCHANGED <<given, clock, monitor, runs, inbox, pass, edit, messages,
                   edited, faults>>

\* Mutant: the update does not ask for the status it was decided on.
WrittenOver(run, write) ==
    IF run = NoRun THEN NewRun(write.update)
    ELSE IF write.insert THEN run
    ELSE Ended(run, write.update.status, write.update.received)

\* An upsert with $setOnInsert, or an update of a run that is in progress.
Written(run, write) ==
    IF write.insert
    THEN IF run = NoRun THEN NewRun(write.update) ELSE run
    ELSE IF InProgress(run) THEN Ended(run, write.update.status, write.update.received)
    ELSE run

\* written one by one,
WriteRun ==
    /\ call.at = "write"
    /\ LET write == Head(call.left)
       IN  runs' = [runs EXCEPT ![write.update.id] = Written(@, write)]
    /\ call' = IF Len(call.left) > 1 THEN [call EXCEPT !.left = Tail(@)]
               ELSE [at |-> "project", latest |-> call.latest]
    /\ UNCHANGED <<given, clock, monitor, inbox, pass, edit, messages, edited,
                   faults>>

\* and one is projected, whatever became of its write.
ApplyProjection ==
    /\ call.at = "project"
    /\ monitor' = Project(monitor, call.latest)
    /\ call' = Idle
    /\ UNCHANGED <<given, clock, runs, inbox, pass, edit, messages, edited,
                   faults>>

-----------------------------------------------------------------------------
(* The Scheduler: its tasks MonitorTimeouts and MonitorMissed, one at a time *)

Overdue(r, now) ==
    InProgress(runs[r]) /\ runs[r].timeout # 0 /\ runs[r].timeout <= now

TimedOut(r, now) ==
    [id |-> r, status |-> "timeout", received |-> now, definition |-> FALSE]

\* A pass that finds nothing is left out.
StartTimeouts ==
    /\ pass = Idle
    /\ \E r \in RunIds : Overdue(r, clock)
    /\ pass' = [at |-> "timeouts", now |-> clock,
                todo |-> {r \in RunIds : Overdue(r, clock)}]
    /\ UNCHANGED <<given, clock, monitor, runs, inbox, call, edit, messages,
                   edited, faults>>

\* PostgreSQL: all of them, in the order of their ids, which are hashes; or none, if the
\* monitor was created after the pass began.
TimeoutTransaction ==
    /\ transactional
    /\ pass.at = "timeouts"
    /\ LET due == {r \in pass.todo : Overdue(r, pass.now)}
       IN  \/ \E r \in due :
                /\ Valid(Project(monitor, TimedOut(r, pass.now)))
                /\ monitor' = Project(monitor, TimedOut(r, pass.now))
                /\ runs' = [x \in RunIds |->
                              IF x \in due THEN Ended(runs[x], "timeout", pass.now)
                              ELSE runs[x]]
           \/ /\ \A r \in due : ~Valid(Project(monitor, TimedOut(r, pass.now)))
              /\ UNCHANGED <<monitor, runs>>
    /\ pass' = Idle
    /\ UNCHANGED <<given, clock, inbox, call, edit, messages, edited, faults>>

GoOn(todo) ==
    IF todo = {} THEN Idle ELSE [at |-> "timeouts", now |-> pass.now, todo |-> todo]

\* MongoDB: one by one, each projected if it still was in progress.
TimeoutRun(r) ==
    /\ ~transactional
    /\ pass.at = "timeouts" /\ r \in pass.todo
    /\ IF InProgress(runs[r])
       THEN /\ runs' = [runs EXCEPT ![r] = Ended(@, "timeout", pass.now)]
            /\ pass' = [at |-> "project", now |-> pass.now, todo |-> pass.todo \ {r},
                        run |-> r]
       ELSE /\ pass' = GoOn(pass.todo \ {r})
            /\ UNCHANGED runs
    /\ UNCHANGED <<given, clock, monitor, inbox, call, edit, messages, edited,
                   faults>>

ProjectTimeout ==
    /\ pass.at = "project"
    /\ IF Valid(monitor)
       THEN /\ monitor' = Project(monitor, TimedOut(pass.run, pass.now))
            /\ pass' = GoOn(pass.todo)
       ELSE /\ pass' = Idle
            /\ UNCHANGED monitor
    /\ UNCHANGED <<given, clock, runs, inbox, call, edit, messages, edited,
                   faults>>

\* missed_at
Missing(now) == kind = "cron" /\ monitor # NoMonitor /\ monitor.next + Margin <= now

Missed(slot, now) ==
    [id |-> <<"missed", slot>>, status |-> "missed", received |-> now,
     definition |-> FALSE]

WithMissed(slot, now) ==
    [runs EXCEPT ![<<"missed", slot>>] =
        IF @ = NoRun THEN [NewRun(Missed(slot, now)) EXCEPT !.started = slot] ELSE @]

\* A pass that cannot decode a monitor ends there.
StartMissed ==
    /\ pass = Idle
    /\ Missing(clock) /\ Valid(monitor)
    /\ pass' = [at |-> "missed", now |-> clock, slot |-> monitor.next]
    /\ UNCHANGED <<given, clock, monitor, runs, inbox, call, edit, messages,
                   edited, faults>>

\* PostgreSQL looks again and takes the slot the monitor has now.
MissedTransaction ==
    /\ transactional
    /\ pass.at = "missed"
    /\ LET projected == Project(monitor, Missed(monitor.next, pass.now))
       IN  IF Missing(pass.now) /\ Valid(projected)
           THEN runs' = WithMissed(monitor.next, pass.now) /\ monitor' = projected
           ELSE UNCHANGED <<runs, monitor>>
    /\ pass' = Idle
    /\ UNCHANGED <<given, clock, inbox, call, edit, messages, edited, faults>>

\* MongoDB stores the run of the slot it read,
InsertMissed ==
    /\ ~transactional
    /\ pass.at = "missed"
    /\ runs' = WithMissed(pass.slot, pass.now)
    /\ pass' = [at |-> "advance", now |-> pass.now, slot |-> pass.slot,
                new |-> runs[<<"missed", pass.slot>>] = NoRun]
    /\ UNCHANGED <<given, clock, monitor, inbox, call, edit, messages, edited,
                   faults>>

\* Mutant: a slot whose run was there already is taken to be done.
AdvancesIfNew == pass.new /\ monitor.next = pass.slot

Advances == monitor.next = pass.slot

\* and advances the monitor if it still has that slot.
AdvanceMissed ==
    /\ pass.at = "advance"
    /\ monitor' = IF Advances THEN Projected(monitor, Missed(pass.slot, pass.now))
                              ELSE monitor
    /\ pass' = Idle
    /\ UNCHANGED <<given, clock, runs, inbox, call, edit, messages, edited,
                   faults>>

-----------------------------------------------------------------------------
(* Edits of an administrator; faults *)

Fault == faults < MaxFaults /\ faults' = faults + 1

\* NativeApi::upsert_monitor reads the clock and then the monitor; a read that fails
\* counts as none, and a monitor that was created after now is left alone,
LoadForEdit ==
    /\ Fault
    /\ edit = Idle
    /\ \E now \in 1..clock, read \in {monitor, NoMonitor} :
        /\ read # NoMonitor => Valid(read) /\ read.created <= now
        /\ edit' = [at |-> "write", now |-> now, monitor |-> read]
    /\ UNCHANGED <<given, clock, monitor, runs, inbox, call, pass, messages,
                   edited>>

\* and writes it anew with the last run it read; MongoDB as WriteMonitor does.
WriteEdit ==
    /\ edit.at = "write"
    /\ LET m == IF edit.monitor = NoMonitor THEN NewMonitor(edit.now, TRUE)
                ELSE [edit.monitor EXCEPT !.next = NextAfter(edit.now), !.managed = TRUE]
       IN  monitor' = IF transactional /\ monitor # NoMonitor
                      THEN [m EXCEPT !.lease = monitor.lease] ELSE WrittenBack(m)
    /\ edit' = Idle
    /\ edited' = TRUE
    /\ UNCHANGED <<given, clock, runs, inbox, call, pass, messages, faults>>

\* operation_timeout, or an error of the store or of the check.
CallFails ==
    /\ Fault
    /\ call # Idle
    /\ call' = Idle
    /\ UNCHANGED <<given, clock, monitor, runs, inbox, pass, edit, messages,
                   edited>>

\* task_timeout, or an error of the store.
PassFails ==
    /\ Fault
    /\ pass # Idle
    /\ pass' = Idle
    /\ UNCHANGED <<given, clock, monitor, runs, inbox, call, edit, messages,
                   edited>>

Restart ==
    /\ Fault
    /\ inbox' = {}
    /\ call' = Idle /\ pass' = Idle /\ edit' = Idle
    /\ UNCHANGED <<given, clock, monitor, runs, messages, edited>>

-----------------------------------------------------------------------------

Init ==
    /\ given \in Instances
    /\ clock = 1
    /\ monitor \in {NewMonitor(1, TRUE)} \cup
                     (IF kind = "cron" THEN {NoMonitor} ELSE {})
    /\ runs = [r \in RunIds |-> NoRun]
    /\ inbox = {}
    /\ call = Idle /\ pass = Idle /\ edit = Idle
    /\ messages = 0
    /\ edited = FALSE
    /\ faults = 0

Persist ==
    \/ PersistTransaction
    \/ LoadMonitor \/ WriteMonitor \/ ReadRuns \/ WriteRun \/ ApplyProjection

Check == ClaimUptime \/ \E status \in Outcomes : CheckEnds(status)

Timeouts ==
    \/ StartTimeouts \/ TimeoutTransaction \/ ProjectTimeout
    \/ \E r \in RunIds : TimeoutRun(r)

MissedRuns == StartMissed \/ MissedTransaction \/ InsertMissed \/ AdvanceMissed

Next ==
    \/ Tick
    \/ \E c \in CheckIns, status \in (Outcomes \ {"timeout"}) \cup {"in_progress"} :
        Receive(c, status)
    \/ Collect \/ Check \/ LeaseEnds \/ Persist
    \/ Timeouts \/ MissedRuns
    \/ LoadForEdit \/ WriteEdit
    \/ CallFails \/ PassFails \/ Restart

Spec == Init /\ [][Next]_vars

\* Time passes, so that a lease ends; the tickers of the Scheduler and of
\* UptimeScheduler go off; a call that has begun ends, if only by its timeout.
Fairness ==
    /\ WF_vars(Tick) /\ WF_vars(LeaseEnds)
    /\ WF_vars(Collect \/ Check \/ Persist)
    /\ WF_vars(Timeouts) /\ WF_vars(MissedRuns)

FairSpec == Spec /\ Fairness

-----------------------------------------------------------------------------
(* Properties *)

\* The first outcome of a run stays, whichever of a completion, its repetition and the
\* Scheduler's timeout comes first and whatever each of them had read before.
FirstOutcomeWins ==
    [][\A r \in RunIds :
         runs[r] # NoRun /\ runs[r].status \in Terminal => runs'[r] = runs[r]]_vars

\* PostgreSQL: what the monitor shows is the run received last, as it is stored, in
\* whatever order check-ins and the Scheduler's passes are stored, unless an edit
\* wrote back an older one.  A slot that is missed again, because a late definition took
\* the monitor back to it, keeps the time of its first run.
ProjectionIsLatest ==
    transactional /\ ~edited /\ monitor # NoMonitor =>
        /\ \A r \in RunIds : runs[r] # NoRun => runs[r].received <= monitor.seen
        /\ monitor.seen # 0 => runs[monitor.last].status = monitor.status
        /\ monitor.seen # 0 /\ monitor.status # "missed" =>
              runs[monitor.last].received = monitor.seen

-----------------------------------------------------------------------------
(* The inductive invariant of the proofs *)

\* What check-ins and checks report: runs of their own, none of the Scheduler's.
Reports == {u \in Updates : \A slot \in Times : u.id # <<"missed", slot>>}

\* Only an outcome is written over a run.
Writes ==
    {w \in [update : Reports, insert : BOOLEAN] : w.insert \/ w.update.status \in Terminal}

\* The steps of a call, a pass and an edit, and what they hold there.
Calls ==
    {Idle} \cup [at : {"check"}, slot : Times]
        \cup [at : {"persist", "read"}, updates : Seq(Reports)]
        \cup [at : {"define"}, updates : Seq(Reports), monitor : MonitorRecord]
        \cup [at : {"write"}, left : Seq(Writes) \ {<<>>}, latest : Reports]
        \cup [at : {"project"}, latest : Reports]

Passes ==
    {Idle} \cup [at : {"timeouts"}, now : 1..MaxClock, todo : SUBSET RunIds]
        \cup [at : {"project"}, now : 1..MaxClock, todo : SUBSET RunIds, run : RunIds]
        \cup [at : {"missed"}, now : 1..MaxClock, slot : Times]
        \cup [at : {"advance"}, now : 1..MaxClock, slot : Times, new : BOOLEAN]

Edits ==
    {Idle} \cup [at : {"write"}, now : 1..MaxClock,
                 monitor : MonitorRecord \cup {NoMonitor}]

MemoryOK ==
    inbox \subseteq Reports /\ call \in Calls /\ pass \in Passes /\ edit \in Edits

\* The steps in between are MongoDB's.
Undivided ==
    transactional =>
        /\ call.at \in {"idle", "check", "persist"}
        /\ pass.at \in {"idle", "timeouts", "missed"}

\* Nothing is done for a monitor that is not there, and it does not go away.
MonitorKnown ==
    /\ kind = "uptime" => monitor # NoMonitor
    /\ monitor = NoMonitor =>
        /\ \A r \in RunIds : runs[r] = NoRun
        /\ call.at \notin {"read", "write", "project"}
        /\ pass = Idle

\* A run in progress was received when it started and ends later; a missed one is the
\* Scheduler's.
RunsConsistent ==
    /\ \A r \in RunIds : InProgress(runs[r]) =>
        /\ runs[r].started = runs[r].received
        /\ runs[r].timeout = runs[r].received + MaxRuntime
    /\ \A slot \in Times :
        runs[<<"missed", slot>>] # NoRun => runs[<<"missed", slot>>].status = "missed"

\* The run that a monitor shows is there.
LastStored ==
    transactional /\ ~edited /\ monitor # NoMonitor /\ monitor.seen # 0 =>
        monitor.last \in RunIds /\ runs[monitor.last] # NoRun

\* PostgreSQL stores no monitor that it would not read again, and no edit goes on from
\* one.
StoredValid ==
    /\ edit # Idle /\ edit.monitor # NoMonitor => Valid(edit.monitor)
    /\ transactional /\ monitor # NoMonitor => Valid(monitor)

MonitorsInv ==
    /\ TypeOK /\ MemoryOK
    /\ Undivided /\ MonitorKnown /\ RunsConsistent /\ StoredValid
    /\ LastStored /\ ProjectionIsLatest

-----------------------------------------------------------------------------

\* Runs that have begun end, reported or timed out, also when the start or the pass of
\* the Scheduler that finds them is cut off half way.
EveryRunEnds == []<>(\A c \in CheckIns : ~InProgress(runs[<<"sdk", c>>]))

\* No slot holds a monitor up for good, whatever fails between the run of the slot and
\* the advance of the monitor: the slots of cron monitors on both stores, unless a run
\* received before the monitor was created was projected on MongoDB, which does not read
\* the monitor after that; and on PostgreSQL those of uptime monitors, unless an edit
\* takes the monitor back to a slot that has its run.
MonitorAdvances ==
    LET missing == Missing(clock) /\ (transactional \/ Valid(monitor))
        checkIsDue == kind = "uptime" /\ monitor.next <= clock
    IN  []<>~(missing \/ (checkIsDue /\ transactional /\ ~edited))

=============================================================================
