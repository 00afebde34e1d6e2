---------------------------- MODULE BacklogGuard ----------------------------
(***************************************************************************)
(* The admission guard of crates/application/src/dispatcher.rs: a flag the *)
(* dispatcher task sets from periodic observations of the durable backlog  *)
(* (observe of mongo/src/event.rs and postgres/src/events.rs), and that    *)
(* BacklogGuardedEventSink reads before every persist.                     *)
(*                                                                         *)
(* An observation is two queries, one for the number of pending events and *)
(* one for the event that is next in due order; events arrive, are retried *)
(* and are processed between them.  Times are small numbers.               *)
(***************************************************************************)
EXTENDS Integers, FiniteSets, FiniteSetsExt

CONSTANTS
    Events,
    MaxPending,   \* DispatcherConfig.max_pending_events
    MaxAge,       \* DispatcherConfig.max_oldest_pending_age
    Backoff,      \* how far a retry puts an event off
    Horizon       \* bound: the last moment of the clock

\* validate_config: limits that are set are positive.
ValidConfig ==
    /\ MaxPending \in Nat \ {0}
    /\ MaxAge \in Nat \ {0}

ASSUME GuardAssumption ==
    /\ IsFiniteSet(Events)
    /\ ValidConfig
    /\ Backoff \in Nat \ {0}
    /\ Horizon \in Nat

VARIABLES
    now,       \* the clock
    state,     \* state[e]: "new", "pending" or "done"
    received,  \* received[e]: when the event was received
    due,       \* due[e]: when its next attempt is due
    seen,      \* the count read by the observation under way, -1 if there is none
    critical   \* BacklogGuard::critical

vars == <<now, state, received, due, seen, critical>>

eventVars == <<state, received, due>>

Pending == {e \in Events : state[e] = "pending"}

TypeOK ==
    /\ now \in 0..Horizon
    /\ state \in [Events -> {"new", "pending", "done"}]
    /\ received \in [Events -> 0..Horizon]
    /\ due \in [Events -> 0..Horizon + Backoff]
    /\ seen \in -1..MaxPending
    /\ critical \in BOOLEAN

-----------------------------------------------------------------------------

Tick ==
    /\ now < Horizon
    /\ now' = now + 1
    /\ UNCHANGED <<eventVars, seen, critical>>

\* BacklogGuardedEventSink::persist lets the event through.
Persist(e) ==
    /\ ~critical
    /\ state[e] = "new"
    /\ state' = [state EXCEPT ![e] = "pending"]
    /\ received' = [received EXCEPT ![e] = now]
    /\ due' = [due EXCEPT ![e] = now]
    /\ UNCHANGED <<now, seen, critical>>

\* A processing attempt fails and is put off.
Retry(e) ==
    /\ state[e] = "pending"
    /\ due[e] <= now
    /\ due' = [due EXCEPT ![e] = now + Backoff]
    /\ UNCHANGED <<now, state, received, seen, critical>>

\* A worker finishes the event.  At the end of the bounded clock every retry is
\* taken to have come due.
Process(e) ==
    /\ state[e] = "pending"
    /\ due[e] <= now \/ now = Horizon
    /\ state' = [state EXCEPT ![e] = "done"]
    /\ UNCHANGED <<now, received, due, seen, critical>>

\* observe_backlog asks the store to count no further than this.
CountLimit == MaxPending

ObserveCount ==
    /\ seen = -1
    /\ seen' = Min({Cardinality(Pending), CountLimit})
    /\ UNCHANGED <<now, eventVars, critical>>

\* The pending event that comes first by (next attempt, received): the one whose
\* time of receipt observe reports as the oldest.
FirstDue ==
    CHOOSE e \in Pending :
        \A f \in Pending :
            \/ due[e] < due[f]
            \/ due[e] = due[f] /\ received[e] <= received[f]

Age == IF Pending = {} THEN 0 ELSE now - received[FirstDue]

\* BacklogGuard::observe
Crossed == seen >= MaxPending \/ Age >= MaxAge
Recovered == seen <= (4 * MaxPending) \div 5 /\ Age <= (4 * MaxAge) \div 5

\* Mutants: a guard that is critical stays so; a limit crossed is only heeded by a
\* guard that is critical already.
GuardLatching == critical' = (critical \/ Crossed)
GuardDeaf == critical' = (critical /\ Crossed)

Guard == critical' = IF critical THEN ~Recovered ELSE Crossed

ObserveOldest ==
    /\ seen # -1
    /\ Guard
    /\ seen' = -1
    /\ UNCHANGED <<now, eventVars>>

\* One of the queries fails or the source timeout passes.
ObserveFails ==
    /\ seen # -1
    /\ seen' = -1
    /\ UNCHANGED <<now, eventVars, critical>>

-----------------------------------------------------------------------------

Init ==
    /\ now = 0
    /\ state = [e \in Events |-> "new"]
    /\ received = [e \in Events |-> 0]
    /\ due = [e \in Events |-> 0]
    /\ seen = -1
    /\ critical = FALSE

Next ==
    \/ Tick
    \/ \E e \in Events : Persist(e) \/ Retry(e) \/ Process(e)
    \/ ObserveCount \/ ObserveOldest \/ ObserveFails

Spec == Init /\ [][Next]_vars

\* Time passes, and observations are made, which do not fail for ever.
FairSpec ==
    /\ Spec
    /\ WF_vars(Tick)
    /\ WF_vars(ObserveCount) /\ SF_vars(ObserveOldest)

-----------------------------------------------------------------------------
(* Properties *)

\* A backlog that stays at its limit closes admission, whatever arrives or is
\* retried between the two queries of an observation.
GuardEngages == [](Cardinality(Pending) >= MaxPending) ~> critical

\* If the pending events get processed, admission opens again: a guard that turns
\* events away cannot keep itself critical.
GuardRecovers ==
    (\A e \in Events : WF_vars(Process(e))) => (critical ~> ~critical)

=============================================================================
