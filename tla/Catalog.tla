------------------------------- MODULE Catalog -------------------------------
(***************************************************************************)
(* The admission of implicit releases and environments to the catalogs of  *)
(* a project: update_catalogs of mongo/src/finalizer.rs, where the place   *)
(* is reserved first and the entry written afterwards, and                 *)
(* materialize_releases and materialize_environments of                    *)
(* postgres/src/finalization.rs, where both are one transaction.           *)
(*                                                                         *)
(* Events are finalized in any order, so the day on which an event was     *)
(* received may be earlier than that of an event finalized before it.      *)
(***************************************************************************)
EXTENDS Integers, FiniteSets

CONSTANTS
    Releases,          \* release versions
    Environments,      \* environment names
    Days,              \* days of receipt
    NoDay,             \* the project's catalog usage names no day yet
    ReleaseLimit,      \* max_implicit_releases_per_project_day
    EnvironmentLimit   \* max_implicit_environments_per_project

ASSUME CatalogAssumption ==
    /\ IsFiniteSet(Releases) /\ IsFiniteSet(Environments)
    /\ Days \subseteq Nat
    /\ NoDay \notin Days
    /\ ReleaseLimit \in Nat \ {0}
    /\ EnvironmentLimit \in Nat \ {0}

VARIABLES
    transactional,    \* the configured backend: PostgreSQL, or else MongoDB
    releases,         \* releases[r]: the day r was created for, or NoDay
    environments,     \* the environments that exist
    usageDay,         \* catalog_usage.rd
    usageCount,       \* catalog_usage.rc
    usageEnv,         \* catalog_usage.ec
    heldRelease,      \* the release a place is reserved for, and its day
    heldEnvironment,  \* the environment a place is reserved for
    regressed         \* a reservation went back to an earlier day

usageVars == <<usageDay, usageCount, usageEnv>>
heldVars == <<heldRelease, heldEnvironment>>

vars == <<transactional, releases, environments, usageVars, heldVars, regressed>>

TypeOK ==
    /\ transactional \in BOOLEAN
    /\ releases \in [Releases -> Days \cup {NoDay}]
    /\ environments \in SUBSET Environments
    /\ usageDay \in Days \cup {NoDay}
    /\ usageCount \in 0..ReleaseLimit
    /\ usageEnv \in 0..EnvironmentLimit
    /\ heldRelease \in SUBSET (Releases \X Days)
    /\ heldEnvironment \in SUBSET Environments
    /\ regressed \in BOOLEAN

CreatedOn(d) == {r \in Releases : releases[r] = d}

\* Batches of one process are finalized one after the other, and so are the
\* catalog entries of a batch.
Idle == heldRelease = {} /\ heldEnvironment = {}

-----------------------------------------------------------------------------

\* The condition of reserve_release: another day than the usage names, or a count
\* below the limit.
Admits(d) == usageDay # d \/ usageCount < ReleaseLimit

\* Mutant: the count starts anew every time.
CountForgetting(d) == 1

\* The count it leaves behind.
CountAfter(d) == IF usageDay = d THEN usageCount + 1 ELSE 1

UseRelease(d) ==
    /\ Admits(d)
    /\ usageDay' = d
    /\ usageCount' = CountAfter(d)
    /\ regressed' = (regressed \/ (usageDay # NoDay /\ d < usageDay))

\* materialize_release on MongoDB: the release does not exist and a place for it is
\* reserved.
ReserveRelease(r, d) ==
    /\ ~transactional
    /\ Idle
    /\ releases[r] = NoDay
    /\ UseRelease(d)
    /\ heldRelease' = {<<r, d>>}
    /\ UNCHANGED <<transactional, releases, environments, usageEnv, heldEnvironment>>

\* The upsert that follows.
WriteRelease(r, d) ==
    /\ heldRelease = {<<r, d>>}
    /\ releases' = [releases EXCEPT ![r] = d]
    /\ heldRelease' = {}
    /\ UNCHANGED <<transactional, environments, usageVars, heldEnvironment, regressed>>

\* Mutant: the count is compared with the limit one too late.
AdmitsEnvironmentLate == usageEnv <= EnvironmentLimit

\* The condition of reserve_environment.
AdmitsEnvironment == usageEnv < EnvironmentLimit

\* reserve_environment, for an environment that does not exist.
ReserveEnvironment(v) ==
    /\ ~transactional
    /\ Idle
    /\ v \notin environments
    /\ AdmitsEnvironment
    /\ usageEnv' = usageEnv + 1
    /\ heldEnvironment' = {v}
    /\ UNCHANGED <<transactional, releases, environments, usageDay, usageCount,
                   heldRelease, regressed>>

\* The upsert of the environment.
WriteEnvironment(v) ==
    /\ heldEnvironment = {v}
    /\ environments' = environments \cup {v}
    /\ heldEnvironment' = {}
    /\ UNCHANGED <<transactional, releases, usageVars, heldRelease, regressed>>

\* The write fails or the process stops: the place stays reserved for nothing.
LoseReservation ==
    /\ ~Idle
    /\ heldRelease' = {}
    /\ heldEnvironment' = {}
    /\ UNCHANGED <<transactional, releases, environments, usageVars, regressed>>

\* materialize_releases on PostgreSQL, for one release of the batch.
MaterializeRelease(r, d) ==
    /\ transactional
    /\ releases[r] = NoDay
    /\ UseRelease(d)
    /\ releases' = [releases EXCEPT ![r] = d]
    /\ UNCHANGED <<transactional, environments, usageEnv, heldVars>>

\* materialize_environments on PostgreSQL, for one environment of the batch.
MaterializeEnvironment(v) ==
    /\ transactional
    /\ v \notin environments
    /\ AdmitsEnvironment
    /\ environments' = environments \cup {v}
    /\ usageEnv' = usageEnv + 1
    /\ UNCHANGED <<transactional, releases, usageDay, usageCount, heldVars, regressed>>

\* The entry exists, or its admission is refused: nothing is written that matters
\* here.
Skip ==
    /\ Idle
    /\ UNCHANGED vars

-----------------------------------------------------------------------------

Init ==
    /\ transactional \in BOOLEAN
    /\ releases = [r \in Releases |-> NoDay]
    /\ environments = {}
    /\ usageDay = NoDay
    /\ usageCount = 0
    /\ usageEnv = 0
    /\ heldRelease = {}
    /\ heldEnvironment = {}
    /\ regressed = FALSE

Next ==
    \/ \E r \in Releases, d \in Days :
        ReserveRelease(r, d) \/ WriteRelease(r, d) \/ MaterializeRelease(r, d)
    \/ \E v \in Environments :
        ReserveEnvironment(v) \/ WriteEnvironment(v) \/ MaterializeEnvironment(v)
    \/ LoseReservation
    \/ Skip

Spec == Init /\ [][Next]_vars

-----------------------------------------------------------------------------
(* Properties *)

\* The usage never understates what exists, also after lost reservations, so the
\* number of implicit environments never exceeds its limit (reserve_environment,
\* materialize_environments).
EnvironmentCeiling ==
    /\ Cardinality(environments) <= usageEnv
    /\ Cardinality(environments) <= EnvironmentLimit

\* As long as releases are admitted in the order of their days, no day gets more
\* implicit releases than the limit: the count of the current day covers them
\* (reserve_release, materialize_releases).
ReleaseCeilingInOrder ==
    ~regressed => \A d \in Days : Cardinality(CreatedOn(d)) <= ReleaseLimit

\* What makes the ceilings inductive: a place held for an entry is paid for by the
\* usage, a transaction never leaves one held, and while the days only move forward
\* nothing exists for a later day than the usage names.
EnvironmentsPaid ==
    /\ Cardinality(environments) + Cardinality(heldEnvironment) <= usageEnv
    /\ \A v \in heldEnvironment : heldEnvironment = {v}

ReleasesPaid ==
    /\ transactional => heldRelease = {}
    /\ \A h \in heldRelease :
        /\ heldRelease = {h}
        /\ h[2] = usageDay
        /\ releases[h[1]] = NoDay
    /\ ~regressed =>
        /\ usageDay = NoDay => \A d \in Days : CreatedOn(d) = {}
        /\ usageDay # NoDay =>
            /\ Cardinality(CreatedOn(usageDay)) + Cardinality(heldRelease) <= usageCount
            /\ \A d \in Days : d > usageDay => CreatedOn(d) = {}
            /\ \A d \in Days : d < usageDay => Cardinality(CreatedOn(d)) <= ReleaseLimit

\* The inductive invariant.
CatalogInv == TypeOK /\ EnvironmentsPaid /\ ReleasesPaid

=============================================================================
