--------------------------- MODULE DeletionProofs ---------------------------
(***************************************************************************)
(* Proofs about Deletion: what requests, cancellations and the purge leave *)
(* of a project, for every number of operations and calls, every batch     *)
(* size and any number of faults.  The steps of PostgreSQL are             *)
(* transactions; those of MongoDB interleave, and its tombstone needs an   *)
(* invariant of the second pass.                                           *)
(***************************************************************************)
EXTENDS Deletion, FiniteSetTheorems, WellFoundedInduction, TLAPS

USE DeletionAssumption
USE DEF constantVars, dataVars, jobVars, memoryVars

-----------------------------------------------------------------------------
(* Induction, for a set: the provers do not instantiate one for a predicate *)

\* A non-empty set of naturals has a least element.
LEMMA LeastNat ==
  ASSUME NEW T \in SUBSET Nat, T # {}
  PROVE  \E n \in T : \A m \in T : n <= m
  <1> DEFINE R == {p \in Nat \X Nat : p[1] < p[2]}
  <1>1. IsWellFoundedOn(R, Nat)
    BY NatLessThanWellFounded, Zenon DEF OpToRel
  <1>2. \A m, n \in Nat : m < n => <<m, n>> \in R
    OBVIOUS
  <1> HIDE DEF R
  <1>3. \E n \in T : \A m \in T : ~ (<<m, n>> \in R)
    BY <1>1, WFMin
  <1>4. PICK n \in T : \A m \in T : ~ (<<m, n>> \in R)
    BY <1>3
  <1>5. ASSUME NEW m \in T PROVE n <= m
    <2>1. ~ (m < n)
      BY <1>2, <1>4
    <2> QED BY <2>1
  <1> QED BY <1>5

\* Induction up to n: a set that holds 0 and, with each number below n, the next.
LEMMA UpTo ==
  ASSUME NEW n \in Nat, NEW G, 0 \in G, \A i \in 0..n : i \in G /\ i < n => i + 1 \in G
  PROVE  \A i \in 0..n : i \in G
  <1> SUFFICES ASSUME NEW j \in 0..n, j \notin G PROVE FALSE
    OBVIOUS
  <1> DEFINE B == {i \in 0..n : i \notin G}
  <1>1. B \in SUBSET Nat /\ B # {}
    OBVIOUS
  <1>2. PICK m \in B : \A k \in B : m <= k
    <2> HIDE DEF B
    <2> QED BY <1>1, LeastNat
  <1>3. m # 0 /\ m \in Nat /\ m <= n
    OBVIOUS
  <1>4. m - 1 \in G
    BY <1>2, <1>3
  <1>5. m - 1 \in 0..n /\ m - 1 < n
    BY <1>3
  <1>6. (m - 1) + 1 \in G
    BY <1>4, <1>5
  <1>7. (m - 1) + 1 = m
    BY <1>3
  <1> QED BY <1>6, <1>7

-----------------------------------------------------------------------------
(* Pages *)

\* A finite set of naturals has a greatest element, by induction on its size.
LEMMA GreatestNat ==
  ASSUME NEW S \in SUBSET Nat, IsFiniteSet(S), S # {}
  PROVE  \E m \in S : \A x \in S : x <= m
  <1> DEFINE Bounded(T) == T # {} => \E m \in T : \A x \in T : x <= m
             N == Cardinality(S)
             G == {n \in 0..N : \A T \in SUBSET S : Cardinality(T) = n => Bounded(T)}
  <1>1. N \in Nat
    BY FS_CardinalityType
  <1>2. \A T \in SUBSET S : IsFiniteSet(T) /\ Cardinality(T) \in Nat
    BY FS_Subset, FS_CardinalityType
  <1>3. 0 \in G
    <2>1. \A T \in SUBSET S : Cardinality(T) = 0 => T = {}
      BY <1>2, FS_EmptySet
    <2>2. \A T \in SUBSET S : Cardinality(T) = 0 => Bounded(T)
      BY <2>1
    <2> HIDE DEF Bounded
    <2> QED BY <2>2, <1>1
  <1>4. ASSUME NEW n \in 0..N, n \in G, n < N PROVE n + 1 \in G
    <2>1. ASSUME NEW T \in SUBSET S, Cardinality(T) = n + 1 PROVE Bounded(T)
      <3>1. T # {}
        BY <2>1, <1>1, FS_EmptySet
      <3>2. PICK e \in T : TRUE
        BY <3>1
      <3> DEFINE U == T \ {e}
      <3>3. U \in SUBSET S /\ Cardinality(U) = n
        BY <1>2, <2>1, <1>1, FS_RemoveElement
      <3>4. Bounded(U)
        BY <3>3, <1>4
      <3>5. CASE U = {}
        BY <3>5
      <3>6. CASE U # {}
        <4>1. PICK m \in U : \A x \in U : x <= m
          BY <3>4, <3>6
        <4>2. CASE m >= e
          <5>1. \A x \in T : x <= m
            BY <4>1, <4>2
          <5> QED BY <5>1, <4>1
        <4>3. CASE e > m
          <5>1. \A x \in T : x <= e
            BY <4>1, <4>3
          <5> QED BY <5>1
        <4> QED BY <4>2, <4>3
      <3> QED BY <3>5, <3>6
    <2>2. n + 1 \in 0..N
      BY <1>4, <1>1
    <2> HIDE DEF Bounded, N
    <2> QED BY <2>1, <2>2
  <1>5. \A i \in 0..N : i \in G
    <2> HIDE DEF G
    <2> QED BY <1>1, <1>3, <1>4, UpTo
  <1>6. Bounded(S)
    <2> HIDE DEF Bounded
    <2> QED BY <1>1, <1>5
  <1> QED BY <1>6

\* A batch is no larger than its size, and one that is smaller holds all the rest:
\* the LIMIT of the query and what the purge concludes from a short batch.
LEMMA ShortPage ==
  ASSUME NEW rest \in SUBSET Nat, IsFiniteSet(rest), NEW page,
         page = {d \in rest : Cardinality({x \in rest : x < d}) < BatchSize},
         Cardinality(page) # BatchSize
  PROVE  page = rest
  <1> DEFINE Below(d) == {x \in rest : x < d}
             Few == {d \in rest : Cardinality(Below(d)) < BatchSize}
  <1>1. page = Few
    OBVIOUS
  <1>2. SUFFICES ASSUME Cardinality(Few) # BatchSize PROVE Few = rest
    BY <1>1
  <1>3. BatchSize \in Nat /\ \A x \in rest : x \in Nat
    OBVIOUS
  <1>4. \A d : Below(d) \in SUBSET rest
    OBVIOUS
  <1>5. \A d, x \in rest : x \in Below(d) <=> x < d
    OBVIOUS
  <1> HIDE DEF Below
  <1>6. \A d : IsFiniteSet(Below(d)) /\ Cardinality(Below(d)) \in Nat
    BY <1>4, FS_Subset, FS_CardinalityType
  <1>7. /\ Few \in SUBSET rest
        /\ \A d \in rest : d \in Few <=> Cardinality(Below(d)) < BatchSize
    OBVIOUS
  <1> HIDE DEF Few
  <1>8. Few \in SUBSET Nat /\ IsFiniteSet(Few) /\ Cardinality(Few) \in Nat
    BY <1>7, FS_Subset, FS_CardinalityType
  <1>9. Cardinality(Few) <= BatchSize
    <2>1. CASE Few = {}
      BY <2>1, <1>3, FS_EmptySet
    <2>2. CASE Few # {}
      <3>1. PICK m \in Few : \A x \in Few : x <= m
        BY <2>2, <1>8, GreatestNat
      <3>2. Few \in SUBSET (Below(m) \cup {m})
        <4>1. ASSUME NEW x \in Few PROVE x \in Below(m) \cup {m}
          <5>1. x \in Nat /\ m \in Nat /\ x \in rest /\ m \in rest /\ x <= m
            BY <1>3, <1>7, <3>1
          <5>2. x < m \/ x = m
            BY <5>1
          <5> QED BY <5>1, <5>2, <1>5
        <4> QED BY <4>1
      <3>3. Cardinality(Below(m)) < BatchSize /\ m \notin Below(m)
        <4>1. ~(m < m)
          BY <1>8, <3>1
        <4> QED BY <4>1, <1>5, <1>7, <3>1
      <3>4. /\ IsFiniteSet(Below(m) \cup {m})
            /\ Cardinality(Below(m) \cup {m}) = Cardinality(Below(m)) + 1
        BY <3>3, <1>6, FS_AddElement
      <3>5. Cardinality(Few) <= Cardinality(Below(m) \cup {m})
        BY <3>2, <3>4, FS_Subset
      <3> QED BY <3>3, <3>4, <3>5, <1>3, <1>6, <1>8
    <2> QED BY <2>1, <2>2
  <1>10. SUFFICES ASSUME NEW e \in rest, e \notin Few PROVE FALSE
    BY <1>7
  <1> DEFINE Late == {d \in rest : d \notin Few}
  <1>11. PICK d \in Late : \A x \in Late : d <= x
    <2>1. Late \in SUBSET Nat /\ e \in Late
      BY <1>10
    <2> HIDE DEF Late
    <2> QED BY <2>1, LeastNat
  <1>12. Below(d) \in SUBSET Few
    <2>1. ASSUME NEW x \in Below(d) PROVE x \in Few
      <3>1. x \in rest /\ d \in rest /\ x \in Nat /\ d \in Nat /\ x < d
        BY <1>3, <1>4, <1>5, <1>11
      <3>2. ~(d <= x)
        BY <3>1
      <3> QED BY <3>1, <3>2, <1>11
    <2> QED BY <2>1
  <1>13. ~(Cardinality(Below(d)) < BatchSize)
    BY <1>7, <1>11
  <1>14. Cardinality(Below(d)) <= Cardinality(Few)
    BY <1>8, <1>12, FS_Subset
  <1> QED BY <1>2, <1>3, <1>6, <1>8, <1>9, <1>13, <1>14

\* The two plans.
LEMMA PlanFacts ==
  /\ LAST = 3 /\ FIRST = 1
  /\ \A code \in 1..3 : Plan[code] \in {"events", "keys", "bundles"}
  /\ transactional =>
       Plan[1] = "events" /\ Plan[2] = "keys" /\ Plan[3] = "bundles"
  /\ ~transactional =>
       Plan[1] = "events" /\ Plan[2] = "bundles" /\ Plan[3] = "keys"
  <1>1. CASE transactional
    BY <1>1 DEF Plan, LAST, FIRST
  <1>2. CASE ~transactional
    BY <1>2 DEF Plan, LAST, FIRST
  <1> QED BY <1>1, <1>2

Known == Calls \cup InitialEvents \cup {1}

\* What a batch may hold.
LEMMA PageFacts ==
  ASSUME TypeOK, NEW code \in 1..3, NEW cursor \in Nat
  PROVE  /\ Documents(code) \in SUBSET Known
         /\ Page(code, cursor) \in SUBSET Documents(code)
         /\ Page(code, cursor) \in SUBSET Known
  <1>1. Documents(code) \in SUBSET Known
    BY PlanFacts DEF Documents, TypeOK, Known
  <1>2. Page(code, cursor) \in SUBSET Documents(code)
    BY DEF Page
  <1> QED BY <1>1, <1>2

LEMMA KnownFinite == Known \in SUBSET Nat /\ IsFiniteSet(Known)
  <1>1. IsFiniteSet({1}) /\ IsFiniteSet(Calls) /\ IsFiniteSet(InitialEvents)
    BY FS_Singleton
  <1>2. IsFiniteSet(Calls \cup InitialEvents)
    BY <1>1, FS_Union
  <1>3. IsFiniteSet(Known)
    BY <1>1, <1>2, FS_Union DEF Known
  <1> QED BY <1>3 DEF Known

\* The job stays one, whatever the batch was.
LEMMA JobFacts ==
  ASSUME NEW job \in Job, NEW page \in SUBSET Known
  PROVE  /\ Stepped(job, page) \in Job /\ SecondPass(job) \in Job
         /\ \A phase \in Phases : [job EXCEPT !.phase = phase] \in Job
         /\ Stepped(job, page).phase = job.phase
         /\ Stepped(job, page).previous = job.previous
  <1>1. /\ job.phase \in Phases /\ job.previous \in Previous /\ job.code \in 1..3
        /\ job.cursor \in Nat /\ job.pass \in BOOLEAN
        /\ job = [phase |-> job.phase, previous |-> job.previous, code |-> job.code,
                  cursor |-> job.cursor, pass |-> job.pass]
    BY DEF Job
  <1>2. SecondPass(job) \in Job
    <2> DEFINE j == [job EXCEPT !.code = 1]
               k == [j EXCEPT !.cursor = 0]
    <2>1. 1 \in 1..3 /\ 0 \in Nat
      OBVIOUS
    <2>2. j \in Job
      BY <2>1 DEF Job
    <2>3. k \in Job
      <3> HIDE DEF j
      <3> QED BY <2>1, <2>2 DEF Job
    <2>4. SecondPass(job) = [k EXCEPT !.pass = TRUE]
      BY DEF SecondPass, FIRST
    <2> HIDE DEF k
    <2> QED BY <2>3, <2>4 DEF Job
  <1>3. \A phase \in Phases : [job EXCEPT !.phase = phase] \in Job
    BY DEF Job
  <1>4. CASE Cardinality(page) = BatchSize
    <2> DEFINE c == IF transactional THEN 0 ELSE Max(page)
    <2>1. page \in SUBSET Nat /\ IsFiniteSet(page)
      BY KnownFinite, FS_Subset
    <2>2. page # {}
      BY <1>4, FS_EmptySet
    <2>3. \E m \in page : \A x \in page : x <= m
      BY <2>1, <2>2, GreatestNat
    <2>4. Max(page) \in Nat
      BY <2>1, <2>3 DEF Max
    <2>5. c \in Nat
      BY <2>4
    <2>6. Stepped(job, page) = [job EXCEPT !.cursor = c]
      BY <1>4 DEF Stepped
    <2> HIDE DEF c
    <2> QED BY <1>1, <1>2, <1>3, <2>5, <2>6 DEF Job
  <1>5. CASE Cardinality(page) # BatchSize
    <2> DEFINE n == IF job.code < LAST THEN job.code + 1 ELSE job.code
    <2>1. n \in 1..3
      BY <1>1, PlanFacts
    <2>2. Stepped(job, page) = [phase |-> job.phase, previous |-> job.previous,
                                code |-> n, cursor |-> 0, pass |-> job.pass]
      <3>1. CASE job.code < LAST
        BY <1>1, <1>5, <3>1 DEF Stepped
      <3>2. CASE ~(job.code < LAST)
        BY <1>1, <1>5, <3>2 DEF Stepped
      <3> QED BY <3>1, <3>2
    <2> HIDE DEF n
    <2> QED BY <1>1, <1>2, <1>3, <2>1, <2>2 DEF Job
  <1> QED BY <1>4, <1>5

-----------------------------------------------------------------------------
(* Types *)

ShapesOK ==
    /\ jobs \in [Operations -> Job \cup {NoJob}]
    /\ request \in [Operations -> Requests]
    /\ cancel \in [Operations -> Cancels]
    /\ purger \in Purgers

\* The types of what ingest changes.
LEMMA IngestType ==
  ASSUME DeletionInv, NEW c \in Calls, Ingest(c) PROVE (TypeOK /\ ShapesOK)'
  <1>0. TypeOK /\ ShapesOK
    BY DEF DeletionInv, MemoryOK, ShapesOK
  <1> USE DEF TypeOK, ShapesOK
  <1>1. call' \in [Calls -> {"idle", "authorized", "entered", "queued", "done"}]
    BY <1>0 DEF Ingest, Authorize, TryEnter, DropCall, Insert
  <1>2. events' \subseteq Calls \cup InitialEvents
    BY <1>0 DEF Ingest, Authorize, TryEnter, DropCall, Insert
  <1> QED BY <1>0, <1>1, <1>2 DEF Ingest, Authorize, TryEnter, DropCall, Insert

\* The types of what a request changes.
LEMMA RequestType ==
  ASSUME DeletionInv, NEW o \in Operations, Request(o) PROVE (TypeOK /\ ShapesOK)'
  <1>0. TypeOK /\ ShapesOK
    BY DEF DeletionInv, MemoryOK, ShapesOK
  <1>1. /\ jobs \in [Operations -> Job \cup {NoJob}] /\ request \in [Operations -> Requests]
        /\ project \in States /\ key \in {"active", "disabled", "suspended", None}
    BY <1>0 DEF TypeOK, ShapesOK
  <1>2. \A p \in Previous : NewJob(p) \in Job
    BY DEF NewJob, Job, Phases, FIRST
  <1>3. /\ Idle \in Requests
        /\ \A p \in Previous : [at |-> "look", previous |-> p] \in Requests
                             /\ [at |-> "insert", previous |-> p] \in Requests
        /\ \A a \in {"project", "keys", "registry", "drain"} : [at |-> a] \in Requests
    BY DEF Requests
  <1>4. request[o].at \in {"look", "insert"} =>
            /\ request[o].previous \in Previous
            /\ request[o] = [at |-> request[o].at, previous |-> request[o].previous]
    BY <1>1 DEF Requests, Idle
  <1>5. ASSUME NEW r \in Requests, RequestAt(o, r),
               jobs' \in [Operations -> Job \cup {NoJob}], project' \in States,
               key' \in {"active", "disabled", "suspended", None}, fenced' \in BOOLEAN,
               UNCHANGED <<constantVars, dataVars, graceOver, purged, call, cancel, purger,
                           faults>>
        PROVE  (TypeOK /\ ShapesOK)'
    <2>1. request' \in [Operations -> Requests]
      BY <1>1, <1>5 DEF RequestAt
    <2>2. \A p \in Operations : jobs'[p] = NoJob \/ jobs'[p] \in Job
      BY <1>5
    <2> QED BY <1>0, <1>5, <2>1, <2>2 DEF TypeOK, ShapesOK
  <1>6. fenced \in BOOLEAN
    BY <1>0 DEF TypeOK
  <1>7. CASE RequestTransaction(o)
    <2>1. jobs' \in [Operations -> Job \cup {NoJob}]
      BY <1>1, <1>2, <1>7 DEF RequestTransaction, Previous
    <2>2. project' \in States /\ key' \in {"active", "disabled", "suspended", None}
      BY <1>1, <1>7 DEF RequestTransaction, States
    <2> QED BY <1>3, <1>5, <1>6, <1>7, <2>1, <2>2 DEF RequestTransaction
  <1>8. CASE ReadProject(o)
    BY <1>1, <1>3, <1>5, <1>6, <1>8 DEF ReadProject, Previous
  <1>9. CASE LookForJob(o)
    <2>1. [request[o] EXCEPT !.at = "insert"] \in Requests
      <3>1. [request[o] EXCEPT !.at = "insert"]
              = [at |-> "insert", previous |-> request[o].previous]
        BY <1>4, <1>9 DEF LookForJob
      <3> QED BY <3>1, <1>3, <1>4, <1>9 DEF LookForJob
    <2> DEFINE r == IF Active = {} THEN [request[o] EXCEPT !.at = "insert"]
                    ELSE IF o \in Active THEN [at |-> "project"] ELSE Idle
    <2>2. r \in Requests
      BY <2>1, <1>3
    <2>3. RequestAt(o, r)
      BY <1>9 DEF LookForJob
    <2> HIDE DEF r
    <2> QED BY <1>1, <1>5, <1>6, <1>9, <2>2, <2>3 DEF LookForJob
  <1>10. CASE InsertJob(o)
    <2>1. NewJob(request[o].previous) \in Job
      BY <1>2, <1>4, <1>10 DEF InsertJob
    <2>2. jobs' \in [Operations -> Job \cup {NoJob}]
      BY <2>1, <1>1, <1>10 DEF InsertJob
    <2>3. \E r \in Requests : RequestAt(o, r)
      BY <1>3, <1>10 DEF InsertJob
    <2> QED BY <1>1, <1>5, <1>6, <1>10, <2>2, <2>3 DEF InsertJob
  <1>11. CASE FenceProject(o)
    BY <1>1, <1>3, <1>5, <1>6, <1>11 DEF FenceProject, States
  <1>12. CASE FenceKeys(o)
    BY <1>1, <1>3, <1>5, <1>6, <1>12 DEF FenceKeys
  <1>13. CASE FenceRegistry(o)
    BY <1>1, <1>3, <1>5, <1>13 DEF FenceRegistry
  <1>14. CASE Drained(o)
    BY <1>1, <1>3, <1>5, <1>6, <1>14 DEF Drained
  <1> QED BY <1>7, <1>8, <1>9, <1>10, <1>11, <1>12, <1>13, <1>14 DEF Request

\* The types of what a cancellation changes.
LEMMA CancelType ==
  ASSUME DeletionInv, NEW o \in Operations, Cancel(o) PROVE (TypeOK /\ ShapesOK)'
  <1>0. TypeOK /\ ShapesOK
    BY DEF DeletionInv, MemoryOK, ShapesOK
  <1>1. /\ jobs \in [Operations -> Job \cup {NoJob}] /\ cancel \in [Operations -> Cancels]
        /\ project \in States /\ key \in {"active", "disabled", "suspended", None}
        /\ fenced \in BOOLEAN
    BY <1>0 DEF TypeOK, ShapesOK
  <1>2. jobs[o].phase = "pending_grace" =>
            /\ jobs[o] \in Job /\ jobs[o].previous \in Previous
            /\ [jobs[o] EXCEPT !.phase = "cancelled"] \in Job
    BY <1>1 DEF NoJob, Job, Phases
  <1>3. /\ Idle \in Cancels
        /\ \A p \in Previous : [at |-> "project", previous |-> p] \in Cancels
        /\ \A a \in {"keys", "job", "unfence"} : [at |-> a] \in Cancels
    BY DEF Cancels
  <1>4. cancel[o].at = "project" => cancel[o].previous \in Previous
    BY <1>1 DEF Cancels, Idle
  <1>5. ASSUME NEW r \in Cancels, CancelAt(o, r),
               jobs' \in [Operations -> Job \cup {NoJob}], project' \in States,
               key' \in {"active", "disabled", "suspended", None}, fenced' \in BOOLEAN,
               UNCHANGED <<constantVars, dataVars, graceOver, purged, call, request, purger,
                           faults>>
        PROVE  (TypeOK /\ ShapesOK)'
    <2>1. cancel' \in [Operations -> Cancels]
      BY <1>1, <1>5 DEF CancelAt
    <2>2. \A p \in Operations : jobs'[p] = NoJob \/ jobs'[p] \in Job
      BY <1>5
    <2> QED BY <1>0, <1>5, <2>1, <2>2 DEF TypeOK, ShapesOK
  <1>6. ASSUME jobs[o].phase = "pending_grace",
               jobs' = [jobs EXCEPT ![o].phase = "cancelled"]
        PROVE  jobs' \in [Operations -> Job \cup {NoJob}]
    <2>1. jobs' = [jobs EXCEPT ![o] = [jobs[o] EXCEPT !.phase = "cancelled"]]
      BY <1>6
    <2> QED BY <2>1, <1>1, <1>2, <1>6
  <1>7. CASE CancelTransaction(o)
    <2>1. jobs' \in [Operations -> Job \cup {NoJob}]
      BY <1>6, <1>7 DEF CancelTransaction
    <2>2. project' \in States /\ key' \in {"active", "disabled", "suspended", None}
      BY <1>1, <1>2, <1>7 DEF CancelTransaction, Restored, Resumed, Previous, States
    <2> QED BY <1>1, <1>3, <1>5, <1>7, <2>1, <2>2 DEF CancelTransaction
  <1>8. CASE ReadJob(o)
    BY <1>1, <1>2, <1>3, <1>5, <1>8 DEF ReadJob
  <1>9. CASE RestoreProject(o)
    BY <1>1, <1>3, <1>4, <1>5, <1>9 DEF RestoreProject, Restored, Previous, States
  <1>10. CASE ResumeKeys(o)
    BY <1>1, <1>3, <1>5, <1>10 DEF ResumeKeys, Resumed
  <1>11. CASE CancelJob(o)
    <2>1. jobs' \in [Operations -> Job \cup {NoJob}]
      BY <1>1, <1>6, <1>11 DEF CancelJob
    <2>2. \E r \in Cancels : CancelAt(o, r)
      BY <1>3, <1>11 DEF CancelJob
    <2> QED BY <1>1, <1>5, <1>11, <2>1, <2>2 DEF CancelJob
  <1>12. CASE Unfence(o)
    BY <1>1, <1>3, <1>5, <1>12 DEF Unfence
  <1> QED BY <1>7, <1>8, <1>9, <1>10, <1>11, <1>12 DEF Cancel

\* What the removal of a batch leaves of the types.
LEMMA RemoveFacts ==
  ASSUME TypeOK, NEW code \in 1..3, NEW page, RemoveBatch(code, page)
  PROVE  /\ events' \subseteq events
         /\ key' \in {key, None} /\ key' \in {"active", "disabled", "suspended", None}
         /\ bundle' \in {bundle, "orphaned"} /\ bundle' \in {"bound", "orphaned", "gone"}
  BY DEF RemoveBatch, TypeOK

\* The types of what the purge changes.
LEMMA PurgeType ==
  ASSUME DeletionInv, Purge PROVE (TypeOK /\ ShapesOK)'
  <1>0. TypeOK /\ ShapesOK
    BY DEF DeletionInv, MemoryOK, ShapesOK
  <1>1. /\ jobs \in [Operations -> Job \cup {NoJob}] /\ purger \in Purgers
        /\ project \in States /\ key \in {"active", "disabled", "suspended", None}
        /\ events \subseteq Calls \cup InitialEvents /\ purged \subseteq Operations
        /\ bundle \in {"bound", "orphaned", "gone"}
    BY <1>0 DEF TypeOK, ShapesOK
  <1>2. \A o \in Operations : jobs[o].phase \in Phases =>
            jobs[o] \in Job /\ jobs[o].code \in 1..3 /\ jobs[o].cursor \in Nat
    BY <1>1 DEF NoJob, Job, Phases
  <1>3. ASSUME jobs' \in [Operations -> Job \cup {NoJob}], purger' \in Purgers,
               project' \in States, key' \in {"active", "disabled", "suspended", None},
               events' \subseteq Calls \cup InitialEvents, purged' \subseteq Operations,
               bundle' \in {"bound", "orphaned", "gone"},
               UNCHANGED <<constantVars, slug, graceOver, fenced, call, request, cancel,
                           faults>>
        PROVE  (TypeOK /\ ShapesOK)'
    <2>1. \A p \in Operations : jobs'[p] = NoJob \/ jobs'[p] \in Job
      BY <1>3
    <2> QED BY <1>0, <1>3, <2>1 DEF TypeOK, ShapesOK
  <1>4. /\ Idle \in Purgers
        /\ purger.at \in {"project", "job", "batch"} =>
             purger \in [at : {"project", "job", "batch"}, op : Operations, code : 1..3,
                        cursor : Nat]
        /\ purger.at \in {"cursor", "advance", "complete"} =>
             purger \in [at : {"cursor", "advance", "complete"}, op : Operations,
                        code : 1..3, page : SUBSET Known]
    BY <1>1 DEF Purgers, Idle, Known
  <1>5. \A o \in Active : o \in Operations /\ jobs[o].phase \in Phases
    BY DEF Active, Phases
  <1>6. ASSUME NEW o \in Operations, PurgeTransaction(o) PROVE (TypeOK /\ ShapesOK)'
    <2> DEFINE job == [jobs[o] EXCEPT !.phase = "purging"]
               page == Page(job.code, 0)
    <2>1. jobs[o] \in Job
      BY <1>2, <1>6 DEF PurgeTransaction, Due, Phases
    <2>2. job \in Job /\ job.code \in 1..3
      BY <2>1 DEF Job, Phases
    <2>3. page \in SUBSET Known
      <3> HIDE DEF job
      <3> QED BY <1>0, <2>2, PageFacts
    <2>4. RemoveBatch(job.code, page)
      BY <1>6 DEF PurgeTransaction
    <2>5. \/ jobs' = [jobs EXCEPT ![o] = Stepped(job, page)]
          \/ jobs' = [jobs EXCEPT ![o] = SecondPass(job)]
          \/ jobs' = [jobs EXCEPT ![o] = [job EXCEPT !.phase = "deleted"]]
      BY <1>6 DEF PurgeTransaction
    <2>6. /\ project' \in {"deleted", "purging"} /\ purged' \in {purged, purged \cup {o}}
          /\ UNCHANGED <<constantVars, slug, graceOver, fenced, call, request, cancel,
                         purger, faults>>
      BY <1>6 DEF PurgeTransaction
    <2> HIDE DEF job, page
    <2>7. jobs' \in [Operations -> Job \cup {NoJob}]
      BY <1>1, <2>2, <2>3, <2>5, JobFacts DEF Phases
    <2>8. /\ events' \subseteq events /\ key' \in {"active", "disabled", "suspended", None}
          /\ bundle' \in {"bound", "orphaned", "gone"}
      BY <1>0, <2>2, <2>4, RemoveFacts
    <2> QED BY <1>1, <1>3, <2>6, <2>7, <2>8 DEF States
  <1>7. ASSUME NEW o \in Operations, FindJob(o) PROVE (TypeOK /\ ShapesOK)'
    <2>1. jobs[o].code \in 1..3 /\ jobs[o].cursor \in Nat
      BY <1>2, <1>7 DEF FindJob, Due, Phases
    <2>2. purger' \in Purgers
      BY <1>7, <2>1 DEF FindJob, Purgers
    <2> QED BY <1>1, <1>3, <1>7, <2>2 DEF FindJob
  <1>8. CASE MarkProject
    <2>1. purger' \in Purgers
      BY <1>4, <1>8 DEF MarkProject, Purgers
    <2> QED BY <1>1, <1>3, <1>8, <2>1 DEF MarkProject, States
  <1>9. CASE MarkJob
    <2>1. purger' \in Purgers /\ purger.op \in Operations
      BY <1>4, <1>9 DEF MarkJob, Purgers
    <2>2. \A o \in Operations : jobs[o].phase = "pending_grace" =>
              [jobs[o] EXCEPT !.phase = "purging"] \in Job
      BY <1>2 DEF Job, Phases
    <2>3. jobs' \in [Operations -> Job \cup {NoJob}]
      BY <1>1, <1>9, <2>1, <2>2 DEF MarkJob
    <2> QED BY <1>1, <1>3, <1>9, <2>1, <2>3 DEF MarkJob
  <1>10. CASE PurgeBatch
    <2> DEFINE page == Page(purger.code, purger.cursor)
    <2>1. purger.code \in 1..3 /\ purger.cursor \in Nat /\ purger.op \in Operations
      BY <1>4, <1>10 DEF PurgeBatch
    <2>2. page \in SUBSET Known
      BY <1>0, <2>1, PageFacts
    <2>3. /\ RemoveBatch(purger.code, page)
          /\ purged' \in {purged, purged \cup {purger.op}}
          /\ purger' = [at |-> "cursor", op |-> purger.op, code |-> purger.code,
                        page |-> page]
      BY <1>10 DEF PurgeBatch
    <2> HIDE DEF page
    <2>4. purger' \in Purgers
      BY <2>1, <2>2, <2>3 DEF Purgers, Known
    <2>5. /\ events' \subseteq events /\ key' \in {"active", "disabled", "suspended", None}
          /\ bundle' \in {"bound", "orphaned", "gone"}
      BY <1>0, <2>1, <2>3, RemoveFacts
    <2>6. purged' \subseteq Operations
      BY <1>1, <2>1, <2>3
    <2>7. UNCHANGED <<constantVars, project, slug, jobs, graceOver, fenced, call, request,
                      cancel, faults>>
      BY <1>10 DEF PurgeBatch
    <2> QED BY <1>1, <1>3, <2>4, <2>5, <2>6, <2>7
  <1>11. CASE PersistCursor
    <2>1. purger \in [at : {"cursor", "advance", "complete"}, op : Operations, code : 1..3,
                     page : SUBSET Known]
      BY <1>4, <1>11 DEF PersistCursor
    <2>2. \A o \in Active : Stepped(jobs[o], purger.page) \in Job
      BY <1>2, <1>5, <2>1, JobFacts
    <2>3. jobs' \in [Operations -> Job \cup {NoJob}]
      BY <1>1, <1>11, <2>2 DEF PersistCursor
    <2>4. purger' \in Purgers
      BY <1>4, <1>11, <2>1 DEF PersistCursor, Purgers, Known
    <2> QED BY <1>1, <1>3, <1>11, <2>3, <2>4 DEF PersistCursor
  <1>12. CASE Advance
    <2>1. purger \in [at : {"cursor", "advance", "complete"}, op : Operations, code : 1..3,
                     page : SUBSET Known]
      BY <1>4, <1>12 DEF Advance
    <2>2. [purger EXCEPT !.at = "complete"] \in Purgers
      BY <2>1 DEF Purgers, Known
    <2>3. purger' \in Purgers
      BY <1>4, <1>12, <2>2 DEF Advance
    <2>4. \A o \in Active : SecondPass(jobs[o]) \in Job
      BY <1>2, <1>5, JobFacts
    <2>5. jobs' = jobs \/ \E o \in Active : jobs' = [jobs EXCEPT ![o] = SecondPass(@)]
      BY <1>12 DEF Advance
    <2>6. jobs' \in [Operations -> Job \cup {NoJob}]
      BY <1>1, <1>5, <2>4, <2>5
    <2>7. project' \in {project, "deleted"}
      BY <1>12 DEF Advance
    <2>8. UNCHANGED <<constantVars, key, dataVars, graceOver, purged, fenced, call, request,
                      cancel, faults>>
      BY <1>12 DEF Advance
    <2> QED BY <1>1, <1>3, <2>3, <2>6, <2>7, <2>8 DEF States
  <1>13. CASE CompleteJob
    <2>1. purger.op \in Operations
      BY <1>4, <1>13 DEF CompleteJob
    <2>2. \A j \in Job : [j EXCEPT !.phase = "deleted"] \in Job
      BY DEF Job, Phases
    <2>3. jobs[purger.op] \in Job
      BY <1>1, <1>13, <2>1 DEF CompleteJob, DeletionInv, MemoryOK, Idle
    <2>4. jobs' \in [Operations -> Job \cup {NoJob}]
      BY <1>1, <1>13, <2>1, <2>2, <2>3 DEF CompleteJob
    <2> QED BY <1>1, <1>3, <1>4, <1>13, <2>4 DEF CompleteJob
  <1> QED BY <1>6, <1>7, <1>8, <1>9, <1>10, <1>11, <1>12, <1>13 DEF Purge

\* The types of the rest: time, retention, collection and faults.
LEMMA OthersType ==
  ASSUME DeletionInv,
         \/ \E o \in Operations : GracePasses(o) \/ ExpireJob(o) \/ AbandonCommand(o)
         \/ ReleaseSlug \/ CollectBundle \/ AbandonPurge \/ Crash \/ UNCHANGED vars
  PROVE  (TypeOK /\ ShapesOK)'
  <1>0. TypeOK /\ ShapesOK
    BY DEF DeletionInv, MemoryOK, ShapesOK
  <1> USE DEF TypeOK, ShapesOK
  <1>1. Idle \in Requests /\ Idle \in Cancels /\ Idle \in Purgers
    BY DEF Requests, Cancels, Purgers
  <1>2. ASSUME NEW o \in Operations, GracePasses(o) PROVE (TypeOK /\ ShapesOK)'
    BY <1>0, <1>2 DEF GracePasses
  <1>3. ASSUME NEW o \in Operations, ExpireJob(o) PROVE (TypeOK /\ ShapesOK)'
    <2>1. jobs' \in [Operations -> Job \cup {NoJob}]
      BY <1>0, <1>3 DEF ExpireJob
    <2>2. graceOver' \subseteq Operations /\ purged' \subseteq Operations
      BY <1>0, <1>3 DEF ExpireJob
    <2>3. \A p \in Operations : jobs'[p] = NoJob \/ jobs'[p] \in Job
      BY <2>1
    <2> QED BY <1>0, <1>3, <2>1, <2>2, <2>3 DEF ExpireJob
  <1>4. ASSUME NEW o \in Operations, AbandonCommand(o) PROVE (TypeOK /\ ShapesOK)'
    <2>1. request' \in [Operations -> Requests] /\ cancel' \in [Operations -> Cancels]
      BY <1>0, <1>1, <1>4 DEF AbandonCommand, RequestAt, CancelAt
    <2> QED BY <1>0, <1>4, <2>1 DEF AbandonCommand, Fault
  <1>5. CASE ReleaseSlug \/ CollectBundle
    BY <1>0, <1>5 DEF ReleaseSlug, CollectBundle
  <1>6. CASE AbandonPurge
    BY <1>0, <1>1, <1>6 DEF AbandonPurge, Fault
  <1>7. CASE Crash
    <2>1. call' \in [Calls -> {"idle", "authorized", "entered", "queued", "done"}]
      BY <1>0, <1>7 DEF Crash
    <2>2. request' \in [Operations -> Requests] /\ cancel' \in [Operations -> Cancels]
      BY <1>1, <1>7 DEF Crash
    <2>3. faults' \in 0..MaxFaults
      <3>1. faults \in 0..MaxFaults
        BY <1>0
      <3> QED BY <3>1, <1>7 DEF Crash, Fault
    <2>4. fenced' \in BOOLEAN /\ purger' \in Purgers
      BY <1>1, <1>7 DEF Crash
    <2>5. UNCHANGED <<constantVars, project, key, dataVars, jobVars>>
      BY <1>7 DEF Crash
    <2> QED BY <1>0, <2>1, <2>2, <2>3, <2>4, <2>5
  <1>8. CASE UNCHANGED vars
    BY <1>0, <1>8 DEF vars
  <1> QED BY <1>2, <1>3, <1>4, <1>5, <1>6, <1>7, <1>8

\* The worker's job does not expire under it.
LEMMA JobStep ==
  ASSUME DeletionInv, [Next]_vars, ShapesOK'
  PROVE  (purger # Idle => jobs[purger.op] # NoJob)'
  <1>0. /\ jobs \in [Operations -> Job \cup {NoJob}] /\ purger \in Purgers
        /\ purger # Idle => jobs[purger.op] # NoJob
    BY DEF DeletionInv, MemoryOK
  <1>1. \A j \in Job : j # NoJob /\ j.phase \in Phases
    BY DEF Job, NoJob, Phases
  <1>2. purger # Idle => purger.op \in Operations
    BY <1>0 DEF Purgers
  <1>3. CASE purger' = Idle
    BY <1>3
  <1>4. ASSUME \A o \in Operations : jobs[o] # NoJob => jobs'[o] # NoJob,
               purger' = purger \/ (purger # Idle /\ purger'.op = purger.op)
        PROVE  (purger # Idle => jobs[purger.op] # NoJob)'
    BY <1>0, <1>2, <1>4
  <1>5. CASE UNCHANGED <<jobs, purger>>
    BY <1>0, <1>5
  <1>6. ASSUME NEW o \in Operations, Request(o) PROVE (purger # Idle => jobs[purger.op] # NoJob)'
    <2>1. \A r : NewJob(r) # NoJob
      BY DEF NewJob, NoJob
    <2>2. \A p \in Operations : jobs[p] # NoJob => jobs'[p] # NoJob
      BY <1>0, <1>6, <2>1
         DEF Request, RequestTransaction, ReadProject, LookForJob, InsertJob, FenceProject,
             FenceKeys, FenceRegistry, Drained
    <2>3. purger' = purger
      BY <1>6 DEF Request, RequestTransaction, ReadProject, LookForJob, InsertJob,
         FenceProject, FenceKeys, FenceRegistry, Drained
    <2> QED BY <1>4, <2>2, <2>3
  <1>7. ASSUME NEW o \in Operations, Cancel(o) PROVE (purger # Idle => jobs[purger.op] # NoJob)'
    <2>1. \/ jobs' = jobs
          \/ /\ jobs[o].phase = "pending_grace"
             /\ jobs' = [jobs EXCEPT ![o] = [jobs[o] EXCEPT !.phase = "cancelled"]]
      BY <1>7 DEF Cancel, CancelTransaction, ReadJob, RestoreProject, ResumeKeys,
         CancelJob, Unfence
    <2>2. jobs[o].phase = "pending_grace" => [jobs[o] EXCEPT !.phase = "cancelled"] \in Job
      BY <1>0 DEF Job, Phases, NoJob
    <2>3. \A p \in Operations : jobs[p] # NoJob => jobs'[p] # NoJob
      BY <1>0, <1>1, <2>1, <2>2
    <2>4. purger' = purger
      BY <1>7 DEF Cancel, CancelTransaction, ReadJob, RestoreProject, ResumeKeys,
         CancelJob, Unfence
    <2> QED BY <1>4, <2>3, <2>4
  <1>8. ASSUME NEW o \in Operations, PurgeTransaction(o)
        PROVE  (purger # Idle => jobs[purger.op] # NoJob)'
    BY <1>3, <1>8 DEF PurgeTransaction, DeletionInv, TransactionalInv, TransactionsOnly
  <1>9. ASSUME NEW o \in Operations, FindJob(o)
        PROVE  (purger # Idle => jobs[purger.op] # NoJob)'
    <2>1. jobs[o] # NoJob
      BY <1>9 DEF FindJob, Due, NoJob
    <2> QED BY <1>9, <2>1 DEF FindJob
  <1>10. CASE MarkProject
    <2>1. purger'.op = purger.op /\ purger # Idle /\ jobs' = jobs
      BY <1>0, <1>10 DEF MarkProject, Purgers, Idle
    <2> QED BY <1>4, <2>1
  <1>11. CASE MarkJob
    <2>1. purger'.op = purger.op /\ purger # Idle
      BY <1>0, <1>11 DEF MarkJob, Purgers, Idle
    <2>2. \A o \in Operations : jobs[o].phase = "pending_grace" =>
              [jobs[o] EXCEPT !.phase = "purging"] \in Job
      BY <1>0 DEF Job, Phases, NoJob
    <2>3. \A p \in Operations : jobs[p] # NoJob => jobs'[p] # NoJob
      BY <1>0, <1>1, <1>2, <1>11, <2>1, <2>2 DEF MarkJob
    <2> QED BY <1>4, <2>1, <2>3
  <1>12. CASE PurgeBatch
    <2>1. purger'.op = purger.op /\ purger # Idle /\ jobs' = jobs
      BY <1>12 DEF PurgeBatch, Idle
    <2> QED BY <1>4, <2>1
  <1>13. CASE PersistCursor
    <2>1. purger \in [at : {"cursor", "advance", "complete"}, op : Operations, code : 1..3,
                     page : SUBSET Known]
      BY <1>0, <1>13 DEF PersistCursor, Purgers, Idle, Known
    <2>2. purger' = Idle \/ purger'.op = purger.op
      BY <1>13, <2>1 DEF PersistCursor
    <2>3. \A o \in Active : jobs[o] \in Job
      BY <1>0 DEF Active, NoJob
    <2>4. \A o \in Active : Stepped(jobs[o], purger.page) \in Job
      BY <2>1, <2>3, JobFacts
    <2>5. \A p \in Operations : jobs[p] # NoJob => jobs'[p] # NoJob
      BY <1>1, <1>13, <2>4 DEF PersistCursor
    <2>6. purger # Idle
      BY <1>13 DEF PersistCursor, Idle
    <2> QED BY <1>3, <1>4, <2>2, <2>5, <2>6
  <1>14. CASE Advance
    <2>1. purger' = Idle \/ (purger'.op = purger.op /\ jobs' = jobs)
      <3>1. purger \in [at : {"cursor", "advance", "complete"}, op : Operations,
                       code : 1..3, page : SUBSET Known]
        BY <1>0, <1>14 DEF Advance, Purgers, Idle, Known
      <3> QED BY <1>14, <3>1 DEF Advance
    <2>2. purger # Idle
      BY <1>14 DEF Advance, Idle
    <2> QED BY <1>3, <1>4, <2>1, <2>2
  <1>15. CASE \E o \in Operations : GracePasses(o) \/ ExpireJob(o) \/ AbandonCommand(o)
    BY <1>3, <1>5, <1>15 DEF GracePasses, ExpireJob, AbandonCommand
  <1> QED BY <1>3, <1>5, <1>6, <1>7, <1>8, <1>9, <1>10, <1>11, <1>12, <1>13, <1>14, <1>15
          DEF Next, vars, Ingest, Authorize, TryEnter, DropCall, Insert, Purge, CompleteJob,
              ReleaseSlug, CollectBundle, AbandonPurge, Crash

\* The types are kept by every step.
LEMMA TypeStep ==
  ASSUME DeletionInv, [Next]_vars PROVE (TypeOK /\ MemoryOK)'
  <1>1. (TypeOK /\ ShapesOK)'
    BY IngestType, RequestType, CancelType, PurgeType, OthersType DEF Next
  <1> QED BY <1>1, JobStep DEF ShapesOK, MemoryOK

-----------------------------------------------------------------------------
(* PostgreSQL *)

\* A batch that is not full holds all that was left of its dataset.
LEMMA FullOrAll ==
  ASSUME TypeOK, NEW code \in 1..3, Cardinality(Page(code, 0)) # BatchSize
  PROVE  Page(code, 0) = Documents(code)
  <1>1. Documents(code) \in SUBSET Known
    BY PageFacts
  <1>2. \A d \in Known : d \in Nat /\ d > 0
    BY DEF Known
  <1>3. {d \in Documents(code) : d > 0} = Documents(code)
    BY <1>1, <1>2
  <1>4. Documents(code) \in SUBSET Nat /\ IsFiniteSet(Documents(code))
    BY <1>1, KnownFinite, FS_Subset
  <1>5. Page(code, 0) = {d \in Documents(code) :
                           Cardinality({x \in Documents(code) : x < d}) < BatchSize}
    BY <1>3 DEF Page
  <1> QED BY <1>4, <1>5, ShortPage

\* Nothing PostgreSQL's commands and purge look at changes.
LEMMA Untouched ==
  ASSUME TransactionalInv, TransactionsOnly',
         UNCHANGED <<constantVars, project, key, events, bundle, jobs, purged>>
  PROVE  TransactionalInv'
  <1>1. Active' = Active
    BY DEF Active
  <1>2. UntouchedWithout' /\ OnlyFencedInGrace'
    BY <1>1 DEF TransactionalInv, UntouchedWithout, OnlyFencedInGrace
  <1>3. PurgedSoFar' /\ PurgedByPurge' /\ TombstoneIsLast'
    BY DEF TransactionalInv, PurgedSoFar, PurgedByPurge, TombstoneIsLast
  <1> QED BY <1>1, <1>2, <1>3 DEF TransactionalInv

\* A call that was admitted before the fence writes nothing behind it.
LEMMA IngestInv ==
  ASSUME DeletionInv, transactional, NEW c \in Calls, Ingest(c) PROVE TransactionalInv'
  <1>0. TypeOK /\ TransactionalInv
    BY DEF DeletionInv
  <1>1. UNCHANGED <<constantVars, project, key, bundle, jobs, purged, request, cancel, purger>>
    BY DEF Ingest, Authorize, TryEnter, DropCall, Insert
  <1>2. TransactionsOnly' /\ Active' = Active
    BY <1>0, <1>1 DEF TransactionalInv, TransactionsOnly, Active
  <1>3. project \notin {"active", "disabled"} => events' = events
    BY DEF Ingest, Authorize, TryEnter, DropCall, Insert
  <1>4. UntouchedWithout' /\ OnlyFencedInGrace'
    BY <1>0, <1>1, <1>2 DEF TransactionalInv, UntouchedWithout, OnlyFencedInGrace
  <1>5. PurgedSoFar' /\ PurgedByPurge' /\ TombstoneIsLast'
    BY <1>0, <1>1, <1>3 DEF TransactionalInv, PurgedSoFar, PurgedByPurge,
       TombstoneIsLast
  <1> QED BY <1>0, <1>1, <1>2, <1>4, <1>5 DEF TransactionalInv

\* A request fences a project that no other deletion has touched.
LEMMA RequestInv ==
  ASSUME DeletionInv, transactional, NEW o \in Operations, Request(o)
  PROVE  TransactionalInv'
  <1>0. /\ TypeOK /\ TransactionalInv /\ jobs \in [Operations -> Job \cup {NoJob}]
        /\ request \in [Operations -> Requests]
    BY DEF DeletionInv, MemoryOK
  <1>1. /\ purger = Idle /\ request[o].at \in {"idle", "registry", "drain"}
        /\ \A p \in Operations : request[p].at \in {"idle", "registry", "drain"}
        /\ \A p \in Operations : cancel[p].at \in {"idle", "unfence"}
    BY <1>0 DEF TransactionalInv, TransactionsOnly
  <1>2. RequestTransaction(o) \/ FenceRegistry(o) \/ Drained(o)
    BY <1>1 DEF Request, ReadProject, LookForJob, InsertJob, FenceProject, FenceKeys
  <1>3. TransactionsOnly'
    <2>1. \E a \in {"idle", "registry", "drain"} : RequestAt(o, [at |-> a])
      BY <1>2 DEF RequestTransaction, FenceRegistry, Drained, Idle
    <2>2. UNCHANGED <<cancel, purger>>
      BY <1>2 DEF RequestTransaction, FenceRegistry, Drained
    <2> QED BY <1>0, <1>1, <2>1, <2>2 DEF RequestAt, TransactionsOnly
  <1>4. CASE UNCHANGED <<constantVars, project, key, events, bundle, jobs, purged>>
    BY <1>0, <1>3, <1>4, Untouched
  <1>5. CASE FenceRegistry(o) \/ Drained(o)
    BY <1>4, <1>5 DEF FenceRegistry, Drained
  <1>6. ASSUME RequestTransaction(o), jobs[o] = NoJob, Active = {},
               project \in {"active", "disabled"},
               jobs' = [jobs EXCEPT ![o] = NewJob(project)], project' = "pending_delete",
               key' = IF key = "active" THEN "suspended" ELSE key
        PROVE  TransactionalInv'
    <2>1. project = original.project /\ key = original.key
      BY <1>0, <1>6 DEF TransactionalInv, UntouchedWithout
    <2>2. /\ jobs'[o] = NewJob(project) /\ jobs'[o].phase = "pending_grace"
          /\ \A p \in Operations : p # o => jobs'[p] = jobs[p]
      BY <1>0, <1>6 DEF NewJob
    <2>3. Active' = {o}
      BY <1>6, <2>2 DEF Active
    <2>4. UNCHANGED <<constantVars, events, bundle, purged>>
      BY <1>6 DEF RequestTransaction
    <2>5. \A p \in Operations : p # o => jobs'[p].phase \notin {"pending_grace", "purging"}
      BY <1>6, <2>2 DEF Active
    <2>6. OnlyFencedInGrace'
      BY <1>6, <2>1, <2>2, <2>4, <2>5 DEF OnlyFencedInGrace, NewJob
    <2>7. PurgedSoFar' /\ UntouchedWithout' /\ TombstoneIsLast'
      BY <1>6, <2>2, <2>3, <2>5 DEF PurgedSoFar, UntouchedWithout, TombstoneIsLast
    <2>8. PurgedByPurge'
      <3>1. o \notin purged
        BY <1>0, <1>6 DEF TransactionalInv, PurgedByPurge, NoJob
      <3> QED BY <1>0, <2>2, <2>4, <3>1
              DEF TransactionalInv, PurgedByPurge, TypeOK
    <2> QED BY <1>3, <1>6, <2>3, <2>6, <2>7, <2>8 DEF TransactionalInv
  <1> QED BY <1>2, <1>4, <1>5, <1>6 DEF RequestTransaction

\* A cancellation undoes the fence, which is all there was.
LEMMA CancelInv ==
  ASSUME DeletionInv, transactional, NEW o \in Operations, Cancel(o)
  PROVE  TransactionalInv'
  <1>0. /\ TypeOK /\ TransactionalInv /\ jobs \in [Operations -> Job \cup {NoJob}]
        /\ cancel \in [Operations -> Cancels]
    BY DEF DeletionInv, MemoryOK
  <1>1. /\ purger = Idle /\ cancel[o].at \in {"idle", "unfence"}
        /\ \A p \in Operations : request[p].at \in {"idle", "registry", "drain"}
        /\ \A p \in Operations : cancel[p].at \in {"idle", "unfence"}
    BY <1>0 DEF TransactionalInv, TransactionsOnly
  <1>2. CancelTransaction(o) \/ Unfence(o)
    BY <1>1 DEF Cancel, ReadJob, RestoreProject, ResumeKeys, CancelJob
  <1>3. TransactionsOnly'
    <2>1. \E a \in {"idle", "unfence"} : CancelAt(o, [at |-> a])
      BY <1>2 DEF CancelTransaction, Unfence, Idle
    <2>2. UNCHANGED <<request, purger>>
      BY <1>2 DEF CancelTransaction, Unfence
    <2> QED BY <1>0, <1>1, <2>1, <2>2 DEF CancelAt, TransactionsOnly
  <1>4. CASE Unfence(o)
    BY <1>0, <1>3, <1>4, Untouched DEF Unfence
  <1>5. CASE CancelTransaction(o)
    <2>1. /\ jobs[o].phase = "pending_grace" /\ project' = Restored(jobs[o].previous)
          /\ key' = Resumed /\ jobs' = [jobs EXCEPT ![o] = [@ EXCEPT !.phase = "cancelled"]]
          /\ UNCHANGED <<constantVars, events, bundle, purged>>
      BY <1>5 DEF CancelTransaction
    <2>2. /\ project = "pending_delete" /\ jobs[o] = NewJob(original.project)
          /\ key = IF original.key = "active" THEN "suspended" ELSE original.key
      BY <1>0, <2>1 DEF TransactionalInv, OnlyFencedInGrace
    <2>3. original.key \in {"active", "disabled"}
      BY <1>0 DEF TypeOK
    <2>4. project' = original.project /\ key' = original.key
      BY <2>1, <2>2, <2>3 DEF Restored, Resumed, NewJob
    <2>5. /\ jobs'[o].phase = "cancelled"
          /\ \A p \in Operations : p # o => jobs'[p] = jobs[p]
      BY <1>0, <2>1, <2>2 DEF NewJob
    <2>6. \A p \in Operations : jobs'[p].phase \notin {"pending_grace", "purging"}
      <3>1. o \in Active /\ \A p \in Active : p = o
        BY <1>0, <2>1 DEF TransactionalInv, Active
      <3> QED BY <3>1, <2>5 DEF Active
    <2>7. Active' = {}
      BY <2>6 DEF Active
    <2>8. UntouchedWithout' /\ OnlyFencedInGrace' /\ PurgedSoFar'
      BY <2>1, <2>4, <2>6 DEF UntouchedWithout, OnlyFencedInGrace, PurgedSoFar
    <2>9. PurgedByPurge'
      <3>1. o \notin purged
        BY <1>0, <2>1 DEF TransactionalInv, PurgedByPurge
      <3> QED BY <1>0, <2>1, <2>5, <3>1 DEF TransactionalInv, PurgedByPurge, TypeOK
    <2>10. TombstoneIsLast'
      BY <1>0, <2>4 DEF TombstoneIsLast, TypeOK
    <2> QED BY <1>3, <2>7, <2>8, <2>9, <2>10 DEF TransactionalInv
  <1> QED BY <1>2, <1>4, <1>5

\* A step of the purge: what is removed stays so, a batch that is not full ends its
\* dataset, and the tombstone comes when all of them have ended twice.
LEMMA PurgeInv ==
  ASSUME DeletionInv, transactional, NEW o \in Operations, PurgeTransaction(o)
  PROVE  TransactionalInv'
  <1>0. TypeOK /\ TransactionalInv /\ jobs \in [Operations -> Job \cup {NoJob}]
    BY DEF DeletionInv, MemoryOK
  <1> DEFINE job == [jobs[o] EXCEPT !.phase = "purging"]
             code == job.code
             page == Page(code, 0)
             full == Cardinality(page) = BatchSize
             done == ~full /\ PassDone(job, code, bundle')
  <1>1. /\ Due(o) /\ RemoveBatch(code, page)
        /\ purged' = IF page = {} THEN purged ELSE purged \cup {o}
        /\ project' = IF done /\ job.pass THEN "deleted" ELSE "purging"
        /\ jobs' = [jobs EXCEPT ![o] = IF ~done THEN Stepped(job, page)
                                       ELSE IF ~job.pass THEN SecondPass(job)
                                       ELSE [job EXCEPT !.phase = "deleted"]]
        /\ UNCHANGED <<constantVars, slug, graceOver, memoryVars, faults>>
    BY DEF PurgeTransaction
  <1>2. o \in Active /\ jobs[o] \in Job /\ \A p \in Active : p = o
    BY <1>0, <1>1 DEF Due, Active, TransactionalInv, NoJob
  <1>3. /\ job \in Job /\ job.phase = "purging" /\ code \in 1..3 /\ job.cursor = 0
        /\ code > 1 \/ job.pass => events = {}
        /\ code > 2 \/ job.pass => key = None
        /\ job.pass => bundle = "gone"
    <2>1. job \in Job /\ job.phase = "purging" /\ code = jobs[o].code
          /\ job.cursor = jobs[o].cursor /\ job.pass = jobs[o].pass
      BY <1>2 DEF Job, Phases
    <2>2. CASE jobs[o].phase = "purging"
      BY <1>0, <2>1, <2>2 DEF TransactionalInv, PurgedSoFar, Job
    <2>3. CASE jobs[o].phase = "pending_grace"
      <3>1. jobs[o].code = 1 /\ jobs[o].cursor = 0 /\ jobs[o].pass = FALSE
        BY <1>0, <2>3 DEF TransactionalInv, OnlyFencedInGrace, NewJob, FIRST
      <3> QED BY <2>1, <3>1
    <2> QED BY <1>1, <2>2, <2>3 DEF Due
  <1> HIDE DEF job
  <1>4. page \in SUBSET Known
    BY <1>0, <1>3, PageFacts
  <1>5. ~full => page = Documents(code)
    BY <1>0, <1>3, FullOrAll
  <1>6. /\ code = 1 => Documents(code) = events
        /\ code = 2 => Documents(code) = IF key = None THEN {} ELSE {1}
        /\ code = 3 => Documents(code) = IF bundle = "bound" THEN {1} ELSE {}
    BY PlanFacts DEF Documents
  <1>7. page \subseteq Documents(code)
    BY <1>0, <1>3, PageFacts
  <1> HIDE DEF page
  <1>8. /\ code = 1 => events' = events \ page /\ key' = key /\ bundle' = bundle
        /\ code = 2 => /\ events' = events /\ bundle' = bundle
                      /\ key' = IF page # {} THEN None ELSE key
        /\ code = 3 => /\ events' = events /\ key' = key
                      /\ bundle' = IF page # {} THEN "orphaned" ELSE bundle
    BY <1>1, PlanFacts DEF RemoveBatch
  <1>9. /\ events = {} => events' = {}
        /\ key = None => key' = None
        /\ bundle = "gone" => bundle' = "gone"
    BY <1>3, <1>6, <1>7, <1>8
  <1>10. ~full => /\ code = 1 => events' = {}
                  /\ code = 2 => key' = None
                  /\ code = 3 => bundle' # "bound"
    BY <1>5, <1>6, <1>8
  <1>11. done => code = 3 /\ events' = {} /\ key' = None /\ bundle' = "gone"
    <2>1. done => code = 3 /\ bundle' # "orphaned"
      BY PlanFacts DEF PassDone
    <2>2. bundle' \in {"bound", "orphaned", "gone"}
      BY <1>0, <1>1, <1>3, RemoveFacts
    <2> QED BY <1>3, <1>9, <1>10, <2>1, <2>2
  <1>12. TransactionsOnly'
    BY <1>0, <1>1 DEF TransactionalInv, TransactionsOnly
  <1>13. \A p \in Operations : p # o => /\ jobs'[p] = jobs[p]
                                        /\ jobs'[p].phase \notin {"pending_grace", "purging"}
    BY <1>0, <1>1, <1>2 DEF Active
  <1>14. /\ purged' \subseteq purged \cup {o}
         /\ jobs'[o] = IF ~done THEN Stepped(job, page)
                       ELSE IF ~job.pass THEN SecondPass(job)
                       ELSE [job EXCEPT !.phase = "deleted"]
    BY <1>0, <1>1
  <1>15. ASSUME jobs'[o].phase \in {"purging", "deleted"} PROVE PurgedByPurge'
    BY <1>0, <1>13, <1>14, <1>15 DEF TransactionalInv, PurgedByPurge, TypeOK
  <1>16. ASSUME project' = "purging", jobs'[o].phase = "purging", jobs'[o].cursor = 0,
                jobs'[o].code > 1 \/ jobs'[o].pass => events' = {},
                jobs'[o].code > 2 \/ jobs'[o].pass => key' = None,
                jobs'[o].pass => bundle' = "gone"
         PROVE  TransactionalInv'
    <2>1. Active' = {o}
      BY <1>13, <1>16 DEF Active
    <2>2. OnlyFencedInGrace' /\ PurgedSoFar'
      BY <1>13, <1>16 DEF OnlyFencedInGrace, PurgedSoFar
    <2>3. UntouchedWithout' /\ TombstoneIsLast'
      BY <1>16, <2>1 DEF UntouchedWithout, TombstoneIsLast
    <2> QED BY <1>12, <1>15, <1>16, <2>1, <2>2, <2>3 DEF TransactionalInv
  <1>17. CASE ~done /\ full
    <2>1. Stepped(job, page) = [job EXCEPT !.cursor = 0]
      BY <1>17 DEF Stepped
    <2>2. /\ jobs'[o].phase = "purging" /\ jobs'[o].cursor = 0 /\ jobs'[o].code = code
          /\ jobs'[o].pass = job.pass
      BY <1>3, <1>14, <1>17, <2>1 DEF Job
    <2>3. project' = "purging"
      BY <1>1, <1>17
    <2> HIDE DEF code, full, done
    <2> QED BY <1>3, <1>9, <1>16, <2>2, <2>3
  <1>18. CASE ~done /\ ~full
    <2> DEFINE n == IF code < 3 THEN code + 1 ELSE code
    <2>1. Stepped(job, page) = [job EXCEPT !.code = n, !.cursor = 0]
      BY <1>18, PlanFacts DEF Stepped
    <2>2. /\ jobs'[o].phase = "purging" /\ jobs'[o].cursor = 0 /\ jobs'[o].code = n
          /\ jobs'[o].pass = job.pass
      BY <1>3, <1>14, <1>18, <2>1 DEF Job
    <2>3. project' = "purging"
      BY <1>1, <1>18
    <2>4. code = 1 \/ code = 2 \/ code = 3
      BY <1>3
    <2>5. /\ n > 1 \/ job.pass => events' = {}
          /\ n > 2 \/ job.pass => key' = None
      BY <1>3, <1>9, <1>10, <1>18, <2>4
    <2> HIDE DEF code, full, done, n
    <2> QED BY <1>3, <1>9, <1>16, <2>2, <2>3, <2>5
  <1>19. CASE done /\ ~job.pass
    <2>1. /\ jobs'[o].phase = "purging" /\ jobs'[o].cursor = 0 /\ jobs'[o].pass = TRUE
      BY <1>3, <1>14, <1>19 DEF Job, SecondPass
    <2>2. project' = "purging"
      BY <1>1, <1>19
    <2> HIDE DEF code, full, done
    <2> QED BY <1>11, <1>16, <1>19, <2>1, <2>2
  <1>20. CASE done /\ job.pass
    <2>1. jobs'[o].phase = "deleted" /\ project' = "deleted"
      BY <1>1, <1>3, <1>14, <1>20 DEF Job
    <2>2. Active' = {}
      BY <1>13, <2>1 DEF Active
    <2>3. UntouchedWithout' /\ OnlyFencedInGrace' /\ PurgedSoFar'
      BY <1>13, <2>1 DEF UntouchedWithout, OnlyFencedInGrace, PurgedSoFar
    <2>4. TombstoneIsLast'
      BY <1>11, <1>20 DEF TombstoneIsLast
    <2> QED BY <1>12, <1>15, <2>1, <2>2, <2>3, <2>4 DEF TransactionalInv
  <1> QED BY <1>17, <1>18, <1>19, <1>20

\* Time, retention, collection and faults.
LEMMA OthersInv ==
  ASSUME DeletionInv, transactional,
         \/ \E o \in Operations : GracePasses(o) \/ ExpireJob(o) \/ AbandonCommand(o)
         \/ ReleaseSlug \/ CollectBundle \/ AbandonPurge \/ Crash \/ UNCHANGED vars
  PROVE  TransactionalInv'
  <1>0. /\ TypeOK /\ TransactionalInv /\ jobs \in [Operations -> Job \cup {NoJob}]
        /\ request \in [Operations -> Requests] /\ cancel \in [Operations -> Cancels]
    BY DEF DeletionInv, MemoryOK
  <1>1. TransactionsOnly
    BY <1>0 DEF TransactionalInv
  <1>2. Idle.at = "idle"
    BY DEF Idle
  <1>3. ASSUME UNCHANGED <<request, cancel, purger>> PROVE TransactionsOnly'
    BY <1>1, <1>3 DEF TransactionsOnly
  <1>4. ASSUME NEW o \in Operations, GracePasses(o) PROVE TransactionalInv'
    BY <1>0, <1>3, <1>4, Untouched DEF GracePasses
  <1>5. ASSUME NEW o \in Operations, AbandonCommand(o) PROVE TransactionalInv'
    <2>1. TransactionsOnly'
      BY <1>0, <1>1, <1>2, <1>5 DEF AbandonCommand, RequestAt, CancelAt,
         TransactionsOnly
    <2> QED BY <1>0, <1>5, <2>1, Untouched DEF AbandonCommand
  <1>6. CASE AbandonPurge
    <2>1. TransactionsOnly'
      BY <1>1, <1>6 DEF AbandonPurge, TransactionsOnly
    <2> QED BY <1>0, <1>6, <2>1, Untouched DEF AbandonPurge
  <1>7. CASE Crash
    <2>1. TransactionsOnly'
      BY <1>2, <1>7 DEF Crash, TransactionsOnly
    <2> QED BY <1>0, <1>7, <2>1, Untouched DEF Crash
  <1>8. CASE ReleaseSlug
    BY <1>0, <1>3, <1>8, Untouched DEF ReleaseSlug
  <1>9. CASE UNCHANGED vars
    BY <1>0, <1>3, <1>9, Untouched DEF vars
  <1>10. CASE CollectBundle
    <2>1. /\ bundle = "orphaned" /\ bundle' = "gone"
          /\ UNCHANGED <<constantVars, project, key, events, jobs, purged, request, cancel,
                         purger>>
      BY <1>10 DEF CollectBundle
    <2>2. Active' = Active
      BY <2>1 DEF Active
    <2>3. UntouchedWithout' /\ OnlyFencedInGrace'
      BY <1>0, <2>1, <2>2 DEF TransactionalInv, UntouchedWithout, OnlyFencedInGrace
    <2>4. PurgedSoFar' /\ PurgedByPurge' /\ TombstoneIsLast'
      BY <1>0, <2>1 DEF TransactionalInv, PurgedSoFar, PurgedByPurge, TombstoneIsLast
    <2> QED BY <1>0, <1>3, <2>1, <2>2, <2>3, <2>4 DEF TransactionalInv
  <1>11. ASSUME NEW o \in Operations, ExpireJob(o) PROVE TransactionalInv'
    <2>1. /\ jobs[o].phase \in Terminal /\ jobs' = [jobs EXCEPT ![o] = NoJob]
          /\ purged' = purged \ {o}
          /\ UNCHANGED <<constantVars, project, key, events, bundle, request, cancel, purger>>
      BY <1>11 DEF ExpireJob
    <2>2. /\ jobs'[o].phase = "none"
          /\ \A p \in Operations : p # o => jobs'[p] = jobs[p]
      BY <1>0, <2>1 DEF NoJob
    <2>3. Active' = Active
      BY <2>1, <2>2 DEF Active, Terminal
    <2>4. UntouchedWithout' /\ OnlyFencedInGrace'
      BY <1>0, <2>1, <2>2, <2>3 DEF TransactionalInv, UntouchedWithout,
         OnlyFencedInGrace
    <2>5. PurgedSoFar' /\ TombstoneIsLast'
      BY <1>0, <2>1, <2>2 DEF TransactionalInv, PurgedSoFar, TombstoneIsLast
    <2>6. PurgedByPurge'
      BY <1>0, <2>1, <2>2 DEF TransactionalInv, PurgedByPurge, TypeOK
    <2> QED BY <1>0, <1>3, <2>1, <2>3, <2>4, <2>5, <2>6 DEF TransactionalInv
  <1> QED BY <1>4, <1>5, <1>6, <1>7, <1>8, <1>9, <1>10, <1>11

-----------------------------------------------------------------------------
(* MongoDB *)

\* The greatest identifier of a batch.
LEMMA MaxFacts ==
  ASSUME NEW S \in SUBSET Nat, IsFiniteSet(S), S # {}
  PROVE  Max(S) \in S /\ \A x \in S : x <= Max(S)
  <1>1. \E m \in S : \A x \in S : m >= x
    <2>1. PICK m \in S : \A x \in S : x <= m
      BY GreatestNat
    <2>2. \A x \in S : m >= x
      BY <2>1
    <2> QED BY <2>2
  <1> DEFINE m == CHOOSE m \in S : \A x \in S : m >= x
  <1>2. m \in S /\ \A x \in S : m >= x
    BY <1>1
  <1>3. Max(S) = m
    BY DEF Max
  <1> HIDE DEF m
  <1> QED BY <1>2, <1>3

\* A batch is a prefix: what it leaves lies behind all of it.
LEMMA PageIsPrefix ==
  ASSUME NEW rest \in SUBSET Nat, IsFiniteSet(rest), NEW page,
         page = {d \in rest : Cardinality({x \in rest : x < d}) < BatchSize},
         NEW d \in page, NEW e \in rest, e \notin page
  PROVE  d < e
  <1> DEFINE Below(y) == {x \in rest : x < y}
  <1>1. /\ d \in rest /\ d \in Nat /\ e \in Nat /\ d # e
        /\ Cardinality(Below(d)) < BatchSize /\ ~(Cardinality(Below(e)) < BatchSize)
    OBVIOUS
  <1>2. SUFFICES ASSUME e < d PROVE FALSE
    BY <1>1
  <1>3. Below(e) \in SUBSET Below(d) /\ Below(d) \in SUBSET rest
    <2>1. ASSUME NEW x \in Below(e) PROVE x \in Below(d)
      <3>1. x \in Nat /\ x < e
        OBVIOUS
      <3> QED BY <1>1, <1>2, <3>1
    <2> QED BY <2>1
  <1> HIDE DEF Below
  <1>4. IsFiniteSet(Below(d)) /\ Cardinality(Below(e)) <= Cardinality(Below(d))
    BY <1>3, FS_Subset
  <1>5. Cardinality(Below(d)) \in Nat /\ Cardinality(Below(e)) \in Nat
    BY <1>3, <1>4, FS_Subset, FS_CardinalityType
  <1> QED BY <1>1, <1>4, <1>5

\* What a batch behind a cursor leaves: nothing, or what lies behind the batch.
LEMMA BehindPage ==
  ASSUME TypeOK, NEW code \in 1..3, NEW cursor \in Nat, NEW d \in Documents(code),
         d > cursor, d \notin Page(code, cursor)
  PROVE  /\ Cardinality(Page(code, cursor)) = BatchSize
         /\ d > Max(Page(code, cursor))
  <1> DEFINE rest == {x \in Documents(code) : x > cursor}
             page == {y \in rest : Cardinality({x \in rest : x < y}) < BatchSize}
  <1>1. Page(code, cursor) = page
    BY DEF Page
  <1>2. Documents(code) \in SUBSET Known
    BY PageFacts
  <1>3. rest \in SUBSET Known /\ d \in rest
    BY <1>2
  <1> HIDE DEF rest
  <1>4. rest \in SUBSET Nat /\ IsFiniteSet(rest)
    BY <1>3, KnownFinite, FS_Subset
  <1>5. d \notin page /\ d \in Nat
    BY <1>1, <1>3, <1>4
  <1>6. Cardinality(page) = BatchSize
    BY <1>3, <1>4, <1>5, ShortPage
  <1>7. page \in SUBSET rest
    OBVIOUS
  <1>8. \A y \in page : y < d
    BY <1>3, <1>4, <1>5, PageIsPrefix
  <1> HIDE DEF page
  <1>9. page \in SUBSET Nat /\ IsFiniteSet(page) /\ page # {}
    BY <1>4, <1>6, <1>7, FS_Subset, FS_EmptySet
  <1>10. Max(page) \in page
    BY <1>9, MaxFacts
  <1> QED BY <1>1, <1>5, <1>6, <1>8, <1>9, <1>10

\* What the steps below use of the types.
LEMMA SequentialFacts ==
  ASSUME DeletionInv, ~transactional
  PROVE  /\ TypeOK /\ SequentialInv /\ jobs \in [Operations -> Job \cup {NoJob}]
         /\ purger # Idle => purger.op \in Operations /\ jobs[purger.op] \in Job
         /\ Idle.at = "idle" /\ NoJob.phase = "none"
         /\ \A o \in Operations : jobs[o].phase # "none" =>
                /\ jobs[o] \in Job /\ jobs[o].code \in 1..3 /\ jobs[o].cursor \in Nat
                /\ jobs[o].pass \in BOOLEAN
         /\ \A o \in Operations : o \in Active <=>
                jobs[o].phase = "pending_grace" \/ jobs[o].phase = "purging"
         /\ purger.at \in {"project", "job", "batch"} =>
                /\ purger # Idle /\ purger.code \in 1..3 /\ purger.cursor \in Nat
                /\ purger = [at |-> purger.at, op |-> purger.op, code |-> purger.code,
                             cursor |-> purger.cursor]
         /\ purger.at \in {"cursor", "advance", "complete"} =>
                /\ purger # Idle /\ purger.code \in 1..3 /\ purger.page \in SUBSET Known
                /\ purger = [at |-> purger.at, op |-> purger.op, code |-> purger.code,
                             page |-> purger.page]
  <1>1. /\ TypeOK /\ SequentialInv /\ jobs \in [Operations -> Job \cup {NoJob}]
        /\ purger \in Purgers
        /\ purger # Idle => jobs[purger.op] # NoJob
    BY DEF DeletionInv, MemoryOK
  <1>2. Idle.at = "idle" /\ NoJob.phase = "none"
    BY DEF Idle, NoJob
  <1>3. purger # Idle => purger.op \in Operations /\ jobs[purger.op] \in Job
    <2>1. purger # Idle => purger.op \in Operations
      BY <1>1 DEF Purgers
    <2> QED BY <1>1, <2>1
  <1>4. \A o \in Operations : jobs[o].phase # "none" => jobs[o] \in Job
    BY <1>1, <1>2
  <1>5. \A j \in Job : j.code \in 1..3 /\ j.cursor \in Nat /\ j.pass \in BOOLEAN
    BY DEF Job
  <1>6. \A o \in Operations : o \in Active <=>
            jobs[o].phase = "pending_grace" \/ jobs[o].phase = "purging"
    BY DEF Active
  <1>7. purger.at \in {"project", "job", "batch"} =>
            /\ purger # Idle /\ purger.code \in 1..3 /\ purger.cursor \in Nat
            /\ purger = [at |-> purger.at, op |-> purger.op, code |-> purger.code,
                         cursor |-> purger.cursor]
    <2>1. purger.at \in {"project", "job", "batch"} =>
             purger # Idle /\ purger \in [at : {"project", "job", "batch"},
                                         op : Operations, code : 1..3, cursor : Nat]
      BY <1>1 DEF Purgers, Idle
    <2> QED BY <2>1
  <1>8. purger.at \in {"cursor", "advance", "complete"} =>
            /\ purger # Idle /\ purger.code \in 1..3 /\ purger.page \in SUBSET Known
            /\ purger = [at |-> purger.at, op |-> purger.op, code |-> purger.code,
                         page |-> purger.page]
    <2>1. purger.at \in {"cursor", "advance", "complete"} =>
             purger # Idle /\ purger \in [at : {"cursor", "advance", "complete"},
                                         op : Operations, code : 1..3,
                                         page : SUBSET Known]
      BY <1>1 DEF Purgers, Idle, Known
    <2> QED BY <2>1
  <1> QED BY <1>1, <1>2, <1>3, <1>4, <1>5, <1>6, <1>7, <1>8

\* Steps that leave the jobs alone, and the project once it is marked; the worker may
\* give up.
LEMMA JobsUnmoved ==
  ASSUME DeletionInv, ~transactional, jobs' = jobs, purger' = purger \/ purger' = Idle,
         project' = "purging" <=> project = "purging",
         project' = "deleted" <=> project = "deleted",
         bundle' = bundle \/ bundle' = "gone", key = None => key' = None,
         project \in {"purging", "deleted"} /\ CallsEnded =>
             CallsEnded' /\ events' = events
  PROVE  SequentialInv'
  <1>0. SequentialInv /\ Active' = Active /\ Idle.at = "idle"
    BY SequentialFacts DEF Active
  <1>1. WorkerHoldsJob'
    BY <1>0 DEF SequentialInv, WorkerHoldsJob
  <1>2. NoPassInGrace'
    BY <1>0 DEF SequentialInv, NoPassInGrace
  <1>3. \A o \in Operations : SecondPassOf(o)' = SecondPassOf(o)
    BY DEF SecondPassOf
  <1>4. SecondPassBehind'
    <2>1. \A o \in Operations : SecondPassOf(o) => CallsEnded /\ project = "purging"
      BY <1>0 DEF SequentialInv, SecondPassBehind, SecondPassOf
    <2> QED BY <1>0, <1>3, <2>1 DEF SequentialInv, SecondPassBehind
  <1>5. SecondPassBatch'
    <2>1. \A o \in Operations : SecondPassOf(o) => CallsEnded /\ project = "purging"
      BY <1>0 DEF SequentialInv, SecondPassBehind, SecondPassOf
    <2> QED BY <1>0, <1>3, <2>1 DEF SequentialInv, SecondPassBatch
  <1>6. TombstoneIsLast' /\ (project' = "deleted" => CallsEnded')
    BY <1>0 DEF SequentialInv, TombstoneIsLast
  <1> QED BY <1>0, <1>1, <1>2, <1>4, <1>5, <1>6 DEF SequentialInv

\* Steps that make a job, or end one.
LEMMA JobMoved ==
  ASSUME DeletionInv, ~transactional, NEW o \in Operations, NEW j,
         jobs' = [jobs EXCEPT ![o] = j], purger' = purger \/ purger' = Idle,
         UNCHANGED <<project, key, events, bundle, call>>,
         \/ j.phase \notin {"pending_grace", "purging"}
         \/ jobs[o] = NoJob /\ Active = {} /\ \E r : j = NewJob(r)
  PROVE  SequentialInv'
  <1>0. /\ SequentialInv /\ Idle.at = "idle" /\ NoJob.phase = "none"
        /\ purger # Idle => purger.op \in Operations /\ jobs[purger.op] \in Job
        /\ purger.at \in {"project", "job", "batch", "cursor"} => purger # Idle
    BY SequentialFacts
  <1>1. jobs'[o] = j /\ \A p \in Operations : p # o => jobs'[p] = jobs[p]
    BY SequentialFacts
  <1>2. (jobs[o] = NoJob /\ purger # Idle) => purger.op # o
    BY <1>0 DEF DeletionInv, MemoryOK
  <1>3. \A r : /\ NewJob(r).phase = "pending_grace" /\ NewJob(r).code = 1
               /\ NewJob(r).pass = FALSE
    BY DEF NewJob, FIRST
  <1>4. \A p \in Operations : p \in Active' <=> jobs'[p].phase \in {"pending_grace", "purging"}
    BY DEF Active
  <1>5. \A p \in Operations : p # o => (p \in Active' <=> p \in Active)
    BY <1>1 DEF Active
  <1>6. \A p, q \in Active' : p = q
    <2>1. \A p \in Active' : p \in Operations
      BY DEF Active
    <2>2. CASE j.phase \notin {"pending_grace", "purging"}
      BY <1>0, <1>1, <1>4, <1>5, <2>1, <2>2 DEF SequentialInv
    <2>3. CASE Active = {}
      BY <1>5, <2>1, <2>3
    <2> QED BY <2>2, <2>3
  <1>7. WorkerHoldsJob'
    BY <1>0, <1>1, <1>2, <1>3, <1>4, <1>5 DEF SequentialInv, WorkerHoldsJob
  <1>8. NoPassInGrace'
    BY <1>0, <1>1, <1>2, <1>3 DEF SequentialInv, NoPassInGrace
  <1>9. \A p \in Operations :
            SecondPassOf(p)' => SecondPassOf(p) /\ jobs'[p] = jobs[p]
    BY <1>1, <1>3 DEF SecondPassOf
  <1>10. SecondPassBehind'
    BY <1>0, <1>9 DEF SequentialInv, SecondPassBehind, CallsEnded
  <1>11. SecondPassBatch'
    BY <1>0, <1>9 DEF SequentialInv, SecondPassBatch
  <1>12. TombstoneIsLast' /\ (project' = "deleted" => CallsEnded')
    BY <1>0 DEF SequentialInv, TombstoneIsLast, CallsEnded
  <1> QED BY <1>6, <1>7, <1>8, <1>10, <1>11, <1>12 DEF SequentialInv

\* Calls that are under way when the project is marked have ended before the second
\* pass, and no other is admitted.
LEMMA IngestSeq ==
  ASSUME DeletionInv, ~transactional, NEW c \in Calls, Ingest(c) PROVE SequentialInv'
  <1>1. UNCHANGED <<project, key, bundle, jobs, purger>>
    BY DEF Ingest, Authorize, TryEnter, DropCall, Insert
  <1>2. ASSUME project \in {"purging", "deleted"}, CallsEnded PROVE FALSE
    BY <1>2 DEF CallsEnded, Ingest, Authorize, TryEnter, DropCall, Insert
  <1> QED BY <1>1, <1>2, JobsUnmoved

\* A request makes a job where there was none, and marks nothing that is marked.
LEMMA RequestSeq ==
  ASSUME DeletionInv, ~transactional, NEW o \in Operations, Request(o)
  PROVE  SequentialInv'
  <1>1. UNCHANGED <<events, bundle, call, purger>>
    BY DEF Request, RequestTransaction, ReadProject, LookForJob, InsertJob,
       FenceProject, FenceKeys, FenceRegistry, Drained
  <1>2. CASE InsertJob(o) /\ jobs' # jobs
    <2>1. /\ jobs[o] = NoJob /\ Active = {}
          /\ jobs' = [jobs EXCEPT ![o] = NewJob(request[o].previous)]
          /\ UNCHANGED <<project, key>>
      BY <1>2 DEF InsertJob
    <2> QED BY <1>1, <2>1, JobMoved
  <1>3. CASE ~InsertJob(o) \/ jobs' = jobs
    <2>1. jobs' = jobs
      BY <1>3 DEF Request, RequestTransaction, ReadProject, LookForJob, FenceProject,
         FenceKeys, FenceRegistry, Drained
    <2>2. /\ project' = project \/ (project \in {"active", "disabled"}
                                   /\ project' = "pending_delete")
          /\ key' = key \/ (key = "active" /\ key' = "suspended")
      BY DEF Request, RequestTransaction, ReadProject, LookForJob, InsertJob,
         FenceProject, FenceKeys, FenceRegistry, Drained
    <2>3. CallsEnded' = CallsEnded
      BY <1>1 DEF CallsEnded
    <2> QED BY <1>1, <2>1, <2>2, <2>3, JobsUnmoved, NoneAssumption
  <1> QED BY <1>2, <1>3

\* A cancellation ends a job in its grace period, and restores nothing that is marked.
LEMMA CancelSeq ==
  ASSUME DeletionInv, ~transactional, NEW o \in Operations, Cancel(o)
  PROVE  SequentialInv'
  <1>0. jobs \in [Operations -> Job \cup {NoJob}] /\ cancel \in [Operations -> Cancels]
    BY DEF DeletionInv, MemoryOK
  <1>1. UNCHANGED <<events, bundle, call, purger>>
    BY DEF Cancel, CancelTransaction, ReadJob, RestoreProject, ResumeKeys, CancelJob,
       Unfence
  <1>2. CASE CancelJob(o) /\ jobs' # jobs
    <2>1. /\ jobs[o].phase = "pending_grace"
          /\ jobs' = [jobs EXCEPT ![o] = [jobs[o] EXCEPT !.phase = "cancelled"]]
          /\ UNCHANGED <<project, key>>
      BY <1>2 DEF CancelJob
    <2> DEFINE j == [jobs[o] EXCEPT !.phase = "cancelled"]
    <2>2. j.phase = "cancelled"
      BY <1>0, <2>1 DEF Job, NoJob
    <2> HIDE DEF j
    <2> QED BY <1>1, <2>1, <2>2, JobMoved DEF j
  <1>3. CASE ~CancelJob(o) \/ jobs' = jobs
    <2>1. jobs' = jobs
      BY <1>3 DEF Cancel, CancelTransaction, ReadJob, RestoreProject, ResumeKeys,
         Unfence
    <2>2. project' = project \/ (project = "pending_delete" /\ RestoreProject(o))
      BY DEF Cancel, CancelTransaction, ReadJob, RestoreProject, ResumeKeys, CancelJob,
         Unfence, Restored
    <2>3. key' = key \/ (key = "suspended" /\ key' = "active")
      BY DEF Cancel, CancelTransaction, ReadJob, RestoreProject, ResumeKeys, CancelJob,
         Unfence, Resumed
    <2>4. CallsEnded' = CallsEnded
      BY <1>1 DEF CallsEnded
    <2>5. CASE project' = project
      BY <1>1, <2>1, <2>3, <2>4, <2>5, JobsUnmoved, NoneAssumption
    <2>6. CASE project = "pending_delete" /\ RestoreProject(o)
      <3>1. cancel[o].at = "project" /\ project' = cancel[o].previous
        BY <2>6 DEF RestoreProject, Restored
      <3>2. cancel[o].previous \in {"active", "disabled", "pending_delete"}
        BY <1>0, <3>1 DEF Cancels, Idle, Previous
      <3> QED BY <1>1, <2>1, <2>3, <2>4, <2>6, <3>1, <3>2, JobsUnmoved, NoneAssumption
    <2> QED BY <2>2, <2>5, <2>6
  <1> QED BY <1>2, <1>3

\* The worker reads a job and marks the project and the job: a job that it marks has
\* not begun its second pass.
LEMMA MarkSeq ==
  ASSUME DeletionInv, ~transactional,
         (\E o \in Operations : FindJob(o)) \/ MarkProject \/ MarkJob
  PROVE  SequentialInv'
  <1>0. /\ SequentialInv /\ jobs \in [Operations -> Job \cup {NoJob}]
        /\ purger # Idle => purger.op \in Operations /\ jobs[purger.op] \in Job
        /\ \A o \in Operations : o \in Active <=>
                jobs[o].phase = "pending_grace" \/ jobs[o].phase = "purging"
        /\ purger.at \in {"project", "job", "batch"} =>
                /\ purger # Idle /\ purger.code \in 1..3 /\ purger.cursor \in Nat
                /\ purger = [at |-> purger.at, op |-> purger.op, code |-> purger.code,
                             cursor |-> purger.cursor]
    BY SequentialFacts
  <1>1. UNCHANGED <<key, events, bundle, call>>
    BY DEF FindJob, MarkProject, MarkJob
  <1>2. CallsEnded' = CallsEnded
    BY <1>1 DEF CallsEnded
  <1>3. ASSUME NEW o \in Operations, FindJob(o) PROVE SequentialInv'
    <2> DEFINE a == IF jobs[o].phase = "pending_grace" THEN "project" ELSE "batch"
    <2>1. /\ jobs' = jobs /\ project' = project /\ Active' = Active
          /\ o \in Active /\ \A p \in Active : p = o
      BY <1>0, <1>3 DEF FindJob, Due, SequentialInv, Active
    <2>2. /\ purger'.at = a /\ purger'.op = o /\ purger'.code = jobs[o].code
          /\ purger'.cursor = jobs[o].cursor
      BY <1>3 DEF FindJob
    <2>3. \A p \in Operations : jobs[p].phase \in {"pending_grace", "purging"} => p = o
      BY <1>0, <2>1
    <2>4. WorkerHoldsJob'
      BY <2>1, <2>2, <2>3 DEF WorkerHoldsJob
    <2>5. NoPassInGrace'
      BY <1>0, <2>1, <2>2, <2>3 DEF NoPassInGrace, SequentialInv
    <2>6. SecondPassBehind'
      BY <1>0, <1>1, <1>2, <2>1 DEF SecondPassBehind, SecondPassOf, SequentialInv
    <2>7. SecondPassBatch'
      BY <2>2 DEF SecondPassBatch
    <2>8. TombstoneIsLast' /\ (project' = "deleted" => CallsEnded')
      BY <1>0, <1>1, <1>2, <2>1 DEF TombstoneIsLast, SequentialInv
    <2> QED BY <1>0, <2>1, <2>4, <2>5, <2>6, <2>7, <2>8 DEF SequentialInv
  <1>4. CASE MarkProject
    <2>1. /\ purger # Idle /\ purger.at = "project" /\ jobs' = jobs /\ Active' = Active
          /\ purger' = [at |-> "job", op |-> purger.op, code |-> purger.code,
                        cursor |-> purger.cursor]
          /\ project' = "deleted" <=> project = "deleted"
      BY <1>0, <1>4 DEF MarkProject, Active
    <2>2. \A p \in Operations : jobs[p].phase # "purging"
      BY <1>0, <2>1 DEF SequentialInv, WorkerHoldsJob
    <2>3. WorkerHoldsJob'
      BY <1>0, <2>1 DEF WorkerHoldsJob, SequentialInv
    <2>4. NoPassInGrace'
      BY <1>0, <2>1 DEF NoPassInGrace, SequentialInv
    <2>5. SecondPassBehind' /\ SecondPassBatch'
      BY <2>1, <2>2 DEF SecondPassBehind, SecondPassBatch, SecondPassOf
    <2>6. TombstoneIsLast' /\ (project' = "deleted" => CallsEnded')
      BY <1>0, <1>1, <1>2, <2>1 DEF TombstoneIsLast, SequentialInv
    <2> QED BY <1>0, <2>1, <2>3, <2>4, <2>5, <2>6 DEF SequentialInv
  <1>5. CASE MarkJob
    <2> DEFINE op == purger.op
    <2>1. /\ purger # Idle /\ purger.at = "job" /\ project' = project
          /\ purger' = [at |-> "batch", op |-> op, code |-> purger.code,
                        cursor |-> purger.cursor]
          /\ op \in Operations /\ jobs[op] \in Job
          /\ jobs' = [jobs EXCEPT ![op] = IF jobs[op].phase = "pending_grace"
                                          THEN [jobs[op] EXCEPT !.phase = "purging"]
                                          ELSE jobs[op]]
      BY <1>0, <1>5 DEF MarkJob
    <2>2. jobs[op].phase # "purging" /\ \A p \in Operations : jobs[p].phase # "purging"
      BY <1>0, <2>1 DEF SequentialInv, WorkerHoldsJob
    <2>3. \A p \in Operations : p # op => jobs'[p] = jobs[p]
      BY <1>0, <2>1
    <2>4. /\ jobs'[op].code = jobs[op].code /\ jobs'[op].cursor = jobs[op].cursor
          /\ jobs'[op].pass = jobs[op].pass
          /\ jobs[op].phase = "pending_grace" => jobs'[op].phase = "purging"
          /\ jobs[op].phase # "pending_grace" => jobs'[op].phase = jobs[op].phase
      BY <1>0, <2>1 DEF Job
    <2>5. Active' = Active
      BY <1>0, <2>3, <2>4 DEF Active
    <2>6. /\ jobs[op].phase = "pending_grace" => ~jobs[op].pass
          /\ op \in Active => purger.code = jobs[op].code /\ purger.cursor = jobs[op].cursor
      BY <1>0, <2>1 DEF SequentialInv, NoPassInGrace, WorkerHoldsJob
    <2> HIDE DEF op
    <2>7. WorkerHoldsJob'
      BY <2>1, <2>2, <2>3, <2>4, <2>5, <2>6 DEF WorkerHoldsJob
    <2>8. NoPassInGrace'
      <3>1. \A p \in Operations : jobs'[p].phase = "pending_grace" =>
                p # op /\ jobs'[p] = jobs[p]
        BY <2>2, <2>3, <2>4
      <3> QED BY <1>0, <2>1, <3>1 DEF NoPassInGrace, SequentialInv, op
    <2>9. \A p \in Operations : ~SecondPassOf(p)'
      BY <2>2, <2>3, <2>4, <2>6 DEF SecondPassOf
    <2>10. SecondPassBehind' /\ SecondPassBatch'
      BY <2>9 DEF SecondPassBehind, SecondPassBatch
    <2>11. TombstoneIsLast' /\ (project' = "deleted" => CallsEnded')
      BY <1>0, <1>1, <1>2, <2>1 DEF TombstoneIsLast, SequentialInv
    <2> QED BY <1>0, <2>5, <2>7, <2>8, <2>10, <2>11 DEF SequentialInv
  <1> QED BY <1>3, <1>4, <1>5

\* A batch of the second pass: what is left lies behind it.
LEMMA BatchSeq ==
  ASSUME DeletionInv, ~transactional, PurgeBatch PROVE SequentialInv'
  <1> DEFINE op == purger.op
             code == purger.code
             cursor == purger.cursor
             page == Page(code, cursor)
  <1>0. /\ TypeOK /\ SequentialInv /\ purger.at = "batch" /\ purger # Idle
        /\ op \in Operations /\ code \in 1..3 /\ cursor \in Nat
        /\ \A o \in Operations : o \in Active <=>
                jobs[o].phase = "pending_grace" \/ jobs[o].phase = "purging"
    BY SequentialFacts DEF PurgeBatch
  <1>1. /\ RemoveBatch(code, page) /\ UNCHANGED <<project, jobs, call>>
        /\ purger'.at = "cursor" /\ purger'.op = op /\ purger'.code = code
        /\ purger'.page = page
    BY DEF PurgeBatch
  <1>2. Active' = Active /\ CallsEnded' = CallsEnded
    BY <1>1 DEF Active, CallsEnded
  <1>3. /\ code = 1 => events' = events \ page /\ key' = key /\ bundle' = bundle
        /\ code = 2 => /\ events' = events /\ key' = key
                      /\ bundle' = IF page # {} THEN "orphaned" ELSE bundle
        /\ code = 3 => /\ events' = events /\ bundle' = bundle
                      /\ key' = IF page # {} THEN None ELSE key
    BY <1>1, PlanFacts DEF RemoveBatch
  <1>4. /\ code = 1 => Documents(code) = events
        /\ code = 2 => Documents(code) = IF bundle = "bound" THEN {1} ELSE {}
        /\ code = 3 => Documents(code) = IF key = None THEN {} ELSE {1}
    BY PlanFacts DEF Documents
  <1>5. page \subseteq Documents(code)
    BY <1>0, PageFacts
  <1>6. \A d \in Documents(code) : d > cursor /\ d \notin page =>
            Cardinality(page) = BatchSize /\ d > Max(page)
    BY <1>0, BehindPage
  <1>7. code = 1 \/ code = 2 \/ code = 3
    BY <1>0
  <1> HIDE DEF page
  <1>8. /\ events' \subseteq events /\ (key = None => key' = None)
        /\ bundle = "gone" => bundle' = "gone"
        /\ bundle # "bound" => bundle' # "bound"
    BY <1>3, <1>4, <1>5, <1>7
  <1>9. WorkerHoldsJob' /\ NoPassInGrace'
    BY <1>0, <1>1, <1>2 DEF SequentialInv, WorkerHoldsJob, NoPassInGrace
  <1>10. TombstoneIsLast' /\ (project' = "deleted" => CallsEnded')
    BY <1>0, <1>1, <1>2, <1>8 DEF SequentialInv, TombstoneIsLast
  <1>11. ASSUME NEW o \in Operations, SecondPassOf(o)
         PROVE  /\ CallsEnded /\ o = op /\ code = jobs[o].code /\ cursor = jobs[o].cursor
                /\ IF code = 1 THEN \A e \in events : e > cursor ELSE events = {}
                /\ code = 3 \/ (code = 2 /\ cursor > 0) => bundle # "bound"
                /\ code = 3 /\ cursor > 0 => key = None
    <2>1. jobs[o].phase = "purging" /\ o \in Active
      BY <1>0, <1>11 DEF SecondPassOf
    <2>2. o = op /\ code = jobs[o].code /\ cursor = jobs[o].cursor
      BY <1>0, <2>1 DEF SequentialInv, WorkerHoldsJob
    <2> QED BY <1>0, <1>11, <2>2 DEF SequentialInv, SecondPassBehind
  <1>12. ASSUME NEW o \in Operations, SecondPassOf(o)
         PROVE  /\ code = 1 => IF Cardinality(page) = BatchSize
                               THEN \A e \in events' : e > Max(page) ELSE events' = {}
                /\ code = 2 => bundle' # "bound"
                /\ code = 3 => key' = None
    <2> HIDE DEF op, code, cursor
    <2>1. ASSUME code = 1, NEW e \in events'
          PROVE  Cardinality(page) = BatchSize /\ e > Max(page)
      BY <1>3, <1>4, <1>6, <1>11, <1>12, <2>1
    <2>2. ASSUME code = 2 PROVE bundle' # "bound"
      <3>1. CASE bundle = "bound"
        <4>1. ~(cursor > 0) /\ Documents(code) = {1}
          BY <1>4, <1>11, <1>12, <2>2, <3>1
        <4>2. 1 > cursor
          BY <1>0, <4>1
        <4>3. 1 \in page
          <5>1. SUFFICES ASSUME 1 \notin page PROVE FALSE
            OBVIOUS
          <5>2. Cardinality(page) = BatchSize /\ page = {}
            BY <1>5, <1>6, <4>1, <4>2, <5>1
          <5> QED BY <5>2, FS_EmptySet
        <4> QED BY <1>3, <2>2, <4>3
      <3>2. CASE bundle # "bound"
        BY <1>8, <3>2
      <3> QED BY <3>1, <3>2
    <2>3. ASSUME code = 3 PROVE key' = None
      <3>1. CASE key # None
        <4>1. ~(cursor > 0) /\ Documents(code) = {1}
          BY <1>4, <1>11, <1>12, <2>3, <3>1
        <4>2. 1 > cursor
          BY <1>0, <4>1
        <4>3. 1 \in page
          <5>1. SUFFICES ASSUME 1 \notin page PROVE FALSE
            OBVIOUS
          <5>2. Cardinality(page) = BatchSize /\ page = {}
            BY <1>5, <1>6, <4>1, <4>2, <5>1
          <5> QED BY <5>2, FS_EmptySet
        <4> QED BY <1>3, <2>3, <4>3
      <3>2. CASE key = None
        BY <1>8, <3>2
      <3> QED BY <3>1, <3>2
    <2> QED BY <2>1, <2>2, <2>3
  <1>13. \A o \in Operations : SecondPassOf(o)' = SecondPassOf(o)
    BY <1>1 DEF SecondPassOf
  <1>14. SecondPassBatch'
    <2> HIDE DEF op, code, cursor
    <2> QED BY <1>1, <1>12, <1>13 DEF SecondPassBatch
  <1>15. SecondPassBehind'
    <2>1. SUFFICES ASSUME NEW o \in Operations, SecondPassOf(o)
          PROVE  /\ CallsEnded'
                 /\ IF jobs'[o].code = 1 THEN \A e \in events' : e > jobs'[o].cursor
                                         ELSE events' = {}
                 /\ jobs'[o].code = 3 \/ (jobs'[o].code = 2 /\ jobs'[o].cursor > 0) =>
                       bundle' # "bound"
                 /\ jobs'[o].code = 3 /\ jobs'[o].cursor > 0 => key' = None
      BY <1>13 DEF SecondPassBehind
    <2> HIDE DEF op, code, cursor
    <2> QED BY <1>1, <1>2, <1>8, <1>11, <2>1
  <1> QED BY <1>0, <1>2, <1>9, <1>10, <1>14, <1>15 DEF SequentialInv

\* The fields of a job whose cursor was written.
LEMMA SteppedFacts ==
  ASSUME ~transactional, NEW job \in Job, NEW page \in SUBSET Known
  PROVE  /\ Stepped(job, page).phase = job.phase /\ Stepped(job, page).pass = job.pass
         /\ IF Cardinality(page) = BatchSize
            THEN /\ Stepped(job, page).code = job.code
                 /\ Stepped(job, page).cursor = Max(page)
            ELSE /\ Stepped(job, page).code = IF job.code < 3 THEN job.code + 1 ELSE 3
                 /\ Stepped(job, page).cursor = 0
  <1>1. job.code \in 1..3 /\ LAST = 3
    BY PlanFacts DEF Job
  <1>2. CASE Cardinality(page) = BatchSize
    BY <1>2 DEF Stepped, Job
  <1>3. CASE Cardinality(page) # BatchSize
    <2>1. Stepped(job, page) =
            [job EXCEPT !.code = IF job.code < 3 THEN job.code + 1 ELSE job.code,
                        !.cursor = 0]
      BY <1>1, <1>3 DEF Stepped
    <2>2. IF job.code < 3 THEN TRUE ELSE job.code = 3
      BY <1>1
    <2> QED BY <1>3, <2>1, <2>2 DEF Job
  <1> QED BY <1>2, <1>3

\* The cursor is written on whatever job is under way: the one the batch is of, or one
\* in its grace period that has not been counted a batch before.
LEMMA CursorSeq ==
  ASSUME DeletionInv, ~transactional, PersistCursor PROVE SequentialInv'
  <1> DEFINE op == purger.op
             page == purger.page
  <1>0. /\ SequentialInv /\ purger.at = "cursor" /\ purger # Idle
        /\ op \in Operations /\ purger.code \in 1..3 /\ page \in SUBSET Known
        /\ purger = [at |-> purger.at, op |-> op, code |-> purger.code, page |-> page]
        /\ \A o \in Operations : o \in Active <=>
                jobs[o].phase = "pending_grace" \/ jobs[o].phase = "purging"
        /\ \A o \in Operations : jobs[o].phase # "none" =>
                /\ jobs[o] \in Job /\ jobs[o].code \in 1..3 /\ jobs[o].cursor \in Nat
                /\ jobs[o].pass \in BOOLEAN
    BY SequentialFacts DEF PersistCursor
  <1>1. UNCHANGED <<project, key, events, bundle, call>>
    BY DEF PersistCursor
  <1>2. CallsEnded' = CallsEnded
    BY <1>1 DEF CallsEnded
  <1>3. CASE Active = {}
    BY <1>1, <1>2, <1>3, JobsUnmoved DEF PersistCursor
  <1>4. CASE Active # {}
    <2>1. /\ purger'.at = "advance" /\ purger'.op = op /\ purger'.code = purger.code
          /\ jobs' = [o \in Operations |-> IF o \in Active THEN Stepped(jobs[o], page)
                                                          ELSE jobs[o]]
      BY <1>0, <1>4 DEF PersistCursor
    <2>2. \A o \in Operations : o \notin Active => jobs'[o] = jobs[o]
      BY <2>1
    <2>3. \A o \in Active :
            /\ jobs[o] \in Job /\ o \in Operations
            /\ jobs'[o].phase = jobs[o].phase /\ jobs'[o].pass = jobs[o].pass
            /\ IF Cardinality(page) = BatchSize
               THEN jobs'[o].code = jobs[o].code /\ jobs'[o].cursor = Max(page)
               ELSE /\ jobs'[o].code = IF jobs[o].code < 3 THEN jobs[o].code + 1 ELSE 3
                    /\ jobs'[o].cursor = 0
      <3>1. \A o \in Active : o \in Operations /\ jobs'[o] = Stepped(jobs[o], page)
        BY <2>1 DEF Active
      <3>2. \A o \in Active : jobs[o] \in Job
        BY <1>0, <3>1
      <3> HIDE DEF page
      <3> QED BY <1>0, <3>1, <3>2, SteppedFacts
    <2>4. \A o \in Operations : jobs'[o].phase = jobs[o].phase
      BY <2>2, <2>3
    <2>5. Active' = Active
      BY <2>4 DEF Active
    <2>6. WorkerHoldsJob'
      BY <1>0, <2>1, <2>4 DEF SequentialInv, WorkerHoldsJob
    <2>7. NoPassInGrace'
      <3>1. SUFFICES ASSUME NEW o \in Operations, jobs'[o].phase = "pending_grace"
            PROVE  ~jobs'[o].pass /\ jobs'[o].code <= 2
        BY <2>1 DEF NoPassInGrace
      <3>2. jobs[o].phase = "pending_grace" /\ o \in Active /\ o # op
        BY <1>0, <2>4, <3>1 DEF SequentialInv, WorkerHoldsJob
      <3>3. ~jobs[o].pass /\ jobs[o].code = 1
        BY <1>0, <3>2 DEF SequentialInv, NoPassInGrace
      <3> QED BY <2>3, <3>2, <3>3
    <2>8. \A o \in Operations : SecondPassOf(o)' =>
              /\ SecondPassOf(o) /\ o \in Active /\ o = op
              /\ purger.code = jobs[o].code
      <3>1. SUFFICES ASSUME NEW o \in Operations, SecondPassOf(o)'
            PROVE  SecondPassOf(o) /\ o \in Active /\ o = op /\ purger.code = jobs[o].code
        OBVIOUS
      <3>2. jobs[o].phase = "purging" /\ o \in Active
        BY <1>0, <2>4, <3>1 DEF SecondPassOf
      <3>3. SecondPassOf(o)
        BY <1>1, <2>3, <3>1, <3>2 DEF SecondPassOf
      <3> QED BY <1>0, <3>2, <3>3 DEF SequentialInv, WorkerHoldsJob
    <2>9. SecondPassBatch'
      <3>1. ASSUME NEW o \in Operations, SecondPassOf(o)', purger.code = 3 PROVE key' = None
        BY <1>0, <1>1, <2>8, <3>1 DEF SequentialInv, SecondPassBatch
      <3> QED BY <2>1, <3>1 DEF SecondPassBatch
    <2>10. SecondPassBehind'
      <3>1. SUFFICES ASSUME NEW o \in Operations, SecondPassOf(o)'
            PROVE  /\ CallsEnded'
                   /\ IF jobs'[o].code = 1 THEN \A e \in events' : e > jobs'[o].cursor
                                           ELSE events' = {}
                   /\ jobs'[o].code = 3 \/ (jobs'[o].code = 2 /\ jobs'[o].cursor > 0) =>
                         bundle' # "bound"
                   /\ jobs'[o].code = 3 /\ jobs'[o].cursor > 0 => key' = None
        BY DEF SecondPassBehind
      <3> DEFINE code == jobs[o].code
      <3>2. /\ SecondPassOf(o) /\ o \in Active /\ purger.code = code
            /\ code \in 1..3
        BY <1>0, <2>8, <3>1
      <3>3. /\ CallsEnded
            /\ code # 1 => events = {}
            /\ code = 3 => bundle # "bound"
        BY <1>0, <3>2 DEF SequentialInv, SecondPassBehind
      <3>4. /\ code = 1 => IF Cardinality(page) = BatchSize
                           THEN \A e \in events : e > Max(page) ELSE events = {}
            /\ code = 2 => bundle # "bound"
            /\ code = 3 => key = None
        BY <1>0, <3>2 DEF SequentialInv, SecondPassBatch
      <3>5. IF Cardinality(page) = BatchSize
            THEN jobs'[o].code = code /\ jobs'[o].cursor = Max(page)
            ELSE /\ jobs'[o].code = IF code < 3 THEN code + 1 ELSE 3
                 /\ jobs'[o].cursor = 0
        BY <2>3, <3>2
      <3>6. code = 1 \/ code = 2 \/ code = 3
        BY <3>2
      <3> HIDE DEF code, page, op
      <3> QED BY <1>1, <1>2, <3>3, <3>4, <3>5, <3>6
    <2>11. TombstoneIsLast' /\ (project' = "deleted" => CallsEnded')
      BY <1>0, <1>1, <1>2 DEF SequentialInv, TombstoneIsLast
    <2> QED BY <1>0, <2>5, <2>6, <2>7, <2>9, <2>10, <2>11 DEF SequentialInv
  <1> QED BY <1>3, <1>4

\* The second pass begins when no call is under way; the tombstone is written when it
\* has reached the end of the last dataset and the bundle is gone.
LEMMA AdvanceSeq ==
  ASSUME DeletionInv, ~transactional, Advance PROVE SequentialInv'
  <1>0. /\ TypeOK /\ SequentialInv /\ jobs \in [Operations -> Job \cup {NoJob}]
        /\ purger.at = "advance" /\ purger # Idle /\ Idle.at = "idle"
        /\ purger.op \in Operations
        /\ purger = [at |-> purger.at, op |-> purger.op, code |-> purger.code,
                     page |-> purger.page]
        /\ \A o \in Operations : o \in Active <=>
                jobs[o].phase = "pending_grace" \/ jobs[o].phase = "purging"
        /\ \A o \in Operations : jobs[o].phase # "none" => jobs[o] \in Job
    BY SequentialFacts DEF Advance
  <1>1. UNCHANGED <<key, events, bundle, call>>
    BY DEF Advance
  <1>2. CallsEnded' = CallsEnded
    BY <1>1 DEF CallsEnded
  <1>3. CASE UNCHANGED <<project, jobs>> /\ purger' = Idle
    BY <1>1, <1>2, <1>3, JobsUnmoved
  <1>4. ASSUME NEW o \in Active, PassDone(jobs[o], purger.code, bundle), ~jobs[o].pass,
               CallsEnded, jobs' = [jobs EXCEPT ![o] = SecondPass(@)], purger' = Idle,
               UNCHANGED project
        PROVE  SequentialInv'
    <2>1. o \in Operations /\ jobs[o] \in Job /\ \A p \in Active : p = o
      BY <1>0, <1>4 DEF SequentialInv, Active
    <2>2. jobs[o].phase = "purging"
      <3>1. jobs[o].code = 3
        BY <1>4, PlanFacts DEF PassDone
      <3> QED BY <1>0, <1>4, <2>1, <3>1 DEF SequentialInv, NoPassInGrace
    <2>3. /\ jobs'[o].phase = "purging" /\ jobs'[o].code = 1 /\ jobs'[o].cursor = 0
          /\ \A p \in Operations : p # o => jobs'[p] = jobs[p]
      BY <1>0, <1>4, <2>1, <2>2 DEF SecondPass, Job, FIRST
    <2>4. \A p \in Operations : p # o =>
              jobs'[p].phase # "pending_grace" /\ jobs'[p].phase # "purging"
      BY <1>0, <2>1, <2>3
    <2>5. \A p \in Active' : p = o
      BY <2>4 DEF Active
    <2>6. WorkerHoldsJob'
      BY <1>4 DEF WorkerHoldsJob
    <2>7. NoPassInGrace'
      BY <2>3, <2>4 DEF NoPassInGrace
    <2>8. \A e \in events' : e > 0
      BY <1>0, <1>1 DEF TypeOK
    <2>9. SecondPassBehind'
      BY <1>2, <1>4, <2>3, <2>4, <2>8 DEF SecondPassBehind, SecondPassOf
    <2>10. SecondPassBatch'
      BY <1>0, <1>4 DEF SecondPassBatch
    <2>11. TombstoneIsLast' /\ (project' = "deleted" => CallsEnded')
      BY <1>0, <1>1, <1>2, <1>4 DEF SequentialInv, TombstoneIsLast
    <2> QED BY <2>5, <2>6, <2>7, <2>9, <2>10, <2>11 DEF SequentialInv
  <1>5. ASSUME NEW o \in Active, PassDone(jobs[o], purger.code, bundle), jobs[o].pass,
               project' = IF project = "purging" THEN "deleted" ELSE project,
               purger' = [purger EXCEPT !.at = "complete"], UNCHANGED jobs
        PROVE  SequentialInv'
    <2>1. o \in Operations /\ jobs[o].phase = "purging"
      BY <1>0, <1>5 DEF SequentialInv, NoPassInGrace, Active
    <2>2. /\ purger'.at = "complete" /\ purger'.op = purger.op /\ Active' = Active
      BY <1>0, <1>5 DEF Active
    <2>3. ASSUME project = "purging"
          PROVE  CallsEnded /\ events = {} /\ key = None /\ bundle = "gone"
      <3>1. SecondPassOf(o)
        BY <1>5, <2>1, <2>3 DEF SecondPassOf
      <3>2. jobs[o].code = 3 /\ purger.code = 3 /\ bundle # "orphaned"
        BY <1>5, PlanFacts DEF PassDone
      <3>3. CallsEnded /\ events = {} /\ bundle # "bound"
        BY <1>0, <2>1, <3>1, <3>2 DEF SequentialInv, SecondPassBehind
      <3>4. key = None
        BY <1>0, <2>1, <3>1, <3>2 DEF SequentialInv, SecondPassBatch
      <3> QED BY <1>0, <3>2, <3>3, <3>4 DEF TypeOK
    <2>4. TombstoneIsLast' /\ (project' = "deleted" => CallsEnded')
      BY <1>0, <1>1, <1>2, <1>5, <2>3 DEF SequentialInv, TombstoneIsLast
    <2>5. WorkerHoldsJob'
      BY <1>0, <1>5, <2>2 DEF SequentialInv, WorkerHoldsJob
    <2>6. NoPassInGrace'
      BY <1>0, <1>5, <2>2 DEF SequentialInv, NoPassInGrace
    <2>7. project' # "purging"
      BY <1>5
    <2>8. SecondPassBehind' /\ SecondPassBatch'
      BY <2>7 DEF SecondPassBehind, SecondPassBatch, SecondPassOf
    <2> QED BY <1>0, <2>2, <2>4, <2>5, <2>6, <2>8 DEF SequentialInv
  <1> QED BY <1>3, <1>4, <1>5 DEF Advance

\* The end of a job, retention, time and faults.
LEMMA OthersSeq ==
  ASSUME DeletionInv, ~transactional,
         \/ \E o \in Operations : GracePasses(o) \/ ExpireJob(o) \/ AbandonCommand(o)
         \/ CompleteJob
         \/ ReleaseSlug \/ CollectBundle \/ AbandonPurge \/ Crash \/ UNCHANGED vars
  PROVE  SequentialInv'
  <1>1. ASSUME NEW o \in Operations, GracePasses(o) \/ AbandonCommand(o)
        PROVE  SequentialInv'
    <2>1. UNCHANGED <<project, key, events, bundle, jobs, call, purger>>
      BY <1>1 DEF GracePasses, AbandonCommand
    <2> QED BY <2>1, JobsUnmoved DEF CallsEnded
  <1>2. ASSUME NEW o \in Operations, ExpireJob(o) PROVE SequentialInv'
    <2>1. /\ jobs' = [jobs EXCEPT ![o] = NoJob]
          /\ UNCHANGED <<project, key, events, bundle, call, purger>>
      BY <1>2 DEF ExpireJob
    <2>2. NoJob.phase \notin {"pending_grace", "purging"}
      BY DEF NoJob
    <2> QED BY <2>1, <2>2, JobMoved
  <1>3. CASE CompleteJob
    <2> DEFINE op == purger.op
    <2>1. /\ purger' = Idle /\ UNCHANGED <<project, key, events, bundle, call>>
          /\ op \in Operations /\ jobs[op] \in Job
      BY <1>3, SequentialFacts DEF CompleteJob
    <2>2. \/ jobs' = [jobs EXCEPT ![op] = jobs[op]]
          \/ jobs' = [jobs EXCEPT ![op] = [jobs[op] EXCEPT !.phase = "deleted"]]
      BY <1>3 DEF CompleteJob
    <2> DEFINE j == [jobs[op] EXCEPT !.phase = "deleted"]
    <2>3. j.phase \notin {"pending_grace", "purging"}
      BY <2>1 DEF Job
    <2> HIDE DEF op, j
    <2>4. CASE jobs' = [jobs EXCEPT ![op] = jobs[op]]
      <3>1. jobs' = jobs
        BY <2>1, <2>4, SequentialFacts
      <3> QED BY <2>1, <3>1, JobsUnmoved DEF CallsEnded
    <2>5. CASE jobs' = [jobs EXCEPT ![op] = j]
      BY <2>1, <2>3, <2>5, JobMoved
    <2> QED BY <2>2, <2>4, <2>5 DEF j
  <1>4. CASE ReleaseSlug \/ AbandonPurge \/ UNCHANGED vars
    <2>1. /\ UNCHANGED <<project, key, events, bundle, jobs, call>>
          /\ purger' = purger \/ purger' = Idle
      BY <1>4 DEF ReleaseSlug, AbandonPurge, vars
    <2> QED BY <2>1, JobsUnmoved DEF CallsEnded
  <1>5. CASE CollectBundle
    <2>1. UNCHANGED <<project, key, events, jobs, call, purger>> /\ bundle' = "gone"
      BY <1>5 DEF CollectBundle
    <2> QED BY <2>1, JobsUnmoved DEF CallsEnded
  <1>6. CASE Crash
    <2>1. UNCHANGED <<project, key, events, bundle, jobs>> /\ purger' = Idle
      BY <1>6 DEF Crash
    <2>2. CallsEnded'
      BY <1>6 DEF Crash, CallsEnded
    <2> QED BY <2>1, <2>2, JobsUnmoved
  <1> QED BY <1>1, <1>2, <1>3, <1>4, <1>5, <1>6

-----------------------------------------------------------------------------
(* The theorems *)

LEMMA InitInv ==
  ASSUME Init PROVE DeletionInv
  <1>1. /\ original \in Originals /\ original.project \in {"active", "disabled"}
        /\ original.key \in {"active", "disabled"} /\ transactional \in BOOLEAN
    BY DEF Init
  <1>2. TypeOK
    <2>1. project \in States /\ key \in {"active", "disabled", "suspended", None}
      BY <1>1 DEF Init, States
    <2>2. events \subseteq Calls \cup InitialEvents /\ bundle \in {"bound", "orphaned", "gone"}
      BY DEF Init
    <2>3. /\ slug \in {"reserved", "released"} /\ fenced \in BOOLEAN
          /\ graceOver \subseteq Operations /\ purged \subseteq Operations
      BY DEF Init
    <2>4. \A o \in Operations : jobs[o] = NoJob
      BY DEF Init
    <2>5. call \in [Calls -> {"idle", "authorized", "entered", "queued", "done"}]
      BY DEF Init
    <2>6. faults \in 0..MaxFaults
      BY DeletionAssumption DEF Init
    <2> QED BY <1>1, <2>1, <2>2, <2>3, <2>4, <2>5, <2>6 DEF TypeOK
  <1>3. MemoryOK
    BY DEF Init, MemoryOK, Requests, Cancels, Purgers
  <1>4. \A o \in Operations : jobs[o].phase = "none"
    BY DEF Init, NoJob
  <1>5. Active = {}
    BY <1>4 DEF Active
  <1>6. TransactionsOnly
    BY DEF Init, TransactionsOnly, Idle
  <1>7. UntouchedWithout /\ OnlyFencedInGrace /\ PurgedSoFar /\ PurgedByPurge
    BY <1>4 DEF Init, UntouchedWithout, OnlyFencedInGrace, PurgedSoFar, PurgedByPurge
  <1>8. TombstoneIsLast
    BY <1>1 DEF Init, TombstoneIsLast
  <1>9. purger = Idle /\ purger.at = "idle"
    BY DEF Init, Idle
  <1>10. WorkerHoldsJob /\ NoPassInGrace /\ SecondPassBehind /\ SecondPassBatch
    BY <1>4, <1>9 DEF WorkerHoldsJob, NoPassInGrace, SecondPassBehind, SecondPassBatch,
       SecondPassOf
  <1>11. project # "deleted"
    BY <1>1 DEF Init
  <1>12. TransactionalInv
    BY <1>5, <1>6, <1>7, <1>8 DEF TransactionalInv
  <1>13. SequentialInv
    BY <1>5, <1>8, <1>10, <1>11 DEF SequentialInv
  <1> QED BY <1>2, <1>3, <1>12, <1>13 DEF DeletionInv

\* Jobs, commands, worker and project agree in every state a deletion reaches: the
\* inductive invariant.
THEOREM DeletionInvariant == Spec => []DeletionInv
  <1>1. Init => DeletionInv
    BY InitInv
  <1>2. DeletionInv /\ [Next]_vars => DeletionInv'
    <2> SUFFICES ASSUME DeletionInv, [Next]_vars PROVE DeletionInv'
      OBVIOUS
    <2>1. (TypeOK /\ MemoryOK)'
      BY TypeStep
    <2>2. ASSUME transactional PROVE TransactionalInv'
      <3>1. ~(MarkProject \/ MarkJob \/ PurgeBatch \/ PersistCursor \/ Advance \/ CompleteJob)
        <4>1. purger.at = "idle"
          BY <2>2 DEF DeletionInv, TransactionalInv, TransactionsOnly, Idle
        <4> QED BY <4>1 DEF MarkProject, MarkJob, PurgeBatch, PersistCursor, Advance,
                   CompleteJob
      <3>2. \A o \in Operations : ~FindJob(o)
        BY <2>2 DEF FindJob
      <3> QED BY <2>2, <3>1, <3>2, IngestInv, RequestInv, CancelInv, PurgeInv, OthersInv
              DEF Next, Purge
    <2>3. ASSUME ~transactional PROVE SequentialInv'
      <3>1. \A o \in Operations : ~PurgeTransaction(o)
        BY <2>3 DEF PurgeTransaction
      <3> QED BY <2>3, <3>1, IngestSeq, RequestSeq, CancelSeq, MarkSeq, BatchSeq,
                 CursorSeq, AdvanceSeq, OthersSeq DEF Next, Purge
    <2>4. transactional' = transactional
      BY DEF Next, vars, Ingest, Authorize, TryEnter, DropCall, Insert, Request,
         RequestTransaction, ReadProject, LookForJob, InsertJob, FenceProject,
         FenceKeys, FenceRegistry, Drained, Cancel, CancelTransaction, ReadJob,
         RestoreProject, ResumeKeys, CancelJob, Unfence, GracePasses, ExpireJob,
         AbandonCommand, Purge, PurgeTransaction, FindJob, MarkProject, MarkJob,
         PurgeBatch, PersistCursor, Advance, CompleteJob, ReleaseSlug, CollectBundle,
         AbandonPurge, Crash
    <2> QED BY <2>1, <2>2, <2>3, <2>4 DEF DeletionInv
  <1> QED BY <1>1, <1>2, PTL DEF Spec

\* Every variable stays within its type, on both stores.
THEOREM DeletionTypeOK == Spec => []TypeOK
  <1>1. DeletionInv => TypeOK
    BY DEF DeletionInv
  <1> QED BY <1>1, DeletionInvariant, PTL

\* PostgreSQL: a deletion that was cancelled has removed nothing, and without a deletion
\* under way the project and its key are as they were before the first.
THEOREM DeletionCancelledChangesNothing == Spec => []CancelledChangesNothing
  <1>1. DeletionInv => CancelledChangesNothing
    BY DEF DeletionInv, TransactionalInv, UntouchedWithout, PurgedByPurge,
       CancelledChangesNothing, CancelledKeepsData
  <1> QED BY <1>1, DeletionInvariant, PTL

\* Nothing of the project is left once its tombstone is written (advance_or_complete), on
\* either store, however large its datasets are, however many events are in flight when
\* it is fenced and however commands, worker and faults interleave.
THEOREM DeletionTombstoneIsLast == Spec => []TombstoneIsLast
  <1>1. DeletionInv => TombstoneIsLast
    BY DEF DeletionInv, TransactionalInv, SequentialInv
  <1> QED BY <1>1, DeletionInvariant, PTL

=============================================================================
