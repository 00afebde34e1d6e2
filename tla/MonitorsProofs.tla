--------------------------- MODULE MonitorsProofs ---------------------------
(***************************************************************************)
(* Proofs about Monitors: the first outcome of a run stays, on both stores,*)
(* and on PostgreSQL a monitor shows the run received last, for every      *)
(* number of check-ins, length of batches, schedule and order of actors.   *)
(* Most of it is about what a batch of check-ins makes of the runs.        *)
(***************************************************************************)
EXTENDS Monitors, Integers, WellFoundedInduction, TLAPS

USE MonitorsAssumption, NoneAssumption

-----------------------------------------------------------------------------
(* Induction, for a set: the provers do not instantiate one for a predicate *)

\* A non-empty set of naturals has a least element.
LEMMA LeastNat ==
  ASSUME NEW T \in SUBSET Nat, T # {}
  PROVE  \E n \in T : \A m \in T : n <= m
  <1> DEFINE R == {p \in Nat \X Nat : p[1] < p[2]}
  <1>1. IsWellFoundedOn(R, Nat)
    BY NatLessThanWellFounded, Zenon DEF OpToRel
  <1>2. \A m, n \in Nat : m < n => <<m, n>> \in R
    OBVIOUS
  <1> HIDE DEF R
  <1>3. \E n \in T : \A m \in T : ~ (<<m, n>> \in R)
    BY <1>1, WFMin
  <1>4. PICK n \in T : \A m \in T : ~ (<<m, n>> \in R)
    BY <1>3
  <1>5. ASSUME NEW m \in T PROVE n <= m
    <2>1. ~ (m < n)
      BY <1>2, <1>4
    <2> QED BY <2>1
  <1> QED BY <1>5

\* Induction up to n: a set that holds 0 and, with each number below n, the next.
LEMMA UpTo ==
  ASSUME NEW n \in Nat, NEW G, 0 \in G, \A i \in 0..n : i \in G /\ i < n => i + 1 \in G
  PROVE  \A i \in 0..n : i \in G
  <1> SUFFICES ASSUME NEW j \in 0..n, j \notin G PROVE FALSE
    OBVIOUS
  <1> DEFINE B == {i \in 0..n : i \notin G}
  <1>1. B \in SUBSET Nat /\ B # {}
    OBVIOUS
  <1>2. PICK m \in B : \A k \in B : m <= k
    <2> HIDE DEF B
    <2> QED BY <1>1, LeastNat
  <1>3. m # 0 /\ m \in Nat /\ m <= n
    OBVIOUS
  <1>4. m - 1 \in G
    BY <1>2, <1>3
  <1>5. m - 1 \in 0..n /\ m - 1 < n
    BY <1>3
  <1>6. (m - 1) + 1 \in G
    BY <1>4, <1>5
  <1>7. (m - 1) + 1 = m
    BY <1>3
  <1> QED BY <1>6, <1>7

-----------------------------------------------------------------------------
(* Batches *)

\* A function may be defined from each of its values to the next.
Steps(N, A) == [1..N -> [A -> A]]

Stepwise(N, A, base, step) ==
    \E f \in [0..N -> A] : f[0] = base /\ \A i \in 1..N : f[i] = step[i][f[i - 1]]

LEMMA StepwiseFunction ==
  ASSUME NEW N \in Nat, NEW A, NEW base \in A, NEW step \in Steps(N, A)
  PROVE  Stepwise(N, A, base, step)
  <1> DEFINE Folds(f, n) == f[0] = base /\ \A i \in 1..n : f[i] = step[i][f[i - 1]]
             G == {n \in 0..N : \E f \in [0..n -> A] : Folds(f, n)}
  <1>1. 0 \in G
    <2>1. [i \in 0..0 |-> base] \in [0..0 -> A] /\ Folds([i \in 0..0 |-> base], 0)
      OBVIOUS
    <2> HIDE DEF Folds
    <2> QED BY <2>1
  <1>2. ASSUME NEW n \in 0..N, n \in G, n < N PROVE n + 1 \in G
    <2>1. PICK f \in [0..n -> A] : Folds(f, n)
      BY <1>2
    <2> DEFINE g == [i \in 0..(n + 1) |-> IF i = n + 1 THEN step[n + 1][f[n]] ELSE f[i]]
    <2>2. n \in 0..n /\ n + 1 \in 1..N
      BY <1>2
    <2>3. step[n + 1][f[n]] \in A
      BY <2>2 DEF Steps
    <2>4. g \in [0..(n + 1) -> A]
      BY <1>2, <2>3
    <2>5. g[0] = base
      BY <1>2, <2>1
    <2>6. ASSUME NEW i \in 1..(n + 1) PROVE g[i] = step[i][g[i - 1]]
      <3>1. CASE i = n + 1
        BY <3>1, <1>2
      <3>2. CASE i \in 1..n
        <4>1. g[i] = f[i] /\ g[i - 1] = f[i - 1]
          BY <3>2, <1>2
        <4> QED BY <4>1, <3>2, <2>1
      <3> QED BY <3>1, <3>2, <1>2
    <2> HIDE DEF g
    <2>7. Folds(g, n + 1)
      BY <2>5, <2>6
    <2>8. n + 1 \in 0..N
      BY <2>2
    <2> HIDE DEF Folds
    <2> QED BY <2>4, <2>7, <2>8
  <1>3. \A i \in 0..N : i \in G
    <2> HIDE DEF G
    <2> QED BY <1>1, <1>2, UpTo
  <1>4. N \in G
    <2> HIDE DEF G
    <2> QED BY <1>3
  <1>5. \E f \in [0..N -> A] : f[0] = base /\ \A i \in 1..N : f[i] = step[i][f[i - 1]]
    BY <1>4
  <1>6. QED
    BY <1>5 DEF Stepwise

\* The runs while a batch is merged, and what was accepted so far.
Merging ==
    [runs : [RunIds -> RunRecord \cup {NoRun}], accepted : Seq(Writes), invalid : BOOLEAN]

\* How an update changes a run.
Changes(run, update, new) ==
    /\ new \in RunRecord
    /\ new.received = update.received /\ new.status = update.status
    /\ run = NoRun \/ (InProgress(run) /\ run.started <= update.received)
    /\ InProgress(new) => /\ new.started = new.received
                          /\ new.timeout = new.received + MaxRuntime

\* A new run of an update, and one that an update ends.
LEMMA NewRunFacts ==
  ASSUME NEW u \in Updates PROVE Changes(NoRun, u, NewRun(u))
  <1>1. /\ u.received \in 1..MaxClock /\ u.status \in Terminal \cup {"in_progress"}
        /\ u.received \in Times
    BY DEF Updates, Times
  <1>2. u.received + MaxRuntime \in Nat
    BY <1>1
  <1> QED BY <1>1, <1>2 DEF Changes, NewRun, TimeoutAt, RunRecord, InProgress

LEMMA EndedFacts ==
  ASSUME NEW run \in RunRecord, InProgress(run), NEW s \in Terminal,
         NEW received \in 1..MaxClock
  PROVE  /\ Ended(run, s, received) \in RunRecord
         /\ Ended(run, s, received).status = s /\ Ended(run, s, received).received = received
         /\ ~InProgress(Ended(run, s, received))
  BY DEF Ended, RunRecord, InProgress, Terminal

LEMMA MergeOneFacts ==
  ASSUME NEW m \in Merging, NEW u \in Reports
  PROVE  /\ MergeOne(m, u) \in Merging
         /\ \/ /\ MergeOne(m, u).runs = m.runs
               /\ MergeOne(m, u).accepted = m.accepted
            \/ \E new \in RunRecord, insert \in BOOLEAN :
                 /\ Changes(m.runs[u.id], u, new)
                 /\ MergeOne(m, u).runs = [m.runs EXCEPT ![u.id] = new]
                 /\ MergeOne(m, u).accepted =
                      Append(m.accepted, [update |-> u, insert |-> insert])
  <1> DEFINE run == m.runs[u.id]
             change(new, insert) ==
               [runs |-> [m.runs EXCEPT ![u.id] = new],
                accepted |-> Append(m.accepted, [update |-> u, insert |-> insert]),
                invalid |-> m.invalid]
  <1>1. /\ u \in Updates /\ u.id \in RunIds /\ u.status \in Terminal \cup {"in_progress"}
        /\ u.received \in 1..MaxClock
    BY DEF Reports, Updates
  <1>2. run \in RunRecord \cup {NoRun} /\ m.accepted \in Seq(Writes)
        /\ m.runs \in [RunIds -> RunRecord \cup {NoRun}]
    BY <1>1 DEF Merging
  <1>3. ASSUME NEW new, NEW insert \in BOOLEAN, Changes(run, u, new),
               insert \/ u.status \in Terminal,
               MergeOne(m, u) = change(new, insert)
        PROVE  /\ MergeOne(m, u) \in Merging
               /\ MergeOne(m, u).runs = [m.runs EXCEPT ![u.id] = new]
               /\ MergeOne(m, u).accepted =
                      Append(m.accepted, [update |-> u, insert |-> insert])
    <2>1. new \in RunRecord
      BY <1>3 DEF Changes
    <2>2. [update |-> u, insert |-> insert] \in Writes
      BY <1>3 DEF Writes
    <2>3. Append(m.accepted, [update |-> u, insert |-> insert]) \in Seq(Writes)
      BY <1>2, <2>2
    <2>4. [m.runs EXCEPT ![u.id] = new] \in [RunIds -> RunRecord \cup {NoRun}]
      BY <1>2, <2>1
    <2> QED BY <1>3, <2>3, <2>4 DEF Merging
  <1>4. CASE run = NoRun
    <2>1. MergeOne(m, u) = change(NewRun(u), TRUE)
      BY <1>4 DEF MergeOne
    <2>2. Changes(run, u, NewRun(u))
      BY <1>1, <1>4, NewRunFacts
    <2> HIDE DEF change, run
    <2>3. \E new \in RunRecord, insert \in BOOLEAN :
            /\ Changes(run, u, new) /\ MergeOne(m, u) = change(new, insert)
            /\ insert \/ u.status \in Terminal
      BY <2>1, <2>2 DEF Changes
    <2> QED BY <2>3, <1>3 DEF run
  <1>5. CASE InProgress(run) /\ u.status \in Terminal /\ ~(u.received < run.started)
    <2> DEFINE ended == Ended(run, u.status, u.received)
    <2>1. MergeOne(m, u) = change(ended, FALSE)
      BY <1>5 DEF MergeOne, InProgress
    <2>2. run \in RunRecord /\ run.started \in Nat /\ u.received \in Nat
      <3>1. run # NoRun
        BY <1>5 DEF InProgress
      <3>2. run \in RunRecord
        BY <1>2, <3>1
      <3> HIDE DEF run
      <3>3. run.started \in Times
        BY <3>2 DEF RunRecord
      <3>4. run.started \in Nat
        BY <3>3 DEF Times
      <3>5. u.received \in Nat
        BY <1>1
      <3> QED BY <3>2, <3>4, <3>5
    <2>3. Changes(run, u, ended)
      BY <1>1, <1>5, <2>2, EndedFacts DEF Changes
    <2> HIDE DEF change, run, ended
    <2>4. \E new \in RunRecord, insert \in BOOLEAN :
            /\ Changes(run, u, new) /\ MergeOne(m, u) = change(new, insert)
            /\ insert \/ u.status \in Terminal
      BY <1>5, <2>1, <2>3 DEF Changes
    <2> QED BY <2>4, <1>3 DEF run
  <1>6. CASE run # NoRun /\ ~(InProgress(run) /\ u.status \in Terminal
                              /\ ~(u.received < run.started))
    <2>1. MergeOne(m, u) = m \/ MergeOne(m, u) = [m EXCEPT !.invalid = TRUE]
      BY <1>6 DEF MergeOne
    <2> QED BY <2>1 DEF Merging
  <1> QED BY <1>4, <1>5, <1>6

\* What holds of a batch that is being merged: a run that was changed had not ended, did
\* not get older, and has what one of the accepted updates says; an accepted update that
\* a run does not show is followed by one for the same run that is not older.
Traced(m, r) ==
    \/ m.runs[r] = runs[r]
    \/ /\ runs[r] = NoRun \/ InProgress(runs[r])
       /\ m.runs[r] # NoRun
       /\ runs[r] # NoRun => runs[r].received <= m.runs[r].received
       /\ \E k \in 1..Len(m.accepted) : /\ m.accepted[k].update.id = r
                                       /\ m.accepted[k].update.received = m.runs[r].received

Shown(m, k) ==
    LET u == m.accepted[k].update
    IN  \/ /\ m.runs[u.id] # NoRun
           /\ m.runs[u.id].received = u.received /\ m.runs[u.id].status = u.status
        \/ \E j \in 1..Len(m.accepted) : /\ j > k /\ m.accepted[j].update.id = u.id
                                         /\ u.received <= m.accepted[j].update.received

Begun(run) ==
    InProgress(run) =>
        run.started = run.received /\ run.timeout = run.received + MaxRuntime

MergeInv(m) ==
    /\ m \in Merging
    /\ \A r \in RunIds : Traced(m, r)
    /\ \A k \in 1..Len(m.accepted) : Shown(m, k)
    /\ \A r \in RunIds : Begun(m.runs[r])
    /\ \A slot \in Times : m.runs[<<"missed", slot>>] = runs[<<"missed", slot>>]

LEMMA MergeStep ==
  ASSUME TypeOK, NEW m, MergeInv(m), NEW u \in Reports PROVE MergeInv(MergeOne(m, u))
  <1> DEFINE n == MergeOne(m, u)
  <1>0. /\ m \in Merging /\ u.id \in RunIds /\ u.received \in Nat
        /\ \A slot \in Times : u.id # <<"missed", slot>> /\ <<"missed", slot>> \in RunIds
        /\ runs \in [RunIds -> RunRecord \cup {NoRun}]
    BY DEF MergeInv, Reports, Updates, RunIds, TypeOK
  <1>1. n \in Merging
    BY <1>0, MergeOneFacts
  <1>2. CASE n.runs = m.runs /\ n.accepted = m.accepted
    BY <1>1, <1>2 DEF MergeInv, Traced, Shown
  <1>3. ASSUME NEW new \in RunRecord, NEW insert \in BOOLEAN, Changes(m.runs[u.id], u, new),
               n.runs = [m.runs EXCEPT ![u.id] = new],
               n.accepted = Append(m.accepted, [update |-> u, insert |-> insert])
        PROVE  MergeInv(n)
    <2> DEFINE L == Len(m.accepted)
               run == m.runs[u.id]
    <2>1. /\ L \in Nat /\ Len(n.accepted) = L + 1
          /\ \A k \in 1..L : n.accepted[k] = m.accepted[k]
          /\ n.accepted[L + 1].update = u
      BY <1>0, <1>3 DEF Merging
    <2>2. /\ m.runs \in [RunIds -> RunRecord \cup {NoRun}]
          /\ n.runs[u.id] = new /\ \A r \in RunIds : r # u.id => n.runs[r] = m.runs[r]
      BY <1>0, <1>3 DEF Merging
    <2>3. /\ new # NoRun /\ new.received = u.received /\ new.status = u.status
          /\ Begun(new)
          /\ run = NoRun \/ (InProgress(run) /\ run.started <= u.received)
      BY <1>3 DEF Changes, Begun
    <2>4. run # NoRun => /\ InProgress(run) /\ run.received <= u.received
                         /\ run.received \in Nat
      BY <1>0, <2>2, <2>3 DEF MergeInv, Begun, RunRecord, InProgress
    <2> HIDE DEF n, L, run
    <2>5. ASSUME NEW r \in RunIds PROVE Traced(n, r)
      <3>1. CASE r # u.id
        <4>1. n.runs[r] = m.runs[r] /\ Traced(m, r)
          BY <2>2, <3>1 DEF MergeInv
        <4>2. CASE m.runs[r] = runs[r]
          BY <4>1, <4>2 DEF Traced
        <4>3. CASE m.runs[r] # runs[r]
          <5>1. PICK k \in 1..L : /\ m.accepted[k].update.id = r
                                  /\ m.accepted[k].update.received = m.runs[r].received
            BY <4>1, <4>3 DEF Traced, L
          <5>2. k \in 1..Len(n.accepted) /\ n.accepted[k] = m.accepted[k]
            BY <2>1
          <5> QED BY <4>1, <4>3, <5>1, <5>2 DEF Traced
        <4> QED BY <4>2, <4>3
      <3>2. CASE r = u.id
        <4>1. L + 1 \in 1..Len(n.accepted)
          BY <2>1
        <4>2. \E k \in 1..Len(n.accepted) : /\ n.accepted[k].update.id = r
                                            /\ n.accepted[k].update.received = n.runs[r].received
          BY <2>1, <2>2, <2>3, <3>2, <4>1
        <4>3. runs[r] = NoRun \/ InProgress(runs[r])
          BY <2>4, <3>2 DEF MergeInv, Traced, run
        <4>4. ASSUME runs[r] # NoRun PROVE runs[r].received <= n.runs[r].received
          <5>1. run # NoRun /\ runs[r].received <= run.received /\ runs[r].received \in Nat
            <6>1. Traced(m, r)
              BY DEF MergeInv
            <6>2. runs[r] \in RunRecord
              BY <1>0, <4>4
            <6>3. runs[r].received \in Nat
              BY <6>2 DEF RunRecord
            <6>4. run # NoRun /\ runs[r].received <= run.received
              BY <3>2, <4>4, <6>1, <6>3 DEF Traced, run
            <6> QED BY <6>3, <6>4
          <5> QED BY <1>0, <2>2, <2>3, <2>4, <3>2, <5>1
        <4> QED BY <2>2, <2>3, <3>2, <4>2, <4>3, <4>4 DEF Traced
      <3> QED BY <3>1, <3>2
    <2>6. ASSUME NEW k \in 1..Len(n.accepted) PROVE Shown(n, k)
      <3>1. CASE k = L + 1
        BY <2>1, <2>2, <2>3, <3>1 DEF Shown
      <3>2. CASE k \in 1..L
        <4> DEFINE v == m.accepted[k].update
        <4>1. v = n.accepted[k].update /\ v.id \in RunIds /\ v.received \in Nat
          <5>1. m.accepted[k] \in Writes
            BY <1>0, <3>2 DEF Merging, L
          <5>2. v \in Reports
            BY <5>1 DEF Writes
          <5>3. v.id \in RunIds /\ v.received \in 1..MaxClock
            BY <5>2 DEF Reports, Updates
          <5>4. m.accepted[k] = n.accepted[k]
            BY <2>1, <3>2
          <5> HIDE DEF v
          <5>5. v.received \in Nat
            BY <5>3
          <5> QED BY <5>3, <5>4, <5>5 DEF v
        <4>2. CASE \E j \in 1..L : /\ j > k /\ m.accepted[j].update.id = v.id
                                   /\ v.received <= m.accepted[j].update.received
          <5>1. PICK j \in 1..L : /\ j > k /\ m.accepted[j].update.id = v.id
                                   /\ v.received <= m.accepted[j].update.received
            BY <4>2
          <5>2. j \in 1..Len(n.accepted) /\ n.accepted[j] = m.accepted[j]
            BY <2>1
          <5> HIDE DEF v
          <5> QED BY <4>1, <5>1, <5>2 DEF Shown
        <4>3. CASE /\ m.runs[v.id] # NoRun
                   /\ m.runs[v.id].received = v.received /\ m.runs[v.id].status = v.status
          <5>1. CASE v.id # u.id
            BY <2>2, <4>1, <4>3, <5>1 DEF Shown
          <5>2. CASE v.id = u.id
            <6>1. v.received <= u.received
              BY <2>4, <4>3, <5>2 DEF run
            <6>2. L + 1 \in 1..Len(n.accepted) /\ L + 1 > k
              BY <2>1, <3>2
            <6> HIDE DEF v
            <6> QED BY <2>1, <4>1, <5>2, <6>1, <6>2 DEF Shown
          <5> QED BY <5>1, <5>2
        <4> QED BY <3>2, <4>2, <4>3 DEF MergeInv, Shown, L
      <3> QED BY <2>1, <3>1, <3>2
    <2>7. \A r \in RunIds : Begun(n.runs[r])
      BY <2>2, <2>3 DEF MergeInv
    <2>8. \A slot \in Times : n.runs[<<"missed", slot>>] = runs[<<"missed", slot>>]
      BY <1>0, <2>2 DEF MergeInv
    <2> QED BY <1>1, <2>5, <2>6, <2>7, <2>8 DEF MergeInv
  <1> HIDE DEF n
  <1> QED BY <1>0, <1>2, <1>3, MergeOneFacts DEF n

\* What a batch makes of the runs.
LEMMA MergeFacts ==
  ASSUME TypeOK, RunsConsistent, NEW updates \in Seq(Reports)
  PROVE  MergeInv(Merge(updates))
  <1> DEFINE N == Len(updates)
             base == [runs |-> runs, accepted |-> <<>>, invalid |-> FALSE]
             Step(f, n) == IF n = 0 THEN base ELSE MergeOne(f[n - 1], updates[n])
             Good(f) == f = [n \in 0..N |-> Step(f, n)]
  <1>1. N \in Nat /\ \A i \in 1..N : updates[i] \in Reports
    OBVIOUS
  <1>2. MergeInv(base)
    <2>1. base \in Merging
      BY DEF Merging, TypeOK
    <2> QED BY <2>1 DEF MergeInv, Traced, Begun, RunsConsistent
  <1>3. \E f : Good(f)
    <2> DEFINE step == [i \in 1..N |-> [m \in Merging |-> MergeOne(m, updates[i])]]
    <2>1. step \in Steps(N, Merging)
      BY <1>1, MergeOneFacts DEF Steps
    <2>2. base \in Merging
      BY <1>2 DEF MergeInv
    <2> HIDE DEF step, N, base, Step, Good
    <2>3. Stepwise(N, Merging, base, step)
      BY <1>1, <2>1, <2>2, StepwiseFunction, Zenon
    <2>4. PICK f \in [0..N -> Merging] :
            f[0] = base /\ \A i \in 1..N : f[i] = step[i][f[i - 1]]
      BY <2>3, Zenon DEF Stepwise
    <2>5. ASSUME NEW i \in 0..N PROVE f[i] = Step(f, i)
      <3>1. CASE i = 0
        BY <2>4, <3>1 DEF Step
      <3>2. CASE i \in 1..N
        <4>1. i - 1 \in 0..N
          BY <1>1, <3>2
        <4>2. step[i][f[i - 1]] = MergeOne(f[i - 1], updates[i])
          BY <3>2, <4>1 DEF step
        <4> QED BY <1>1, <2>4, <3>2, <4>2 DEF Step
      <3> QED BY <1>1, <3>1, <3>2
    <2>6. Good(f)
      BY <2>4, <2>5 DEF Good
    <2> QED BY <2>6
  <1>4. Good(CHOOSE f : Good(f))
    <2> HIDE DEF Good
    <2> QED BY <1>3
  <1>5. PICK f : Good(f) /\ Merge(updates) = f[N]
    BY <1>4 DEF Merge
  <1>6. ASSUME NEW i \in 0..N PROVE f[i] = Step(f, i)
    <2> HIDE DEF Step
    <2> QED BY <1>5, Zenon
  <1> DEFINE G == {i \in 0..N : MergeInv(f[i])}
  <1>7. 0 \in G
    <2>1. 0 \in 0..N
      BY <1>1
    <2>2. f[0] = base
      BY <1>6, <2>1
    <2> HIDE DEF base
    <2> QED BY <1>2, <2>1, <2>2
  <1>8. ASSUME NEW i \in 0..N, i \in G, i < N PROVE i + 1 \in G
    <2>1. i + 1 \in 0..N /\ i + 1 \in 1..N /\ i + 1 # 0 /\ (i + 1) - 1 = i
      BY <1>1, <1>8
    <2>2. f[i + 1] = MergeOne(f[i], updates[i + 1])
      BY <1>6, <2>1
    <2>3. MergeInv(MergeOne(f[i], updates[i + 1]))
      BY <1>1, <1>8, <2>1, MergeStep
    <2> QED BY <2>1, <2>2, <2>3
  <1>9. N \in G
    <2> HIDE DEF G, N
    <2>1. \A i \in 0..N : i \in G
      BY <1>1, <1>7, <1>8, UpTo
    <2> QED BY <1>1, <2>1
  <1> QED BY <1>5, <1>9

\* What a batch makes of the monitor: its last run stays, a new monitor has none.
Redefined(m) ==
    /\ m \in MonitorRecord \cup {NoMonitor}
    /\ monitor # NoMonitor =>
        /\ m # NoMonitor
        /\ m.last = monitor.last /\ m.status = monitor.status /\ m.seen = monitor.seen
    /\ monitor = NoMonitor /\ m # NoMonitor => m.seen = 0

\* Moments, and the next run after one of them.
LEMMA NextAfterFacts ==
  ASSUME NEW time \in 1..MaxClock PROVE NextAfter(time) \in Times /\ time \in Times
  BY DEF NextAfter, Times

LEMMA NewMonitorFacts ==
  ASSUME NEW created \in 1..MaxClock, NEW managed \in BOOLEAN
  PROVE  /\ NewMonitor(created, managed) \in MonitorRecord
         /\ NewMonitor(created, managed).seen = 0 /\ ~NewMonitor(created, managed).invalid
  <1>1. NextAfter(created) \in Times
    BY NextAfterFacts
  <1> QED BY <1>1 DEF NewMonitor, MonitorRecord

LEMMA DefineStep ==
  ASSUME NEW m, Redefined(m), NEW u \in Reports PROVE Redefined(Define(m, u))
  <1>1. u.received \in 1..MaxClock
    BY DEF Reports, Updates
  <1>2. NextAfter(u.received) \in Times
    BY <1>1, NextAfterFacts
  <1> DEFINE next == NextAfter(u.received)
             early == u.received < m.created
  <1> HIDE DEF next, early
  <1>3. CASE Define(m, u) = m
    BY <1>3
  <1>4. CASE Define(m, u) = NewMonitor(u.received, FALSE) /\ m = NoMonitor
    <2>1. /\ NewMonitor(u.received, FALSE) \in MonitorRecord
          /\ NewMonitor(u.received, FALSE).seen = 0
      BY <1>1, NewMonitorFacts
    <2> QED BY <1>4, <2>1 DEF Redefined
  <1>5. CASE Define(m, u) = [m EXCEPT !.next = next, !.invalid = early] /\ m # NoMonitor
    <2>1. m \in MonitorRecord /\ early \in BOOLEAN
      BY <1>5 DEF Redefined, early
    <2> DEFINE n == [m EXCEPT !.next = next, !.invalid = early]
    <2>2. n \in MonitorRecord /\ n.last = m.last /\ n.status = m.status /\ n.seen = m.seen
      BY <1>2, <2>1 DEF MonitorRecord, next
    <2> HIDE DEF n
    <2>3. Define(m, u) = n
      BY <1>5 DEF n
    <2> QED BY <1>5, <2>2, <2>3 DEF Redefined
  <1> QED BY <1>3, <1>4, <1>5 DEF Define, next, early

LEMMA DefinedFacts ==
  ASSUME TypeOK, NEW updates \in Seq(Reports)
  PROVE  Redefined(Defined(updates))
  <1> DEFINE N == Len(updates)
             Known == {m \in MonitorRecord \cup {NoMonitor} : Redefined(m)}
             Step(f, n) == IF n = 0 THEN monitor ELSE Define(f[n - 1], updates[n])
             Good(f) == f = [n \in 0..N |-> Step(f, n)]
  <1>1. N \in Nat /\ \A i \in 1..N : updates[i] \in Reports
    OBVIOUS
  <1>2. monitor \in Known
    BY DEF TypeOK, Redefined
  <1>3. \E f : Good(f)
    <2> DEFINE step == [i \in 1..N |-> [m \in Known |-> Define(m, updates[i])]]
    <2>1. step \in Steps(N, Known)
      <3>1. ASSUME NEW i \in 1..N, NEW m \in Known PROVE Define(m, updates[i]) \in Known
        <4>1. Redefined(Define(m, updates[i]))
          BY <1>1, DefineStep
        <4> QED BY <4>1 DEF Redefined
      <3> HIDE DEF Known, N
      <3> QED BY <3>1 DEF Steps
    <2> HIDE DEF step, N, Step, Good, Known
    <2>3. Stepwise(N, Known, monitor, step)
      BY <1>1, <1>2, <2>1, StepwiseFunction, Zenon
    <2>4. PICK f \in [0..N -> Known] :
            f[0] = monitor /\ \A i \in 1..N : f[i] = step[i][f[i - 1]]
      BY <2>3, Zenon DEF Stepwise
    <2>5. ASSUME NEW i \in 0..N PROVE f[i] = Step(f, i)
      <3>1. CASE i = 0
        BY <2>4, <3>1 DEF Step
      <3>2. CASE i \in 1..N
        <4>1. i - 1 \in 0..N
          BY <1>1, <3>2
        <4>2. step[i][f[i - 1]] = Define(f[i - 1], updates[i])
          BY <3>2, <4>1 DEF step
        <4> QED BY <1>1, <2>4, <3>2, <4>2 DEF Step
      <3> QED BY <1>1, <3>1, <3>2
    <2>6. Good(f)
      BY <2>4, <2>5 DEF Good
    <2> QED BY <2>6
  <1>4. Good(CHOOSE f : Good(f))
    <2> HIDE DEF Good
    <2> QED BY <1>3
  <1>5. PICK f : Good(f) /\ Defined(updates) = f[N]
    BY <1>4 DEF Defined
  <1>6. ASSUME NEW i \in 0..N PROVE f[i] = Step(f, i)
    <2> HIDE DEF Step
    <2> QED BY <1>5, Zenon
  <1> DEFINE G == {i \in 0..N : Redefined(f[i])}
  <1>7. 0 \in G
    <2>1. 0 \in 0..N
      BY <1>1
    <2>2. f[0] = monitor
      BY <1>6, <2>1
    <2> QED BY <1>2, <2>1, <2>2
  <1>8. ASSUME NEW i \in 0..N, i \in G, i < N PROVE i + 1 \in G
    <2>1. i + 1 \in 0..N /\ i + 1 \in 1..N /\ i + 1 # 0 /\ (i + 1) - 1 = i
      BY <1>1, <1>8
    <2>2. f[i + 1] = Define(f[i], updates[i + 1])
      BY <1>6, <2>1
    <2>3. Redefined(Define(f[i], updates[i + 1]))
      BY <1>1, <1>8, <2>1, DefineStep
    <2> QED BY <2>1, <2>2, <2>3
  <1>9. N \in G
    <2> HIDE DEF G, N
    <2>1. \A i \in 0..N : i \in G
      BY <1>1, <1>7, <1>8, UpTo
    <2> QED BY <1>1, <2>1
  <1> QED BY <1>5, <1>9

-----------------------------------------------------------------------------
(* Projections *)

\* A bounded set of naturals that is not empty has a greatest element.
LEMMA GreatestNat ==
  ASSUME NEW T \in SUBSET Nat, T # {}, NEW b \in Nat, \A x \in T : x <= b
  PROVE  \E n \in T : \A x \in T : x <= n
  <1> DEFINE U == {b - x : x \in T}
  <1>1. U \in SUBSET Nat /\ U # {}
    <2>1. \A x \in T : b - x \in Nat
      OBVIOUS
    <2> QED BY <2>1
  <1>2. PICK d \in U : \A e \in U : d <= e
    <2> HIDE DEF U
    <2> QED BY <1>1, LeastNat
  <1>3. PICK n \in T : d = b - n
    OBVIOUS
  <1>4. ASSUME NEW x \in T PROVE x <= n
    <2>1. b - x \in U
      OBVIOUS
    <2>2. b - n <= b - x
      BY <1>2, <1>3, <2>1
    <2> QED BY <2>2
  <1> QED BY <1>4

\* Of what was accepted there is one that was received last.
LEMMA LatestFacts ==
  ASSUME NEW accepted \in Seq(Writes), accepted # <<>>
  PROVE  \E n \in 1..Len(accepted) :
           /\ Latest(accepted) = accepted[n].update
           /\ \A k \in 1..Len(accepted) :
                \/ accepted[k].update.received < accepted[n].update.received
                \/ accepted[k].update.received = accepted[n].update.received /\ k <= n
  <1> DEFINE L == Len(accepted)
             at(k) == accepted[k].update.received
             Newest(n) == \A k \in 1..L : at(k) < at(n) \/ (at(k) = at(n) /\ k <= n)
  <1>1. L \in Nat /\ 1 \in 1..L /\ DOMAIN accepted = 1..L
    OBVIOUS
  <1>2. ASSUME NEW k \in 1..L PROVE at(k) \in Nat /\ at(k) <= MaxClock
    <2>1. accepted[k] \in Writes
      OBVIOUS
    <2>2. accepted[k].update \in Reports
      BY <2>1 DEF Writes
    <2>3. at(k) \in 1..MaxClock
      BY <2>2 DEF Reports, Updates
    <2> QED BY <2>3
  <1> HIDE DEF L, at
  <1>3. \E n \in 1..L : Newest(n)
    <2> DEFINE T == {at(k) : k \in 1..L}
    <2>1. T \in SUBSET Nat /\ T # {} /\ \A x \in T : x <= MaxClock
      BY <1>1, <1>2
    <2>2. PICK t \in T : \A x \in T : x <= t
      <3> HIDE DEF T
      <3> QED BY <2>1, GreatestNat
    <2> DEFINE K == {k \in 1..L : at(k) = t}
    <2>3. K \in SUBSET Nat /\ K # {} /\ \A x \in K : x <= L
      BY <1>1
    <2>4. PICK n \in K : \A x \in K : x <= n
      <3> HIDE DEF K
      <3> QED BY <1>1, <2>3, GreatestNat
    <2>5. ASSUME NEW k \in 1..L PROVE at(k) < at(n) \/ (at(k) = at(n) /\ k <= n)
      <3>1. at(k) <= t /\ at(n) = t /\ at(k) \in Nat /\ t \in Nat
        BY <1>2, <2>2
      <3>2. at(k) = t => k <= n
        BY <2>4
      <3> QED BY <3>1, <3>2
    <2> QED BY <2>5
  <1>4. PICK n \in 1..L : Newest(n) /\ Latest(accepted) = accepted[n].update
    <2> DEFINE n == CHOOSE n \in 1..L : Newest(n)
    <2>1. n \in 1..L /\ Newest(n)
      <3> HIDE DEF Newest
      <3> QED BY <1>3
    <2>2. Latest(accepted) = accepted[n].update
      BY <1>1, Zenon DEF Latest, at
    <2> HIDE DEF n, Newest
    <2> QED BY <2>1, <2>2
  <1> QED BY <1>4 DEF L, at

\* What the Scheduler stores are updates.
LEMMA SchedulerUpdates ==
  ASSUME NEW now \in 1..MaxClock
  PROVE  /\ \A r \in RunIds : TimedOut(r, now) \in Updates
         /\ \A slot \in Times : Missed(slot, now) \in Updates /\ <<"missed", slot>> \in RunIds
  BY DEF TimedOut, Missed, Updates, Terminal, RunIds

LEMMA ProjectedFacts ==
  ASSUME NEW m \in MonitorRecord, NEW u \in Updates
  PROVE  /\ Projected(m, u) \in MonitorRecord
         /\ Projected(m, u).last = u.id /\ Projected(m, u).status = u.status
         /\ Projected(m, u).seen = u.received
  <1>1. /\ u.id \in RunIds /\ u.status \in Terminal \cup {"in_progress"}
        /\ u.received \in 1..MaxClock
    BY DEF Updates
  <1>2. NextAfter(u.received) \in Times /\ u.received \in 0..MaxClock
    BY <1>1, NextAfterFacts
  <1> DEFINE next == IF u.status \in Terminal THEN NextAfter(u.received) ELSE m.next
             lease == m.lease /\ ~(kind = "uptime" /\ u.status \in Terminal)
             early == u.received < m.created
  <1>3. next \in Times /\ lease \in BOOLEAN /\ early \in BOOLEAN
    BY <1>2 DEF MonitorRecord
  <1>4. Projected(m, u) = [m EXCEPT !.last = u.id, !.status = u.status,
                                    !.seen = u.received, !.invalid = early,
                                    !.next = next, !.lease = lease]
    BY DEF Projected
  <1> HIDE DEF next, lease, early
  <1> QED BY <1>1, <1>2, <1>3, <1>4 DEF MonitorRecord

LEMMA ProjectFacts ==
  ASSUME NEW m \in MonitorRecord, NEW u \in Updates
  PROVE  /\ Project(m, u) \in MonitorRecord
         /\ m.seen > u.received => Project(m, u) = m
         /\ ~(m.seen > u.received) =>
              /\ Project(m, u).last = u.id /\ Project(m, u).status = u.status
              /\ Project(m, u).seen = u.received
  BY ProjectedFacts DEF Project

\* What a monitor that is written back becomes.
LEMMA WrittenBackFacts ==
  ASSUME TypeOK, NEW m \in MonitorRecord PROVE WrittenBack(m) \in MonitorRecord
  <1>1. CASE monitor = NoMonitor
    BY <1>1 DEF WrittenBack
  <1>2. CASE monitor # NoMonitor
    <2>1. monitor \in MonitorRecord
      BY <1>2 DEF TypeOK
    <2> QED BY <1>2, <2>1 DEF WrittenBack, MonitorRecord
  <1> QED BY <1>1, <1>2

-----------------------------------------------------------------------------
(* What a call, a pass and an edit hold *)

LEMMA CallFacts ==
  ASSUME NEW c \in Calls
  PROVE  /\ c.at \in {"idle", "check", "persist", "define", "read", "write", "project"}
         /\ c.at = "check" => c.slot \in Times
         /\ c.at \in {"persist", "read"} => c.updates \in Seq(Reports)
         /\ c.at = "define" => c.updates \in Seq(Reports) /\ c.monitor \in MonitorRecord
         /\ c.at = "write" => /\ c.left \in Seq(Writes) /\ c.left # <<>>
                              /\ c.latest \in Reports
         /\ c.at = "project" => c.latest \in Reports
  BY DEF Calls, Idle

LEMMA PassFacts ==
  ASSUME NEW p \in Passes
  PROVE  /\ p.at \in {"idle", "timeouts", "project", "missed", "advance"}
         /\ p.at # "idle" => p.now \in 1..MaxClock /\ p # Idle
         /\ p.at \in {"timeouts", "project"} => p.todo \in SUBSET RunIds
         /\ p.at = "project" => p.run \in RunIds
         /\ p.at \in {"missed", "advance"} => p.slot \in Times
  BY DEF Passes, Idle

LEMMA EditFacts ==
  ASSUME NEW e \in Edits
  PROVE  /\ e = Idle \/ e.monitor \in MonitorRecord \/ e.monitor = NoMonitor
         /\ e.at = "write" => /\ e.now \in 1..MaxClock
                              /\ e.monitor \in MonitorRecord \cup {NoMonitor}
  BY DEF Edits, Idle

\* A reported update.
LEMMA ReportFacts ==
  ASSUME NEW u \in Reports
  PROVE  /\ u \in Updates /\ u.id \in RunIds /\ u.received \in 1..MaxClock
         /\ u.status \in Terminal \cup {"in_progress"}
         /\ \A slot \in Times : u.id # <<"missed", slot>>
  BY DEF Reports, Updates

-----------------------------------------------------------------------------
(* Runs *)

\* What a step may do to the runs: begin one, end one that is in progress, or store one
\* of the Scheduler's own.
RunsMove ==
    /\ runs' \in [RunIds -> RunRecord \cup {NoRun}]
    /\ \A r \in RunIds :
        \/ runs'[r] = runs[r]
        \/ /\ runs[r] = NoRun \/ InProgress(runs[r])
           /\ runs'[r] # NoRun /\ Begun(runs'[r])
    /\ \A slot \in Times :
        \/ runs'[<<"missed", slot>>] = runs[<<"missed", slot>>]
        \/ runs'[<<"missed", slot>>] # NoRun /\ runs'[<<"missed", slot>>].status = "missed"

\* One run changes.
LEMMA OneRunMoves ==
  ASSUME TypeOK, NEW r \in RunIds, NEW new \in RunRecord \cup {NoRun},
         runs' = [runs EXCEPT ![r] = new],
         \/ new = runs[r]
         \/ (runs[r] = NoRun \/ InProgress(runs[r])) /\ new # NoRun /\ Begun(new),
         \A slot \in Times : r = <<"missed", slot>> =>
            new = runs[r] \/ (new # NoRun /\ new.status = "missed")
  PROVE  RunsMove
  <1>1. runs \in [RunIds -> RunRecord \cup {NoRun}]
        /\ \A slot \in Times : <<"missed", slot>> \in RunIds
    BY DEF TypeOK, RunIds
  <1>2. /\ runs' \in [RunIds -> RunRecord \cup {NoRun}] /\ runs'[r] = new
        /\ \A q \in RunIds : q # r => runs'[q] = runs[q]
    BY <1>1
  <1> QED BY <1>1, <1>2 DEF RunsMove

\* What a batch does on PostgreSQL: nothing, or all of it, and the monitor is valid.
LEMMA PersistForms ==
  ASSUME PersistTransaction, NEW defined, defined = Defined(call.updates),
         NEW merged, merged = Merge(call.updates)
  PROVE  \/ UNCHANGED <<monitor, runs>>
         \/ /\ defined # NoMonitor /\ runs' = merged.runs /\ Valid(monitor')
            /\ \/ merged.accepted = <<>> /\ monitor' = defined
               \/ /\ merged.accepted # <<>>
                  /\ monitor' = Project(defined, Latest(merged.accepted))
  <1> DEFINE projected == IF merged.accepted = <<>> THEN defined
                          ELSE Project(defined, Latest(merged.accepted))
  <1>1. IF Valid(defined) /\ ~merged.invalid /\ Valid(projected)
        THEN runs' = merged.runs /\ monitor' = projected
        ELSE UNCHANGED <<monitor, runs>>
    BY Zenon DEF PersistTransaction
  <1>2. Valid(defined) => defined # NoMonitor
    BY DEF Valid
  <1>3. CASE Valid(defined) /\ ~merged.invalid /\ Valid(projected)
    <2>1. monitor' = projected /\ Valid(projected)
      BY <1>1, <1>3
    <2> HIDE DEF projected
    <2>2. Valid(monitor')
      BY <2>1, Zenon
    <2> QED BY <1>1, <1>2, <1>3, <2>1, <2>2 DEF projected
  <1> QED BY <1>1, <1>3

LEMMA PersistMovesRuns ==
  ASSUME MonitorsInv, PersistTransaction PROVE RunsMove
  <1>1. TypeOK /\ RunsConsistent /\ call.updates \in Seq(Reports)
    BY CallFacts DEF MonitorsInv, MemoryOK, PersistTransaction
  <1> DEFINE merged == Merge(call.updates)
  <1>2. MergeInv(merged)
    BY <1>1, MergeFacts
  <1>3. runs' = runs \/ runs' = merged.runs
    BY PersistForms
  <1> HIDE DEF merged
  <1>4. runs \in [RunIds -> RunRecord \cup {NoRun}]
    BY <1>1 DEF TypeOK
  <1>5. merged.runs \in [RunIds -> RunRecord \cup {NoRun}]
    BY <1>2 DEF MergeInv, Merging
  <1>6. CASE runs' = runs
    BY <1>4, <1>6 DEF RunsMove
  <1>7. CASE runs' = merged.runs
    BY <1>2, <1>5, <1>7 DEF RunsMove, MergeInv, Traced
  <1> QED BY <1>3, <1>6, <1>7

LEMMA WriteRunMovesRuns ==
  ASSUME MonitorsInv, WriteRun PROVE RunsMove
  <1>1. TypeOK /\ call.left \in Seq(Writes) /\ call.left # <<>>
    BY CallFacts DEF MonitorsInv, MemoryOK, WriteRun
  <1> DEFINE write == Head(call.left)
             run == runs[write.update.id]
             new == Written(run, write)
  <1>2. write \in Writes
    BY <1>1
  <1>3. write.update \in Reports
    BY <1>2 DEF Writes
  <1>4. /\ write.update \in Updates /\ write.update.id \in RunIds
        /\ write.update.received \in 1..MaxClock
        /\ write.update.status \in Terminal \cup {"in_progress"}
        /\ \A slot \in Times : write.update.id # <<"missed", slot>>
    BY <1>3, ReportFacts
  <1>5. runs' = [runs EXCEPT ![write.update.id] = new]
    BY <1>1, <1>4 DEF WriteRun, TypeOK
  <1>6. run \in RunRecord \cup {NoRun}
    BY <1>1, <1>4 DEF TypeOK
  <1> HIDE DEF write, run
  <1>7. CASE new = run
    BY <1>1, <1>4, <1>5, <1>6, <1>7, OneRunMoves DEF run
  <1>8. CASE new = NewRun(write.update) /\ run = NoRun
    <2>1. Changes(NoRun, write.update, NewRun(write.update))
      BY <1>4, NewRunFacts
    <2>2. new \in RunRecord /\ new # NoRun /\ Begun(new)
      BY <1>8, <2>1 DEF Changes, Begun
    <2> HIDE DEF new
    <2> QED BY <1>1, <1>4, <1>5, <1>8, <2>2, OneRunMoves DEF run
  <1>9. CASE /\ new = Ended(run, write.update.status, write.update.received)
             /\ InProgress(run) /\ ~write.insert
    <2>1. run \in RunRecord
      BY <1>6, <1>9 DEF InProgress
    <2>2. write.update.status \in Terminal
      BY <1>2, <1>9 DEF Writes
    <2>3. new \in RunRecord /\ ~InProgress(new)
      BY <1>4, <1>9, <2>1, <2>2, EndedFacts
    <2> HIDE DEF new
    <2> QED BY <1>1, <1>4, <1>5, <1>9, <2>3, OneRunMoves DEF run, Begun
  <1> QED BY <1>7, <1>8, <1>9 DEF Written

\* What a timeout makes of a run in progress; it is not one of the missed ones.
LEMMA TimedOutRun ==
  ASSUME MonitorsInv, NEW r \in RunIds, InProgress(runs[r]), NEW now \in 1..MaxClock
  PROVE  /\ Ended(runs[r], "timeout", now) \in RunRecord
         /\ Ended(runs[r], "timeout", now) # NoRun
         /\ Ended(runs[r], "timeout", now).status = "timeout"
         /\ Ended(runs[r], "timeout", now).received = now
         /\ ~InProgress(Ended(runs[r], "timeout", now))
         /\ \A slot \in Times : r # <<"missed", slot>>
  <1>1. runs[r] \in RunRecord /\ "timeout" \in Terminal
    BY DEF MonitorsInv, TypeOK, InProgress, Terminal
  <1>2. \A slot \in Times : r # <<"missed", slot>>
    BY DEF MonitorsInv, RunsConsistent, InProgress
  <1> QED BY <1>1, <1>2, EndedFacts

LEMMA TimeoutTransactionMovesRuns ==
  ASSUME MonitorsInv, TimeoutTransaction, runs' # runs PROVE RunsMove
  <1>1. TypeOK /\ pass.now \in 1..MaxClock /\ pass.todo \in SUBSET RunIds
    BY PassFacts DEF MonitorsInv, MemoryOK, TimeoutTransaction
  <1> DEFINE due == {r \in pass.todo : Overdue(r, pass.now)}
             ended(r) == Ended(runs[r], "timeout", pass.now)
  <1>2. /\ runs' = [r \in RunIds |-> IF r \in due THEN ended(r) ELSE runs[r]]
        /\ runs \in [RunIds -> RunRecord \cup {NoRun}]
    BY <1>1 DEF TimeoutTransaction, TypeOK
  <1>3. ASSUME NEW r \in RunIds, r \in due
        PROVE  /\ ended(r) \in RunRecord /\ ended(r) # NoRun /\ ~InProgress(ended(r))
               /\ InProgress(runs[r]) /\ \A slot \in Times : r # <<"missed", slot>>
    <2>1. InProgress(runs[r])
      BY <1>3 DEF Overdue
    <2> QED BY <1>1, <2>1, TimedOutRun
  <1> HIDE DEF due, ended
  <1>4. runs' \in [RunIds -> RunRecord \cup {NoRun}]
    BY <1>2, <1>3
  <1>5. ASSUME NEW r \in RunIds
        PROVE  \/ runs'[r] = runs[r]
               \/ /\ runs[r] = NoRun \/ InProgress(runs[r])
                  /\ runs'[r] # NoRun /\ Begun(runs'[r])
    BY <1>2, <1>3 DEF Begun
  <1>6. ASSUME NEW slot \in Times
        PROVE  runs'[<<"missed", slot>>] = runs[<<"missed", slot>>]
    <2>1. <<"missed", slot>> \in RunIds
      BY DEF RunIds
    <2> QED BY <1>2, <1>3, <2>1
  <1> QED BY <1>4, <1>5, <1>6 DEF RunsMove

LEMMA TimeoutRunMovesRuns ==
  ASSUME MonitorsInv, NEW r \in RunIds, TimeoutRun(r) PROVE RunsMove
  <1>1. TypeOK /\ pass.now \in 1..MaxClock
    BY PassFacts DEF MonitorsInv, MemoryOK, TimeoutRun
  <1> DEFINE new == Ended(runs[r], "timeout", pass.now)
  <1>2. CASE InProgress(runs[r])
    <2>1. runs' = [runs EXCEPT ![r] = new]
      BY <1>1, <1>2 DEF TimeoutRun, TypeOK
    <2>2. /\ new \in RunRecord /\ new # NoRun /\ ~InProgress(new)
          /\ \A slot \in Times : r # <<"missed", slot>>
      BY <1>1, <1>2, TimedOutRun
    <2> HIDE DEF new
    <2> QED BY <1>1, <1>2, <2>1, <2>2, OneRunMoves DEF Begun
  <1>3. CASE ~InProgress(runs[r])
    BY <1>1, <1>3 DEF TimeoutRun, RunsMove, TypeOK
  <1> QED BY <1>2, <1>3

\* The run of a slot that was missed.
LEMMA MissedRun ==
  ASSUME TypeOK, NEW slot \in Times, NEW now \in 1..MaxClock
  PROVE  \E new \in RunRecord \cup {NoRun} :
           /\ WithMissed(slot, now) = [runs EXCEPT ![<<"missed", slot>>] = new]
           /\ \/ new = runs[<<"missed", slot>>] /\ new # NoRun
              \/ /\ runs[<<"missed", slot>>] = NoRun
                 /\ new \in RunRecord /\ new.status = "missed" /\ new.received = now
  <1> DEFINE id == <<"missed", slot>>
             new == [NewRun(Missed(slot, now)) EXCEPT !.started = slot]
             run == IF runs[id] = NoRun THEN new ELSE runs[id]
  <1>1. id \in RunIds /\ Missed(slot, now) \in Updates
    BY SchedulerUpdates
  <1>2. runs \in [RunIds -> RunRecord \cup {NoRun}] /\ runs[id] \in RunRecord \cup {NoRun}
    BY <1>1 DEF TypeOK
  <1>3. new \in RunRecord /\ new.status = "missed" /\ new.received = now
    BY <1>1 DEF NewRun, Missed, RunRecord, Terminal
  <1>4. WithMissed(slot, now) = [runs EXCEPT ![id] = run]
    BY <1>1, <1>2 DEF WithMissed
  <1> HIDE DEF new, id
  <1>5. run \in RunRecord \cup {NoRun}
    BY <1>2, <1>3
  <1>6. \/ run = runs[id] /\ run # NoRun
        \/ runs[id] = NoRun /\ run \in RunRecord /\ run.status = "missed" /\ run.received = now
    BY <1>2, <1>3
  <1> HIDE DEF run
  <1>7. \E n \in RunRecord \cup {NoRun} :
           /\ WithMissed(slot, now) = [runs EXCEPT ![id] = n]
           /\ \/ n = runs[id] /\ n # NoRun
              \/ runs[id] = NoRun /\ n \in RunRecord /\ n.status = "missed" /\ n.received = now
    BY <1>4, <1>5, <1>6
  <1> QED BY <1>7 DEF id

LEMMA MissedMovesRuns ==
  ASSUME TypeOK, NEW slot \in Times, NEW now \in 1..MaxClock, runs' = WithMissed(slot, now)
  PROVE  RunsMove
  <1> DEFINE id == <<"missed", slot>>
  <1>1. PICK new \in RunRecord \cup {NoRun} :
           /\ WithMissed(slot, now) = [runs EXCEPT ![id] = new]
           /\ \/ new = runs[id] /\ new # NoRun
              \/ /\ runs[id] = NoRun
                 /\ new \in RunRecord /\ new.status = "missed" /\ new.received = now
    BY MissedRun
  <1>2. id \in RunIds
    BY SchedulerUpdates
  <1> HIDE DEF id
  <1> QED BY <1>1, <1>2, OneRunMoves DEF Begun, InProgress

LEMMA NextMovesRuns ==
  ASSUME MonitorsInv, [Next]_vars PROVE RunsMove
  <1>0. TypeOK /\ MemoryOK
    BY DEF MonitorsInv
  <1>1. CASE runs' = runs
    BY <1>0, <1>1 DEF RunsMove, TypeOK
  <1>2. CASE PersistTransaction
    BY <1>2, PersistMovesRuns
  <1>3. CASE WriteRun
    BY <1>3, WriteRunMovesRuns
  <1>4. CASE TimeoutTransaction
    BY <1>1, <1>4, TimeoutTransactionMovesRuns
  <1>5. ASSUME NEW r \in RunIds, TimeoutRun(r) PROVE RunsMove
    BY <1>5, TimeoutRunMovesRuns
  <1>6. CASE MissedTransaction
    <2>1. CASE runs' = WithMissed(monitor.next, pass.now) /\ Missing(pass.now)
      <3>1. monitor \in MonitorRecord /\ pass.now \in 1..MaxClock
        BY <1>0, <1>6, <2>1, PassFacts DEF Missing, TypeOK, MissedTransaction, MemoryOK
      <3>2. monitor.next \in Times
        BY <3>1 DEF MonitorRecord
      <3> QED BY <1>0, <2>1, <3>1, <3>2, MissedMovesRuns
    <2> QED BY <1>1, <1>6, <2>1 DEF MissedTransaction
  <1>7. CASE InsertMissed
    <2>1. pass.slot \in Times /\ pass.now \in 1..MaxClock
      BY <1>0, <1>7, PassFacts DEF InsertMissed, MemoryOK
    <2> QED BY <1>0, <1>7, <2>1, MissedMovesRuns DEF InsertMissed
  <1>8. CASE UNCHANGED vars
    BY <1>1, <1>8 DEF vars
  <1> QED
    BY <1>1, <1>2, <1>3, <1>4, <1>5, <1>6, <1>7, <1>8
    DEF Next, Persist, Check, Timeouts, MissedRuns, Tick, Receive, Collect, ClaimUptime,
        CheckEnds, LeaseEnds, LoadMonitor, WriteMonitor, ReadRuns, ApplyProjection,
        StartTimeouts, ProjectTimeout, StartMissed, AdvanceMissed, LoadForEdit, WriteEdit,
        CallFails, PassFails, Restart

-----------------------------------------------------------------------------
(* Memory *)

LEMMA CallForms ==
  /\ Idle \in Calls
  /\ \A slot \in Times : [at |-> "check", slot |-> slot] \in Calls
  /\ \A updates \in Seq(Reports) :
       /\ [at |-> "persist", updates |-> updates] \in Calls
       /\ [at |-> "read", updates |-> updates] \in Calls
       /\ \A m \in MonitorRecord :
            [at |-> "define", updates |-> updates, monitor |-> m] \in Calls
  /\ \A left \in Seq(Writes) \ {<<>>}, latest \in Reports :
       [at |-> "write", left |-> left, latest |-> latest] \in Calls
  /\ \A latest \in Reports : [at |-> "project", latest |-> latest] \in Calls
  BY DEF Calls

LEMMA PassForms ==
  /\ Idle \in Passes
  /\ \A now \in 1..MaxClock, todo \in SUBSET RunIds :
       /\ [at |-> "timeouts", now |-> now, todo |-> todo] \in Passes
       /\ \A r \in RunIds :
            [at |-> "project", now |-> now, todo |-> todo, run |-> r] \in Passes
  /\ \A now \in 1..MaxClock, slot \in Times :
       /\ [at |-> "missed", now |-> now, slot |-> slot] \in Passes
       /\ \A new \in BOOLEAN :
            [at |-> "advance", now |-> now, slot |-> slot, new |-> new] \in Passes
  BY DEF Passes

\* The steps of a call.
LEMMA CallSteps ==
  ASSUME MonitorsInv,
         Collect \/ Check \/ Persist
  PROVE  /\ inbox' \subseteq Reports /\ call' \in Calls
         /\ transactional => call'.at \in {"idle", "check", "persist"}
  <1>0. /\ TypeOK /\ RunsConsistent /\ inbox \subseteq Reports /\ call \in Calls
        /\ clock \in 1..MaxClock /\ "idle" = Idle.at
        /\ transactional => call.at \in {"idle", "check", "persist"}
    BY DEF MonitorsInv, MemoryOK, TypeOK, Undivided, Idle
  <1>1. CASE Collect
    <2>1. PICK updates \in BoundedSeq(inbox, MaxUpdates) :
            /\ inbox' = inbox \ ToSet(updates)
            /\ call' = [at |-> "persist", updates |-> updates]
      BY <1>1 DEF Collect
    <2>2. updates \in Seq(inbox)
      <3>1. PICK n \in 0..MaxUpdates : updates \in [1..n -> inbox]
        BY DEF BoundedSeq, SeqOf
      <3> QED BY <3>1
    <2>3. updates \in Seq(Reports)
      BY <1>0, <2>2
    <2>4. call' \in Calls
      BY <2>1, <2>3, CallForms
    <2> QED BY <1>0, <2>1, <2>4
  <1>2. CASE ClaimUptime
    <2>1. monitor \in MonitorRecord
      BY <1>0, <1>2 DEF MonitorsInv, MonitorKnown, ClaimUptime, TypeOK
    <2>2. monitor.next \in Times
      BY <2>1 DEF MonitorRecord
    <2>3. call' = [at |-> "check", slot |-> monitor.next] \/ call' = Idle
      BY <1>2 DEF ClaimUptime
    <2>4. call' \in Calls
      BY <2>2, <2>3, CallForms
    <2> QED BY <1>0, <1>2, <2>3, <2>4 DEF ClaimUptime
  <1>3. ASSUME NEW status \in Outcomes, CheckEnds(status)
        PROVE  /\ inbox' \subseteq Reports /\ call' \in Calls /\ call'.at = "persist"
    <2> DEFINE u == [id |-> <<"uptime", call.slot>>, status |-> status,
                     received |-> clock, definition |-> FALSE]
    <2>1. call.slot \in Times
      BY <1>0, <1>3, CallFacts DEF CheckEnds
    <2>2. u.id \in RunIds /\ \A slot \in Times : u.id # <<"missed", slot>>
      BY <2>1 DEF RunIds
    <2>3. status \in Terminal
      BY DEF Terminal
    <2>4. u \in Reports
      BY <1>0, <2>2, <2>3 DEF Reports, Updates
    <2>5. call' = [at |-> "persist", updates |-> <<u>>]
      BY <1>3 DEF CheckEnds
    <2> HIDE DEF u
    <2>6. <<u>> \in Seq(Reports)
      BY <2>4
    <2>7. call' \in Calls
      BY <2>5, <2>6, CallForms
    <2> QED BY <1>0, <1>3, <2>5, <2>7 DEF CheckEnds
  <1>4. CASE PersistTransaction
    BY <1>0, <1>4, CallForms DEF PersistTransaction
  <1>5. CASE LoadMonitor
    <2> DEFINE defined == Defined(call.updates)
    <2>1. call.updates \in Seq(Reports)
      BY <1>0, <1>5, CallFacts DEF LoadMonitor
    <2>2. defined \in MonitorRecord \cup {NoMonitor}
      BY <1>0, <2>1, DefinedFacts DEF Redefined
    <2>3. \/ call' = Idle
          \/ /\ call' = [at |-> "define", updates |-> call.updates, monitor |-> defined]
             /\ defined # NoMonitor
      BY <1>5 DEF LoadMonitor, Valid
    <2> HIDE DEF defined
    <2>4. call' \in Calls
      BY <2>1, <2>2, <2>3, CallForms
    <2> QED BY <1>0, <1>5, <2>4 DEF LoadMonitor
  <1>6. CASE WriteMonitor
    <2>1. call.updates \in Seq(Reports) /\ call' = [at |-> "read", updates |-> call.updates]
      BY <1>0, <1>6, CallFacts DEF WriteMonitor
    <2>2. call' \in Calls
      BY <2>1, CallForms
    <2> QED BY <1>0, <1>6, <2>2 DEF WriteMonitor
  <1>7. CASE ReadRuns
    <2> DEFINE merged == Merge(call.updates)
    <2>1. call.updates \in Seq(Reports)
      BY <1>0, <1>7, CallFacts DEF ReadRuns
    <2>2. merged.accepted \in Seq(Writes)
      BY <1>0, <2>1, MergeFacts DEF MergeInv, Merging
    <2>3. \/ call' = Idle
          \/ /\ call' = [at |-> "write", left |-> merged.accepted,
                         latest |-> Latest(merged.accepted)]
             /\ merged.accepted # <<>>
      BY <1>7 DEF ReadRuns
    <2> HIDE DEF merged
    <2>4. ASSUME merged.accepted # <<>> PROVE Latest(merged.accepted) \in Reports
      <3>1. PICK n \in 1..Len(merged.accepted) :
              Latest(merged.accepted) = merged.accepted[n].update
        BY <2>2, <2>4, LatestFacts
      <3>2. merged.accepted[n] \in Writes
        BY <2>2
      <3> QED BY <3>1, <3>2 DEF Writes
    <2>5. call' \in Calls
      BY <2>2, <2>3, <2>4, CallForms
    <2> QED BY <1>0, <1>7, <2>5 DEF ReadRuns
  <1>8. CASE WriteRun
    <2>1. /\ call.left \in Seq(Writes) /\ call.left # <<>> /\ call.latest \in Reports
          /\ call \in [at : {"write"}, left : Seq(Writes) \ {<<>>}, latest : Reports]
      BY <1>0, <1>8, CallFacts DEF WriteRun, Calls, Idle
    <2>2. \/ /\ call' = [at |-> "write", left |-> Tail(call.left), latest |-> call.latest]
             /\ Len(call.left) > 1
          \/ call' = [at |-> "project", latest |-> call.latest]
      BY <1>8, <2>1 DEF WriteRun
    <2>3. ASSUME NEW s \in Seq(Writes), Len(s) > 1 PROVE Tail(s) \in Seq(Writes) \ {<<>>}
      <3>1. Tail(s) \in Seq(Writes) /\ Len(Tail(s)) = Len(s) - 1
        BY <2>3
      <3>0. Len(s) \in Nat
        OBVIOUS
      <3>a. \A k \in Nat : k > 1 => k - 1 # 0
        OBVIOUS
      <3>2. Len(s) - 1 # 0
        BY <2>3, <3>0, <3>a, Zenon
      <3>3. Tail(s) # <<>>
        BY <3>1, <3>2
      <3> QED BY <3>1, <3>3
    <2>4. Len(call.left) > 1 => Tail(call.left) \in Seq(Writes) \ {<<>>}
      BY <2>1, <2>3
    <2>5. CASE /\ call' = [at |-> "write", left |-> Tail(call.left), latest |-> call.latest]
               /\ Len(call.left) > 1
      <3> DEFINE t == Tail(call.left)
      <3>1. t \in Seq(Writes) \ {<<>>} /\ call' = [at |-> "write", left |-> t, latest |-> call.latest]
        BY <2>4, <2>5
      <3> HIDE DEF t
      <3>2. call' \in Calls
        BY <2>1, <3>1, CallForms, Zenon
      <3> QED BY <1>0, <1>8, <3>2 DEF WriteRun
    <2>6. CASE call' = [at |-> "project", latest |-> call.latest]
      BY <1>0, <1>8, <2>1, <2>6, CallForms DEF WriteRun
    <2> QED BY <2>2, <2>5, <2>6
  <1>9. CASE ApplyProjection
    BY <1>0, <1>9, CallForms DEF ApplyProjection
  <1> QED BY <1>1, <1>2, <1>3, <1>4, <1>5, <1>6, <1>7, <1>8, <1>9 DEF Check, Persist

\* The steps of a pass.
LEMMA PassSteps ==
  ASSUME MonitorsInv, Timeouts \/ MissedRuns
  PROVE  pass' \in Passes /\ (transactional => pass'.at \in {"idle", "timeouts", "missed"})
  <1>0. /\ TypeOK /\ pass \in Passes /\ clock \in 1..MaxClock /\ Idle.at = "idle"
        /\ transactional => pass.at \in {"idle", "timeouts", "missed"}
    BY DEF MonitorsInv, MemoryOK, TypeOK, Undivided, Idle
  <1>1. ASSUME NEW todo \in SUBSET RunIds, pass' = GoOn(todo), pass.now \in 1..MaxClock
        PROVE  pass' \in Passes /\ pass'.at \in {"idle", "timeouts"}
    BY <1>0, <1>1, PassForms DEF GoOn
  <1>2. CASE StartTimeouts
    <2> DEFINE todo == {r \in RunIds : Overdue(r, clock)}
    <2>1. pass' = [at |-> "timeouts", now |-> clock, todo |-> todo] /\ todo \in SUBSET RunIds
      BY <1>2 DEF StartTimeouts
    <2> HIDE DEF todo
    <2>2. pass' \in Passes
      BY <1>0, <2>1, PassForms
    <2> QED BY <2>1, <2>2
  <1>3. CASE TimeoutTransaction
    BY <1>0, <1>3, PassForms DEF TimeoutTransaction
  <1>4. CASE ProjectTimeout
    <2>1. pass.now \in 1..MaxClock /\ pass.todo \in SUBSET RunIds
      BY <1>0, <1>4, PassFacts DEF ProjectTimeout
    <2>2. pass' = GoOn(pass.todo) \/ pass' = Idle
      BY <1>4 DEF ProjectTimeout
    <2> QED BY <1>0, <1>1, <2>1, <2>2, PassForms
  <1>5. ASSUME NEW r \in RunIds, TimeoutRun(r) PROVE pass' \in Passes /\ ~transactional
    <2>1. pass.now \in 1..MaxClock /\ pass.todo \in SUBSET RunIds
      BY <1>0, <1>5, PassFacts DEF TimeoutRun
    <2> DEFINE todo == pass.todo \ {r}
    <2>2. todo \in SUBSET RunIds
      BY <2>1
    <2>3. \/ pass' = [at |-> "project", now |-> pass.now, todo |-> todo, run |-> r]
          \/ pass' = GoOn(todo)
      BY <1>5 DEF TimeoutRun
    <2> HIDE DEF todo
    <2>4. pass' \in Passes
      BY <1>1, <2>1, <2>2, <2>3, PassForms
    <2> QED BY <1>5, <2>4 DEF TimeoutRun
  <1>6. CASE StartMissed
    <2>1. monitor \in MonitorRecord
      BY <1>0, <1>6 DEF StartMissed, Missing, TypeOK
    <2>2. monitor.next \in Times
      BY <2>1 DEF MonitorRecord
    <2>3. pass' = [at |-> "missed", now |-> clock, slot |-> monitor.next]
      BY <1>6 DEF StartMissed
    <2>4. pass' \in Passes
      BY <1>0, <2>2, <2>3, PassForms
    <2> QED BY <2>3, <2>4
  <1>7. CASE MissedTransaction
    BY <1>0, <1>7, PassForms DEF MissedTransaction
  <1>8. CASE InsertMissed
    <2> DEFINE new == runs[<<"missed", pass.slot>>] = NoRun
    <2>1. pass.now \in 1..MaxClock /\ pass.slot \in Times /\ new \in BOOLEAN
      BY <1>0, <1>8, PassFacts DEF InsertMissed
    <2>2. pass' = [at |-> "advance", now |-> pass.now, slot |-> pass.slot, new |-> new]
      BY <1>8 DEF InsertMissed
    <2> HIDE DEF new
    <2>3. pass' \in Passes
      BY <2>1, <2>2, PassForms
    <2> QED BY <1>8, <2>3 DEF InsertMissed
  <1>9. CASE AdvanceMissed
    BY <1>0, <1>9, PassForms DEF AdvanceMissed
  <1> QED BY <1>2, <1>3, <1>4, <1>5, <1>6, <1>7, <1>8, <1>9 DEF Timeouts, MissedRuns

-----------------------------------------------------------------------------
(* What a monitor shows *)

Shows(m, stored) ==
    /\ \A r \in RunIds : stored[r] # NoRun => stored[r].received <= m.seen
    /\ m.seen # 0 => /\ m.last \in RunIds /\ stored[m.last] # NoRun
                     /\ stored[m.last].status = m.status
    /\ m.seen # 0 /\ m.status # "missed" => stored[m.last].received = m.seen

LEMMA ShowsNow ==
  ASSUME MonitorsInv, transactional, ~edited, monitor # NoMonitor
  PROVE  Shows(monitor, runs)
  BY DEF MonitorsInv, LastStored, ProjectionIsLatest, Shows

\* A batch that changes something: what it has of the monitor's last run is not newer
\* than the latest update, and that one is stored.
LEMMA BatchShows ==
  ASSUME MonitorsInv, transactional, ~edited, NEW d \in MonitorRecord, Redefined(d),
         NEW merged, MergeInv(merged), merged.accepted # <<>>
  PROVE  /\ Latest(merged.accepted) \in Updates
         /\ Shows(Project(d, Latest(merged.accepted)), merged.runs)
  <1> DEFINE u == Latest(merged.accepted)
             L == Len(merged.accepted)
             v(k) == merged.accepted[k].update
  <1>0. /\ TypeOK /\ MonitorKnown /\ RunsConsistent
        /\ runs \in [RunIds -> RunRecord \cup {NoRun}]
        /\ merged.runs \in [RunIds -> RunRecord \cup {NoRun}]
        /\ merged.accepted \in Seq(Writes) /\ d.seen \in Nat
    BY DEF MonitorsInv, TypeOK, MergeInv, Merging, MonitorRecord
  <1>1. PICK n \in 1..L : /\ u = v(n)
                          /\ \A k \in 1..L : \/ v(k).received < u.received
                                             \/ v(k).received = u.received /\ k <= n
    BY <1>0, LatestFacts
  <1>2. ASSUME NEW k \in 1..L PROVE v(k) \in Reports
    <2>1. merged.accepted[k] \in Writes
      BY <1>0
    <2> QED BY <2>1 DEF Writes
  <1>3. \A k \in 1..L : v(k).received \in Nat /\ v(k).id \in RunIds
    BY <1>2, ReportFacts
  <1>4. u \in Updates /\ u.id \in RunIds /\ u.received \in Nat
    BY <1>1, <1>2, <1>3, ReportFacts
  <1>a. L \in Nat
    BY <1>0
  <1> HIDE DEF u, L, v
  <1>5. \A k \in 1..L : v(k).received <= u.received
    BY <1>1, <1>3, <1>4
  <1>6. /\ merged.runs[u.id] # NoRun
        /\ merged.runs[u.id].received = u.received /\ merged.runs[u.id].status = u.status
    <2>1. Shown(merged, n)
      BY DEF MergeInv, L
    <2>2. ASSUME NEW j \in 1..L, j > n PROVE ~(u.received <= v(j).received)
      <3>1. v(j).received \in Nat /\ j \in Nat /\ n \in Nat
        BY <1>3, <1>a
      <3> QED BY <1>1, <1>4, <2>2, <3>1
    <2> QED BY <1>1, <2>1, <2>2 DEF Shown, L, v
  <1>7. ASSUME NEW r \in RunIds, merged.runs[r] # runs[r]
        PROVE  /\ merged.runs[r].received <= u.received
               /\ runs[r] # NoRun =>
                    /\ InProgress(runs[r]) /\ runs[r].received <= u.received
    <2>1. Traced(merged, r)
      BY DEF MergeInv
    <2>2. PICK k \in 1..L : v(k).received = merged.runs[r].received
      BY <1>7, <2>1 DEF Traced, L, v
    <2>3. merged.runs[r].received <= u.received /\ merged.runs[r].received \in Nat
      BY <1>3, <1>5, <2>2
    <2>4. runs[r] # NoRun => runs[r].received \in Nat
      BY <1>0 DEF RunRecord
    <2>5. runs[r] # NoRun => InProgress(runs[r]) /\ runs[r].received <= merged.runs[r].received
      BY <1>7, <2>1 DEF Traced
    <2> QED BY <1>4, <2>3, <2>4, <2>5
  <1>8. /\ monitor # NoMonitor => /\ Shows(monitor, runs) /\ d.last = monitor.last
                                  /\ d.status = monitor.status /\ d.seen = monitor.seen
        /\ monitor = NoMonitor => d.seen = 0 /\ \A r \in RunIds : runs[r] = NoRun
    BY <1>0, ShowsNow DEF Redefined, MonitorKnown
  <1>9. CASE d.seen > u.received
    <2>1. Project(d, u) = d /\ monitor # NoMonitor /\ d.seen # 0
      BY <1>0, <1>4, <1>8, <1>9, ProjectFacts
    <2>2. ASSUME NEW r \in RunIds, merged.runs[r] # NoRun
          PROVE  merged.runs[r].received <= d.seen
      <3>1. CASE merged.runs[r] = runs[r]
        BY <1>8, <2>1, <2>2, <3>1 DEF Shows
      <3>2. CASE merged.runs[r] # runs[r]
        <4>1. merged.runs[r] \in RunRecord
          BY <1>0, <2>2
        <4>2. merged.runs[r].received \in Nat
          BY <4>1 DEF RunRecord
        <4> QED BY <1>0, <1>4, <1>7, <1>9, <3>2, <4>2
      <3> QED BY <3>1, <3>2
    <2>3. d.last \in RunIds /\ runs[d.last] # NoRun /\ runs[d.last].status = d.status
          /\ (d.status # "missed" => runs[d.last].received = d.seen)
      BY <1>8, <2>1 DEF Shows
    <2>4. merged.runs[d.last] = runs[d.last]
      <3> SUFFICES ASSUME merged.runs[d.last] # runs[d.last] PROVE FALSE
        OBVIOUS
      <3>1. InProgress(runs[d.last]) /\ runs[d.last].received <= u.received
        BY <1>7, <2>3
      <3>2. runs[d.last].received = d.seen
        BY <2>3, <3>1 DEF InProgress
      <3> QED BY <1>0, <1>4, <1>9, <3>1, <3>2
    <2> QED BY <1>4, <2>1, <2>2, <2>3, <2>4 DEF Shows, u
  <1>10. CASE ~(d.seen > u.received)
    <2> DEFINE m == Project(d, u)
    <2>1. m.last = u.id /\ m.status = u.status /\ m.seen = u.received
      BY <1>4, <1>10, ProjectFacts
    <2>2. ASSUME NEW r \in RunIds, merged.runs[r] # NoRun
          PROVE  merged.runs[r].received <= u.received
      <3>1. CASE merged.runs[r] = runs[r]
        <4>1. monitor # NoMonitor /\ runs[r].received <= d.seen
          BY <1>8, <2>2, <3>1 DEF Shows
        <4>2. runs[r] \in RunRecord
          BY <1>0, <2>2, <3>1
        <4>3. runs[r].received \in Nat
          BY <4>2 DEF RunRecord
        <4> QED BY <1>0, <1>4, <1>10, <3>1, <4>1, <4>3
      <3>2. CASE merged.runs[r] # runs[r]
        BY <1>7, <3>2
      <3> QED BY <3>1, <3>2
    <2> HIDE DEF m
    <2>3. Shows(m, merged.runs)
      BY <1>4, <1>6, <2>1, <2>2 DEF Shows
    <2> QED BY <1>4, <2>3 DEF m, u
  <1> QED BY <1>9, <1>10

\* A batch that changes nothing.
LEMMA EmptyBatchShows ==
  ASSUME MonitorsInv, transactional, ~edited, NEW d \in MonitorRecord, Redefined(d),
         NEW merged, MergeInv(merged), merged.accepted = <<>>
  PROVE  Shows(d, merged.runs)
  <1>1. ASSUME NEW r \in RunIds PROVE merged.runs[r] = runs[r]
    <2>1. Traced(merged, r) /\ Len(merged.accepted) = 0
      BY DEF MergeInv
    <2> QED BY <2>1 DEF Traced
  <1>2. CASE monitor # NoMonitor
    <2>1. /\ Shows(monitor, runs) /\ d.last = monitor.last
          /\ d.status = monitor.status /\ d.seen = monitor.seen
      BY <1>2, ShowsNow DEF Redefined
    <2> QED BY <1>1, <2>1 DEF Shows
  <1>3. CASE monitor = NoMonitor
    <2>1. d.seen = 0 /\ \A r \in RunIds : runs[r] = NoRun
      BY <1>3 DEF Redefined, MonitorsInv, MonitorKnown
    <2> QED BY <1>1, <2>1 DEF Shows
  <1> QED BY <1>2, <1>3

\* A pass that finds nothing to time out changes nothing; otherwise the runs it ends are
\* not newer than now, and a run that is shown and in progress is not due before then.
LEMMA TimeoutsShow ==
  ASSUME MonitorsInv, transactional, ~edited, TimeoutTransaction,
         ~UNCHANGED <<monitor, runs>>
  PROVE  Shows(monitor', runs')
  <1> DEFINE due == {r \in pass.todo : Overdue(r, pass.now)}
             now == pass.now
  <1>1. TypeOK /\ now \in 1..MaxClock /\ pass.todo \in SUBSET RunIds /\ pass # Idle
    BY PassFacts DEF MonitorsInv, MemoryOK, TimeoutTransaction
  <1>2. monitor \in MonitorRecord /\ monitor # NoMonitor
    BY <1>1 DEF MonitorsInv, MonitorKnown, TypeOK
  <1>3. Shows(monitor, runs) /\ monitor.seen \in Nat /\ now \in Nat
    BY <1>1, <1>2, ShowsNow DEF MonitorRecord
  <1>4. /\ due \subseteq RunIds
        /\ \A r \in RunIds :
             runs'[r] = IF r \in due THEN Ended(runs[r], "timeout", now) ELSE runs[r]
        /\ due # {} => \E r \in due : monitor' = Project(monitor, TimedOut(r, now))
        /\ due = {} => monitor' = monitor
    BY <1>1 DEF TimeoutTransaction
  <1>5. ASSUME NEW r \in RunIds, r \in due
        PROVE  /\ InProgress(runs[r]) /\ runs[r].received + MaxRuntime <= now
               /\ runs'[r] # NoRun /\ runs'[r].status = "timeout" /\ runs'[r].received = now
    <2>1. InProgress(runs[r]) /\ runs[r].timeout <= now
      BY <1>5 DEF Overdue
    <2>2. runs[r].timeout = runs[r].received + MaxRuntime
      BY <2>1 DEF MonitorsInv, RunsConsistent
    <2>3. runs'[r] = Ended(runs[r], "timeout", now)
      BY <1>4, <1>5
    <2> HIDE DEF now
    <2> QED BY <1>1, <2>1, <2>2, <2>3, TimedOutRun
  <1>6. ASSUME NEW r \in RunIds, runs[r] # NoRun
        PROVE  runs[r].received \in Nat /\ runs[r].received <= monitor.seen
    <2>1. runs[r] \in RunRecord
      BY <1>1, <1>6 DEF TypeOK
    <2>2. runs[r].received \in 1..MaxClock
      BY <2>1 DEF RunRecord
    <2> QED BY <1>3, <1>6, <2>2 DEF Shows
  <1> HIDE DEF due, now
  <1>7. CASE due = {}
    <2>1. \A r \in RunIds : runs'[r] = runs[r]
      BY <1>4, <1>7
    <2> QED BY <1>3, <1>4, <1>7, <2>1 DEF Shows
  <1>8. ASSUME NEW q \in due, monitor' = Project(monitor, TimedOut(q, now))
        PROVE  Shows(monitor', runs')
    <2> DEFINE u == TimedOut(q, now)
    <2>1. q \in RunIds /\ u \in Updates
      BY <1>1, <1>4, SchedulerUpdates
    <2>2. u.id = q /\ u.status = "timeout" /\ u.received = now
      BY DEF TimedOut
    <2> HIDE DEF u
    <2>3. monitor' = Project(monitor, u)
      BY <1>8 DEF u
    <2>4. CASE monitor.seen > now
      <3>1. monitor' = monitor
        BY <1>2, <2>1, <2>2, <2>3, <2>4, ProjectFacts
      <3>2. ASSUME NEW r \in RunIds, runs'[r] # NoRun PROVE runs'[r].received <= monitor.seen
        <4>1. CASE r \in due
          BY <1>3, <1>5, <2>4, <4>1
        <4>2. CASE r \notin due
          BY <1>4, <1>6, <3>2, <4>2
        <4> QED BY <4>1, <4>2
      <3>3. monitor.seen # 0 /\ monitor.last \in RunIds
        BY <1>3, <2>4 DEF Shows
      <3>4. monitor.last \notin due
        <4> SUFFICES ASSUME monitor.last \in due PROVE FALSE
          OBVIOUS
        <4>1. InProgress(runs[monitor.last]) /\ runs[monitor.last].received + MaxRuntime <= now
          BY <1>5, <3>3
        <4>2. runs[monitor.last].received = monitor.seen
          BY <1>3, <3>3, <4>1 DEF Shows, InProgress
        <4> QED BY <1>3, <2>4, <4>1, <4>2
      <3>5. runs'[monitor.last] = runs[monitor.last]
        BY <1>4, <3>3, <3>4
      <3> QED BY <1>3, <3>1, <3>2, <3>3, <3>5 DEF Shows
    <2>5. CASE ~(monitor.seen > now)
      <3>1. monitor'.last = q /\ monitor'.status = "timeout" /\ monitor'.seen = now
        BY <1>2, <2>1, <2>2, <2>3, <2>5, ProjectFacts
      <3>2. ASSUME NEW r \in RunIds, runs'[r] # NoRun PROVE runs'[r].received <= now
        <4>1. CASE r \in due
          BY <1>3, <1>5, <4>1
        <4>2. CASE r \notin due
          BY <1>3, <1>4, <1>6, <2>5, <3>2, <4>2
        <4> QED BY <4>1, <4>2
      <3> QED BY <1>5, <2>1, <3>1, <3>2 DEF Shows
    <2> QED BY <2>4, <2>5
  <1> QED BY <1>4, <1>7, <1>8

\* The run of a missed slot is stored before it is shown; a slot that has its run keeps it.
LEMMA MissedShows ==
  ASSUME MonitorsInv, transactional, ~edited, MissedTransaction,
         ~UNCHANGED <<monitor, runs>>
  PROVE  Shows(monitor', runs')
  <1> DEFINE now == pass.now
             slot == monitor.next
             id == <<"missed", slot>>
             u == Missed(slot, now)
  <1>1. TypeOK /\ now \in 1..MaxClock
    BY PassFacts DEF MonitorsInv, MemoryOK, MissedTransaction
  <1>2. monitor \in MonitorRecord /\ monitor # NoMonitor
    BY <1>1 DEF MissedTransaction, Missing, TypeOK
  <1>3. /\ Shows(monitor, runs) /\ monitor.seen \in Nat /\ now \in Nat /\ slot \in Times
        /\ runs \in [RunIds -> RunRecord \cup {NoRun}]
    BY <1>1, <1>2, ShowsNow DEF MonitorRecord, TypeOK
  <1>4. monitor' = Project(monitor, u) /\ runs' = WithMissed(slot, now)
    BY DEF MissedTransaction
  <1>5. u \in Updates /\ id \in RunIds
    BY <1>1, <1>3, SchedulerUpdates
  <1>6. u.id = id /\ u.status = "missed" /\ u.received = now
    BY DEF Missed
  <1> HIDE DEF now, slot
  <1>7. PICK new \in RunRecord \cup {NoRun} :
           /\ WithMissed(slot, now) = [runs EXCEPT ![id] = new]
           /\ \/ new = runs[id] /\ new # NoRun
              \/ /\ runs[id] = NoRun
                 /\ new \in RunRecord /\ new.status = "missed" /\ new.received = now
    BY <1>1, <1>3, MissedRun
  <1>8. runs[id] # NoRun => runs[id].status = "missed"
    BY <1>3 DEF MonitorsInv, RunsConsistent
  <1> HIDE DEF id, u
  <1>9. runs'[id] = new /\ \A r \in RunIds : r # id => runs'[r] = runs[r]
    BY <1>3, <1>4, <1>5, <1>7
  <1>10. runs'[id] # NoRun /\ runs'[id].status = "missed"
    BY <1>7, <1>8, <1>9
  <1>11. \A r \in RunIds :
           \/ runs'[r] = runs[r]
           \/ runs[r] = NoRun /\ r = id /\ runs'[r].received = now
    BY <1>7, <1>9
  <1>12. ASSUME NEW r \in RunIds, runs[r] # NoRun
         PROVE  runs[r].received \in Nat /\ runs[r].received <= monitor.seen
    <2>1. runs[r] \in RunRecord
      BY <1>3, <1>12
    <2>2. runs[r].received \in 1..MaxClock
      BY <2>1 DEF RunRecord
    <2> QED BY <1>3, <1>12, <2>2 DEF Shows
  <1>13. CASE monitor.seen > now
    <2>1. monitor' = monitor
      BY <1>2, <1>4, <1>5, <1>6, <1>13, ProjectFacts
    <2>2. ASSUME NEW r \in RunIds, runs'[r] # NoRun PROVE runs'[r].received <= monitor.seen
      BY <1>3, <1>11, <1>12, <1>13, <2>2
    <2>3. monitor.last \in RunIds /\ runs[monitor.last] # NoRun
      BY <1>3, <1>13 DEF Shows
    <2>4. runs'[monitor.last] = runs[monitor.last]
      BY <1>11, <2>3
    <2> QED BY <1>3, <2>1, <2>2, <2>3, <2>4 DEF Shows
  <1>14. CASE ~(monitor.seen > now)
    <2>1. monitor'.last = id /\ monitor'.status = "missed" /\ monitor'.seen = now
      BY <1>2, <1>4, <1>5, <1>6, <1>14, ProjectFacts
    <2>2. ASSUME NEW r \in RunIds, runs'[r] # NoRun PROVE runs'[r].received <= now
      BY <1>3, <1>11, <1>12, <1>14, <2>2
    <2> QED BY <1>5, <1>10, <2>1, <2>2 DEF Shows
  <1> QED BY <1>13, <1>14

-----------------------------------------------------------------------------
(* The invariant *)

\* A monitor does not go away, and stays one.
LEMMA MonitorStays ==
  ASSUME MonitorsInv, [Next]_vars
  PROVE  monitor' \in MonitorRecord \/ (monitor' = NoMonitor /\ monitor = NoMonitor)
  <1>0. /\ TypeOK /\ MemoryOK /\ MonitorKnown
        /\ monitor \in MonitorRecord \/ monitor = NoMonitor
    BY DEF MonitorsInv, TypeOK
  <1>1. CASE monitor' = monitor
    BY <1>0, <1>1
  <1>2. CASE PersistTransaction
    <2> DEFINE defined == Defined(call.updates)
               merged == Merge(call.updates)
    <2>1. call.updates \in Seq(Reports)
      BY <1>0, <1>2, CallFacts DEF MemoryOK, PersistTransaction
    <2>2. Redefined(defined) /\ MergeInv(merged)
      BY <1>0, <2>1, DefinedFacts, MergeFacts DEF MonitorsInv
    <2>3. \/ monitor' = monitor
          \/ /\ defined # NoMonitor
             /\ \/ monitor' = defined
                \/ /\ merged.accepted # <<>>
                   /\ monitor' = Project(defined, Latest(merged.accepted))
      BY <1>2, PersistForms
    <2> HIDE DEF defined, merged
    <2>4. defined # NoMonitor => defined \in MonitorRecord
      BY <2>2 DEF Redefined
    <2>5. merged.accepted # <<>> => Latest(merged.accepted) \in Updates
      <3> SUFFICES ASSUME merged.accepted # <<>> PROVE Latest(merged.accepted) \in Updates
        OBVIOUS
      <3>1. merged.accepted \in Seq(Writes)
        BY <2>2 DEF MergeInv, Merging
      <3>2. PICK n \in 1..Len(merged.accepted) :
              Latest(merged.accepted) = merged.accepted[n].update
        BY <3>1, LatestFacts
      <3>3. merged.accepted[n] \in Writes
        BY <3>1
      <3> QED BY <3>2, <3>3 DEF Writes, Reports
    <2> QED BY <1>1, <2>3, <2>4, <2>5, ProjectFacts
  <1>3. CASE ClaimUptime \/ LeaseEnds
    <2>1. monitor \in MonitorRecord
      BY <1>0, <1>3 DEF MonitorKnown, ClaimUptime, LeaseEnds
    <2> QED BY <1>3, <2>1 DEF ClaimUptime, LeaseEnds, MonitorRecord
  <1>4. CASE WriteMonitor
    <2>1. call.monitor \in MonitorRecord
      BY <1>0, <1>4, CallFacts DEF MemoryOK, WriteMonitor
    <2> QED BY <1>0, <1>4, <2>1, WrittenBackFacts DEF WriteMonitor
  <1>5. CASE ApplyProjection
    <2>1. call.latest \in Updates /\ monitor \in MonitorRecord
      BY <1>0, <1>5, CallFacts, ReportFacts DEF MemoryOK, MonitorKnown, ApplyProjection
    <2> QED BY <1>5, <2>1, ProjectFacts DEF ApplyProjection
  <1>6. CASE pass # Idle /\ pass.at # "idle" /\ (TimeoutTransaction \/ ProjectTimeout
                          \/ MissedTransaction \/ AdvanceMissed)
    <2>1. monitor \in MonitorRecord /\ pass.now \in 1..MaxClock
      BY <1>0, <1>6, PassFacts DEF MemoryOK, MonitorKnown
    <2>2. monitor.next \in Times
      BY <2>1 DEF MonitorRecord
    <2>3. CASE TimeoutTransaction
      <3>1. pass.todo \in SUBSET RunIds
        BY <1>0, <2>3, PassFacts DEF MemoryOK, TimeoutTransaction
      <3>2. monitor' = monitor \/ \E r \in RunIds : monitor' = Project(monitor, TimedOut(r, pass.now))
        BY <2>3, <3>1 DEF TimeoutTransaction
      <3> QED BY <1>1, <2>1, <3>2, SchedulerUpdates, ProjectFacts
    <2>4. CASE ProjectTimeout
      <3>1. pass.run \in RunIds
        BY <1>0, <2>4, PassFacts DEF MemoryOK, ProjectTimeout
      <3>2. monitor' = monitor \/ monitor' = Project(monitor, TimedOut(pass.run, pass.now))
        BY <2>4 DEF ProjectTimeout
      <3> QED BY <1>1, <2>1, <3>1, <3>2, SchedulerUpdates, ProjectFacts
    <2>5. CASE MissedTransaction
      <3>1. monitor' = monitor \/ monitor' = Project(monitor, Missed(monitor.next, pass.now))
        BY <2>5 DEF MissedTransaction
      <3> QED BY <1>1, <2>1, <2>2, <3>1, SchedulerUpdates, ProjectFacts
    <2>6. CASE AdvanceMissed
      <3>1. pass.slot \in Times
        BY <1>0, <2>6, PassFacts DEF MemoryOK, AdvanceMissed
      <3>2. monitor' = monitor \/ monitor' = Projected(monitor, Missed(pass.slot, pass.now))
        BY <2>6 DEF AdvanceMissed
      <3> QED BY <1>1, <2>1, <3>1, <3>2, SchedulerUpdates, ProjectedFacts
    <2> QED BY <1>6, <2>3, <2>4, <2>5, <2>6
  <1>7. CASE WriteEdit
    <2>1. edit.now \in 1..MaxClock /\ edit.monitor \in MonitorRecord \cup {NoMonitor}
      BY <1>0, <1>7, EditFacts DEF MemoryOK, WriteEdit
    <2>2. NextAfter(edit.now) \in Times
      BY <2>1, NextAfterFacts
    <2> DEFINE m == IF edit.monitor = NoMonitor THEN NewMonitor(edit.now, TRUE)
                    ELSE [edit.monitor EXCEPT !.next = NextAfter(edit.now), !.managed = TRUE]
    <2>3. m \in MonitorRecord
      <3>1. CASE edit.monitor = NoMonitor
        BY <2>1, <3>1, NewMonitorFacts
      <3>2. CASE edit.monitor # NoMonitor
        BY <2>1, <2>2, <3>2 DEF MonitorRecord
      <3> QED BY <3>1, <3>2
    <2>4. \/ monitor' = [m EXCEPT !.lease = monitor.lease] /\ monitor # NoMonitor
          \/ monitor' = WrittenBack(m)
      BY <1>7 DEF WriteEdit
    <2> HIDE DEF m
    <2>5. CASE monitor' = [m EXCEPT !.lease = monitor.lease] /\ monitor # NoMonitor
      BY <1>0, <2>3, <2>5 DEF MonitorRecord
    <2>6. CASE monitor' = WrittenBack(m)
      BY <1>0, <2>3, <2>6, WrittenBackFacts
    <2> QED BY <2>4, <2>5, <2>6
  <1>8. CASE UNCHANGED vars
    BY <1>1, <1>8 DEF vars
  <1>9. TimeoutTransaction \/ ProjectTimeout \/ MissedTransaction \/ AdvanceMissed =>
          pass # Idle /\ pass.at # "idle"
    BY DEF TimeoutTransaction, ProjectTimeout, MissedTransaction, AdvanceMissed, Idle
  <1> QED
    BY <1>1, <1>2, <1>3, <1>4, <1>5, <1>6, <1>7, <1>8, <1>9
    DEF Next, Persist, Check, Timeouts, MissedRuns, Tick, Receive, Collect,
        CheckEnds, LoadMonitor, ReadRuns, WriteRun, StartTimeouts, TimeoutRun,
        StartMissed, InsertMissed, LoadForEdit, CallFails, PassFails, Restart

\* A check-in that is received is a report.
LEMMA ReceivedIsReport ==
  ASSUME TypeOK, NEW c \in CheckIns, NEW status \in (Outcomes \ {"timeout"}) \cup {"in_progress"}
  PROVE  [id |-> <<"sdk", c>>, status |-> status, received |-> clock,
          definition |-> status \in given.defining] \in Reports
  <1> DEFINE definition == status \in given.defining
             id == <<"sdk", c>>
  <1>1. id \in RunIds /\ \A slot \in Times : id # <<"missed", slot>>
    BY DEF RunIds
  <1>2. status \in Terminal \cup {"in_progress"} /\ clock \in 1..MaxClock
    BY DEF TypeOK, Terminal
  <1>3. definition \in BOOLEAN
    OBVIOUS
  <1> HIDE DEF definition, id
  <1> QED BY <1>1, <1>2, <1>3 DEF Reports, Updates, definition, id

LEMMA MemoryStep ==
  ASSUME MonitorsInv, [Next]_vars PROVE given' = given /\ MemoryOK' /\ Undivided'
  <1>0. /\ TypeOK /\ inbox \subseteq Reports /\ call \in Calls /\ pass \in Passes
        /\ edit \in Edits /\ Undivided /\ Idle.at = "idle"
        /\ Idle \in Calls /\ Idle \in Passes /\ Idle \in Edits
    BY DEF MonitorsInv, MemoryOK, Idle, Calls, Passes, Edits
  <1>1. given' = given
    BY DEF vars, Next, Persist, Check, Timeouts, MissedRuns, Tick, Receive, Collect,
       ClaimUptime, CheckEnds, LeaseEnds, PersistTransaction, LoadMonitor, WriteMonitor,
       ReadRuns, WriteRun, ApplyProjection, StartTimeouts, TimeoutTransaction,
       TimeoutRun, ProjectTimeout, StartMissed, MissedTransaction, InsertMissed,
       AdvanceMissed, LoadForEdit, WriteEdit, CallFails, PassFails, Restart
  <1>2. transactional' = transactional
    BY <1>1 DEF transactional
  <1>3. ASSUME inbox' \subseteq Reports, call' \in Calls, pass' = pass, edit' = edit,
               transactional => call'.at \in {"idle", "check", "persist"}
        PROVE  MemoryOK' /\ Undivided'
    BY <1>0, <1>2, <1>3 DEF MemoryOK, Undivided
  <1>4. ASSUME inbox' = inbox, call' = call, pass' \in Passes, edit' = edit,
               transactional => pass'.at \in {"idle", "timeouts", "missed"}
        PROVE  MemoryOK' /\ Undivided'
    BY <1>0, <1>2, <1>4 DEF MemoryOK, Undivided
  <1>5. ASSUME inbox' \subseteq Reports, call' = call \/ call' = Idle, pass' = pass \/ pass' = Idle,
               edit' \in Edits
        PROVE  MemoryOK' /\ Undivided'
    BY <1>0, <1>2, <1>5 DEF MemoryOK, Undivided
  <1>6. ASSUME NEW c \in CheckIns, NEW status \in (Outcomes \ {"timeout"}) \cup {"in_progress"},
               Receive(c, status)
        PROVE  MemoryOK' /\ Undivided'
    <2>1. inbox' \subseteq Reports
      BY <1>0, <1>6, ReceivedIsReport DEF Receive
    <2> QED BY <1>0, <1>5, <1>6, <2>1 DEF Receive
  <1>7. CASE Collect \/ Check \/ Persist
    <2>1. pass' = pass /\ edit' = edit
      BY <1>7 DEF Persist, Check, Collect, ClaimUptime, CheckEnds, PersistTransaction,
         LoadMonitor, WriteMonitor, ReadRuns, WriteRun, ApplyProjection
    <2> QED BY <1>1, <1>3, <1>7, <2>1, CallSteps
  <1>8. CASE Timeouts \/ MissedRuns
    <2>1. inbox' = inbox /\ call' = call /\ edit' = edit
      BY <1>8 DEF Timeouts, MissedRuns, StartTimeouts, TimeoutTransaction, TimeoutRun,
         ProjectTimeout, StartMissed, MissedTransaction, InsertMissed, AdvanceMissed
    <2> QED BY <1>1, <1>4, <1>8, <2>1, PassSteps
  <1>9. CASE LoadForEdit
    <2>1. PICK now \in 1..clock, read \in {monitor, NoMonitor} :
            edit' = [at |-> "write", now |-> now, monitor |-> read]
      BY <1>9 DEF LoadForEdit
    <2>2. now \in 1..MaxClock
      BY <1>0 DEF TypeOK
    <2>3. edit' \in Edits
      BY <1>0, <2>1, <2>2 DEF TypeOK, Edits
    <2> QED BY <1>0, <1>1, <1>5, <1>9, <2>3 DEF LoadForEdit
  <1>10. CASE Tick \/ LeaseEnds \/ WriteEdit \/ CallFails \/ PassFails \/ Restart \/ UNCHANGED vars
    <2>1. /\ inbox' = inbox \/ inbox' = {}
          /\ call' = call \/ call' = Idle
          /\ pass' = pass \/ pass' = Idle
          /\ edit' = edit \/ edit' = Idle
      BY <1>10 DEF Tick, LeaseEnds, WriteEdit, CallFails, PassFails, Restart, vars
    <2> QED BY <1>0, <1>1, <1>5, <2>1
  <1> QED BY <1>1, <1>6, <1>7, <1>8, <1>9, <1>10 DEF Next

LEMMA TypeStep ==
  ASSUME MonitorsInv, [Next]_vars PROVE TypeOK'
  <1>0. TypeOK
    BY DEF MonitorsInv
  <1>1. given' = given /\ MemoryOK'
    BY MemoryStep
  <1>2. runs' \in [RunIds -> RunRecord \cup {NoRun}]
    BY NextMovesRuns DEF RunsMove
  <1>3. monitor' \in MonitorRecord \/ monitor' = NoMonitor
    BY MonitorStays
  <1>4. /\ inbox' \subseteq Updates
        /\ call'.at \in {"idle", "check", "persist", "define", "read", "write", "project"}
        /\ pass'.at \in {"idle", "timeouts", "project", "missed", "advance"}
        /\ edit' = Idle \/ edit'.monitor \in MonitorRecord \/ edit'.monitor = NoMonitor
    <2>1. inbox' \subseteq Reports /\ call' \in Calls /\ pass' \in Passes /\ edit' \in Edits
      BY <1>1 DEF MemoryOK
    <2>2. inbox' \subseteq Updates
      BY <2>1 DEF Reports
    <2> QED BY <2>1, <2>2, CallFacts, PassFacts, EditFacts
  <1>5. /\ clock' = clock \/ (clock < MaxClock /\ clock' = clock + 1)
        /\ messages' = messages \/ (messages < MaxMessages /\ messages' = messages + 1)
        /\ edited' = edited \/ edited' = TRUE
        /\ faults' = faults \/ (faults < MaxFaults /\ faults' = faults + 1)
    BY DEF vars, Next, Persist, Check, Timeouts, MissedRuns, Tick, Receive, Collect,
       ClaimUptime, CheckEnds, LeaseEnds, PersistTransaction, LoadMonitor, WriteMonitor,
       ReadRuns, WriteRun, ApplyProjection, StartTimeouts, TimeoutTransaction,
       TimeoutRun, ProjectTimeout, StartMissed, MissedTransaction, InsertMissed,
       AdvanceMissed, LoadForEdit, WriteEdit, CallFails, PassFails, Restart, Fault
  <1>6. clock' \in 1..MaxClock
    BY <1>0, <1>5 DEF TypeOK
  <1>7. messages' \in 0..MaxMessages
    BY <1>0, <1>5 DEF TypeOK
  <1>8. faults' \in 0..MaxFaults
    BY <1>0, <1>5 DEF TypeOK
  <1>9. given' \in Instances /\ edited' \in BOOLEAN
    BY <1>0, <1>1, <1>5 DEF TypeOK
  <1> QED BY <1>2, <1>3, <1>4, <1>6, <1>7, <1>8, <1>9 DEF TypeOK

LEMMA RunsConsistentStep ==
  ASSUME MonitorsInv, [Next]_vars PROVE RunsConsistent'
  <1>1. RunsMove /\ RunsConsistent
    BY NextMovesRuns DEF MonitorsInv
  <1>2. ASSUME NEW r \in RunIds, InProgress(runs'[r]) PROVE Begun(runs'[r])
    BY <1>1 DEF RunsMove, RunsConsistent, Begun
  <1>3. ASSUME NEW slot \in Times, runs'[<<"missed", slot>>] # NoRun
        PROVE  runs'[<<"missed", slot>>].status = "missed"
    BY <1>1, <1>3 DEF RunsMove, RunsConsistent
  <1> QED BY <1>2, <1>3 DEF RunsConsistent, Begun, InProgress

\* Nothing begins for a monitor that is not there.
LEMMA MonitorKnownStep ==
  ASSUME MonitorsInv, [Next]_vars PROVE MonitorKnown'
  <1>0. TypeOK /\ MonitorKnown
    BY DEF MonitorsInv
  <1>1. kind' = kind
    BY MemoryStep DEF kind
  <1>2. monitor' = NoMonitor => monitor = NoMonitor
    BY MonitorStays
  <1>3. kind' = "uptime" => monitor' # NoMonitor
    BY <1>0, <1>1, <1>2 DEF MonitorKnown
  <1>4. ASSUME monitor' = NoMonitor
        PROVE  /\ \A r \in RunIds : runs'[r] = NoRun
               /\ call'.at \notin {"read", "write", "project"}
               /\ pass' = Idle
    <2>1. /\ monitor = NoMonitor /\ kind # "uptime" /\ \A r \in RunIds : runs[r] = NoRun
          /\ call.at \notin {"read", "write", "project"} /\ pass = Idle /\ pass.at = "idle"
      BY <1>0, <1>2, <1>4 DEF MonitorKnown, Idle
    <2>2. CASE runs' = runs /\ call' = call /\ pass' = pass
      BY <2>1, <2>2
    <2>3. CASE runs' = runs /\ call'.at \in {"idle", "persist", "define"} /\ pass' = Idle
      BY <2>1, <2>3
    <2>4. CASE PersistTransaction
      <3> DEFINE defined == Defined(call.updates)
                 merged == Merge(call.updates)
      <3>1. call.updates \in Seq(Reports)
        BY <2>4, CallFacts DEF MonitorsInv, MemoryOK, PersistTransaction
      <3>2. Redefined(defined) /\ MergeInv(merged)
        BY <1>0, <3>1, DefinedFacts, MergeFacts DEF MonitorsInv
      <3>3. \/ runs' = runs
            \/ /\ defined # NoMonitor
               /\ \/ monitor' = defined
                  \/ /\ merged.accepted # <<>>
                     /\ monitor' = Project(defined, Latest(merged.accepted))
        BY <2>4, PersistForms
      <3>4. call' = Idle /\ pass' = pass
        BY <2>4 DEF PersistTransaction
      <3> HIDE DEF defined, merged
      <3>5. CASE runs' = runs
        BY <2>1, <3>4, <3>5 DEF Idle
      <3>6. CASE /\ defined # NoMonitor /\ merged.accepted # <<>>
                 /\ monitor' = Project(defined, Latest(merged.accepted))
        <4>1. defined \in MonitorRecord
          BY <3>2, <3>6 DEF Redefined
        <4>2. merged.accepted \in Seq(Writes)
          BY <3>2 DEF MergeInv, Merging
        <4>3. PICK n \in 1..Len(merged.accepted) :
                Latest(merged.accepted) = merged.accepted[n].update
          BY <3>6, <4>2, LatestFacts
        <4>4. merged.accepted[n] \in Writes
          BY <4>2
        <4>5. Latest(merged.accepted) \in Updates
          BY <4>3, <4>4 DEF Writes, Reports
        <4> QED BY <1>4, <3>6, <4>1, <4>5, ProjectFacts
      <3> QED BY <1>4, <3>3, <3>5, <3>6
    <2>5. CASE LoadMonitor
      BY <2>1, <2>3, <2>5 DEF LoadMonitor, Idle
    <2>6. CASE WriteMonitor
      <3>1. call.monitor \in MonitorRecord
        BY <2>6, CallFacts DEF MonitorsInv, MemoryOK, WriteMonitor
      <3> QED BY <1>0, <1>4, <2>6, <3>1, WrittenBackFacts DEF WriteMonitor
    <2>7. CASE Timeouts \/ MissedRuns
      <3>1. ~ Timeouts
        BY <2>1 DEF Timeouts, StartTimeouts, TimeoutTransaction, TimeoutRun,
           ProjectTimeout, Overdue, InProgress
      <3>2. ~ MissedRuns
        BY <2>1 DEF MissedRuns, StartMissed, Missing, MissedTransaction, InsertMissed,
           AdvanceMissed
      <3> QED BY <2>7, <3>1, <3>2
    <2>8. CASE Collect
      BY <2>1, <2>3, <2>8 DEF Collect
    <2>9. ASSUME NEW status \in Outcomes, CheckEnds(status)
          PROVE  runs' = runs /\ call'.at \in {"idle", "persist", "define"} /\ pass' = Idle
      BY <2>1, <2>9 DEF CheckEnds
    <2>10. ~ClaimUptime /\ ~ReadRuns /\ ~WriteRun /\ ~ApplyProjection
      BY <2>1 DEF ClaimUptime, ReadRuns, WriteRun, ApplyProjection
    <2>11. CASE CallFails \/ PassFails \/ Restart
      <3>1. runs' = runs /\ pass' = Idle /\ (call' = Idle \/ call' = call)
        BY <2>1, <2>11 DEF CallFails, PassFails, Restart
      <3> QED BY <2>1, <3>1 DEF Idle
    <2>12. CASE \/ Tick \/ LeaseEnds \/ LoadForEdit \/ WriteEdit \/ UNCHANGED vars
                \/ \E c \in CheckIns, status \in (Outcomes \ {"timeout"}) \cup {"in_progress"} :
                     Receive(c, status)
      BY <2>2, <2>12 DEF Tick, Receive, LeaseEnds, LoadForEdit, WriteEdit, vars
    <2> QED
      BY <2>3, <2>4, <2>5, <2>6, <2>7, <2>8, <2>9, <2>10, <2>11, <2>12
      DEF Next, Check, Persist
  <1> QED BY <1>3, <1>4 DEF MonitorKnown

\* What the monitor shows, action by action.
LEMMA ShowsStep ==
  ASSUME MonitorsInv, [Next]_vars, transactional, ~edited', monitor' # NoMonitor
  PROVE  Shows(monitor', runs')
  <1>0. /\ TypeOK /\ MemoryOK /\ MonitorKnown /\ edited \in BOOLEAN
        /\ call.at \in {"idle", "check", "persist"}
        /\ pass.at \in {"idle", "timeouts", "missed"}
    BY DEF MonitorsInv, TypeOK, Undivided
  <1>1. edited' = edited \/ edited' = TRUE
    BY DEF vars, Next, Persist, Check, Timeouts, MissedRuns, Tick, Receive, Collect,
       ClaimUptime, CheckEnds, LeaseEnds, PersistTransaction, LoadMonitor, WriteMonitor,
       ReadRuns, WriteRun, ApplyProjection, StartTimeouts, TimeoutTransaction,
       TimeoutRun, ProjectTimeout, StartMissed, MissedTransaction, InsertMissed,
       AdvanceMissed, LoadForEdit, WriteEdit, CallFails, PassFails, Restart
  <1>2. ~edited
    BY <1>0, <1>1
  <1>3. ASSUME monitor # NoMonitor, runs' = runs, monitor'.last = monitor.last,
               monitor'.status = monitor.status, monitor'.seen = monitor.seen
        PROVE  Shows(monitor', runs')
    <2>1. Shows(monitor, runs)
      BY <1>2, <1>3, ShowsNow
    <2> QED BY <1>3, <2>1 DEF Shows
  <1>4. CASE UNCHANGED <<monitor, runs>>
    BY <1>3, <1>4
  <1>5. CASE ClaimUptime \/ LeaseEnds
    <2>1. monitor \in MonitorRecord
      BY <1>0, <1>5 DEF MonitorKnown, ClaimUptime, LeaseEnds, TypeOK
    <2>2. /\ monitor'.last = monitor.last /\ monitor'.status = monitor.status
          /\ monitor'.seen = monitor.seen /\ runs' = runs
      BY <1>5, <2>1 DEF ClaimUptime, LeaseEnds, MonitorRecord
    <2>3. monitor # NoMonitor
      BY <2>1
    <2> QED BY <1>3, <2>2, <2>3
  <1>6. CASE PersistTransaction
    <2> DEFINE defined == Defined(call.updates)
               merged == Merge(call.updates)
    <2>1. call.updates \in Seq(Reports)
      BY <1>0, <1>6, CallFacts DEF MemoryOK, PersistTransaction
    <2>2. Redefined(defined) /\ MergeInv(merged)
      BY <1>0, <2>1, DefinedFacts, MergeFacts DEF MonitorsInv
    <2>3. \/ UNCHANGED <<monitor, runs>>
          \/ /\ defined # NoMonitor /\ runs' = merged.runs
             /\ \/ merged.accepted = <<>> /\ monitor' = defined
                \/ /\ merged.accepted # <<>>
                   /\ monitor' = Project(defined, Latest(merged.accepted))
      BY <1>6, PersistForms
    <2> HIDE DEF defined, merged
    <2>4. defined # NoMonitor => defined \in MonitorRecord
      BY <2>2 DEF Redefined
    <2> QED BY <1>2, <1>4, <2>2, <2>3, <2>4, BatchShows, EmptyBatchShows
  <1>7. CASE TimeoutTransaction
    BY <1>2, <1>4, <1>7, TimeoutsShow
  <1>8. CASE MissedTransaction
    BY <1>2, <1>4, <1>8, MissedShows
  <1>9. /\ ~WriteMonitor /\ ~WriteRun /\ ~ApplyProjection /\ ~ProjectTimeout
        /\ ~InsertMissed /\ ~AdvanceMissed /\ ~WriteEdit /\ \A r \in RunIds : ~TimeoutRun(r)
    BY <1>0 DEF WriteMonitor, WriteRun, ApplyProjection, ProjectTimeout, InsertMissed,
       AdvanceMissed, WriteEdit, TimeoutRun
  <1> QED
    BY <1>4, <1>5, <1>6, <1>7, <1>8, <1>9
    DEF vars, Next, Persist, Check, Timeouts, MissedRuns, Tick, Receive, Collect, CheckEnds,
        LoadMonitor, ReadRuns, StartTimeouts, StartMissed, LoadForEdit, CallFails,
        PassFails, Restart

\* PostgreSQL's batches, passes and edits leave a monitor it reads again.
LEMMA StoredValidStep ==
  ASSUME MonitorsInv, [Next]_vars PROVE StoredValid'
  <1>0. /\ TypeOK /\ MemoryOK /\ MonitorKnown /\ StoredValid
        /\ transactional => /\ call.at \in {"idle", "check", "persist"}
                            /\ pass.at \in {"idle", "timeouts", "missed"}
    BY DEF MonitorsInv, Undivided
  <1>1. (edit # Idle /\ edit.monitor # NoMonitor => Valid(edit.monitor))'
    <2>1. CASE LoadForEdit
      <3>1. PICK now \in 1..clock, read \in {monitor, NoMonitor} :
              /\ read # NoMonitor => Valid(read)
              /\ edit' = [at |-> "write", now |-> now, monitor |-> read]
        BY <2>1 DEF LoadForEdit
      <3>2. edit'.monitor = read
        BY <3>1
      <3> QED BY <3>1, <3>2 DEF Valid
    <2>2. CASE UNCHANGED edit \/ edit' = Idle
      BY <1>0, <2>2 DEF StoredValid, Valid
    <2> QED
      BY <2>1, <2>2
      DEF Next, vars, Persist, Check, Timeouts, MissedRuns, Tick, Receive, Collect,
          ClaimUptime, CheckEnds, LeaseEnds, PersistTransaction, LoadMonitor,
          WriteMonitor, ReadRuns, WriteRun, ApplyProjection, StartTimeouts,
          TimeoutTransaction, TimeoutRun, ProjectTimeout, StartMissed,
          MissedTransaction, InsertMissed, AdvanceMissed, WriteEdit, CallFails,
          PassFails, Restart
  <1>2. ASSUME transactional PROVE monitor' # NoMonitor => Valid(monitor')
    <2>1. CASE UNCHANGED monitor
      BY <1>0, <1>2, <2>1 DEF StoredValid, Valid
    <2>2. CASE ClaimUptime \/ LeaseEnds
      <3>1. monitor \in MonitorRecord /\ monitor # NoMonitor
        BY <1>0, <2>2 DEF MonitorKnown, ClaimUptime, LeaseEnds, TypeOK
      <3>2. ~monitor.invalid
        BY <1>0, <1>2, <3>1 DEF StoredValid, Valid
      <3>3. ~monitor'.invalid
        BY <2>2, <3>1, <3>2 DEF ClaimUptime, LeaseEnds, MonitorRecord
      <3> QED BY <3>3 DEF Valid
    <2>3. CASE PersistTransaction
      BY <2>1, <2>3, PersistForms
    <2>4. CASE TimeoutTransaction
      <3>1. UNCHANGED monitor \/ \E m : Valid(m) /\ monitor' = m
        BY <2>4 DEF TimeoutTransaction
      <3> QED BY <2>1, <3>1 DEF Valid
    <2>5. CASE MissedTransaction
      <3>1. UNCHANGED monitor \/ \E m : Valid(m) /\ monitor' = m
        BY <2>5 DEF MissedTransaction
      <3> QED BY <2>1, <3>1 DEF Valid
    <2>6. CASE WriteEdit
      <3> DEFINE m == IF edit.monitor = NoMonitor THEN NewMonitor(edit.now, TRUE)
                      ELSE [edit.monitor EXCEPT !.next = NextAfter(edit.now),
                                                !.managed = TRUE]
      <3>1. /\ edit.now \in 1..MaxClock /\ edit # Idle
            /\ edit.monitor \in MonitorRecord \cup {NoMonitor}
        BY <1>0, <2>6, EditFacts DEF MemoryOK, WriteEdit, Idle
      <3>2. NextAfter(edit.now) \in Times
        BY <3>1, NextAfterFacts
      <3>3. m \in MonitorRecord /\ ~m.invalid
        <4>1. CASE edit.monitor = NoMonitor
          BY <3>1, <4>1, NewMonitorFacts
        <4>2. CASE edit.monitor # NoMonitor
          BY <1>0, <3>1, <3>2, <4>2 DEF MonitorRecord, StoredValid, Valid
        <4> QED BY <4>1, <4>2
      <3>4. \/ monitor' = [m EXCEPT !.lease = monitor.lease]
            \/ monitor' = m
        BY <1>2, <2>6 DEF WriteEdit, WrittenBack
      <3> HIDE DEF m
      <3>5. ~monitor'.invalid
        BY <3>3, <3>4 DEF MonitorRecord
      <3> QED BY <3>5 DEF Valid
    <2>7. /\ ~WriteMonitor /\ ~ApplyProjection /\ ~ProjectTimeout /\ ~AdvanceMissed
      BY <1>0, <1>2 DEF WriteMonitor, ApplyProjection, ProjectTimeout, AdvanceMissed
    <2> QED
      BY <2>1, <2>2, <2>3, <2>4, <2>5, <2>6, <2>7
      DEF vars, Next, Persist, Check, Timeouts, MissedRuns, Tick, Receive, Collect,
          CheckEnds, LoadMonitor, ReadRuns, WriteRun, StartTimeouts, TimeoutRun,
          StartMissed, InsertMissed, LoadForEdit, CallFails, PassFails, Restart
  <1>3. transactional' = transactional
    BY MemoryStep DEF transactional
  <1> QED BY <1>1, <1>2, <1>3 DEF StoredValid

\* Initially nothing has run.
LEMMA MonitorsInit ==
  ASSUME Init PROVE MonitorsInv
  <1>1. /\ \A r \in RunIds : runs[r] = NoRun
        /\ runs \in [RunIds -> RunRecord \cup {NoRun}]
        /\ \A slot \in Times : <<"missed", slot>> \in RunIds
    BY DEF Init, RunIds
  <1>2. 1 \in 1..MaxClock
    OBVIOUS
  <1>3. /\ NewMonitor(1, TRUE) \in MonitorRecord
        /\ NewMonitor(1, TRUE).seen = 0 /\ ~NewMonitor(1, TRUE).invalid
    BY <1>2, NewMonitorFacts
  <1>4. /\ monitor \in MonitorRecord \/ monitor = NoMonitor
        /\ monitor = NoMonitor => kind = "cron"
        /\ monitor # NoMonitor => monitor.seen = 0 /\ ~monitor.invalid
    BY <1>3 DEF Init
  <1>5. Idle \in Calls /\ Idle \in Passes /\ Idle \in Edits /\ Idle.at = "idle"
    BY DEF Calls, Passes, Edits, Idle
  <1>6. TypeOK
    <2>1. given \in Instances /\ clock \in 1..MaxClock /\ inbox \subseteq Updates
      BY <1>2 DEF Init
    <2>2. messages \in 0..MaxMessages
      BY DEF Init
    <2>3. faults \in 0..MaxFaults
      BY DEF Init
    <2>4. /\ edited \in BOOLEAN /\ call.at = "idle" /\ pass.at = "idle" /\ edit = Idle
      BY <1>5 DEF Init
    <2> QED BY <1>1, <1>4, <2>1, <2>2, <2>3, <2>4 DEF TypeOK
  <1>7. MemoryOK /\ Undivided
    BY <1>5 DEF Init, MemoryOK, Undivided
  <1>8. MonitorKnown
    BY <1>1, <1>4, <1>5 DEF Init, MonitorKnown
  <1>9. RunsConsistent
    BY <1>1 DEF RunsConsistent, InProgress
  <1>10. LastStored /\ ProjectionIsLatest
    BY <1>1, <1>4 DEF LastStored, ProjectionIsLatest
  <1>11. StoredValid
    BY <1>4 DEF Init, StoredValid, Valid
  <1> QED BY <1>6, <1>7, <1>8, <1>9, <1>10, <1>11 DEF MonitorsInv

\* The inductive invariant: what a call, a pass and an edit hold, and what a monitor shows.
THEOREM MonitorsInvariant == Spec => []MonitorsInv
  <1>1. Init => MonitorsInv
    BY MonitorsInit
  <1>2. MonitorsInv /\ [Next]_vars => MonitorsInv'
    <2> SUFFICES ASSUME MonitorsInv, [Next]_vars PROVE MonitorsInv'
      OBVIOUS
    <2>1. TypeOK' /\ MemoryOK' /\ Undivided' /\ RunsConsistent' /\ MonitorKnown'
      BY TypeStep, MemoryStep, RunsConsistentStep, MonitorKnownStep
    <2>2. transactional' = transactional
      BY MemoryStep DEF transactional
    <2>3. LastStored'
      BY <2>2, ShowsStep DEF LastStored, Shows
    <2>4. ProjectionIsLatest'
      BY <2>2, ShowsStep DEF ProjectionIsLatest, Shows
    <2>5. StoredValid'
      BY StoredValidStep
    <2> QED BY <2>1, <2>3, <2>4, <2>5 DEF MonitorsInv
  <1> QED BY <1>1, <1>2, PTL DEF Spec

\* On PostgreSQL what a monitor shows is the run received last, as it is stored, in
\* whatever order check-ins, checks and the passes of the Scheduler are stored, unless an
\* edit wrote back an older one (persist_monitors, timeout_runs, record_missed).
THEOREM MonitorsProjectionIsLatest == Spec => []ProjectionIsLatest
  <1>1. MonitorsInv => ProjectionIsLatest
    BY DEF MonitorsInv
  <1> QED BY <1>1, MonitorsInvariant, PTL

\* On both stores the first outcome of a run stays: no batch, timeout or missed slot
\* changes a run that has ended, whatever was read of it before.
THEOREM MonitorsFirstOutcomeWins == Spec => FirstOutcomeWins
  <1>1. MonitorsInv /\ [Next]_vars =>
          [\A r \in RunIds :
             runs[r] # NoRun /\ runs[r].status \in Terminal => runs'[r] = runs[r]]_vars
    <2> SUFFICES ASSUME MonitorsInv, [Next]_vars, NEW r \in RunIds, runs[r] # NoRun,
                        runs[r].status \in Terminal
                 PROVE  runs'[r] = runs[r]
      OBVIOUS
    <2>1. ~InProgress(runs[r])
      BY DEF InProgress, Terminal
    <2> QED BY <2>1, NextMovesRuns DEF RunsMove
  <1> QED BY <1>1, MonitorsInvariant, PTL DEF Spec, FirstOutcomeWins

=============================================================================
