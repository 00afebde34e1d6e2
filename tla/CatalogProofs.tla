---------------------------- MODULE CatalogProofs ----------------------------
(***************************************************************************)
(* Proof that the implicit catalogs stay within their ceilings, for any    *)
(* number of releases, environments and days, any limits and both          *)
(* backends.                                                               *)
(***************************************************************************)
EXTENDS Catalog, FiniteSetTheorems, TLAPS

\* The cardinalities the limits are compared with are natural numbers.
LEMMA FiniteCatalogs ==
    ASSUME TypeOK
    PROVE  /\ IsFiniteSet(environments) /\ Cardinality(environments) \in Nat
           /\ \A d : IsFiniteSet(CreatedOn(d)) /\ Cardinality(CreatedOn(d)) \in Nat
<1>1. IsFiniteSet(environments)
  BY CatalogAssumption, FS_Subset DEF TypeOK
<1>2. \A d : IsFiniteSet(CreatedOn(d))
  <2> TAKE d
  <2>1. CreatedOn(d) \subseteq Releases
    BY DEF CreatedOn
  <2> QED BY <2>1, CatalogAssumption, FS_Subset
<1> QED BY <1>1, <1>2, FS_CardinalityType

LEMMA SmallSets ==
    /\ Cardinality({}) = 0
    /\ \A x : IsFiniteSet({x}) /\ Cardinality({x}) = 1
BY FS_EmptySet, FS_Singleton

LEMMA CatalogInit == Init => CatalogInv
<1> SUFFICES ASSUME Init PROVE CatalogInv
  OBVIOUS
<1>1. TypeOK
  <2>1. 0 \in 0..ReleaseLimit /\ 0 \in 0..EnvironmentLimit
    BY CatalogAssumption
  <2>2. [r \in Releases |-> NoDay] \in [Releases -> Days \cup {NoDay}]
    OBVIOUS
  <2>3. regressed \in BOOLEAN /\ heldRelease \in SUBSET (Releases \X Days)
    BY DEF Init
  <2> QED BY <2>1, <2>2, <2>3, Zenon DEF Init, TypeOK
<1>2. EnvironmentsPaid
  BY SmallSets DEF Init, EnvironmentsPaid
<1>3. ReleasesPaid
  <2>1. \A d \in Days : CreatedOn(d) = {}
    BY CatalogAssumption DEF Init, CreatedOn
  <2> QED BY <2>1 DEF Init, ReleasesPaid
<1> QED BY <1>1, <1>2, <1>3 DEF CatalogInv

-----------------------------------------------------------------------------
(* Types *)

\* A count below the limit, or one that starts anew, stays within the limit.
LEMMA UseReleaseType ==
    ASSUME TypeOK, NEW d \in Days, UseRelease(d)
    PROVE  /\ usageDay' = d
           /\ usageCount' \in 1..ReleaseLimit
           /\ regressed' \in BOOLEAN
           /\ usageDay = d => usageCount' = usageCount + 1
<1>1. CASE usageDay = d
  BY <1>1, CatalogAssumption DEF TypeOK, UseRelease, Admits, CountAfter
<1>2. CASE usageDay # d
  BY <1>2, CatalogAssumption DEF TypeOK, UseRelease, Admits, CountAfter
<1> QED BY <1>1, <1>2

LEMMA TypeStep == TypeOK /\ [Next]_vars => TypeOK'
<1> SUFFICES ASSUME TypeOK, [Next]_vars PROVE TypeOK'
  OBVIOUS
<1>1. ASSUME NEW r \in Releases, NEW d \in Days, ReserveRelease(r, d) PROVE TypeOK'
  BY <1>1, UseReleaseType DEF TypeOK, ReserveRelease, UseRelease
<1>2. ASSUME NEW r \in Releases, NEW d \in Days, WriteRelease(r, d) PROVE TypeOK'
  BY <1>2 DEF TypeOK, WriteRelease, usageVars
<1>3. ASSUME NEW r \in Releases, NEW d \in Days, MaterializeRelease(r, d) PROVE TypeOK'
  BY <1>3, UseReleaseType DEF TypeOK, MaterializeRelease, heldVars
<1>4. ASSUME NEW v \in Environments, ReserveEnvironment(v) PROVE TypeOK'
  BY <1>4, CatalogAssumption DEF TypeOK, ReserveEnvironment, AdmitsEnvironment
<1>5. ASSUME NEW v \in Environments, WriteEnvironment(v) PROVE TypeOK'
  BY <1>5 DEF TypeOK, WriteEnvironment, usageVars
<1>6. ASSUME NEW v \in Environments, MaterializeEnvironment(v) PROVE TypeOK'
  BY <1>6, CatalogAssumption DEF TypeOK, MaterializeEnvironment, AdmitsEnvironment, heldVars
<1>7. CASE LoseReservation
  BY <1>7 DEF TypeOK, LoseReservation, usageVars
<1>8. CASE Skip
  BY <1>8 DEF TypeOK, Skip, vars, usageVars, heldVars
<1>9. CASE UNCHANGED vars
  BY <1>9 DEF TypeOK, vars, usageVars, heldVars
<1> QED BY <1>1, <1>2, <1>3, <1>4, <1>5, <1>6, <1>7, <1>8, <1>9 DEF Next

-----------------------------------------------------------------------------
(* Environments *)

\* Admitting an environment that is not there yet adds one to the catalog.
LEMMA AddEnvironment ==
    ASSUME TypeOK, NEW v \in Environments, environments' = environments \cup {v}
    PROVE  /\ Cardinality(environments') \in Nat
           /\ Cardinality(environments') <= Cardinality(environments) + 1
<1>1. IsFiniteSet(environments) /\ Cardinality(environments) \in Nat
  BY FiniteCatalogs
<1>2. CASE v \in environments
  <2>1. environments' = environments
    BY <1>2
  <2> QED BY <1>1, <2>1
<1>3. CASE v \notin environments
  BY <1>1, <1>3, FS_AddElement
<1> QED BY <1>2, <1>3

LEMMA EnvironmentsStep ==
    TypeOK /\ EnvironmentsPaid /\ [Next]_vars => EnvironmentsPaid'
<1> SUFFICES ASSUME TypeOK, EnvironmentsPaid, [Next]_vars PROVE EnvironmentsPaid'
  OBVIOUS
<1>0. Cardinality(environments) \in Nat /\ usageEnv \in Nat
  BY FiniteCatalogs DEF TypeOK
<1>a. ASSUME UNCHANGED <<environments, heldEnvironment, usageEnv>> PROVE EnvironmentsPaid'
  BY <1>a DEF EnvironmentsPaid
<1>1. ASSUME NEW r \in Releases, NEW d \in Days,
             \/ ReserveRelease(r, d) \/ WriteRelease(r, d) \/ MaterializeRelease(r, d)
      PROVE EnvironmentsPaid'
  BY <1>1, <1>a DEF ReserveRelease, WriteRelease, MaterializeRelease, usageVars, heldVars
<1>2. ASSUME NEW v \in Environments, ReserveEnvironment(v) PROVE EnvironmentsPaid'
  <2>1. /\ heldEnvironment = {} /\ heldEnvironment' = {v}
        /\ usageEnv' = usageEnv + 1 /\ environments' = environments
    BY <1>2 DEF ReserveEnvironment, Idle
  <2>2. Cardinality(heldEnvironment) = 0 /\ Cardinality(heldEnvironment') = 1
    BY <2>1, SmallSets
  <2> QED BY <2>1, <2>2, <1>0 DEF EnvironmentsPaid
<1>3. ASSUME NEW v \in Environments, WriteEnvironment(v) PROVE EnvironmentsPaid'
  <2>1. /\ heldEnvironment = {v} /\ heldEnvironment' = {}
        /\ usageEnv' = usageEnv /\ environments' = environments \cup {v}
    BY <1>3 DEF WriteEnvironment, usageVars
  <2>2. Cardinality(heldEnvironment) = 1 /\ Cardinality(heldEnvironment') = 0
    BY <2>1, SmallSets
  <2>3. /\ Cardinality(environments') \in Nat
        /\ Cardinality(environments') <= Cardinality(environments) + 1
    BY <2>1, AddEnvironment
  <2> QED BY <2>1, <2>2, <2>3, <1>0 DEF EnvironmentsPaid
<1>4. ASSUME NEW v \in Environments, MaterializeEnvironment(v) PROVE EnvironmentsPaid'
  <2>1. /\ heldEnvironment' = heldEnvironment /\ usageEnv' = usageEnv + 1
        /\ environments' = environments \cup {v}
    BY <1>4 DEF MaterializeEnvironment, heldVars
  <2>2. /\ Cardinality(environments') \in Nat
        /\ Cardinality(environments') <= Cardinality(environments) + 1
    BY <2>1, AddEnvironment
  <2>3. IsFiniteSet(heldEnvironment) /\ Cardinality(heldEnvironment) \in Nat
    BY CatalogAssumption, FS_Subset, FS_CardinalityType DEF TypeOK
  <2> QED BY <2>1, <2>2, <2>3, <1>0 DEF EnvironmentsPaid
<1>5. CASE LoseReservation
  <2>1. heldEnvironment' = {} /\ UNCHANGED <<environments, usageEnv>>
    BY <1>5 DEF LoseReservation, usageVars
  <2>2. IsFiniteSet(heldEnvironment) /\ Cardinality(heldEnvironment) \in Nat
    BY CatalogAssumption, FS_Subset, FS_CardinalityType DEF TypeOK
  <2>3. Cardinality(heldEnvironment') = 0
    BY <2>1, SmallSets
  <2> QED BY <2>1, <2>2, <2>3, <1>0 DEF EnvironmentsPaid
<1>6. CASE Skip \/ UNCHANGED vars
  BY <1>6, <1>a DEF Skip, vars, usageVars, heldVars
<1> QED BY <1>1, <1>2, <1>3, <1>4, <1>5, <1>6 DEF Next

-----------------------------------------------------------------------------
(* Releases *)

\* What a step does to the releases of every day when it creates one of them.
LEMMA AddRelease ==
    ASSUME TypeOK, NEW r \in Releases, NEW d \in Days, releases[r] = NoDay,
           releases' = [releases EXCEPT ![r] = d]
    PROVE  /\ \A e \in Days : e # d => CreatedOn(e)' = CreatedOn(e)
           /\ Cardinality(CreatedOn(d)') = Cardinality(CreatedOn(d)) + 1
<1>1. \A e \in Days : e # d => CreatedOn(e)' = CreatedOn(e)
  BY CatalogAssumption DEF TypeOK, CreatedOn
<1>2. CreatedOn(d)' = CreatedOn(d) \cup {r}
  BY DEF TypeOK, CreatedOn
<1>3. r \notin CreatedOn(d)
  BY CatalogAssumption DEF CreatedOn
<1> QED BY <1>1, <1>2, <1>3, FiniteCatalogs, FS_AddElement

\* A release whose place is not yet used can be paid for on the new day.
LEMMA ReleasePlace ==
    ASSUME TypeOK, ReleasesPaid, heldRelease = {}, NEW d \in Days, UseRelease(d), ~regressed'
    PROVE  /\ ~regressed
           /\ Cardinality(CreatedOn(d)) + 1 <= usageCount'
           /\ \A e \in Days : e > d => CreatedOn(e) = {}
           /\ \A e \in Days : e < d => Cardinality(CreatedOn(e)) <= ReleaseLimit
<1>0. /\ \A e : Cardinality(CreatedOn(e)) \in Nat
      /\ usageCount \in Nat /\ ReleaseLimit \in Nat \ {0}
      /\ usageCount <= ReleaseLimit
      /\ usageDay \in Days \cup {NoDay}
      /\ \A e \in Days : e \in Nat
  BY FiniteCatalogs, CatalogAssumption DEF TypeOK
<1>1. ~regressed /\ (usageDay = NoDay \/ ~(d < usageDay))
  BY DEF UseRelease
<1>2. usageCount' >= 1 /\ usageCount' \in Nat /\ (usageDay = d => usageCount' = usageCount + 1)
  BY UseReleaseType, <1>0
<1>3. CASE usageDay = NoDay
  <2>1. \A e \in Days : CreatedOn(e) = {}
    BY <1>1, <1>3 DEF ReleasesPaid
  <2>2. \A e \in Days : Cardinality(CreatedOn(e)) = 0
    BY <2>1, SmallSets
  <2> QED BY <1>0, <1>1, <1>2, <2>1, <2>2
<1>4. CASE usageDay # NoDay
  <2>1. /\ Cardinality(CreatedOn(usageDay)) <= usageCount
        /\ \A e \in Days : e > usageDay => CreatedOn(e) = {}
        /\ \A e \in Days : e < usageDay => Cardinality(CreatedOn(e)) <= ReleaseLimit
    BY <1>0, <1>1, <1>4, SmallSets DEF ReleasesPaid
  <2>2. usageDay \in Days
    BY <1>0, <1>4
  <2>3. CASE d = usageDay
    BY <1>0, <1>1, <1>2, <2>1, <2>3
  <2>4. CASE d > usageDay
    <3>1. \A e \in Days : e > d => CreatedOn(e) = {}
      BY <1>0, <2>1, <2>2, <2>4
    <3>2. Cardinality(CreatedOn(d)) = 0
      BY <2>1, <2>4, SmallSets
    <3>3. \A e \in Days : e < d => Cardinality(CreatedOn(e)) <= ReleaseLimit
      <4> TAKE e \in Days
      <4>1. CASE e < usageDay
        BY <2>1, <4>1
      <4>2. CASE e = usageDay
        BY <1>0, <2>1, <4>2
      <4>3. CASE e > usageDay
        BY <1>0, <2>1, <4>3, SmallSets
      <4> QED BY <1>0, <2>2, <4>1, <4>2, <4>3
    <3> QED BY <1>1, <1>2, <3>1, <3>2, <3>3
  <2> QED BY <1>0, <1>1, <1>4, <2>2, <2>3, <2>4
<1> QED BY <1>3, <1>4

\* At most one place is held.
LEMMA HeldReleaseCount ==
    ASSUME ReleasesPaid
    PROVE  Cardinality(heldRelease) \in Nat
<1>1. CASE heldRelease = {}
  BY <1>1, SmallSets
<1>2. CASE heldRelease # {}
  <2>1. PICK h \in heldRelease : heldRelease = {h}
    BY <1>2 DEF ReleasesPaid
  <2>2. Cardinality(heldRelease) = 1
    BY <2>1, SmallSets
  <2> QED BY <2>2
<1> QED BY <1>1, <1>2

LEMMA ReleasesStep ==
    TypeOK /\ ReleasesPaid /\ [Next]_vars => ReleasesPaid'
<1> SUFFICES ASSUME TypeOK, ReleasesPaid, [Next]_vars PROVE ReleasesPaid'
  OBVIOUS
<1>0. /\ \A e : Cardinality(CreatedOn(e)) \in Nat
      /\ usageCount \in Nat
      /\ \A e \in Days : e \in Nat
      /\ usageDay \in Days \cup {NoDay}
  BY FiniteCatalogs, CatalogAssumption DEF TypeOK
<1>a. ASSUME UNCHANGED <<transactional, releases, heldRelease, usageDay, usageCount, regressed>>
      PROVE  ReleasesPaid'
  BY <1>a DEF ReleasesPaid, CreatedOn
<1>1. ASSUME NEW r \in Releases, NEW d \in Days, ReserveRelease(r, d) PROVE ReleasesPaid'
  <2>1. /\ heldRelease = {} /\ heldRelease' = {<<r, d>>} /\ releases[r] = NoDay
        /\ releases' = releases /\ UseRelease(d)
    BY <1>1 DEF ReserveRelease, Idle
  <2>2. \A e \in Days : CreatedOn(e)' = CreatedOn(e)
    BY <2>1 DEF CreatedOn
  <2>3. usageDay' = d /\ d # NoDay /\ usageCount' \in Nat
    BY <2>1, UseReleaseType, CatalogAssumption
  <2>4. Cardinality(heldRelease') = 1
    BY <2>1, SmallSets
  <2>5. \A h \in heldRelease' : heldRelease' = {h} /\ h[2] = usageDay' /\ releases'[h[1]] = NoDay
    BY <2>1, <2>3
  <2>6. ASSUME ~regressed'
        PROVE  /\ Cardinality(CreatedOn(d)') + Cardinality(heldRelease') <= usageCount'
               /\ \A e \in Days : e > d => CreatedOn(e)' = {}
               /\ \A e \in Days : e < d => Cardinality(CreatedOn(e)') <= ReleaseLimit
    BY <2>1, <2>2, <2>4, <2>6, ReleasePlace
  <2>7. (CreatedOn(usageDay))' = CreatedOn(d)'
    BY <2>3 DEF CreatedOn
  <2>8. ~transactional'
    BY <1>1 DEF ReserveRelease
  <2> QED BY <2>3, <2>5, <2>6, <2>7, <2>8 DEF ReleasesPaid
<1>2. ASSUME NEW r \in Releases, NEW d \in Days, WriteRelease(r, d) PROVE ReleasesPaid'
  <2>1. /\ heldRelease = {<<r, d>>} /\ heldRelease' = {}
        /\ releases' = [releases EXCEPT ![r] = d]
        /\ usageDay' = usageDay /\ usageCount' = usageCount /\ regressed' = regressed
    BY <1>2 DEF WriteRelease, usageVars
  <2>2. usageDay = d /\ releases[r] = NoDay
    BY <2>1 DEF ReleasesPaid
  <2>3. /\ \A e \in Days : e # d => CreatedOn(e)' = CreatedOn(e)
        /\ Cardinality(CreatedOn(d)') = Cardinality(CreatedOn(d)) + 1
    BY <2>1, <2>2, AddRelease
  <2>4. Cardinality(heldRelease) = 1 /\ Cardinality(heldRelease') = 0
    BY <2>1, SmallSets
  <2>5. ASSUME ~regressed
        PROVE  /\ Cardinality(CreatedOn(d)) + 1 <= usageCount
               /\ \A e \in Days : e > d => CreatedOn(e) = {}
               /\ \A e \in Days : e < d => Cardinality(CreatedOn(e)) <= ReleaseLimit
    BY <2>2, <2>4, <2>5, CatalogAssumption DEF ReleasesPaid
  <2>6. (CreatedOn(usageDay))' = CreatedOn(d)'
    BY <2>1, <2>2 DEF CreatedOn
  <2>7. ASSUME ~regressed'
        PROVE  /\ Cardinality(CreatedOn(d)') + Cardinality(heldRelease') <= usageCount'
               /\ \A e \in Days : e > d => CreatedOn(e)' = {}
               /\ \A e \in Days : e < d => Cardinality(CreatedOn(e)') <= ReleaseLimit
    BY <1>0, <2>1, <2>3, <2>4, <2>5, <2>7
  <2> QED BY <2>1, <2>2, <2>6, <2>7, CatalogAssumption DEF ReleasesPaid
<1>3. ASSUME NEW r \in Releases, NEW d \in Days, MaterializeRelease(r, d) PROVE ReleasesPaid'
  <2>1. /\ heldRelease' = heldRelease /\ releases[r] = NoDay
        /\ releases' = [releases EXCEPT ![r] = d] /\ UseRelease(d)
    BY <1>3 DEF MaterializeRelease, heldVars
  <2>2. heldRelease = {} /\ Cardinality(heldRelease') = 0
    BY <1>3, <2>1, SmallSets DEF MaterializeRelease, ReleasesPaid
  <2>3. usageDay' = d /\ d # NoDay /\ usageCount' \in Nat
    BY <2>1, UseReleaseType, CatalogAssumption
  <2>4. /\ \A e \in Days : e # d => CreatedOn(e)' = CreatedOn(e)
        /\ Cardinality(CreatedOn(d)') = Cardinality(CreatedOn(d)) + 1
    BY <2>1, AddRelease
  <2>5. (CreatedOn(usageDay))' = CreatedOn(d)'
    BY <2>3 DEF CreatedOn
  <2>6. ASSUME ~regressed'
        PROVE  /\ Cardinality(CreatedOn(d)) + 1 <= usageCount'
               /\ \A e \in Days : e > d => CreatedOn(e) = {}
               /\ \A e \in Days : e < d => Cardinality(CreatedOn(e)) <= ReleaseLimit
    BY <2>1, <2>2, <2>6, ReleasePlace
  <2>7. ASSUME ~regressed'
        PROVE  /\ Cardinality(CreatedOn(d)') + Cardinality(heldRelease') <= usageCount'
               /\ \A e \in Days : e > d => CreatedOn(e)' = {}
               /\ \A e \in Days : e < d => Cardinality(CreatedOn(e)') <= ReleaseLimit
    BY <1>0, <2>2, <2>3, <2>4, <2>6, <2>7
  <2> QED BY <2>1, <2>2, <2>3, <2>5, <2>7 DEF ReleasesPaid
<1>4. ASSUME NEW v \in Environments,
             \/ ReserveEnvironment(v) \/ WriteEnvironment(v) \/ MaterializeEnvironment(v)
      PROVE ReleasesPaid'
  BY <1>4, <1>a DEF ReserveEnvironment, WriteEnvironment, MaterializeEnvironment,
                    usageVars, heldVars
<1>5. CASE LoseReservation
  <2>1. heldRelease' = {} /\ UNCHANGED <<releases, usageDay, usageCount, regressed>>
    BY <1>5 DEF LoseReservation, usageVars
  <2>2. Cardinality(heldRelease) \in Nat
    BY HeldReleaseCount
  <2>3. Cardinality(heldRelease') = 0
    BY <2>1, SmallSets
  <2>4. \A e : CreatedOn(e)' = CreatedOn(e)
    BY <2>1 DEF CreatedOn
  <2>5. (CreatedOn(usageDay))' = CreatedOn(usageDay)
    BY <2>1 DEF CreatedOn
  <2> QED BY <1>0, <2>1, <2>2, <2>3, <2>4, <2>5 DEF ReleasesPaid
<1>6. CASE Skip \/ UNCHANGED vars
  BY <1>6, <1>a DEF Skip, vars, usageVars, heldVars
<1> QED BY <1>1, <1>2, <1>3, <1>4, <1>5, <1>6 DEF Next

-----------------------------------------------------------------------------
(* Theorems *)

LEMMA CatalogStep == CatalogInv /\ [Next]_vars => CatalogInv'
BY TypeStep, EnvironmentsStep, ReleasesStep DEF CatalogInv

LEMMA CatalogCeilings == CatalogInv => EnvironmentCeiling /\ ReleaseCeilingInOrder
<1> SUFFICES ASSUME CatalogInv PROVE EnvironmentCeiling /\ ReleaseCeilingInOrder
  OBVIOUS
<1>0. /\ TypeOK
      /\ Cardinality(environments) \in Nat
      /\ \A d : Cardinality(CreatedOn(d)) \in Nat
      /\ \A d \in Days : d \in Nat
  BY FiniteCatalogs, CatalogAssumption DEF CatalogInv
<1>1. EnvironmentCeiling
  <2>1. IsFiniteSet(heldEnvironment) /\ Cardinality(heldEnvironment) \in Nat
    BY <1>0, CatalogAssumption, FS_Subset, FS_CardinalityType DEF TypeOK
  <2>2. Cardinality(environments) + Cardinality(heldEnvironment) <= usageEnv
    BY DEF CatalogInv, EnvironmentsPaid
  <2>3. usageEnv \in Nat /\ usageEnv <= EnvironmentLimit /\ EnvironmentLimit \in Nat
    BY <1>0, CatalogAssumption DEF TypeOK
  <2> QED BY <1>0, <2>1, <2>2, <2>3 DEF EnvironmentCeiling
<1>2. ASSUME ~regressed, NEW d \in Days
      PROVE  Cardinality(CreatedOn(d)) <= ReleaseLimit
  <2>0. usageCount <= ReleaseLimit /\ usageCount \in Nat /\ ReleaseLimit \in Nat
    BY <1>0, CatalogAssumption DEF TypeOK
  <2>1. CASE usageDay = NoDay
    <3>1. Cardinality(CreatedOn(d)) = 0
      BY <1>2, <2>1, SmallSets DEF CatalogInv, ReleasesPaid
    <3> QED BY <2>0, <3>1
  <2>2. CASE usageDay # NoDay
    <3>1. usageDay \in Nat
      BY <1>0, <2>2 DEF TypeOK
    <3>2. CASE d < usageDay
      BY <1>2, <2>2, <3>2 DEF CatalogInv, ReleasesPaid
    <3>3. CASE d > usageDay
      <4>1. Cardinality(CreatedOn(d)) = 0
        BY <1>2, <2>2, <3>3, SmallSets DEF CatalogInv, ReleasesPaid
      <4> QED BY <2>0, <4>1
    <3>4. CASE d = usageDay
      <4>1. Cardinality(CreatedOn(d)) + Cardinality(heldRelease) <= usageCount
        BY <1>2, <2>2, <3>4 DEF CatalogInv, ReleasesPaid
      <4>2. Cardinality(heldRelease) \in Nat
        BY HeldReleaseCount DEF CatalogInv
      <4> QED BY <1>0, <2>0, <4>1, <4>2
    <3> QED BY <1>0, <3>1, <3>2, <3>3, <3>4
  <2> QED BY <2>1, <2>2
<1> QED BY <1>1, <1>2 DEF ReleaseCeilingInOrder

\* The inductive invariant of both backends: every place held by update_catalogs
\* between reservation and upsert is paid for, and so is every entry.
THEOREM CatalogInvariant == Spec => []CatalogInv
BY CatalogInit, CatalogStep, PTL DEF Spec

\* The usage counters of catalog_usage stay within the configured limits.
THEOREM CatalogTypeOK == Spec => []TypeOK
<1>1. CatalogInv => TypeOK
  BY DEF CatalogInv
<1> QED BY CatalogInvariant, <1>1, PTL

\* reserve_environment and materialize_environments never admit more implicit
\* environments than max_implicit_environments_per_project, whatever reservations
\* are lost between the two writes.
THEOREM CatalogEnvironmentCeiling == Spec => []EnvironmentCeiling
BY CatalogInvariant, CatalogCeilings, PTL

\* reserve_release and materialize_releases keep the limit of every day as long as
\* no event of an earlier day is admitted after one of a later day.
THEOREM CatalogReleaseCeilingInOrder == Spec => []ReleaseCeilingInOrder
BY CatalogInvariant, CatalogCeilings, PTL

=============================================================================
