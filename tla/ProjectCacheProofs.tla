------------------------- MODULE ProjectCacheProofs -------------------------
(***************************************************************************)
(* Proofs about ProjectCache, for every number of keys and lookups, every  *)
(* capacity and any number of commands: the cache and the map of loads     *)
(* stay within their limits, a key is loaded once at a time, and a lookup  *)
(* does not cache access that a command took away after it was loaded.     *)
(***************************************************************************)
EXTENDS ProjectCache, FiniteSetTheorems, WellFoundedInduction, TLAPS

USE CacheAssumption
USE DEF storeVars, cacheVars, cellVars, callerVars

\* The types, by the state they are of.
StoreTypes ==
    /\ store \in [Keys -> Answers]
    /\ generation \in 0..MaxChanges /\ changes \in 0..MaxChanges
    /\ changed \in SUBSET Keys /\ raised \in SUBSET Keys /\ revoked \in SUBSET Keys

CacheTypes ==
    /\ entries \in [Keys -> Answers \cup {"none"}]
    /\ expired \in SUBSET Keys /\ shared \in SUBSET Keys
    /\ order \in Seq(Keys)

LookupTypes ==
    /\ inflight \in [Keys -> Cells \cup {None}]
    /\ value \in [Cells -> Results \cup {"none"}]
    /\ pc \in [Callers -> Steps]
    /\ key \in [Callers -> Keys \cup {None}]
    /\ seen \in [Callers -> 0..MaxChanges]
    /\ cell \in [Callers -> Cells \cup {None}]
    /\ loaded \in [Callers -> Results \cup {"none"}]

CacheSize ==
    /\ Cardinality(Cached(entries)) <= Capacity
    /\ Cached(entries) \subseteq ToSet(order)
    /\ Len(order) <= 2 * Capacity

LEMMA TypesApart == TypeOK <=> StoreTypes /\ CacheTypes /\ LookupTypes
  BY DEF TypeOK, StoreTypes, CacheTypes, LookupTypes

-----------------------------------------------------------------------------
(* Queues are sequences; what they hold, and that nothing is in a queue twice *)

\* An empty queue holds nothing.
LEMMA ToSetEmpty == ToSet(<<>>) = {} /\ IsInjective(<<>>)
  BY DEF ToSet, IsInjective

\* The elements of a queue are of its type.
LEMMA ToSetType ==
  ASSUME NEW S, NEW s \in Seq(S) PROVE ToSet(s) \in SUBSET S
  BY DEF ToSet

\* What appending (a send, a push) does to the elements of a queue.
LEMMA ToSetAppend ==
  ASSUME NEW S, NEW s \in Seq(S), NEW x \in S
  PROVE  /\ Append(s, x) \in Seq(S)
         /\ ToSet(Append(s, x)) = ToSet(s) \cup {x}
         /\ IsInjective(s) /\ x \notin ToSet(s) => IsInjective(Append(s, x))
  <1> DEFINE t == Append(s, x)
  <1>1. /\ t \in Seq(S) /\ Len(s) \in Nat /\ Len(t) = Len(s) + 1
        /\ DOMAIN s = 1..Len(s) /\ DOMAIN t = 1..(Len(s) + 1)
    OBVIOUS
  <1>2. \A i \in 1..Len(s) : t[i] = s[i]
    OBVIOUS
  <1>3. t[Len(s) + 1] = x
    OBVIOUS
  <1> HIDE DEF t
  <1>4. \A i \in 1..(Len(s) + 1) : i \in 1..Len(s) \/ i = Len(s) + 1
    BY <1>1
  <1>5. ToSet(t) = ToSet(s) \cup {x}
    <2>1. ASSUME NEW i \in DOMAIN t PROVE t[i] \in ToSet(s) \cup {x}
      BY <1>1, <1>2, <1>3, <1>4 DEF ToSet
    <2>2. ASSUME NEW i \in DOMAIN s PROVE s[i] \in ToSet(t)
      <3>1. i \in DOMAIN t /\ t[i] = s[i]
        BY <1>1, <1>2
      <3> QED BY <3>1 DEF ToSet
    <2>3. x \in ToSet(t)
      <3>1. Len(s) + 1 \in DOMAIN t
        BY <1>1
      <3> QED BY <3>1, <1>3 DEF ToSet
    <2> QED BY <2>1, <2>2, <2>3 DEF ToSet
  <1>6. ASSUME IsInjective(s), x \notin ToSet(s) PROVE IsInjective(t)
    <2> SUFFICES ASSUME NEW i \in DOMAIN t, NEW j \in DOMAIN t, t[i] = t[j]
                 PROVE  i = j
      BY DEF IsInjective
    <2>1. CASE i \in 1..Len(s) /\ j \in 1..Len(s)
      BY <2>1, <1>1, <1>2, <1>6 DEF IsInjective
    <2>2. CASE i \in 1..Len(s) /\ j = Len(s) + 1
      BY <2>2, <1>1, <1>2, <1>3, <1>6 DEF ToSet
    <2>3. CASE i = Len(s) + 1 /\ j \in 1..Len(s)
      BY <2>3, <1>1, <1>2, <1>3, <1>6 DEF ToSet
    <2> QED BY <2>1, <2>2, <2>3, <1>1, <1>4
  <1> QED BY <1>1, <1>5, <1>6 DEF t

-----------------------------------------------------------------------------
(* Induction, for a set: the provers do not instantiate one for a predicate *)

\* A non-empty set of naturals has a least element.
LEMMA LeastNat ==
  ASSUME NEW T \in SUBSET Nat, T # {}
  PROVE  \E n \in T : \A m \in T : n <= m
  <1> DEFINE R == {p \in Nat \X Nat : p[1] < p[2]}
  <1>1. IsWellFoundedOn(R, Nat)
    BY NatLessThanWellFounded, Zenon DEF OpToRel
  <1>2. \A m, n \in Nat : m < n => <<m, n>> \in R
    OBVIOUS
  <1> HIDE DEF R
  <1>3. \E n \in T : \A m \in T : ~ (<<m, n>> \in R)
    BY <1>1, WFMin
  <1>4. PICK n \in T : \A m \in T : ~ (<<m, n>> \in R)
    BY <1>3
  <1>5. ASSUME NEW m \in T PROVE n <= m
    <2>1. ~ (m < n)
      BY <1>2, <1>4
    <2> QED BY <2>1
  <1> QED BY <1>5

-----------------------------------------------------------------------------
(* CacheState *)

\* A queue is what was taken from its front and the rest.
LEMMA ToSetSplit ==
  ASSUME NEW S, NEW s \in Seq(S), NEW n \in 0..Len(s)
  PROVE  /\ SubSeq(s, n + 1, Len(s)) \in Seq(S)
         /\ Len(SubSeq(s, n + 1, Len(s))) = Len(s) - n
         /\ ToSet(s) \subseteq ToSet(SubSeq(s, 1, n)) \cup ToSet(SubSeq(s, n + 1, Len(s)))
  <1> DEFINE a == SubSeq(s, 1, n)
             b == SubSeq(s, n + 1, Len(s))
  <1>1. Len(s) \in Nat /\ n \in Nat /\ DOMAIN s = 1..Len(s)
    OBVIOUS
  <1>2. Len(a) = n /\ DOMAIN a = 1..n /\ \A i \in 1..n : a[i] = s[i]
    OBVIOUS
  <1>3. /\ b \in Seq(S) /\ Len(b) = Len(s) - n /\ DOMAIN b = 1..(Len(s) - n)
        /\ \A i \in 1..(Len(s) - n) : b[i] = s[i + n]
    OBVIOUS
  <1> HIDE DEF a, b
  <1>4. ASSUME NEW i \in 1..Len(s) PROVE s[i] \in ToSet(a) \cup ToSet(b)
    <2>1. CASE i <= n
      <3>1. i \in DOMAIN a /\ a[i] = s[i]
        BY <1>1, <1>2, <2>1
      <3> QED BY <3>1 DEF ToSet
    <2>2. CASE i > n
      <3>1. i - n \in 1..(Len(s) - n) /\ (i - n) + n = i
        BY <1>1, <2>2
      <3>2. i - n \in DOMAIN b /\ b[i - n] = s[i]
        BY <1>3, <3>1
      <3> QED BY <3>2 DEF ToSet
    <2> QED BY <2>1, <2>2, <1>1
  <1> QED BY <1>1, <1>3, <1>4 DEF ToSet, a, b

\* There is a number of records after which insert and trim_order stop: at the latest
\* when none is left, for every entry has a record.
LEMMA EvictionsExist ==
  ASSUME NEW records \in Seq(Keys), NEW cached \in SUBSET ToSet(records)
  PROVE  LET n == Evictions(records, cached)
         IN  /\ n \in 0..Len(records)
             /\ Cardinality(cached \ LastAmong(records, n)) <= Capacity
             /\ Len(records) - n <= 2 * Capacity
  <1> DEFINE Fits(n) == /\ Cardinality(cached \ LastAmong(records, n)) <= Capacity
                        /\ Len(records) - n <= 2 * Capacity
             F == {n \in 0..Len(records) : Fits(n)}
             L == Len(records)
  <1>1. L \in Nat /\ 0..L \in SUBSET Nat
    OBVIOUS
  <1>2. L \in F
    <2>1. SubSeq(records, 1, L) = records /\ SubSeq(records, L + 1, L) = <<>>
      OBVIOUS
    <2>2. LastAmong(records, L) = ToSet(records)
      BY <2>1, ToSetEmpty DEF LastAmong
    <2>3. cached \ LastAmong(records, L) = {}
      BY <2>2
    <2>4. Cardinality(cached \ LastAmong(records, L)) = 0
      BY <2>3, FS_EmptySet
    <2> QED BY <1>1, <2>4
  <1>3. PICK n \in F : \A m \in F : n <= m
    <2>1. F \in SUBSET Nat /\ F # {}
      BY <1>1, <1>2
    <2> HIDE DEF F
    <2> QED BY <2>1, LeastNat
  <1>4. \A m \in 0..n - 1 : ~Fits(m)
    <2>1. ASSUME NEW m \in 0..n - 1, Fits(m) PROVE FALSE
      <3>1. n \in 0..L /\ m \in 0..L /\ ~(n <= m)
        BY <1>1
      <3>2. m \in F
        BY <2>1, <3>1
      <3> QED BY <1>3, <3>1, <3>2
    <2> HIDE DEF Fits
    <2> QED BY <2>1
  <1> DEFINE First(m) == /\ Cardinality(cached \ LastAmong(records, m)) <= Capacity
                         /\ Len(records) - m <= 2 * Capacity
                         /\ \A k \in 0..m - 1 :
                              \/ Cardinality(cached \ LastAmong(records, k)) > Capacity
                              \/ Len(records) - k > 2 * Capacity
  <1>5. IsFiniteSet(cached)
    <2>1. ToSet(records) \in SUBSET Keys
      BY ToSetType
    <2> QED BY <2>1, FS_Subset
  <1>6. \A k : Cardinality(cached \ LastAmong(records, k)) \in Nat
    BY <1>5, FS_Difference, FS_CardinalityType
  <1>7. First(n)
    <2>1. Fits(n) /\ n \in 0..L
      OBVIOUS
    <2>2. ASSUME NEW k \in 0..n - 1
          PROVE  \/ Cardinality(cached \ LastAmong(records, k)) > Capacity
                 \/ Len(records) - k > 2 * Capacity
      <3>1. ~Fits(k)
        BY <1>4
      <3>2. k \in Int /\ Len(records) \in Int /\ Capacity \in Int
        OBVIOUS
      <3> DEFINE s == Cardinality(cached \ LastAmong(records, k))
      <3>3. s \in Int
        <4>1. s \in Nat
          BY <1>5, FS_Difference, FS_CardinalityType
        <4> HIDE DEF s
        <4> QED BY <4>1
      <3>4. ~(s <= Capacity) \/ ~(Len(records) - k <= 2 * Capacity)
        BY <3>1
      <3> HIDE DEF s, Fits
      <3>5. s > Capacity \/ Len(records) - k > 2 * Capacity
        BY <3>2, <3>3, <3>4
      <3> QED BY <3>5 DEF s
    <2> QED BY <2>1, <2>2
  <1>8. Evictions(records, cached) = CHOOSE m \in 0..Len(records) : First(m)
    BY DEF Evictions
  <1> DEFINE e == CHOOSE m \in 0..Len(records) : First(m)
  <1>9. e \in 0..Len(records) /\ First(e)
    <2>1. n \in 0..Len(records)
      OBVIOUS
    <2> HIDE DEF First, Fits, F
    <2> QED BY <1>7, <2>1
  <1>10. /\ Cardinality(cached \ LastAmong(records, e)) <= Capacity
         /\ Len(records) - e <= 2 * Capacity
    <2> HIDE DEF e
    <2> QED BY <1>9
  <1> HIDE DEF e, First
  <1> QED BY <1>8, <1>9, <1>10 DEF e

\* A new record keeps entries and records within their limits.
LEMMA RecordFacts ==
  ASSUME CacheTypes, CacheSize, NEW k \in Keys,
         NEW e \in [Keys -> Answers \cup {"none"}], Cached(e) \subseteq Cached(entries) \cup {k},
         NEW old \in SUBSET Keys, NEW others \in SUBSET Keys, Record(k, e, old, others)
  PROVE  CacheTypes' /\ CacheSize'
  <1> DEFINE records == Append(order, k)
             n == Evictions(records, Cached(e))
             evicted == LastAmong(records, n)
             first == SubSeq(records, 1, n)
             rest == SubSeq(records, n + 1, Len(records))
  <1>1. /\ order' = rest
        /\ entries' = [j \in Keys |-> IF j \in evicted THEN "none" ELSE e[j]]
        /\ expired' = old \ evicted /\ shared' = others \ evicted
    BY DEF Record
  <1>2. records \in Seq(Keys) /\ ToSet(records) = ToSet(order) \cup {k}
    BY ToSetAppend DEF CacheTypes
  <1>3. Cached(e) \in SUBSET ToSet(records)
    BY <1>2 DEF CacheSize
  <1> HIDE DEF records
  <1>4. /\ n \in 0..Len(records)
        /\ Cardinality(Cached(e) \ evicted) <= Capacity
        /\ Len(records) - n <= 2 * Capacity
    BY <1>2, <1>3, EvictionsExist
  <1> HIDE DEF n
  <1>5. /\ rest \in Seq(Keys) /\ Len(rest) = Len(records) - n
        /\ ToSet(records) \subseteq ToSet(first) \cup ToSet(rest)
    BY <1>2, <1>4, ToSetSplit
  <1>6. evicted = ToSet(first) \ ToSet(rest)
    BY DEF LastAmong
  <1> HIDE DEF evicted, first, rest
  <1>7. Cached(entries') = Cached(e) \ evicted
    BY <1>1 DEF Cached
  <1>8. Cached(entries') \subseteq ToSet(rest)
    BY <1>3, <1>5, <1>6, <1>7
  <1>9. CacheSize'
    BY <1>1, <1>4, <1>5, <1>7, <1>8 DEF CacheSize
  <1>10. entries' \in [Keys -> Answers \cup {"none"}]
    BY <1>1
  <1>11. CacheTypes'
    BY <1>1, <1>5, <1>10 DEF CacheTypes
  <1> QED BY <1>9, <1>11

\* What is evicted loses its entry and what is noted of it, and the rest keeps both.
LEMMA RecordEvicts ==
  ASSUME NEW k, NEW e, NEW old, NEW others, Record(k, e, old, others)
  PROVE  \E evicted : /\ shared' = others \ evicted
                      /\ entries' = [j \in Keys |-> IF j \in evicted THEN "none" ELSE e[j]]
  <1> DEFINE records == Append(order, k)
             evicted == LastAmong(records, Evictions(records, Cached(e)))
  <1>1. /\ shared' = others \ evicted
        /\ entries' = [j \in Keys |-> IF j \in evicted THEN "none" ELSE e[j]]
    BY DEF Record
  <1> HIDE DEF evicted
  <1> QED BY <1>1

\* The removal of an entry keeps them within their limits too.
LEMMA RemoveEntryFacts ==
  ASSUME CacheTypes, CacheSize, NEW k \in Keys, RemoveEntry(k)
  PROVE  CacheTypes' /\ CacheSize'
  <1>1. CacheTypes'
    BY DEF CacheTypes, RemoveEntry
  <1>2. Cached(entries') \in SUBSET Cached(entries)
    BY DEF CacheTypes, RemoveEntry, Cached
  <1>3. IsFiniteSet(Cached(entries))
    <2>1. Cached(entries) \in SUBSET Keys
      BY DEF Cached
    <2> QED BY <2>1, FS_Subset
  <1>4. /\ Cardinality(Cached(entries')) <= Cardinality(Cached(entries))
        /\ Cardinality(Cached(entries)) \in Nat /\ Cardinality(Cached(entries')) \in Nat
    BY <1>2, <1>3, FS_Subset, FS_CardinalityType
  <1>5. Cardinality(Cached(entries')) <= Capacity
    BY <1>4 DEF CacheSize
  <1>6. Cached(entries') \subseteq ToSet(order') /\ Len(order') <= 2 * Capacity
    BY <1>2 DEF CacheSize, RemoveEntry
  <1> QED BY <1>1, <1>5, <1>6 DEF CacheSize

\* The cache stays within its limits.
LEMMA CacheStep ==
  ASSUME ProjectCacheInv, [Next]_vars PROVE CacheTypes' /\ CacheSize'
  <1>0. CacheTypes /\ CacheSize /\ LookupTypes /\ LookupsConsistent
    BY TypesApart DEF ProjectCacheInv, CacheBounded, CacheSize
  <1>1. CASE UNCHANGED cacheVars
    BY <1>0, <1>1 DEF CacheTypes, CacheSize
  <1>2. ASSUME NEW c \in Callers, NEW k \in Keys, Hit(c, k) PROVE CacheTypes' /\ CacheSize'
    <2> DEFINE e == entries
               old == expired
               others == shared
    <2>1. Record(k, e, old, others)
      BY <1>2 DEF Hit
    <2>2. e \in [Keys -> Answers \cup {"none"}] /\ old \in SUBSET Keys /\ others \in SUBSET Keys
      BY <1>0 DEF CacheTypes
    <2>3. Cached(e) \subseteq Cached(entries) \cup {k}
      OBVIOUS
    <2> HIDE DEF e, old, others
    <2> QED BY <1>0, <2>1, <2>2, <2>3, RecordFacts
  <1>3. ASSUME NEW c \in Callers, NEW k \in Keys, Miss(c, k) PROVE CacheTypes' /\ CacheSize'
    BY <1>0, <1>3, RemoveEntryFacts DEF Miss
  <1>4. ASSUME NEW k \in Keys, Invalidate(k) PROVE CacheTypes' /\ CacheSize'
    BY <1>0, <1>4, RemoveEntryFacts DEF Invalidate
  <1>5. ASSUME NEW k \in Keys, Expire(k) PROVE CacheTypes' /\ CacheSize'
    BY <1>0, <1>5 DEF Expire, CacheTypes, CacheSize
  <1>6. ASSUME NEW c \in Callers, Finish(c) PROVE CacheTypes' /\ CacheSize'
    <2> DEFINE k == key[c]
               e == [entries EXCEPT ![k] = value[cell[c]]]
               others == IF loaded[c] = "none" THEN shared \cup {k} ELSE shared \ {k}
    <2>1. k \in Keys
      BY <1>0, <1>6 DEF Finish, LookupsConsistent
    <2>2. CASE Cacheable(c)
      <3>1. Record(k, e, expired \ {k}, others)
        BY <1>6, <2>2 DEF Finish, CacheResult
      <3>2. e \in [Keys -> Answers \cup {"none"}] /\ Cached(e) \subseteq Cached(entries) \cup {k}
        BY <1>0, <2>1, <2>2 DEF Cacheable, CacheTypes, Cached
      <3>3. others \in SUBSET Keys /\ expired \ {k} \in SUBSET Keys
        BY <1>0, <2>1 DEF CacheTypes
      <3> HIDE DEF k, e, others
      <3> QED BY <1>0, <2>1, <3>1, <3>2, <3>3, RecordFacts
    <2>3. CASE ~Cacheable(c)
      BY <1>1, <1>6, <2>3 DEF Finish, CacheResult
    <2> QED BY <2>2, <2>3
  <1> QED BY <1>1, <1>2, <1>3, <1>4, <1>5, <1>6
          DEF Next, vars, Lookup, Coalesce, Enter, RejectCapacity, Load, Loaded, CancelLookup,
              Change, RaiseGeneration

-----------------------------------------------------------------------------
(* Commands *)

\* Each raise of the generation is that of a command, so it is bounded as they are.
LEMMA StoreStep ==
  ASSUME ProjectCacheInv, [Next]_vars PROVE StoreTypes' /\ RaisesCounted'
  <1>0. StoreTypes /\ RaisesCounted
    BY TypesApart DEF ProjectCacheInv
  <1>1. CASE UNCHANGED storeVars
    BY <1>0, <1>1 DEF StoreTypes, RaisesCounted
  <1>2. /\ changed \in SUBSET Keys /\ IsFiniteSet(changed) /\ Cardinality(changed) \in Nat
        /\ generation \in Nat /\ changes \in Nat /\ changes <= MaxChanges
        /\ generation + Cardinality(changed) <= changes
    BY <1>0, FS_Subset, FS_CardinalityType DEF StoreTypes, RaisesCounted
  <1>3. ASSUME NEW k \in Keys, NEW a \in Answers, Change(k, a)
        PROVE  StoreTypes' /\ RaisesCounted'
    <2>1. /\ changes' = changes + 1 /\ changes' \in 0..MaxChanges
          /\ generation' = generation /\ raised' = raised /\ revoked' = revoked \ {k}
          /\ store' = [store EXCEPT ![k] = a] /\ changed' \in {changed, changed \cup {k}}
      BY <1>2, <1>3 DEF Change
    <2>2. Cardinality(changed \cup {k}) \in {Cardinality(changed), Cardinality(changed) + 1}
      BY <1>2, FS_AddElement
    <2>3. Cardinality(changed') <= Cardinality(changed) + 1 /\ Cardinality(changed') \in Nat
      <3>1. CASE changed' = changed
        BY <1>2, <3>1
      <3>2. CASE changed' = changed \cup {k}
        BY <1>2, <2>2, <3>2
      <3> QED BY <2>1, <3>1, <3>2
    <2>4. generation' + Cardinality(changed') <= changes'
      BY <1>2, <2>1, <2>3
    <2>5. store' \in [Keys -> Answers]
      BY <1>0, <2>1 DEF StoreTypes
    <2>6. changed' \in SUBSET Keys
      BY <1>2, <2>1
    <2> QED BY <1>0, <2>1, <2>4, <2>5, <2>6 DEF StoreTypes, RaisesCounted
  <1>4. ASSUME NEW k \in Keys, RaiseGeneration(k) PROVE StoreTypes' /\ RaisesCounted'
    <2>1. /\ k \in changed /\ generation' = generation + 1 /\ changed' = changed \ {k}
          /\ raised' = raised \cup {k} /\ UNCHANGED <<store, changes, revoked>>
      BY <1>4 DEF RaiseGeneration
    <2>2. Cardinality(changed') = Cardinality(changed) - 1 /\ Cardinality(changed') \in Nat
      BY <1>2, <2>1, FS_RemoveElement, FS_CardinalityType
    <2>3. generation' + Cardinality(changed') <= changes' /\ generation' \in 0..MaxChanges
      BY <1>2, <2>1, <2>2
    <2> QED BY <1>0, <2>1, <2>3 DEF StoreTypes, RaisesCounted
  <1>5. ASSUME NEW k \in Keys, Invalidate(k) PROVE StoreTypes' /\ RaisesCounted'
    BY <1>0, <1>5 DEF Invalidate, StoreTypes, RaisesCounted
  <1> QED BY <1>1, <1>3, <1>4, <1>5
          DEF Next, vars, Hit, Miss, Lookup, Coalesce, Enter, RejectCapacity, Load, Loaded,
              Finish, CancelLookup, Expire

-----------------------------------------------------------------------------
(* Lookups and cells *)

\* There is a free cell for a lookup that may begin a load: the other lookups and the
\* loads under way hold fewer than there are.
LEMMA FreshCell ==
  ASSUME ProjectCacheInv, NEW c \in Callers, pc[c] = "joining",
         Cardinality(Loads) < MaxInflight
  PROVE  LET used == {cell[d] : d \in Callers} \cup {inflight[k] : k \in Keys}
             new == CHOOSE o \in Cells \ used : \A p \in Cells \ used : o <= p
         IN  new \in Cells \ used
  <1> DEFINE used == {cell[d] : d \in Callers} \cup {inflight[k] : k \in Keys}
             others == Callers \ {c}
             held == {cell[d] : d \in others}
             mapped == {inflight[k] : k \in Loads}
  <1>0. LookupTypes /\ cell[c] = None
    BY TypesApart DEF ProjectCacheInv, LookupsConsistent
  <1>1. IsFiniteSet(held) /\ Cardinality(held) <= Cardinality(others)
    <2> DEFINE f == [d \in others |-> cell[d]]
    <2>1. f \in Surjection(others, held)
      BY DEF Surjection
    <2>2. IsFiniteSet(others)
      BY FS_RemoveElement
    <2> HIDE DEF f, held, others
    <2> QED BY <2>1, <2>2, FS_Surjection
  <1>2. IsFiniteSet(mapped) /\ Cardinality(mapped) <= Cardinality(Loads)
    <2> DEFINE f == [k \in Loads |-> inflight[k]]
    <2>1. f \in Surjection(Loads, mapped)
      BY DEF Surjection
    <2>2. IsFiniteSet(Loads)
      <3>1. Loads \in SUBSET Keys
        BY DEF Loads
      <3> QED BY <3>1, FS_Subset
    <2> HIDE DEF f, mapped
    <2> QED BY <2>1, <2>2, FS_Surjection
  <1>3. Cells \cap used \subseteq held \cup mapped
    BY <1>0 DEF Loads
  <1>4. /\ Cardinality(others) = Cardinality(Callers) - 1 /\ Cardinality(Callers) \in Nat
        /\ Cardinality(others) \in Nat
    BY FS_RemoveElement, FS_CardinalityType
  <1>5. Cardinality(Loads) \in Nat
    <2>1. Loads \in SUBSET Keys
      BY DEF Loads
    <2> QED BY <2>1, FS_Subset, FS_CardinalityType
  <1>6. IsFiniteSet(Cells) /\ Cardinality(Cells) = Cardinality(Callers) + MaxInflight
    <2> DEFINE n == Cardinality(Callers) + MaxInflight
    <2>1. n \in Nat \ {0}
      BY <1>4
    <2>2. Cells = 1..n
      OBVIOUS
    <2> HIDE DEF n
    <2>3. IsFiniteSet(1..n) /\ Cardinality(1..n) = n
      BY <2>1, FS_Interval
    <2> QED BY <2>2, <2>3 DEF n
  <1> HIDE DEF used, held, mapped, others
  <1>7. /\ IsFiniteSet(held \cup mapped)
        /\ Cardinality(held \cup mapped) <= Cardinality(held) + Cardinality(mapped)
        /\ Cardinality(held \cup mapped) \in Nat
    <2>1. IsFiniteSet(held \cap mapped)
      BY <1>1, FS_Subset
    <2>2. /\ Cardinality(held \cap mapped) \in Nat /\ Cardinality(held) \in Nat
          /\ Cardinality(mapped) \in Nat
      BY <1>1, <1>2, <2>1, FS_CardinalityType
    <2>3. /\ IsFiniteSet(held \cup mapped)
          /\ Cardinality(held \cup mapped)
               = Cardinality(held) + Cardinality(mapped) - Cardinality(held \cap mapped)
      BY <1>1, <1>2, FS_Union
    <2> QED BY <2>2, <2>3, FS_CardinalityType
  <1>8. Cells \ used # {}
    <2> SUFFICES ASSUME Cells \subseteq used PROVE FALSE
      OBVIOUS
    <2>1. Cells \in SUBSET (held \cup mapped)
      BY <1>3
    <2>2. Cardinality(Cells) <= Cardinality(held \cup mapped)
      BY <1>7, <2>1, FS_Subset
    <2>3. Cardinality(held) \in Nat /\ Cardinality(mapped) \in Nat
      BY <1>1, <1>2, FS_CardinalityType
    <2> QED BY <1>1, <1>2, <1>4, <1>5, <1>6, <1>7, <2>2, <2>3
  <1>9. Cells \ used \in SUBSET Nat
    <2>1. Cells \in SUBSET Nat
      <3>1. \A i \in 1..(Cardinality(Callers) + MaxInflight) : i \in Nat
        BY <1>4
      <3> QED BY <3>1
    <2> QED BY <2>1
  <1>10. \E o \in Cells \ used : \A p \in Cells \ used : o <= p
    BY <1>8, <1>9, LeastNat
  <1>11. (CHOOSE o \in Cells \ used : \A p \in Cells \ used : o <= p) \in Cells \ used
    BY <1>10
  <1> QED BY <1>11 DEF used

LookupInv ==
    /\ LookupTypes
    /\ LookupsConsistent /\ CellsConsistent
    /\ Cardinality(Loads) <= MaxInflight

\* A lookup that ends holds nothing.
LEMMA LeaveFacts ==
  ASSUME LookupTypes, NEW c \in Callers, Leave(c)
  PROVE  /\ pc' \in [Callers -> Steps] /\ key' \in [Callers -> Keys \cup {None}]
         /\ seen' \in [Callers -> 0..MaxChanges] /\ cell' \in [Callers -> Cells \cup {None}]
         /\ loaded' \in [Callers -> Results \cup {"none"}]
         /\ pc'[c] = "idle" /\ seen'[c] = 0 /\ cell'[c] = None /\ loaded'[c] = "none"
         /\ \A d \in Callers : d # c =>
                /\ pc'[d] = pc[d] /\ key'[d] = key[d] /\ seen'[d] = seen[d]
                /\ cell'[d] = cell[d] /\ loaded'[d] = loaded[d]
  <1>1. 0 \in 0..MaxChanges
    OBVIOUS
  <1> QED BY <1>1 DEF Leave, LookupTypes, Steps

\* The end of a lookup that leaves the cells it does not hold as they are.
LEMMA LeaveStep ==
  ASSUME ProjectCacheInv, NEW c \in Callers, Leave(c), generation' = generation,
         \/ inflight' = inflight
         \/ /\ pc[c] = "waiting" /\ value[cell[c]] # "none"
            /\ inflight' = [inflight EXCEPT ![key[c]] = IF @ = cell[c] THEN None ELSE @],
         value' = value \/ FreeCells
  PROVE  LookupInv'
  <1>0. /\ LookupTypes /\ LookupsConsistent /\ CellsConsistent
        /\ Cardinality(Loads) <= MaxInflight /\ generation \in 0..MaxChanges
        /\ None \notin Cells
    BY TypesApart DEF ProjectCacheInv, CacheBounded, StoreTypes
  <1>1. /\ inflight' \in [Keys -> Cells \cup {None}]
        /\ \A k \in Keys : inflight'[k] = inflight[k] \/ inflight'[k] = None
    <2>1. inflight \in [Keys -> Cells \cup {None}]
      BY <1>0 DEF LookupTypes
    <2>2. CASE inflight' = inflight
      BY <2>1, <2>2
    <2>3. CASE inflight' = [inflight EXCEPT ![key[c]] = IF @ = cell[c] THEN None ELSE @]
      BY <2>1, <2>3
    <2> QED BY <2>2, <2>3
  <1>2. /\ value' \in [Cells -> Results \cup {"none"}]
        /\ \A d \in Callers : d # c /\ cell[d] # None => value'[cell[d]] = value[cell[d]]
    <2>1. \A d \in Callers : d # c => cell'[d] = cell[d]
      BY <1>0, LeaveFacts
    <2>2. \A d \in Callers : cell[d] # None => cell[d] \in Cells
      BY <1>0 DEF LookupTypes
    <2>3. CASE FreeCells
      <3>1. value' \in [Cells -> Results \cup {"none"}]
        BY <1>0, <2>3 DEF FreeCells, LookupTypes
      <3>2. ASSUME NEW d \in Callers, d # c, cell[d] # None PROVE value'[cell[d]] = value[cell[d]]
        BY <2>1, <2>2, <2>3, <3>2 DEF FreeCells
      <3> QED BY <3>1, <3>2
    <2>4. CASE value' = value
      BY <1>0, <2>4 DEF LookupTypes
    <2> QED BY <2>3, <2>4
  <1>3. /\ pc'[c] = "idle" /\ seen'[c] = 0 /\ cell'[c] = None /\ loaded'[c] = "none"
        /\ \A d \in Callers : d # c =>
                /\ pc'[d] = pc[d] /\ key'[d] = key[d] /\ seen'[d] = seen[d]
                /\ cell'[d] = cell[d] /\ loaded'[d] = loaded[d]
    BY <1>0, LeaveFacts
  <1>4. LookupTypes'
    BY <1>0, <1>1, <1>2, LeaveFacts DEF LookupTypes
  <1>5. LookupsConsistent'
    BY <1>0, <1>2, <1>3 DEF LookupsConsistent
  <1>6. \A d \in Callers : d # c /\ cell[d] # None =>
            value[cell[d]] # "none" \/ inflight'[key[d]] = cell[d]
    <2>1. SUFFICES ASSUME NEW d \in Callers, d # c, cell[d] # None, value[cell[d]] = "none"
          PROVE  inflight'[key[d]] = cell[d]
      OBVIOUS
    <2>2. inflight[key[d]] = cell[d] /\ key[d] \in Keys
      <3>1. pc[d] # "idle"
        BY <1>0, <2>1 DEF LookupsConsistent
      <3> QED BY <1>0, <2>1, <3>1 DEF CellsConsistent, LookupsConsistent
    <2>3. CASE inflight' = inflight
      BY <2>2, <2>3
    <2>4. CASE /\ pc[c] = "waiting" /\ value[cell[c]] # "none"
               /\ inflight' = [inflight EXCEPT ![key[c]] = IF @ = cell[c] THEN None ELSE @]
      BY <1>0, <2>1, <2>2, <2>4 DEF LookupTypes
    <2> QED BY <2>3, <2>4
  <1>7. CellsConsistent'
    <2>1. \A d, e \in Callers : cell'[d] = cell'[e] /\ cell'[d] # None => key'[d] = key'[e]
      BY <1>0, <1>3 DEF CellsConsistent
    <2>2. \A d \in Callers, k \in Keys :
              inflight'[k] = cell'[d] /\ cell'[d] # None => key'[d] = k
      BY <1>0, <1>1, <1>3 DEF CellsConsistent
    <2>3. \A j, k \in Keys : inflight'[j] = inflight'[k] /\ inflight'[j] # None => j = k
      BY <1>0, <1>1 DEF CellsConsistent
    <2>4. \A d \in Callers :
              cell'[d] # None => value'[cell'[d]] # "none" \/ inflight'[key'[d]] = cell'[d]
      BY <1>2, <1>3, <1>6
    <2>5. \A d, e \in Callers :
              pc'[d] = "loading" /\ pc'[e] = "loading" /\ cell'[d] = cell'[e] => d = e
      BY <1>0, <1>3 DEF CellsConsistent
    <2> QED BY <2>1, <2>2, <2>3, <2>4, <2>5 DEF CellsConsistent
  <1>8. Cardinality(Loads') <= MaxInflight
    <2>1. Loads' \in SUBSET Loads /\ Loads \in SUBSET Keys
      BY <1>1 DEF Loads
    <2>2. IsFiniteSet(Loads)
      BY <2>1, FS_Subset
    <2>3. /\ Cardinality(Loads') <= Cardinality(Loads) /\ Cardinality(Loads) \in Nat
          /\ Cardinality(Loads') \in Nat
      BY <2>1, <2>2, FS_Subset, FS_CardinalityType
    <2> QED BY <1>0, <2>3
  <1> QED BY <1>4, <1>5, <1>7, <1>8 DEF LookupInv

\* Steps that move no lookup.
LEMMA LookupsUnmoved ==
  ASSUME ProjectCacheInv, UNCHANGED <<cellVars, callerVars>>, generation' \in Nat,
         generation <= generation'
  PROVE  LookupInv'
  <1>0. /\ LookupTypes /\ LookupsConsistent /\ CellsConsistent
        /\ Cardinality(Loads) <= MaxInflight /\ generation \in Nat
    BY TypesApart DEF ProjectCacheInv, CacheBounded, StoreTypes
  <1>1. LookupTypes'
    BY <1>0 DEF LookupTypes
  <1>2. LookupsConsistent'
    <2>1. \A c \in Callers : seen[c] \in Nat
      BY <1>0 DEF LookupTypes
    <2>2. \A c \in Callers : seen'[c] <= generation'
      BY <1>0, <2>1 DEF LookupsConsistent
    <2> QED BY <1>0, <2>2 DEF LookupsConsistent
  <1>3. CellsConsistent'
    BY <1>0 DEF CellsConsistent
  <1>4. Loads' = Loads
    BY DEF Loads
  <1> QED BY <1>0, <1>1, <1>2, <1>3, <1>4 DEF LookupInv

\* Steps of a lookup that leave the map and the other lookups alone.
LEMMA LookupMoved ==
  ASSUME ProjectCacheInv, NEW c \in Callers, LookupTypes', LookupsConsistent',
         UNCHANGED inflight,
         \A d \in Callers : d # c =>
             pc'[d] = pc[d] /\ key'[d] = key[d] /\ cell'[d] = cell[d],
         key'[c] = key[c] \/ cell'[c] = None,
         cell'[c] = cell[c] \/ (cell'[c] = inflight[key[c]] /\ key[c] \in Keys),
         \A o \in Cells : value[o] # "none" => value'[o] # "none",
         pc'[c] = "loading" => ~Loading(cell[c]) /\ cell'[c] = cell[c]
  PROVE  LookupInv'
  <1>0. /\ LookupTypes /\ LookupsConsistent /\ CellsConsistent
        /\ Cardinality(Loads) <= MaxInflight /\ None \notin Cells
    BY TypesApart DEF ProjectCacheInv, CacheBounded
  <1>1. Loads' = Loads
    BY DEF Loads
  <1>2. \A d \in Callers : cell[d] # None => cell[d] \in Cells
    BY <1>0 DEF LookupTypes
  <1>3. \A d \in Callers, k \in Keys :
            inflight'[k] = cell'[d] /\ cell'[d] # None => key'[d] = k
    BY <1>0 DEF CellsConsistent
  <1>4. \A d \in Callers :
            cell'[d] # None => value'[cell'[d]] # "none" \/ inflight'[key'[d]] = cell'[d]
    BY <1>0, <1>2 DEF CellsConsistent
  <1>5. \A d, e \in Callers : cell'[d] = cell'[e] /\ cell'[d] # None => key'[d] = key'[e]
    <2>1. ASSUME NEW d \in Callers, d # c, cell'[d] = cell'[c], cell'[c] # None
          PROVE  key'[d] = key'[c]
      BY <1>0, <2>1 DEF CellsConsistent
    <2>2. ASSUME NEW d \in Callers, NEW e \in Callers, d # c, e # c, cell'[d] = cell'[e],
                 cell'[d] # None
          PROVE  key'[d] = key'[e]
      BY <1>0, <2>2 DEF CellsConsistent
    <2> QED BY <2>1, <2>2
  <1>6. \A d, e \in Callers :
            pc'[d] = "loading" /\ pc'[e] = "loading" /\ cell'[d] = cell'[e] => d = e
    <2>1. ASSUME NEW d \in Callers, d # c, pc'[d] = "loading", pc'[c] = "loading",
                 cell'[d] = cell'[c]
          PROVE  FALSE
      BY <2>1 DEF Loading
    <2>2. ASSUME NEW d \in Callers, NEW e \in Callers, d # c, e # c, pc'[d] = "loading",
                 pc'[e] = "loading", cell'[d] = cell'[e]
          PROVE  d = e
      BY <1>0, <2>2 DEF CellsConsistent
    <2> QED BY <2>1, <2>2
  <1>7. \A j, k \in Keys : inflight'[j] = inflight'[k] /\ inflight'[j] # None => j = k
    BY <1>0 DEF CellsConsistent
  <1>8. CellsConsistent'
    BY <1>3, <1>4, <1>5, <1>6, <1>7 DEF CellsConsistent
  <1> QED BY <1>0, <1>1, <1>8 DEF LookupInv

\* A lookup begins: get finds no entry.
LEMMA MissStep ==
  ASSUME ProjectCacheInv, NEW c \in Callers, NEW k \in Keys, Miss(c, k)
  PROVE  LookupInv'
  <1>0. /\ LookupTypes /\ LookupsConsistent /\ generation \in 0..MaxChanges
        /\ \A d \in Callers : seen[d] \in Nat
    BY TypesApart DEF ProjectCacheInv, StoreTypes, LookupTypes
  <1>1. /\ pc[c] = "idle" /\ pc' = [pc EXCEPT ![c] = "joining"]
        /\ key' = [key EXCEPT ![c] = k] /\ seen' = [seen EXCEPT ![c] = generation]
        /\ UNCHANGED <<storeVars, cellVars, cell, loaded>>
    BY DEF Miss
  <1>2. cell[c] = None /\ loaded[c] = "none"
    BY <1>0, <1>1 DEF LookupsConsistent
  <1>3. LookupTypes'
    BY <1>0, <1>1 DEF LookupTypes, Steps
  <1>4. /\ pc'[c] = "joining" /\ key'[c] = k /\ seen'[c] = generation
        /\ \A d \in Callers : d # c =>
              pc'[d] = pc[d] /\ key'[d] = key[d] /\ seen'[d] = seen[d]
    BY <1>0, <1>1 DEF LookupTypes
  <1>5. LookupsConsistent'
    BY <1>0, <1>1, <1>2, <1>4 DEF LookupsConsistent
  <1> QED BY <1>1, <1>2, <1>3, <1>4, <1>5, LookupMoved

\* It joins the load under way for its key.
LEMMA CoalesceStep ==
  ASSUME ProjectCacheInv, NEW c \in Callers, Coalesce(c) PROVE LookupInv'
  <1>0. LookupTypes /\ LookupsConsistent
    BY TypesApart DEF ProjectCacheInv
  <1>1. /\ pc[c] = "joining" /\ key[c] \in Loads
        /\ cell' = [cell EXCEPT ![c] = inflight[key[c]]]
        /\ pc' = [pc EXCEPT ![c] = "waiting"]
        /\ UNCHANGED <<storeVars, cacheVars, cellVars, key, seen, loaded>>
    BY DEF Coalesce
  <1>2. /\ loaded[c] = "none" /\ key[c] \in Keys /\ inflight[key[c]] \in Cells
    BY <1>0, <1>1 DEF LookupsConsistent, LookupTypes, Loads
  <1>3. LookupTypes'
    BY <1>0, <1>1, <1>2 DEF LookupTypes, Steps
  <1>4. /\ pc'[c] = "waiting" /\ cell'[c] = inflight[key[c]]
        /\ \A d \in Callers : d # c => pc'[d] = pc[d] /\ cell'[d] = cell[d]
    BY <1>0, <1>1 DEF LookupTypes
  <1>5. LookupsConsistent'
    BY <1>0, <1>1, <1>2, <1>4 DEF LookupsConsistent
  <1> QED BY <1>1, <1>2, <1>3, <1>4, <1>5, LookupMoved

\* It begins a load, with a cell of its own.
LEMMA EnterStep ==
  ASSUME ProjectCacheInv, NEW c \in Callers, Enter(c) PROVE LookupInv'
  <1> DEFINE used == {cell[d] : d \in Callers} \cup {inflight[k] : k \in Keys}
             new == CHOOSE o \in Cells \ used : \A p \in Cells \ used : o <= p
  <1>0. /\ LookupTypes /\ LookupsConsistent /\ CellsConsistent /\ None \notin Cells
    BY TypesApart DEF ProjectCacheInv
  <1>1. /\ pc[c] = "joining" /\ key[c] \notin Loads /\ Cardinality(Loads) < MaxInflight
        /\ inflight' = [inflight EXCEPT ![key[c]] = new]
        /\ cell' = [cell EXCEPT ![c] = new] /\ pc' = [pc EXCEPT ![c] = "waiting"]
        /\ UNCHANGED <<storeVars, cacheVars, value, key, seen, loaded>>
    BY DEF Enter
  <1>2. new \in Cells \ used
    BY <1>1, FreshCell
  <1>3. /\ new \in Cells /\ new # None /\ \A d \in Callers : cell[d] # new
        /\ \A k \in Keys : inflight[k] # new
    BY <1>0, <1>2
  <1> HIDE DEF used, new
  <1>4. key[c] \in Keys /\ loaded[c] = "none" /\ inflight[key[c]] = None
    BY <1>0, <1>1 DEF LookupsConsistent, Loads
  <1>5. LookupTypes'
    BY <1>0, <1>1, <1>3, <1>4 DEF LookupTypes, Steps
  <1>6. /\ pc'[c] = "waiting" /\ cell'[c] = new /\ inflight'[key[c]] = new
        /\ \A d \in Callers : d # c => pc'[d] = pc[d] /\ cell'[d] = cell[d]
        /\ \A k \in Keys : k # key[c] => inflight'[k] = inflight[k]
    BY <1>0, <1>1, <1>4 DEF LookupTypes
  <1>7. LookupsConsistent'
    BY <1>0, <1>1, <1>3, <1>4, <1>6 DEF LookupsConsistent
  <1>8. CellsConsistent'
    <2>1. \A d, e \in Callers : cell'[d] = cell'[e] /\ cell'[d] # None => key'[d] = key'[e]
      BY <1>0, <1>1, <1>3, <1>6 DEF CellsConsistent
    <2>2. \A d \in Callers, k \in Keys :
              inflight'[k] = cell'[d] /\ cell'[d] # None => key'[d] = k
      BY <1>0, <1>1, <1>3, <1>6 DEF CellsConsistent
    <2>3. \A j, k \in Keys : inflight'[j] = inflight'[k] /\ inflight'[j] # None => j = k
      BY <1>0, <1>3, <1>6 DEF CellsConsistent
    <2>4. \A d \in Callers :
              cell'[d] # None => value'[cell'[d]] # "none" \/ inflight'[key'[d]] = cell'[d]
      <3>1. ASSUME NEW d \in Callers, d # c, cell[d] # None, value[cell[d]] = "none"
            PROVE  inflight'[key[d]] = cell[d]
        <4>1. inflight[key[d]] = cell[d] /\ pc[d] # "idle"
          BY <1>0, <3>1 DEF CellsConsistent, LookupsConsistent
        <4>2. key[d] \in Keys /\ key[d] # key[c]
          BY <1>0, <1>4, <3>1, <4>1 DEF LookupsConsistent
        <4> QED BY <1>6, <4>1, <4>2
      <3> QED BY <1>1, <1>6, <3>1
    <2>5. \A d, e \in Callers :
              pc'[d] = "loading" /\ pc'[e] = "loading" /\ cell'[d] = cell'[e] => d = e
      BY <1>0, <1>6 DEF CellsConsistent
    <2> QED BY <2>1, <2>2, <2>3, <2>4, <2>5 DEF CellsConsistent
  <1>9. Cardinality(Loads') <= MaxInflight
    <2>1. Loads' = Loads \cup {key[c]} /\ Loads \in SUBSET Keys
      BY <1>3, <1>4, <1>6 DEF Loads
    <2>2. IsFiniteSet(Loads) /\ Cardinality(Loads) \in Nat
      BY <2>1, FS_Subset, FS_CardinalityType
    <2>3. Cardinality(Loads') = Cardinality(Loads) + 1
      BY <1>1, <2>1, <2>2, FS_AddElement
    <2> QED BY <1>1, <2>2, <2>3
  <1> QED BY <1>5, <1>7, <1>8, <1>9 DEF LookupInv

\* It reads the store, as the only one that loads its cell.
LEMMA LoadStep ==
  ASSUME ProjectCacheInv, NEW c \in Callers, Load(c) PROVE LookupInv'
  <1>0. LookupTypes /\ LookupsConsistent /\ StoreTypes
    BY TypesApart DEF ProjectCacheInv
  <1>1. /\ pc[c] = "waiting" /\ value[cell[c]] = "none" /\ ~Loading(cell[c])
        /\ pc' = [pc EXCEPT ![c] = "loading"]
        /\ UNCHANGED <<storeVars, cacheVars, cellVars, key, seen, cell>>
    BY DEF Load
  <1>2. PICK r \in {store[key[c]], "unavailable"} : loaded' = [loaded EXCEPT ![c] = r]
    BY DEF Load
  <1>3. key[c] \in Keys /\ r \in Results /\ r # "none"
    <2>1. key[c] \in Keys
      BY <1>0, <1>1 DEF LookupsConsistent
    <2> QED BY <1>0, <1>2, <2>1 DEF StoreTypes, Results, Answers
  <1>4. LookupTypes'
    BY <1>0, <1>1, <1>2, <1>3 DEF LookupTypes, Steps
  <1>5. /\ pc'[c] = "loading" /\ loaded'[c] = r
        /\ \A d \in Callers : d # c => pc'[d] = pc[d] /\ loaded'[d] = loaded[d]
    BY <1>0, <1>1, <1>2 DEF LookupTypes
  <1>6. LookupsConsistent'
    BY <1>0, <1>1, <1>3, <1>5 DEF LookupsConsistent
  <1> QED BY <1>1, <1>4, <1>5, <1>6, LookupMoved

\* Its answer sets the cell, which nobody else loads.
LEMMA LoadedStep ==
  ASSUME ProjectCacheInv, NEW c \in Callers, Loaded(c), loaded[c] # "none"
  PROVE  LookupInv'
  <1>0. LookupTypes /\ LookupsConsistent /\ CellsConsistent
    BY TypesApart DEF ProjectCacheInv
  <1>1. /\ pc[c] = "loading" /\ value' = [value EXCEPT ![cell[c]] = loaded[c]]
        /\ pc' = [pc EXCEPT ![c] = "waiting"]
        /\ UNCHANGED <<storeVars, cacheVars, inflight, key, seen, cell, loaded>>
    BY DEF Loaded
  <1>2. cell[c] \in Cells /\ loaded[c] \in Results \cup {"none"} /\ value[cell[c]] = "none"
    BY <1>0, <1>1 DEF LookupsConsistent, LookupTypes
  <1>3. LookupTypes'
    BY <1>0, <1>1, <1>2 DEF LookupTypes, Steps
  <1>4. /\ pc'[c] = "waiting" /\ value'[cell[c]] = loaded[c]
        /\ \A d \in Callers : d # c => pc'[d] = pc[d]
        /\ \A o \in Cells : o # cell[c] => value'[o] = value[o]
    BY <1>0, <1>1, <1>2 DEF LookupTypes
  <1>5. ASSUME NEW d \in Callers, d # c
        PROVE  /\ pc[d] = "loading" => cell[d] # cell[c]
               /\ pc[d] = "waiting" /\ loaded[d] # "none" => cell[d] # cell[c]
    <2>1. "none" \notin Results
      BY DEF Results, Answers
    <2> QED BY <1>0, <1>1, <1>2, <1>5 DEF CellsConsistent, LookupsConsistent
  <1>6. LookupsConsistent'
    BY <1>0, <1>1, <1>2, <1>4, <1>5 DEF LookupsConsistent
  <1>7. \A o \in Cells : value[o] # "none" => value'[o] # "none"
    BY <1>2, <1>4
  <1>8. key'[c] = key[c] /\ cell'[c] = cell[c] /\ pc'[c] # "loading"
    BY <1>1, <1>4
  <1> QED BY <1>1, <1>3, <1>4, <1>6, <1>7, <1>8, LookupMoved

\* Lookups, cells and the map agree after every step.
LEMMA LookupStep ==
  ASSUME ProjectCacheInv, [Next]_vars PROVE LookupInv'
  <1>0. generation \in Nat /\ StoreTypes
    BY TypesApart DEF ProjectCacheInv, StoreTypes
  <1>1. CASE UNCHANGED <<cellVars, callerVars, generation>>
    BY <1>0, <1>1, LookupsUnmoved
  <1>2. ASSUME NEW k \in Keys, RaiseGeneration(k) PROVE LookupInv'
    BY <1>0, <1>2, LookupsUnmoved DEF RaiseGeneration
  <1>3. ASSUME NEW c \in Callers, RejectCapacity(c) PROVE LookupInv'
    BY <1>3, LeaveStep DEF RejectCapacity
  <1>4. ASSUME NEW c \in Callers, Finish(c) PROVE LookupInv'
    BY <1>4, LeaveStep DEF Finish
  <1>5. ASSUME NEW c \in Callers, CancelLookup(c) PROVE LookupInv'
    BY <1>5, LeaveStep DEF CancelLookup
  <1>6. ASSUME NEW c \in Callers, Loaded(c) PROVE LookupInv'
    BY <1>6, LoadedStep DEF Loaded, ProjectCacheInv, LookupsConsistent
  <1>7. CASE \E k \in Keys : Expire(k) \/ (\E a \in Answers : Change(k, a)) \/ Invalidate(k)
    BY <1>1, <1>7 DEF Expire, Change, Invalidate
  <1>8. CASE \E c \in Callers, k \in Keys : Hit(c, k)
    BY <1>1, <1>8 DEF Hit
  <1>9. CASE UNCHANGED vars
    BY <1>1, <1>9 DEF vars
  <1> QED BY <1>2, <1>3, <1>4, <1>5, <1>6, <1>7, <1>8, <1>9, MissStep, CoalesceStep,
             EnterStep, LoadStep DEF Next, Lookup

-----------------------------------------------------------------------------
(* Access that was taken away *)

\* What a step does to the loads of lookups: none is new, or it read the store.
LEMMA FreshStep ==
  ASSUME ProjectCacheInv, [Next]_vars PROVE OwnLoadsFresh'
  <1>0. /\ OwnLoadsFresh /\ StoreTypes /\ CacheTypes /\ LookupTypes /\ LookupsConsistent
        /\ CacheSize /\ generation \in Nat /\ \A c \in Callers : seen[c] \in Nat
    BY TypesApart DEF ProjectCacheInv, StoreTypes, LookupTypes, CacheBounded, CacheSize
  <1> DEFINE Denied == \A k \in revoked : store[k] = "denied"
             Fresh == \A c \in Callers :
                        loaded[c] = "active" /\ seen[c] = generation
                        /\ key[c] \in raised \cup revoked => store[key[c]] = "active"
             Kept == \A k \in revoked : entries[k] = "active" => k \in shared
  <1>1. /\ OwnLoadsFresh <=> Denied /\ Fresh /\ Kept
        /\ OwnLoadsFresh' <=> Denied' /\ Fresh' /\ Kept'
    BY DEF OwnLoadsFresh
  <1>2. Denied /\ Fresh /\ Kept
    BY <1>0, <1>1
  \* Steps other than the commands', that load nothing.
  <1>3. ASSUME UNCHANGED storeVars,
               \A c \in Callers : \/ loaded'[c] # "active"
                                  \/ /\ loaded'[c] = loaded[c] /\ seen'[c] = seen[c]
                                     /\ key'[c] = key[c]
        PROVE  Denied' /\ Fresh'
    BY <1>2, <1>3
  <1>4. ASSUME UNCHANGED <<revoked, entries, shared>> PROVE Kept'
    BY <1>2, <1>4
  <1>5. ASSUME NEW k \in Keys, RemoveEntry(k), revoked' \subseteq revoked \cup {k} PROVE Kept'
    BY <1>0, <1>2, <1>5 DEF RemoveEntry, CacheTypes
  <1>6. ASSUME NEW c \in Callers, Leave(c), UNCHANGED storeVars PROVE Denied' /\ Fresh'
    <2>1. /\ loaded'[c] = "none"
          /\ \A d \in Callers : d # c =>
                loaded'[d] = loaded[d] /\ seen'[d] = seen[d] /\ key'[d] = key[d]
      BY <1>0, <1>6, LeaveFacts
    <2> QED BY <1>3, <1>6, <2>1
  <1> HIDE DEF Denied, Fresh, Kept
  <1>7. ASSUME NEW c \in Callers, NEW k \in Keys, Hit(c, k) PROVE OwnLoadsFresh'
    <2>1. Record(k, entries, expired, shared) /\ UNCHANGED <<storeVars, callerVars>>
      BY <1>7 DEF Hit
    <2>2. PICK evicted :
            /\ shared' = shared \ evicted
            /\ entries' = [j \in Keys |-> IF j \in evicted THEN "none" ELSE entries[j]]
      BY <2>1, RecordEvicts
    <2>3. Kept'
      BY <1>0, <1>2, <2>1, <2>2 DEF Kept, StoreTypes
    <2> QED BY <1>1, <1>3, <2>1, <2>3
  <1>8. ASSUME NEW c \in Callers, NEW k \in Keys, Miss(c, k) PROVE OwnLoadsFresh'
    <2>1. pc[c] = "idle" /\ RemoveEntry(k) /\ UNCHANGED <<storeVars, loaded>>
      BY <1>8 DEF Miss
    <2>2. /\ loaded'[c] = "none"
          /\ \A d \in Callers : d # c => seen'[d] = seen[d] /\ key'[d] = key[d]
      BY <1>0, <1>8, <2>1 DEF Miss, LookupsConsistent, LookupTypes
    <2> QED BY <1>1, <1>3, <1>5, <2>1, <2>2
  <1>9. ASSUME NEW c \in Callers, Coalesce(c) \/ Enter(c) \/ Loaded(c) PROVE OwnLoadsFresh'
    <2>1. UNCHANGED <<storeVars, entries, shared, key, seen, loaded>>
      BY <1>9 DEF Coalesce, Enter, Loaded
    <2> QED BY <1>1, <1>3, <1>4, <2>1
  <1>10. ASSUME NEW c \in Callers, RejectCapacity(c) \/ CancelLookup(c) PROVE OwnLoadsFresh'
    <2>1. Leave(c) /\ UNCHANGED <<storeVars, entries, shared>>
      BY <1>10 DEF RejectCapacity, CancelLookup
    <2> QED BY <1>1, <1>4, <1>6, <2>1
  <1>11. ASSUME NEW c \in Callers, Load(c) PROVE OwnLoadsFresh'
    <2>1. UNCHANGED <<storeVars, entries, shared, key, seen>>
      BY <1>11 DEF Load
    <2>2. PICK r \in {store[key[c]], "unavailable"} : loaded' = [loaded EXCEPT ![c] = r]
      BY <1>11 DEF Load
    <2>3. /\ loaded'[c] = "active" => store[key[c]] = "active"
          /\ \A d \in Callers : d # c => loaded'[d] = loaded[d]
      BY <1>0, <2>2 DEF LookupTypes
    <2>4. Denied' /\ Fresh'
      BY <1>2, <2>1, <2>3 DEF Denied, Fresh
    <2> QED BY <1>1, <1>4, <2>1, <2>4
  <1>12. ASSUME NEW c \in Callers, Finish(c) PROVE OwnLoadsFresh'
    <2>1. pc[c] = "waiting" /\ CacheResult(c) /\ Leave(c) /\ UNCHANGED storeVars
      BY <1>12 DEF Finish
    <2>2. CASE ~Cacheable(c)
      <3>1. UNCHANGED cacheVars
        BY <2>1, <2>2 DEF CacheResult
      <3> QED BY <1>1, <1>4, <1>6, <2>1, <3>1
    <2>3. CASE Cacheable(c)
      <3> DEFINE k == key[c]
                 e == [entries EXCEPT ![k] = value[cell[c]]]
                 old == expired \ {k}
                 others == IF loaded[c] = "none" THEN shared \cup {k} ELSE shared \ {k}
      <3>1. k \in Keys /\ Record(k, e, old, others)
        BY <1>0, <2>1, <2>3 DEF CacheResult, LookupsConsistent
      <3>2. ASSUME k \in revoked, e[k] = "active" PROVE k \in others
        <4>1. SUFFICES ASSUME loaded[c] # "none" PROVE FALSE
          OBVIOUS
        <4>2. e[k] = value[cell[c]] /\ value[cell[c]] = loaded[c]
          BY <1>0, <2>1, <3>1, <4>1 DEF CacheTypes, LookupsConsistent
        <4>3. loaded[c] = "active" /\ seen[c] = generation
          BY <2>3, <3>2, <4>2 DEF Cacheable
        <4>4. store[k] = "active" /\ store[k] = "denied"
          BY <1>2, <3>2, <4>3 DEF Denied, Fresh
        <4> QED BY <4>4
      <3>3. \A j \in Keys : j # k => e[j] = entries[j] /\ (j \in shared => j \in others)
        BY <1>0, <3>1 DEF CacheTypes
      <3> HIDE DEF k, e, old, others
      <3>4. PICK evicted :
              /\ shared' = others \ evicted
              /\ entries' = [j \in Keys |-> IF j \in evicted THEN "none" ELSE e[j]]
        BY <3>1, RecordEvicts
      <3>5. revoked' = revoked /\ revoked \in SUBSET Keys
        BY <1>0, <2>1 DEF StoreTypes
      <3>6. Kept'
        <4>1. SUFFICES ASSUME NEW j \in revoked, entries'[j] = "active" PROVE j \in shared'
          BY <3>5 DEF Kept
        <4>2. j \in Keys /\ j \notin evicted /\ e[j] = "active"
          BY <3>4, <3>5, <4>1
        <4>3. j \in others
          BY <1>2, <3>2, <3>3, <4>1, <4>2 DEF Kept
        <4> QED BY <3>4, <4>2, <4>3
      <3> QED BY <1>1, <1>6, <2>1, <3>6
    <2> QED BY <2>2, <2>3
  <1>13. ASSUME NEW k \in Keys, Expire(k) PROVE OwnLoadsFresh'
    <2>1. UNCHANGED <<storeVars, entries, shared, callerVars>>
      BY <1>13 DEF Expire
    <2> QED BY <1>1, <1>3, <1>4, <2>1
  <1>14. ASSUME NEW k \in Keys, NEW a \in Answers, Change(k, a) PROVE OwnLoadsFresh'
    <2>1. /\ k \notin raised /\ store' = [store EXCEPT ![k] = a] /\ revoked' = revoked \ {k}
          /\ UNCHANGED <<generation, raised, entries, shared, key, seen, loaded>>
      BY <1>14 DEF Change
    <2>2. \A j \in Keys : j # k => store'[j] = store[j]
      BY <1>0, <2>1 DEF StoreTypes
    <2>3. revoked \in SUBSET Keys /\ raised \in SUBSET Keys
      BY <1>0 DEF StoreTypes
    <2>4. Denied' /\ Kept'
      BY <1>2, <2>1, <2>2, <2>3 DEF Denied, Kept
    <2>5. Fresh'
      BY <1>2, <2>1, <2>2, <2>3 DEF Fresh
    <2> QED BY <1>1, <2>4, <2>5
  <1>15. ASSUME NEW k \in Keys, RaiseGeneration(k) PROVE OwnLoadsFresh'
    <2>1. /\ generation' = generation + 1
          /\ UNCHANGED <<store, revoked, entries, shared, key, seen, loaded>>
      BY <1>15 DEF RaiseGeneration
    <2>2. \A c \in Callers : seen'[c] # generation'
      BY <1>0, <2>1 DEF LookupsConsistent
    <2>3. Fresh'
      BY <2>2 DEF Fresh
    <2>4. Denied'
      BY <1>2, <2>1 DEF Denied
    <2> QED BY <1>1, <1>4, <2>1, <2>3, <2>4
  <1>16. ASSUME NEW k \in Keys, Invalidate(k) PROVE OwnLoadsFresh'
    <2>1. /\ k \in raised /\ raised' = raised \ {k} /\ RemoveEntry(k)
          /\ revoked' = IF store[k] = "denied" THEN revoked \cup {k} ELSE revoked
          /\ UNCHANGED <<store, generation, key, seen, loaded>>
      BY <1>16 DEF Invalidate
    <2>2. Denied'
      BY <1>2, <2>1 DEF Denied
    <2>3. Fresh'
      BY <1>2, <2>1 DEF Fresh
    <2> QED BY <1>1, <1>5, <2>1, <2>2, <2>3
  <1>17. CASE UNCHANGED vars
    BY <1>1, <1>3, <1>4, <1>17 DEF vars
  <1> QED BY <1>7, <1>8, <1>9, <1>10, <1>11, <1>12, <1>13, <1>14, <1>15, <1>16, <1>17
          DEF Next, Lookup

-----------------------------------------------------------------------------
(* The theorems *)

\* Cache, loads, lookups and commands agree in every state: the inductive invariant.
THEOREM ProjectCacheInvariant == Spec => []ProjectCacheInv
  <1>1. Init => ProjectCacheInv
    <2> SUFFICES ASSUME Init PROVE ProjectCacheInv
      OBVIOUS
    <2>1. 0 \in 0..MaxChanges /\ "idle" \in Steps /\ "active" \in Answers
      BY DEF Steps, Answers
    <2>2. StoreTypes
      BY <2>1 DEF Init, StoreTypes
    <2>3. CacheTypes
      BY DEF Init, CacheTypes
    <2>4. LookupTypes
      BY <2>1 DEF Init, LookupTypes
    <2>5. LookupsConsistent
      BY DEF Init, LookupsConsistent
    <2>6. CellsConsistent
      BY DEF Init, CellsConsistent
    <2>7. OwnLoadsFresh
      BY DEF Init, OwnLoadsFresh
    <2>8. Cardinality({}) = 0
      BY FS_EmptySet
    <2>9. RaisesCounted
      BY <2>8 DEF Init, RaisesCounted
    <2>10. Cached(entries) = {} /\ Loads = {}
      BY DEF Init, Cached, Loads
    <2>11. Len(order) = 0
      BY DEF Init
    <2>12. CacheBounded
      BY <2>8, <2>10, <2>11 DEF CacheBounded
    <2> QED BY <2>2, <2>3, <2>4, <2>5, <2>6, <2>7, <2>9, <2>12, TypesApart DEF ProjectCacheInv
  <1>2. ProjectCacheInv /\ [Next]_vars => ProjectCacheInv'
    <2> SUFFICES ASSUME ProjectCacheInv, [Next]_vars PROVE ProjectCacheInv'
      OBVIOUS
    <2>1. StoreTypes' /\ RaisesCounted' /\ CacheTypes' /\ CacheSize' /\ OwnLoadsFresh'
      BY StoreStep, CacheStep, FreshStep
    <2>2. LookupInv'
      BY LookupStep
    <2>3. TypeOK'
      BY <2>1, <2>2 DEF LookupInv, TypeOK, StoreTypes, CacheTypes, LookupTypes
    <2>4. CacheBounded'
      BY <2>1, <2>2 DEF CacheBounded, CacheSize, LookupInv
    <2> QED BY <2>1, <2>2, <2>3, <2>4 DEF ProjectCacheInv, LookupInv
  <1> QED BY <1>1, <1>2, PTL DEF Spec

\* Every variable stays within its type.
THEOREM ProjectCacheTypeOK == Spec => []TypeOK
  <1>1. ProjectCacheInv => TypeOK
    BY DEF ProjectCacheInv
  <1> QED BY <1>1, ProjectCacheInvariant, PTL

\* Entries, records and loads stay within their limits and every entry has a record, so
\* that the loops of insert and trim_order end.
THEOREM ProjectCacheCacheBounded == Spec => []CacheBounded
  <1>1. ProjectCacheInv => CacheBounded
    BY DEF ProjectCacheInv
  <1> QED BY <1>1, ProjectCacheInvariant, PTL

\* The misses of a key share one load (get_or_init and the ptr_eq of the removal).
THEOREM ProjectCacheOneLoadPerKey == Spec => []OneLoadPerKey
  <1>1. ProjectCacheInv => OneLoadPerKey
    <2>1. SUFFICES ASSUME ProjectCacheInv, NEW c \in Callers, NEW d \in Callers,
                          pc[c] = "loading", pc[d] = "loading", key[c] = key[d]
                   PROVE  c = d
      BY DEF OneLoadPerKey
    <2>2. /\ cell[c] \in Cells /\ cell[d] \in Cells
          /\ value[cell[c]] = "none" /\ value[cell[d]] = "none"
      BY <2>1 DEF ProjectCacheInv, LookupsConsistent
    <2>3. inflight[key[c]] = cell[c] /\ inflight[key[d]] = cell[d]
      BY <2>1, <2>2 DEF ProjectCacheInv, CellsConsistent
    <2> QED BY <2>1, <2>3 DEF ProjectCacheInv, CellsConsistent
  <1> QED BY <1>1, ProjectCacheInvariant, PTL

\* A lookup that loads its key itself does not cache access that a command has taken
\* away and invalidated.
THEOREM ProjectCacheOwnLoadNotStale == Spec => []OwnLoadNotStale
  <1>1. ProjectCacheInv => OwnLoadNotStale
    BY DEF ProjectCacheInv, OwnLoadsFresh, OwnLoadNotStale, Grants
  <1> QED BY <1>1, ProjectCacheInvariant, PTL

=============================================================================
