-------------------------- MODULE DispatcherProofs --------------------------
(***************************************************************************)
(* Proofs about Dispatcher for every set of events and every configuration *)
(* validate_config admits.                                                 *)
(***************************************************************************)
EXTENDS Dispatcher, WellFoundedInduction, TLAPS

USE EventsAssumption, ConfigAssumption, BoundsAssumption DEF ValidConfig

-----------------------------------------------------------------------------
(* Queues are sequences; what they hold, and that nothing is in a queue twice *)

\* An empty queue holds nothing.
LEMMA ToSetEmpty == ToSet(<<>>) = {} /\ IsInjective(<<>>)
  BY DEF ToSet, IsInjective

\* What appending (a send, a push) does to the elements of a queue.
LEMMA ToSetAppend ==
  ASSUME NEW S, NEW s \in Seq(S), NEW x \in S
  PROVE  /\ Append(s, x) \in Seq(S)
         /\ ToSet(Append(s, x)) = ToSet(s) \cup {x}
         /\ IsInjective(s) /\ x \notin ToSet(s) => IsInjective(Append(s, x))
  <1> DEFINE t == Append(s, x)
  <1>1. /\ t \in Seq(S) /\ Len(s) \in Nat /\ Len(t) = Len(s) + 1
        /\ DOMAIN s = 1..Len(s) /\ DOMAIN t = 1..(Len(s) + 1)
    OBVIOUS
  <1>2. \A i \in 1..Len(s) : t[i] = s[i]
    OBVIOUS
  <1>3. t[Len(s) + 1] = x
    OBVIOUS
  <1> HIDE DEF t
  <1>4. \A i \in 1..(Len(s) + 1) : i \in 1..Len(s) \/ i = Len(s) + 1
    BY <1>1
  <1>5. ToSet(t) = ToSet(s) \cup {x}
    <2>1. ASSUME NEW i \in DOMAIN t PROVE t[i] \in ToSet(s) \cup {x}
      BY <1>1, <1>2, <1>3, <1>4 DEF ToSet
    <2>2. ASSUME NEW i \in DOMAIN s PROVE s[i] \in ToSet(t)
      <3>1. i \in DOMAIN t /\ t[i] = s[i]
        BY <1>1, <1>2
      <3> QED BY <3>1 DEF ToSet
    <2>3. x \in ToSet(t)
      <3>1. Len(s) + 1 \in DOMAIN t
        BY <1>1
      <3> QED BY <3>1, <1>3 DEF ToSet
    <2> QED BY <2>1, <2>2, <2>3 DEF ToSet
  <1>6. ASSUME IsInjective(s), x \notin ToSet(s) PROVE IsInjective(t)
    <2> SUFFICES ASSUME NEW i \in DOMAIN t, NEW j \in DOMAIN t, t[i] = t[j]
                 PROVE  i = j
      BY DEF IsInjective
    <2>1. CASE i \in 1..Len(s) /\ j \in 1..Len(s)
      BY <2>1, <1>1, <1>2, <1>6 DEF IsInjective
    <2>2. CASE i \in 1..Len(s) /\ j = Len(s) + 1
      BY <2>2, <1>1, <1>2, <1>3, <1>6 DEF ToSet
    <2>3. CASE i = Len(s) + 1 /\ j \in 1..Len(s)
      BY <2>3, <1>1, <1>2, <1>3, <1>6 DEF ToSet
    <2> QED BY <2>1, <2>2, <2>3, <1>1, <1>4
  <1> QED BY <1>1, <1>5, <1>6 DEF t

\* What taking the head (a receive) does to the elements of a queue.
LEMMA ToSetHeadTail ==
  ASSUME NEW S, NEW s \in Seq(S), s # <<>>
  PROVE  /\ Head(s) \in S
         /\ Tail(s) \in Seq(S)
         /\ Len(Tail(s)) = Len(s) - 1
         /\ ToSet(s) = ToSet(Tail(s)) \cup {Head(s)}
         /\ IsInjective(s) => IsInjective(Tail(s)) /\ Head(s) \notin ToSet(Tail(s))
  <1> DEFINE t == Tail(s)
             h == Head(s)
  <1>1. /\ h \in S /\ t \in Seq(S)
        /\ Len(s) \in Nat \ {0} /\ Len(t) = Len(s) - 1
        /\ DOMAIN s = 1..Len(s) /\ DOMAIN t = 1..(Len(s) - 1)
    OBVIOUS
  <1>2. \A i \in 1..(Len(s) - 1) : t[i] = s[i + 1]
    OBVIOUS
  <1>3. h = s[1]
    OBVIOUS
  <1> HIDE DEF t, h
  <1>4. \A i \in 1..Len(s) : i = 1 \/ (i - 1 \in 1..(Len(s) - 1) /\ s[i] = t[i - 1])
    BY <1>1, <1>2
  <1>5. ToSet(s) = ToSet(t) \cup {h}
    <2>1. ASSUME NEW i \in DOMAIN s PROVE s[i] \in ToSet(t) \cup {h}
      BY <1>1, <1>3, <1>4 DEF ToSet
    <2>2. ASSUME NEW i \in DOMAIN t PROVE t[i] \in ToSet(s)
      <3>1. i + 1 \in DOMAIN s /\ t[i] = s[i + 1]
        BY <1>1, <1>2
      <3> QED BY <3>1 DEF ToSet
    <2>3. h \in ToSet(s)
      <3>1. 1 \in DOMAIN s
        BY <1>1
      <3> QED BY <3>1, <1>3 DEF ToSet
    <2> QED BY <2>1, <2>2, <2>3 DEF ToSet
  <1>6. ASSUME IsInjective(s) PROVE IsInjective(t) /\ h \notin ToSet(t)
    <2>1. IsInjective(t)
      <3> SUFFICES ASSUME NEW i \in DOMAIN t, NEW j \in DOMAIN t, t[i] = t[j]
                   PROVE  i = j
        BY DEF IsInjective
      <3>1. /\ i + 1 \in DOMAIN s /\ j + 1 \in DOMAIN s /\ i \in Int /\ j \in Int
            /\ s[i + 1] = s[j + 1]
        BY <1>1, <1>2
      <3>2. i + 1 = j + 1
        BY <3>1, <1>6 DEF IsInjective
      <3> QED BY <3>1, <3>2
    <2>2. ASSUME NEW i \in DOMAIN t PROVE t[i] # h
      <3>1. i + 1 \in DOMAIN s /\ 1 \in DOMAIN s /\ t[i] = s[i + 1] /\ i + 1 # 1
        BY <1>1, <1>2
      <3> QED BY <3>1, <1>3, <1>6 DEF IsInjective
    <2> QED BY <2>1, <2>2 DEF ToSet
  <1> QED BY <1>1, <1>5, <1>6 DEF t, h

\* A prefix (a page of a query's result) has no other elements.
LEMMA ToSetPrefix ==
  ASSUME NEW S, NEW s \in Seq(S), NEW n \in 0..Len(s)
  PROVE  SubSeq(s, 1, n) \in Seq(S) /\ ToSet(SubSeq(s, 1, n)) \subseteq ToSet(s)
  <1>1. /\ SubSeq(s, 1, n) \in Seq(S) /\ Len(SubSeq(s, 1, n)) = n
        /\ \A i \in 1..n : SubSeq(s, 1, n)[i] = s[i]
    OBVIOUS
  <1>2. DOMAIN SubSeq(s, 1, n) = 1..n /\ 1..n \subseteq DOMAIN s
    BY <1>1
  <1> QED BY <1>1, <1>2 DEF ToSet

-----------------------------------------------------------------------------
(* Induction, for a set: the provers do not instantiate one for a predicate *)

\* A non-empty set of naturals has a least element.
LEMMA LeastNat ==
  ASSUME NEW T \in SUBSET Nat, T # {}
  PROVE  \E n \in T : \A m \in T : n <= m
  <1> DEFINE R == {p \in Nat \X Nat : p[1] < p[2]}
  <1>1. IsWellFoundedOn(R, Nat)
    BY NatLessThanWellFounded, Zenon DEF OpToRel
  <1>2. \A m, n \in Nat : m < n => <<m, n>> \in R
    OBVIOUS
  <1> HIDE DEF R
  <1>3. \E n \in T : \A m \in T : ~ (<<m, n>> \in R)
    BY <1>1, WFMin
  <1>4. PICK n \in T : \A m \in T : ~ (<<m, n>> \in R)
    BY <1>3
  <1>5. ASSUME NEW m \in T PROVE n <= m
    <2>1. ~ (m < n)
      BY <1>2, <1>4
    <2> QED BY <2>1
  <1> QED BY <1>5

\* Induction up to n: a set that holds 0 and, with each number below n, the next.
LEMMA UpTo ==
  ASSUME NEW n \in Nat, NEW G, 0 \in G, \A i \in 0..n : i \in G /\ i < n => i + 1 \in G
  PROVE  \A i \in 0..n : i \in G
  <1> SUFFICES ASSUME NEW j \in 0..n, j \notin G PROVE FALSE
    OBVIOUS
  <1> DEFINE B == {i \in 0..n : i \notin G}
  <1>1. B \in SUBSET Nat /\ B # {}
    OBVIOUS
  <1>2. PICK m \in B : \A k \in B : m <= k
    <2> HIDE DEF B
    <2> QED BY <1>1, LeastNat
  <1>3. m # 0 /\ m \in Nat /\ m <= n
    OBVIOUS
  <1>4. m - 1 \in G
    BY <1>2, <1>3
  <1>5. m - 1 \in 0..n /\ m - 1 < n
    BY <1>3
  <1>6. (m - 1) + 1 \in G
    BY <1>4, <1>5
  <1>7. (m - 1) + 1 = m
    BY <1>3
  <1> QED BY <1>6, <1>7

-----------------------------------------------------------------------------
(* Sequences *)

\* Without keeps the elements that are not in X, and no others.  By induction on the
\* length of the prefix, first that the recursive function of Without exists.
LEMMA ToSetWithout ==
  ASSUME NEW S, NEW s \in Seq(S), NEW X
  PROVE  Without(s, X) \in Seq(S) /\ ToSet(Without(s, X)) = ToSet(s) \ X
  <1> DEFINE Step(f, n) == IF n = 0 THEN <<>>
                           ELSE IF s[n] \in X THEN f[n - 1]
                           ELSE Append(f[n - 1], s[n])
             Good(f, n) == f = [i \in 0..n |-> Step(f, i)]
             Prefix(n) == {s[i] : i \in 1..n}
             N == Len(s)
  <1>1. N \in Nat
    OBVIOUS
  <1>2. ASSUME NEW f, NEW n, Good(f, n), NEW i \in 0..n PROVE f[i] = Step(f, i)
    <2> HIDE DEF Step
    <2> QED BY <1>2, Zenon
  <1>3. \E f : Good(f, N)
    <2> DEFINE G == {n \in 0..N : \E f : Good(f, n)}
    <2>1. 0 \in G
      <3>1. Good([i \in 0..0 |-> <<>>], 0)
        OBVIOUS
      <3> HIDE DEF Good
      <3> QED BY <1>1, <3>1
    <2>2. ASSUME NEW n \in 0..N, n \in G, n < N PROVE n + 1 \in G
      <3>1. PICK f : Good(f, n)
        BY <2>2
      <3> DEFINE g == [i \in 0..(n + 1) |-> IF i = n + 1 THEN Step(f, n + 1) ELSE f[i]]
      <3>2. ASSUME NEW i \in 0..(n + 1) PROVE g[i] = Step(g, i)
        <4>1. CASE i = n + 1
          BY <4>1, <1>1
        <4>2. CASE i \in 0..n
          <5>1. f[i] = Step(f, i)
            BY <1>2, <3>1, <4>2
          <5>2. g[i] = f[i] /\ (i # 0 => g[i - 1] = f[i - 1])
            BY <4>2, <1>1
          <5> QED BY <5>1, <5>2
        <4> QED BY <4>1, <4>2, <1>1
      <3>3. Good(g, n + 1)
        BY <3>2
      <3> HIDE DEF Good, g
      <3> QED BY <3>3, <2>2, <1>1
    <2> HIDE DEF Good
    <2>3. \A i \in 0..N : i \in G
      <3> HIDE DEF G
      <3> QED BY <2>1, <2>2, <1>1, UpTo
    <2> QED BY <2>3, <1>1
  <1>4. Good(CHOOSE f : Good(f, N), N)
    <2> HIDE DEF Good
    <2> QED BY <1>3
  <1>5. PICK f : Good(f, N) /\ Without(s, X) = f[N]
    BY <1>4 DEF Without
  <1>6. f[N] \in Seq(S) /\ ToSet(f[N]) = Prefix(N) \ X
    <2> DEFINE G == {n \in 0..N : f[n] \in Seq(S) /\ ToSet(f[n]) = Prefix(n) \ X}
    <2>1. 0 \in G
      BY <1>5, <1>1, ToSetEmpty
    <2>2. ASSUME NEW n \in 0..N, n \in G, n < N PROVE n + 1 \in G
      <3>1. Prefix(n + 1) = Prefix(n) \cup {s[n + 1]} /\ s[n + 1] \in S
        BY <2>2, <1>1
      <3>2. f[n + 1] = IF s[n + 1] \in X THEN f[n] ELSE Append(f[n], s[n + 1])
        <4>1. f[n + 1] = Step(f, n + 1)
          <5> n + 1 \in 0..N
            BY <2>2, <1>1
          <5> HIDE DEF Step, Good
          <5> QED BY <1>2, <1>5
        <4> QED BY <4>1, <1>1
      <3> HIDE DEF Prefix
      <3>3. /\ f[n + 1] \in Seq(S)
            /\ ToSet(f[n + 1]) = ToSet(f[n]) \cup ({s[n + 1]} \ X)
        BY <2>2, <3>1, <3>2, ToSetAppend
      <3> QED BY <2>2, <3>1, <3>3, <1>1
    <2>3. \A i \in 0..N : i \in G
      <3> HIDE DEF G
      <3> QED BY <2>1, <2>2, <1>1, UpTo
    <2> HIDE DEF Prefix
    <2> QED BY <2>3, <1>1
  <1>7. ToSet(s) = Prefix(N)
    BY DEF ToSet
  <1> QED BY <1>5, <1>6, <1>7

\* What load_due returns are due events: those of the MongoDB query ...
LEMMA DueMongoFacts ==
  ASSUME TypeOK
  PROVE  DueMongo \in Seq(Events) /\ ToSet(DueMongo) \subseteq ToSet(due)
  <1> DEFINE candidates == Without(due, excluded)
             scanned == SubSeq(candidates, 1, Least(ScanFactor * wanted, Len(candidates)))
             processable == Without(scanned, fenced)
             page == SubSeq(processable, 1, Least(wanted, Len(processable)))
  <1>1. due \in Seq(Events) /\ wanted \in Nat /\ ScanFactor * wanted \in Nat
    BY DEF TypeOK
  <1>2. candidates \in Seq(Events) /\ ToSet(candidates) \subseteq ToSet(due)
    BY <1>1, ToSetWithout
  <1>3. scanned \in Seq(Events) /\ ToSet(scanned) \subseteq ToSet(candidates)
    <2> HIDE DEF candidates
    <2>1. Least(ScanFactor * wanted, Len(candidates)) \in 0..Len(candidates)
      BY <1>1, <1>2 DEF Least
    <2> QED BY <1>2, <2>1, ToSetPrefix
  <1>4. processable \in Seq(Events) /\ ToSet(processable) \subseteq ToSet(scanned)
    <2> HIDE DEF scanned
    <2> QED BY <1>3, ToSetWithout
  <1>5. page \in Seq(Events) /\ ToSet(page) \subseteq ToSet(processable)
    <2> HIDE DEF processable
    <2>1. Least(wanted, Len(processable)) \in 0..Len(processable)
      BY <1>1, <1>4 DEF Least
    <2> QED BY <1>4, <2>1, ToSetPrefix
  <1>6. DueMongo = page
    BY DEF DueMongo
  <1> HIDE DEF candidates, scanned, processable, page
  <1> QED BY <1>2, <1>3, <1>4, <1>5, <1>6

\* ... and those of the PostgreSQL one.
LEMMA DuePostgresFacts ==
  ASSUME TypeOK
  PROVE  DuePostgres \in Seq(Events) /\ ToSet(DuePostgres) \subseteq ToSet(due)
  <1> DEFINE processable == Without(due, excluded \cup fenced)
             page == SubSeq(processable, 1, Least(wanted, Len(processable)))
  <1>1. due \in Seq(Events) /\ wanted \in Nat
    BY DEF TypeOK
  <1>2. processable \in Seq(Events) /\ ToSet(processable) \subseteq ToSet(due)
    BY <1>1, ToSetWithout
  <1>3. page \in Seq(Events) /\ ToSet(page) \subseteq ToSet(processable)
    <2> HIDE DEF processable
    <2>1. Least(wanted, Len(processable)) \in 0..Len(processable)
      BY <1>1, <1>2 DEF Least
    <2> QED BY <1>2, <2>1, ToSetPrefix
  <1>4. DuePostgres = page
    BY DEF DuePostgres
  <1> HIDE DEF processable, page
  <1> QED BY <1>2, <1>3, <1>4

-----------------------------------------------------------------------------
(* The initial state and the steps *)

USE DEF durableVars, refillVars, offerVars, workVars, lateVars, boundVars

LEMMA DispatcherInit == Init => DispatcherInv
  <1> SUFFICES ASSUME Init PROVE DispatcherInv
    OBVIOUS
  <1>1. due \in Seq(Events) /\ queue \in Seq(Events) /\ loaded \in Seq(Events)
    BY DEF Init
  <1>2. TypeOK
    <2>1. 0 \in 0..RefillBatch /\ 0 \in 0..MaxLapses /\ 0 \in 0..MaxStops
      OBVIOUS
    <2> QED BY <1>1, <2>1 DEF Init, TypeOK, Closed
  <1> QED BY <1>2, ToSetEmpty DEF Init, DispatcherInv, TypeOK, MemoryConsistent,
             NoKeyLeaked, NoDoubleWork, LoadedTracked, RefillIsFresh, Offered, Running,
             Closed

\* The durable backlog: an event that leaves it is fenced or purged.
LEMMA AcceptStep == ASSUME DispatcherInv, NEW e \in Events, Accept(e) PROVE DispatcherInv'
  <1>1. due' \in Seq(Events) /\ ToSet(due) \subseteq ToSet(due')
    BY ToSetAppend DEF Accept, DispatcherInv, TypeOK
  <1> QED BY <1>1 DEF Accept, DispatcherInv, TypeOK, MemoryConsistent, NoKeyLeaked,
             NoDoubleWork, LoadedTracked, RefillIsFresh, Offered, Running, Closed

LEMMA MatureStep == ASSUME DispatcherInv, NEW e \in Events, Mature(e) PROVE DispatcherInv'
  <1>1. due' \in Seq(Events) /\ ToSet(due) \subseteq ToSet(due')
    BY ToSetAppend DEF Mature, DispatcherInv, TypeOK
  <1> QED BY <1>1 DEF Mature, DispatcherInv, TypeOK, MemoryConsistent, NoKeyLeaked,
             NoDoubleWork, LoadedTracked, RefillIsFresh, Offered, Running, Closed

LEMMA FenceStep == ASSUME DispatcherInv, NEW e \in Events, Fence(e) PROVE DispatcherInv'
  BY DEF Fence, DispatcherInv, TypeOK, MemoryConsistent, NoKeyLeaked, NoDoubleWork,
     LoadedTracked, RefillIsFresh, Offered, Running, Closed

LEMMA PurgeStep == ASSUME DispatcherInv, NEW e \in Events, Purge(e) PROVE DispatcherInv'
  <1>1. due' \in Seq(Events) /\ ToSet(due') = ToSet(due) \ {e} /\ e \in fenced'
    BY ToSetWithout DEF Purge, DispatcherInv, TypeOK
  <1> QED BY <1>1 DEF Purge, Void, DispatcherInv, TypeOK, MemoryConsistent, NoKeyLeaked,
             NoDoubleWork, LoadedTracked, RefillIsFresh, Offered, Running, Closed

\* The second half of an offer: the event moves from the offer into the queue, or its
\* key is taken back.
LEMMA FreshSendStep == ASSUME DispatcherInv, FreshSend PROVE DispatcherInv'
  <1>1. freshOffer \in Events /\ queue \in Seq(Events) /\ freshOffer \notin ToSet(queue)
    BY DEF FreshSend, DispatcherInv, TypeOK, MemoryConsistent, NoKeyLeaked,
       NoDoubleWork, LoadedTracked, RefillIsFresh, Offered, Running, Closed
  <1>2. CASE queue' = Append(queue, freshOffer) /\ UNCHANGED keys
    <2>1. queue' \in Seq(Events) /\ ToSet(queue') = ToSet(queue) \cup {freshOffer}
      BY <1>1, <1>2, ToSetAppend
    <2>2. IsInjective(queue')
      BY <1>1, <1>2, ToSetAppend DEF DispatcherInv, NoDoubleWork
    <2> QED BY <1>1, <1>2, <2>1, <2>2 DEF FreshSend, DispatcherInv, TypeOK,
               MemoryConsistent, NoKeyLeaked, NoDoubleWork, LoadedTracked,
               RefillIsFresh, Offered, Running, Closed
  <1>3. CASE keys' = keys \ {freshOffer} /\ UNCHANGED queue
    BY <1>1, <1>3 DEF FreshSend, DispatcherInv, TypeOK, MemoryConsistent, NoKeyLeaked,
       NoDoubleWork, LoadedTracked, RefillIsFresh, Offered, Running, Closed
  <1> QED BY <1>2, <1>3 DEF FreshSend, TrySend

LEMMA RefillSendStep == ASSUME DispatcherInv, RefillSend PROVE DispatcherInv'
  <1>1. refillOffer \in Events /\ queue \in Seq(Events) /\ refillOffer \notin ToSet(queue)
    BY DEF RefillSend, DispatcherInv, TypeOK, MemoryConsistent, NoKeyLeaked,
       NoDoubleWork, LoadedTracked, RefillIsFresh, Offered, Running, Closed
  <1>2. CASE queue' = Append(queue, refillOffer) /\ UNCHANGED keys
    <2>1. queue' \in Seq(Events) /\ ToSet(queue') = ToSet(queue) \cup {refillOffer}
      BY <1>1, <1>2, ToSetAppend
    <2>2. IsInjective(queue')
      BY <1>1, <1>2, ToSetAppend DEF DispatcherInv, NoDoubleWork
    <2> QED BY <1>1, <1>2, <2>1, <2>2 DEF RefillSend, DispatcherInv, TypeOK,
               MemoryConsistent, NoKeyLeaked, NoDoubleWork, LoadedTracked,
               RefillIsFresh, Offered, Running, Closed
  <1>3. CASE keys' = keys \ {refillOffer} /\ UNCHANGED queue
    BY <1>1, <1>3 DEF RefillSend, DispatcherInv, TypeOK, MemoryConsistent, NoKeyLeaked,
       NoDoubleWork, LoadedTracked, RefillIsFresh, Offered, Running, Closed
  <1> QED BY <1>2, <1>3 DEF RefillSend, TrySend

\* The first half: only an event whose key is not in the set is offered, so it is in no
\* other place.
LEMMA FreshOfferStep ==
  ASSUME DispatcherInv, NEW e \in Events, FreshOffer(e) PROVE DispatcherInv'
  BY DEF FreshOffer, Accepting, DispatcherInv, TypeOK, MemoryConsistent, NoKeyLeaked,
     NoDoubleWork, LoadedTracked, RefillIsFresh, Offered, Running, Closed

LEMMA RefillOfferStep == ASSUME DispatcherInv, RefillOffer PROVE DispatcherInv'
  <1>1. /\ Head(loaded) \in Events /\ loaded' \in Seq(Events)
        /\ ToSet(loaded) = ToSet(loaded') \cup {Head(loaded)}
    BY ToSetHeadTail DEF RefillOffer, DispatcherInv, TypeOK
  <1>2. Head(loaded) \notin keys =>
          Head(loaded) \in ToSet(due) \cup fenced \cup overtaken
    BY <1>1 DEF RefillOffer, DispatcherInv, RefillIsFresh
  <1>3. CASE Head(loaded) \notin keys /\ keys' = keys \cup {Head(loaded)}
             /\ refillOffer' = Head(loaded)
    BY <1>1, <1>2, <1>3 DEF RefillOffer, DispatcherInv, TypeOK, MemoryConsistent,
       NoKeyLeaked, NoDoubleWork, LoadedTracked, RefillIsFresh, Offered, Running,
       Closed
  <1>4. CASE UNCHANGED <<keys, refillOffer>>
    BY <1>1, <1>4 DEF RefillOffer, DispatcherInv, TypeOK, MemoryConsistent, NoKeyLeaked,
       NoDoubleWork, LoadedTracked, RefillIsFresh, Offered, Running, Closed
  <1> QED BY <1>3, <1>4 DEF RefillOffer

\* The other steps of start and refill_once.
LEMMA StartStep == ASSUME DispatcherInv, Start PROVE DispatcherInv'
  BY DEF Start, DispatcherInv, TypeOK, MemoryConsistent, NoKeyLeaked, NoDoubleWork,
     LoadedTracked, RefillIsFresh, Offered, Running, Closed

LEMMA RefillTickStep == ASSUME DispatcherInv, RefillTick PROVE DispatcherInv'
  BY DEF RefillTick, Selecting, DispatcherInv, TypeOK, MemoryConsistent, NoKeyLeaked,
     NoDoubleWork, LoadedTracked, RefillIsFresh, Offered, Running, Closed

LEMMA RefillSkippedStep == ASSUME DispatcherInv, RefillSkipped PROVE DispatcherInv'
  BY DEF RefillSkipped, DispatcherInv, TypeOK, MemoryConsistent, NoKeyLeaked,
     NoDoubleWork, LoadedTracked, RefillIsFresh, Offered, Running, Closed

LEMMA RefillBeginStep == ASSUME DispatcherInv, RefillBegin PROVE DispatcherInv'
  <1>1. wanted' \in 0..RefillBatch
    BY DEF RefillBegin, Least, DispatcherInv, TypeOK
  <1> QED BY <1>1 DEF RefillBegin, DispatcherInv, TypeOK, MemoryConsistent, NoKeyLeaked,
             NoDoubleWork, LoadedTracked, RefillIsFresh, Offered, Running, Closed

LEMMA RefillLoadedStep == ASSUME DispatcherInv, RefillLoaded PROVE DispatcherInv'
  <1>1. loaded' \in Seq(Events) /\ ToSet(loaded') \subseteq ToSet(due)
    BY DueMongoFacts, DuePostgresFacts DEF RefillLoaded, DispatcherInv
  <1> QED BY <1>1 DEF RefillLoaded, DispatcherInv, TypeOK, MemoryConsistent,
             NoKeyLeaked, NoDoubleWork, LoadedTracked, RefillIsFresh, Offered, Running,
             Closed

LEMMA RefillFailedStep == ASSUME DispatcherInv, RefillFailed PROVE DispatcherInv'
  BY DEF RefillFailed, DispatcherInv, TypeOK, MemoryConsistent, NoKeyLeaked,
     NoDoubleWork, LoadedTracked, RefillIsFresh, Offered, Running, Closed

LEMMA RefillDoneStep == ASSUME DispatcherInv, RefillDone PROVE DispatcherInv'
  <1>1. wanted' \in 0..RefillBatch
    BY DEF RefillDone
  <1>2. ToSet(loaded) = {} /\ refillOffer = None
    BY ToSetEmpty DEF RefillDone
  <1> QED BY <1>1, <1>2 DEF RefillDone, DispatcherInv, TypeOK, MemoryConsistent, NoKeyLeaked,
             NoDoubleWork, LoadedTracked, RefillIsFresh, Offered, Running, Closed

\* spawn_work and complete_work.  A key leaves the set only while no refill offers.
LEMMA SpawnHeadStep ==
  ASSUME DispatcherInv, SpawnHead, pc \in {"loop", "drain"} PROVE DispatcherInv'
  <1>1. /\ Head(queue) \in Events /\ queue' \in Seq(Events)
        /\ ToSet(queue) = ToSet(queue') \cup {Head(queue)}
        /\ IsInjective(queue') /\ Head(queue) \notin ToSet(queue')
    BY ToSetHeadTail DEF SpawnHead, DispatcherInv, TypeOK, NoDoubleWork
  <1> QED BY <1>1 DEF SpawnHead, DispatcherInv, TypeOK, MemoryConsistent, NoKeyLeaked,
             NoDoubleWork, LoadedTracked, RefillIsFresh, Offered, Running, Closed

LEMMA CompleteWorkStep ==
  ASSUME DispatcherInv, NEW e \in Events, CompleteWork(e), pc \in {"loop", "drain"}
  PROVE  DispatcherInv'
  <1>1. ToSet(loaded) = {} /\ refillOffer = None
    BY ToSetEmpty DEF DispatcherInv, MemoryConsistent
  <1> QED BY <1>1 DEF CompleteWork, DispatcherInv, TypeOK, MemoryConsistent,
             NoKeyLeaked, NoDoubleWork, LoadedTracked, RefillIsFresh, Offered, Running,
             Closed

LEMMA SeeShutdownStep == ASSUME DispatcherInv, SeeShutdown PROVE DispatcherInv'
  BY DEF SeeShutdown, DispatcherInv, TypeOK, MemoryConsistent, NoKeyLeaked,
     NoDoubleWork, LoadedTracked, RefillIsFresh, Offered, Running, Closed

LEMMA DrainDoneStep == ASSUME DispatcherInv, DrainDone PROVE DispatcherInv'
  BY DEF DrainDone, DispatcherInv, TypeOK, MemoryConsistent, NoKeyLeaked, NoDoubleWork,
     LoadedTracked, RefillIsFresh, Offered, Running, Closed

\* Aborted handlers may leave a write behind for an event of theirs.
LEMMA AbortWorkFacts ==
  ASSUME TypeOK, AbortWork
  PROVE  /\ working' = {} /\ returned' = {}
         /\ lateFinish' \in SUBSET Events /\ lateRecord' \in SUBSET Events
         /\ lapses' \in 0..MaxLapses
  <1>1. CASE Lapse /\ LeaveBehind(working \ gone)
    BY <1>1 DEF AbortWork, Lapse, LeaveBehind, TypeOK
  <1>2. CASE UNCHANGED <<lateFinish, lateRecord, lapses>>
    BY <1>2 DEF AbortWork, TypeOK
  <1> QED BY <1>1, <1>2 DEF AbortWork

LEMMA DrainDeadlineStep == ASSUME DispatcherInv, DrainDeadline PROVE DispatcherInv'
  <1>1. ToSet(loaded) = {} /\ refillOffer = None
    BY ToSetEmpty DEF DispatcherInv, MemoryConsistent, DrainDeadline
  <1>2. /\ working' = {} /\ returned' = {}
        /\ lateFinish' \in SUBSET Events /\ lateRecord' \in SUBSET Events
        /\ lapses' \in 0..MaxLapses
    BY AbortWorkFacts DEF DrainDeadline, DispatcherInv
  <1> QED BY <1>1, <1>2 DEF DrainDeadline, DispatcherInv, TypeOK, MemoryConsistent,
             NoKeyLeaked, NoDoubleWork, LoadedTracked, RefillIsFresh, Offered, Running,
             Closed

\* The handler: what it takes out of the backlog is its own event, which stays in the
\* set of keys until it is joined.
LEMMA FinishFacts ==
  ASSUME TypeOK, NEW e \in Events, Finish(e)
  PROVE  /\ due' \in Seq(Events) /\ ToSet(due) \ {e} \subseteq ToSet(due')
         /\ later' \in SUBSET Events /\ gone' \in SUBSET Events
         /\ lateFinish' \in SUBSET Events /\ lateRecord' \in SUBSET Events
  BY ToSetWithout DEF Finish, Void, TypeOK

LEMMA PutOffFacts ==
  ASSUME TypeOK, NEW e \in Events, PutOff(e)
  PROVE  /\ due' \in Seq(Events) /\ ToSet(due) \ {e} \subseteq ToSet(due')
         /\ later' \in SUBSET Events /\ gone' \in SUBSET Events
         /\ lateRecord' \in SUBSET Events
  BY ToSetWithout DEF PutOff, TypeOK

LEMMA HandlerStep == ASSUME DispatcherInv, NEW e \in Events, Handler(e) PROVE DispatcherInv'
  <1>0. TypeOK
    BY DEF DispatcherInv
  <1>1. /\ e \in working /\ due' \in Seq(Events) /\ ToSet(due) \ {e} \subseteq ToSet(due')
        /\ later' \in SUBSET Events /\ gone' \in SUBSET Events
        /\ lateFinish' \in SUBSET Events /\ lateRecord' \in SUBSET Events
        /\ lapses' \in 0..MaxLapses /\ HandlerReturns(e)
    <2>1. due \in Seq(Events)
      BY <1>0 DEF TypeOK
    <2>2. CASE HandlerFinishes(e)
      BY <1>0, <2>2, FinishFacts DEF HandlerFinishes, HandlerReturns, TypeOK
    <2>3. CASE HandlerPutsOff(e)
      <3>1. lateFinish' \in SUBSET Events /\ lapses' \in 0..MaxLapses
        BY <1>0, <2>3 DEF HandlerPutsOff, Lapse, TypeOK
      <3> QED BY <1>0, <2>3, <3>1, PutOffFacts DEF HandlerPutsOff, HandlerReturns
    <2>4. CASE HandlerRecordsNothing(e)
      BY <1>0, <2>1, <2>4 DEF HandlerRecordsNothing, HandlerReturns, Lapse, LeaveBehind,
         TypeOK
    <2> QED BY <2>2, <2>3, <2>4 DEF Handler
  <1> QED BY <1>1 DEF HandlerReturns, DispatcherInv, TypeOK, MemoryConsistent,
             NoKeyLeaked, NoDoubleWork, LoadedTracked, RefillIsFresh, Offered, Running,
             Closed

\* A late write: the event it changes is counted as overtaken while a refill offers.
LEMMA LateStep ==
  ASSUME DispatcherInv, NEW e \in Events, LateFinish(e) \/ LateRecord(e)
  PROVE  DispatcherInv'
  <1>0. TypeOK
    BY DEF DispatcherInv
  <1>1. /\ due' \in Seq(Events) /\ ToSet(due) \ {e} \subseteq ToSet(due')
        /\ later' \in SUBSET Events /\ gone' \in SUBSET Events
        /\ lateFinish' \in SUBSET Events /\ lateRecord' \in SUBSET Events
        /\ Overtake(e)
    <2>1. CASE Finish(e) /\ Overtake(e)
      BY <1>0, <2>1, FinishFacts
    <2>2. CASE PutOff(e) /\ UNCHANGED lateFinish /\ Overtake(e)
      BY <1>0, <2>2, PutOffFacts DEF TypeOK
    <2> QED BY <2>1, <2>2 DEF LateFinish, LateRecord
  <1>2. overtaken' \in SUBSET Events /\ overtaken \subseteq overtaken'
    BY <1>0, <1>1 DEF Overtake, TypeOK
  <1>3. ToSet(due) \cup fenced \cup overtaken
            \subseteq ToSet(due') \cup fenced' \cup overtaken' \/ pc # "offering"
    BY <1>1 DEF Overtake
  <1>4. pc # "offering" => ToSet(loaded) = {} /\ refillOffer = None
    BY ToSetEmpty DEF DispatcherInv, MemoryConsistent
  <1> QED BY <1>1, <1>2, <1>3, <1>4 DEF Overtake, DispatcherInv, TypeOK,
             MemoryConsistent, NoKeyLeaked, NoDoubleWork, LoadedTracked, RefillIsFresh,
             Offered, Running, Closed

\* Stopping.
LEMMA BeginShutdownStep == ASSUME DispatcherInv, BeginShutdown PROVE DispatcherInv'
  BY DEF BeginShutdown, DispatcherInv, TypeOK, MemoryConsistent, NoKeyLeaked,
     NoDoubleWork, LoadedTracked, RefillIsFresh, Offered, Running, Closed

LEMMA LoseMemoryStep ==
  ASSUME DispatcherInv, LoseMemory, stops' \in 0..MaxStops PROVE DispatcherInv'
  <1>1. /\ ToSet(queue') = {} /\ ToSet(loaded') = {} /\ IsInjective(queue')
        /\ queue' \in Seq(Events) /\ loaded' \in Seq(Events) /\ wanted' \in 0..RefillBatch
    BY ToSetEmpty DEF LoseMemory
  <1>2. /\ working' = {} /\ returned' = {}
        /\ lateFinish' \in SUBSET Events /\ lateRecord' \in SUBSET Events
        /\ lapses' \in 0..MaxLapses
    BY AbortWorkFacts DEF LoseMemory, DispatcherInv
  <1> QED BY <1>1, <1>2 DEF LoseMemory, DispatcherInv, TypeOK, MemoryConsistent, NoKeyLeaked,
             NoDoubleWork, LoadedTracked, RefillIsFresh, Offered, Running, Closed

-----------------------------------------------------------------------------
(* Theorems *)

\* Whatever the writer, the task of run_dispatcher, the handlers and the stops do, a step
\* keeps the inductive invariant.
LEMMA DispatcherNext == DispatcherInv /\ [Next]_vars => DispatcherInv'
  <1> SUFFICES ASSUME DispatcherInv, [Next]_vars PROVE DispatcherInv'
    OBVIOUS
  <1>1. CASE \E e \in Events : Accept(e) \/ Mature(e) \/ Fence(e) \/ Purge(e)
                               \/ FreshOffer(e) \/ Handler(e)
                               \/ LateFinish(e) \/ LateRecord(e)
    BY <1>1, AcceptStep, MatureStep, FenceStep, PurgeStep, FreshOfferStep, HandlerStep,
       LateStep
  <1>2. CASE RefillTick \/ RefillSkipped \/ RefillBegin \/ RefillLoaded \/ RefillFailed
             \/ RefillOffer \/ RefillSend \/ RefillDone
    BY <1>2, RefillTickStep, RefillSkippedStep, RefillBeginStep, RefillLoadedStep,
       RefillFailedStep, RefillOfferStep, RefillSendStep, RefillDoneStep
  <1>3. CASE Spawn \/ DrainSpawn
    BY <1>3, SpawnHeadStep DEF Spawn, DrainSpawn, Selecting
  <1>4. CASE \E e \in Events : Join(e) \/ DrainJoin(e)
    BY <1>4, CompleteWorkStep DEF Join, DrainJoin, Selecting
  <1>5. CASE SeeShutdown \/ DrainDone \/ DrainDeadline
    BY <1>5, SeeShutdownStep, DrainDoneStep, DrainDeadlineStep
  <1>6. CASE FreshSend \/ Start \/ BeginShutdown
    BY <1>6, FreshSendStep, StartStep, BeginShutdownStep
  <1>7. CASE Exit \/ Crash
    <2>1. stops' \in 0..MaxStops
      BY <1>7 DEF Exit, Crash, DispatcherInv, TypeOK
    <2> QED BY <1>7, <2>1, LoseMemoryStep DEF Exit, Crash
  <1>8. CASE UNCHANGED vars
    BY <1>8 DEF vars, DispatcherInv, TypeOK, MemoryConsistent, NoKeyLeaked,
       NoDoubleWork, LoadedTracked, RefillIsFresh, Offered, Running, Closed
  <1> QED BY <1>1, <1>2, <1>3, <1>4, <1>5, <1>6, <1>7, <1>8 DEF Next, Task

\* The inductive invariant holds in every reachable state of the dispatcher.
THEOREM DispatcherInvariant == Spec => []DispatcherInv
  BY DispatcherInit, DispatcherNext, PTL DEF Spec

\* Every variable keeps its type.
THEOREM DispatcherTypeOK == Spec => []TypeOK
  <1>1. DispatcherInv => TypeOK
    BY DEF DispatcherInv
  <1> QED BY <1>1, DispatcherInvariant, PTL

\* Until the task has ended, the dedup set is exactly what is offered, queued, running or
\* returned: offers, full queues, joins and drains leave no key behind.
THEOREM DispatcherNoKeyLeaked == Spec => []NoKeyLeaked
  <1>1. DispatcherInv => NoKeyLeaked
    BY DEF DispatcherInv
  <1> QED BY <1>1, DispatcherInvariant, PTL

\* An event is offered, queued or worked on in one place only: spawn_work never gives an
\* event to two handlers.
THEOREM DispatcherNoDoubleWork == Spec => []NoDoubleWork
  <1>1. DispatcherInv => NoDoubleWork
    BY DEF DispatcherInv
  <1> QED BY <1>1, DispatcherInvariant, PTL

\* A refill schedules no event that a handler finished or put off after load_due returned
\* it: only a write that a handler left behind, or a purge, can have done so.
THEOREM DispatcherRefillIsFresh == Spec => []RefillIsFresh
  <1>1. DispatcherInv => RefillIsFresh
    BY DEF DispatcherInv
  <1> QED BY <1>1, DispatcherInvariant, PTL

=============================================================================
