-------------------------- MODULE EventWriterProofs --------------------------
(***************************************************************************)
(* Proofs about EventWriter for every set of calls, every assignment of    *)
(* keys and sizes and every configuration validate_config admits.          *)
(***************************************************************************)
EXTENDS EventWriter, TLAPS

USE RequestsAssumption, ConfigAssumption DEF ValidConfig

-----------------------------------------------------------------------------
(* Queues are sequences; what they hold, and that nothing is in a queue twice *)

\* An empty queue holds nothing.
LEMMA ToSetEmpty == ToSet(<<>>) = {} /\ IsInjective(<<>>)
  BY DEF ToSet, IsInjective

\* A queue of one element.
LEMMA ToSetSingle ==
  ASSUME NEW S, NEW x \in S
  PROVE  <<x>> \in Seq(S) /\ ToSet(<<x>>) = {x} /\ IsInjective(<<x>>)
  BY DEF ToSet, IsInjective

\* The elements of a queue are of its type.
LEMMA ToSetType ==
  ASSUME NEW S, NEW s \in Seq(S) PROVE ToSet(s) \in SUBSET S
  BY DEF ToSet

\* What appending (a send, a push) does to the elements of a queue.
LEMMA ToSetAppend ==
  ASSUME NEW S, NEW s \in Seq(S), NEW x \in S
  PROVE  /\ Append(s, x) \in Seq(S)
         /\ ToSet(Append(s, x)) = ToSet(s) \cup {x}
         /\ IsInjective(s) /\ x \notin ToSet(s) => IsInjective(Append(s, x))
  <1> DEFINE t == Append(s, x)
  <1>1. /\ t \in Seq(S) /\ Len(s) \in Nat /\ Len(t) = Len(s) + 1
        /\ DOMAIN s = 1..Len(s) /\ DOMAIN t = 1..(Len(s) + 1)
    OBVIOUS
  <1>2. \A i \in 1..Len(s) : t[i] = s[i]
    OBVIOUS
  <1>3. t[Len(s) + 1] = x
    OBVIOUS
  <1> HIDE DEF t
  <1>4. \A i \in 1..(Len(s) + 1) : i \in 1..Len(s) \/ i = Len(s) + 1
    BY <1>1
  <1>5. ToSet(t) = ToSet(s) \cup {x}
    <2>1. ASSUME NEW i \in DOMAIN t PROVE t[i] \in ToSet(s) \cup {x}
      BY <1>1, <1>2, <1>3, <1>4 DEF ToSet
    <2>2. ASSUME NEW i \in DOMAIN s PROVE s[i] \in ToSet(t)
      <3>1. i \in DOMAIN t /\ t[i] = s[i]
        BY <1>1, <1>2
      <3> QED BY <3>1 DEF ToSet
    <2>3. x \in ToSet(t)
      <3>1. Len(s) + 1 \in DOMAIN t
        BY <1>1
      <3> QED BY <3>1, <1>3 DEF ToSet
    <2> QED BY <2>1, <2>2, <2>3 DEF ToSet
  <1>6. ASSUME IsInjective(s), x \notin ToSet(s) PROVE IsInjective(t)
    <2> SUFFICES ASSUME NEW i \in DOMAIN t, NEW j \in DOMAIN t, t[i] = t[j]
                 PROVE  i = j
      BY DEF IsInjective
    <2>1. CASE i \in 1..Len(s) /\ j \in 1..Len(s)
      BY <2>1, <1>1, <1>2, <1>6 DEF IsInjective
    <2>2. CASE i \in 1..Len(s) /\ j = Len(s) + 1
      BY <2>2, <1>1, <1>2, <1>3, <1>6 DEF ToSet
    <2>3. CASE i = Len(s) + 1 /\ j \in 1..Len(s)
      BY <2>3, <1>1, <1>2, <1>3, <1>6 DEF ToSet
    <2> QED BY <2>1, <2>2, <2>3, <1>1, <1>4
  <1> QED BY <1>1, <1>5, <1>6 DEF t

\* What taking the head (a receive) does to the elements of a queue.
LEMMA ToSetHeadTail ==
  ASSUME NEW S, NEW s \in Seq(S), s # <<>>
  PROVE  /\ Head(s) \in S
         /\ Tail(s) \in Seq(S)
         /\ Len(Tail(s)) = Len(s) - 1
         /\ ToSet(s) = ToSet(Tail(s)) \cup {Head(s)}
         /\ IsInjective(s) => IsInjective(Tail(s)) /\ Head(s) \notin ToSet(Tail(s))
  <1> DEFINE t == Tail(s)
             h == Head(s)
  <1>1. /\ h \in S /\ t \in Seq(S)
        /\ Len(s) \in Nat \ {0} /\ Len(t) = Len(s) - 1
        /\ DOMAIN s = 1..Len(s) /\ DOMAIN t = 1..(Len(s) - 1)
    OBVIOUS
  <1>2. \A i \in 1..(Len(s) - 1) : t[i] = s[i + 1]
    OBVIOUS
  <1>3. h = s[1]
    OBVIOUS
  <1> HIDE DEF t, h
  <1>4. \A i \in 1..Len(s) : i = 1 \/ (i - 1 \in 1..(Len(s) - 1) /\ s[i] = t[i - 1])
    BY <1>1, <1>2
  <1>5. ToSet(s) = ToSet(t) \cup {h}
    <2>1. ASSUME NEW i \in DOMAIN s PROVE s[i] \in ToSet(t) \cup {h}
      BY <1>1, <1>3, <1>4 DEF ToSet
    <2>2. ASSUME NEW i \in DOMAIN t PROVE t[i] \in ToSet(s)
      <3>1. i + 1 \in DOMAIN s /\ t[i] = s[i + 1]
        BY <1>1, <1>2
      <3> QED BY <3>1 DEF ToSet
    <2>3. h \in ToSet(s)
      <3>1. 1 \in DOMAIN s
        BY <1>1
      <3> QED BY <3>1, <1>3 DEF ToSet
    <2> QED BY <2>1, <2>2, <2>3 DEF ToSet
  <1>6. ASSUME IsInjective(s) PROVE IsInjective(t) /\ h \notin ToSet(t)
    <2>1. IsInjective(t)
      <3> SUFFICES ASSUME NEW i \in DOMAIN t, NEW j \in DOMAIN t, t[i] = t[j]
                   PROVE  i = j
        BY DEF IsInjective
      <3>1. /\ i + 1 \in DOMAIN s /\ j + 1 \in DOMAIN s /\ i \in Int /\ j \in Int
            /\ s[i + 1] = s[j + 1]
        BY <1>1, <1>2
      <3>2. i + 1 = j + 1
        BY <3>1, <1>6 DEF IsInjective
      <3> QED BY <3>1, <3>2
    <2>2. ASSUME NEW i \in DOMAIN t PROVE t[i] # h
      <3>1. i + 1 \in DOMAIN s /\ 1 \in DOMAIN s /\ t[i] = s[i + 1] /\ i + 1 # 1
        BY <1>1, <1>2
      <3> QED BY <3>1, <1>3, <1>6 DEF IsInjective
    <2> QED BY <2>1, <2>2 DEF ToSet
  <1> QED BY <1>1, <1>5, <1>6 DEF t, h

-----------------------------------------------------------------------------

\* The initial state of EventWriter::start satisfies the inductive invariant.
LEMMA WriterInit == Init => WriterInv
  <1> SUFFICES ASSUME Init PROVE WriterInv
    OBVIOUS
  <1>1. TypeOK
    <2>1. call \in [Requests -> CallStates] /\ doc \in [Requests -> DocStates]
      BY DEF Init, CallStates, DocStates
    <2>2. channel \in Seq(Requests) /\ batch \in Seq(Requests) /\ carry \in Seq(Requests)
      BY DEF Init
    <2> QED BY <2>1, <2>2 DEF Init, TypeOK, Open
  <1>2. ToSet(channel) = {} /\ ToSet(carry) = {} /\ ToSet(batch) = {}
    BY ToSetEmpty DEF Init
  <1>3. NoCommandLost
    BY <1>2, ToSetEmpty DEF Init, NoCommandLost
  <1>4. PhasesConsistent
    BY DEF Init, PhasesConsistent
  <1>5. SentOnce
    BY <1>2 DEF Init, SentOnce, Queued
  <1>6. UniqueInStore /\ AckDurable /\ HandoffDurable /\ UnavailableIsDefiniteWhileServing
    BY DEF Init, UniqueInStore, AckDurable, HandoffDurable,
           UnavailableIsDefiniteWhileServing
  <1> QED BY <1>1, <1>3, <1>4, <1>5, <1>6 DEF WriterInv

\* The steps of a caller.
LEMMA PersistStep == ASSUME WriterInv, NEW r \in Requests, Persist(r) PROVE WriterInv'
  BY DEF Persist, taskVars, WriterInv, TypeOK, NoCommandLost, PhasesConsistent, SentOnce,
      UniqueInStore, AckDurable, HandoffDurable, Queued, Flushing, Stored,
      UnavailableIsDefiniteWhileServing, CallStates, DocStates, Open, Pending, Answers

LEMMA SendStep == ASSUME WriterInv, NEW r \in Requests, Send(r) PROVE WriterInv'
  <1>1. channel \in Seq(Requests)
    BY DEF WriterInv, TypeOK
  <1>2. r \notin Queued
    BY DEF WriterInv, SentOnce, Send
  <1>3. /\ channel' \in Seq(Requests)
        /\ ToSet(channel') = ToSet(channel) \cup {r}
        /\ IsInjective(channel')
    BY <1>1, <1>2, ToSetAppend DEF WriterInv, NoCommandLost, Send, Queued
  <1> QED
    BY <1>2, <1>3 DEF Send, taskVars, WriterInv, TypeOK, NoCommandLost, PhasesConsistent, SentOnce,
      UniqueInStore, AckDurable, HandoffDurable, Queued, Flushing, Stored,
      UnavailableIsDefiniteWhileServing, CallStates, DocStates, Open, Pending, Answers

LEMMA SendClosedStep == ASSUME WriterInv, NEW r \in Requests, SendClosed(r) PROVE WriterInv'
  BY DEF SendClosed, taskVars, WriterInv, TypeOK, NoCommandLost, PhasesConsistent, SentOnce,
      UniqueInStore, AckDurable, HandoffDurable, Queued, Flushing, Stored,
      UnavailableIsDefiniteWhileServing, CallStates, DocStates, Open, Pending, Answers

LEMMA CancelStep == ASSUME WriterInv, NEW r \in Requests, CancelCall(r) PROVE WriterInv'
  BY DEF CancelCall, taskVars, WriterInv, TypeOK, NoCommandLost, PhasesConsistent, SentOnce,
      UniqueInStore, AckDurable, HandoffDurable, Queued, Flushing, Stored,
      UnavailableIsDefiniteWhileServing, CallStates, DocStates, Open, Pending, Answers

LEMMA BeginShutdownStep == ASSUME WriterInv, BeginShutdown PROVE WriterInv'
  BY DEF BeginShutdown, taskVars, callVars, WriterInv, TypeOK, NoCommandLost, PhasesConsistent,
         SentOnce, UniqueInStore, AckDurable, HandoffDurable, Queued, Flushing, Stored,
         UnavailableIsDefiniteWhileServing, CallStates, DocStates, Open, Pending, Answers

\* The store decides the fate of a document that was sent.
LEMMA StoreApplyStep == ASSUME WriterInv, NEW r \in Requests, StoreApply(r) PROVE WriterInv'
  BY DEF StoreApply, taskVars, callVars, WriterInv, TypeOK, NoCommandLost, PhasesConsistent,
         SentOnce, UniqueInStore, AckDurable, HandoffDurable, Queued, Flushing, Stored,
         UnavailableIsDefiniteWhileServing, CallStates, DocStates, Open, Pending, Answers

LEMMA StoreRejectStep == ASSUME WriterInv, NEW r \in Requests, StoreReject(r) PROVE WriterInv'
  BY DEF StoreReject, taskVars, callVars, WriterInv, TypeOK, NoCommandLost, PhasesConsistent,
         SentOnce, UniqueInStore, AckDurable, HandoffDurable, Queued, Flushing, Stored,
         UnavailableIsDefiniteWhileServing, CallStates, DocStates, Open, Pending, Answers

\* Opening a batch, as run_writer and drain_writer both do.
LEMMA TakeFirstFacts ==
  ASSUME WriterInv, TakeFirst, batch = <<>>
  PROVE  /\ channel' \in Seq(Requests) /\ carry' \in Seq(Requests) /\ batch' \in Seq(Requests)
         /\ bytes' \in Nat /\ carry' = <<>> /\ Queued' = Queued
         /\ IsInjective(channel') /\ IsInjective(batch') /\ Len(carry') <= 1
         /\ ToSet(channel') \cap ToSet(batch') = {} /\ ToSet(carry') = {}
         /\ ToSet(batch') \subseteq ToSet(channel) \cup ToSet(carry)
  <1> USE ToSetEmpty DEF WriterInv, TypeOK, NoCommandLost, Queued
  <1>1. CASE carry # <<>>
    <2> DEFINE h == Head(carry)
    <2>1. h \in Requests /\ ToSet(carry) = {h}
      <3>1. /\ h \in Requests /\ ToSet(carry) = ToSet(Tail(carry)) \cup {h}
            /\ Tail(carry) \in Seq(Requests) /\ Len(Tail(carry)) = Len(carry) - 1
        BY <1>1, ToSetHeadTail
      <3>2. Tail(carry) = <<>>
        BY <1>1
      <3> QED BY <3>1, <3>2
    <2>2. channel' = channel /\ carry' = <<>> /\ batch' = <<h>> /\ bytes' = SizeOf[h]
      BY <1>1 DEF TakeFirst, NewBatch
    <2>3. batch' \in Seq(Requests) /\ ToSet(batch') = {h} /\ IsInjective(batch')
      BY <2>1, <2>2, ToSetSingle
    <2> HIDE DEF h
    <2> QED BY <2>1, <2>2, <2>3
  <1>2. CASE carry = <<>>
    <2> DEFINE h == Head(channel)
    <2>1. channel # <<>> /\ carry' = <<>> /\ channel' = Tail(channel) /\ batch' = <<h>> /\ bytes' = SizeOf[h]
      BY <1>2 DEF TakeFirst, NewBatch
    <2>2. /\ h \in Requests /\ channel' \in Seq(Requests)
          /\ ToSet(channel) = ToSet(channel') \cup {h}
          /\ IsInjective(channel') /\ h \notin ToSet(channel')
      BY <2>1, ToSetHeadTail
    <2>3. batch' \in Seq(Requests) /\ ToSet(batch') = {h} /\ IsInjective(batch')
      BY <2>1, <2>2, ToSetSingle
    <2> HIDE DEF h
    <2> QED BY <1>2, <2>1, <2>2, <2>3
  <1> QED BY <1>1, <1>2

LEMMA ReceiveStep == ASSUME WriterInv, Receive PROVE WriterInv'
  <1>1. batch = <<>> /\ TakeFirst
    BY DEF Receive, WriterInv, PhasesConsistent
  <1> QED BY <1>1, TakeFirstFacts, ToSetEmpty DEF Receive, taskVars, callVars, WriterInv, TypeOK, NoCommandLost, PhasesConsistent,
         SentOnce, UniqueInStore, AckDurable, HandoffDurable, Queued, Flushing, Stored,
         UnavailableIsDefiniteWhileServing, CallStates, DocStates, Open, Pending, Answers

LEMMA DrainFirstStep == ASSUME WriterInv, DrainFirst PROVE WriterInv'
  <1>1. batch = <<>> /\ TakeFirst
    BY DEF DrainFirst, WriterInv, PhasesConsistent
  <1> QED BY <1>1, TakeFirstFacts, ToSetEmpty DEF DrainFirst, taskVars, callVars, WriterInv, TypeOK, NoCommandLost, PhasesConsistent,
         SentOnce, UniqueInStore, AckDurable, HandoffDurable, Queued, Flushing, Stored,
         UnavailableIsDefiniteWhileServing, CallStates, DocStates, Open, Pending, Answers

\* Adding the head of the channel to the batch, or to the carry.
LEMMA CollectFacts ==
  ASSUME WriterInv, pc \in {"collect", "fill"}, NEW next, Collect(next)
  PROVE  /\ channel' \in Seq(Requests) /\ carry' \in Seq(Requests) /\ batch' \in Seq(Requests)
         /\ bytes' \in Nat /\ Queued' = Queued
         /\ NoCommandLost'
         /\ \/ pc' = pc /\ doc' = doc /\ carry' = <<>>
               /\ ToSet(batch') \subseteq ToSet(batch) \cup ToSet(channel)
            \/ pc' = next /\ SendDocuments /\ batch' = batch
  <1> USE ToSetEmpty DEF WriterInv, TypeOK, NoCommandLost, Queued
  <1> DEFINE h == Head(channel)
  <1>1. channel # <<>> /\ channel' = Tail(channel) /\ carry = <<>>
    BY DEF Collect, PhasesConsistent
  <1>2. /\ h \in Requests /\ channel' \in Seq(Requests)
        /\ ToSet(channel) = ToSet(channel') \cup {h}
        /\ IsInjective(channel') /\ h \notin ToSet(channel')
    BY <1>1, ToSetHeadTail
  <1>3. CASE CanPush(h)
    <2>1. batch' = Append(batch, h) /\ bytes' = bytes + SizeOf[h]
          /\ doc' = doc /\ carry' = carry /\ pc' = pc /\ call' = call
      BY <1>3 DEF Collect
    <2>2. h \notin ToSet(batch)
      BY <1>2
    <2>3. /\ batch' \in Seq(Requests) /\ ToSet(batch') = ToSet(batch) \cup {h}
          /\ IsInjective(batch')
      BY <1>2, <2>1, <2>2, ToSetAppend
    <2>4. bytes' \in Nat
      BY <2>1, <1>2
    <2> HIDE DEF h
    <2> QED BY <1>1, <1>2, <2>1, <2>3, <2>4
  <1>4. CASE ~CanPush(h)
    <2>1. carry' = <<h>> /\ pc' = next /\ SendDocuments /\ batch' = batch /\ bytes' = bytes
          /\ call' = call
      BY <1>4 DEF Collect
    <2>2. carry' \in Seq(Requests) /\ ToSet(carry') = {h} /\ Len(carry') = 1
      BY <2>1, <1>2, ToSetSingle
    <2>3. h \notin ToSet(batch)
      BY <1>2
    <2> HIDE DEF h
    <2>4. NoCommandLost'
      <3>1. IsInjective(channel') /\ IsInjective(batch') /\ Len(carry') <= 1
        BY <1>2, <2>1, <2>2
      <3>2. ToSet(channel') \cap ToSet(batch') = {}
        BY <1>2, <2>1
      <3>3. ToSet(carry') \cap (ToSet(channel') \cup ToSet(batch')) = {}
        BY <1>2, <2>1, <2>2, <2>3
      <3>4. Queued' = Queued
        BY <1>1, <1>2, <2>1, <2>2
      <3> QED BY <3>1, <3>2, <3>3, <3>4, <2>1
    <2> QED BY <1>1, <1>2, <2>1, <2>2, <2>4
  <1> QED BY <1>3, <1>4

\* Starting a flush sends documents that were never sent before, so nothing that
\* was decided about a document changes.
LEMMA SendFacts ==
  ASSUME WriterInv, ~Flushing, SendDocuments
  PROVE  /\ doc' \in [Requests -> DocStates]
         /\ \A r \in Requests : \/ r \notin ToSet(batch) /\ doc'[r] = doc[r]
                                \/ r \in ToSet(batch) /\ doc[r] = "none" /\ doc'[r] = "sent"
         /\ \A k : Stored(k)' <=> Stored(k)
         /\ UniqueInStore'
  <1>1. doc' \in [Requests -> DocStates]
    BY DEF SendDocuments, WriterInv, TypeOK, DocStates
  <1>2. \A r \in Requests : \/ r \notin ToSet(batch) /\ doc'[r] = doc[r]
                            \/ r \in ToSet(batch) /\ doc[r] = "none" /\ doc'[r] = "sent"
    BY DEF SendDocuments, WriterInv, SentOnce
  <1>3. \A r \in Requests : doc'[r] = "inserted" <=> doc[r] = "inserted"
    BY <1>2
  <1>4. \A k : Stored(k)' <=> Stored(k)
    BY <1>3 DEF Stored
  <1>5. UniqueInStore'
    BY <1>2, <1>3, <1>4 DEF UniqueInStore, WriterInv
  <1> QED BY <1>1, <1>2, <1>4, <1>5

\* A flush starts: whatever else the step did to the queues, the invariant
\* survives if the commands are the same and only the batch was sent.
LEMMA StartFlush ==
  ASSUME WriterInv, pc \in {"collect", "fill"}, SendDocuments,
         pc' \in {"flush", "drainflush"}, call' = call, batch' = batch, handed' = handed,
         shutdown' = shutdown, TypeOK', NoCommandLost', PhasesConsistent', Queued' = Queued,
         ToSet(channel') \cup ToSet(carry') \subseteq ToSet(channel) \cup ToSet(carry)
  PROVE  WriterInv'
  <1>1. ~Flushing /\ Flushing'
    BY DEF Flushing
  <1>2. \A r \in Requests : \/ r \notin ToSet(batch) /\ doc'[r] = doc[r]
                            \/ r \in ToSet(batch) /\ doc[r] = "none" /\ doc'[r] = "sent"
    BY <1>1, SendFacts
  <1>3. (\A k : Stored(k)' <=> Stored(k)) /\ UniqueInStore'
    BY <1>1, SendFacts
  <1>4. SentOnce'
    <2>1. \A r \in Queued' : call'[r] \in {"waiting", "cancelled"}
      BY DEF WriterInv, SentOnce
    <2>2. \A r \in Requests : call'[r] \in {"idle", "sending"} => doc'[r] = "none"
      BY <1>2 DEF WriterInv, SentOnce, Queued
    <2>3. \A r \in ToSet(channel') \cup ToSet(carry') : doc'[r] = "none"
      BY <1>2, ToSetType DEF WriterInv, SentOnce, NoCommandLost, TypeOK
    <2>4. \A r \in ToSet(batch') : doc'[r] = "sent"
      BY <1>2, ToSetType DEF WriterInv, TypeOK
    <2> QED BY <2>1, <2>2, <2>3, <2>4, <1>1 DEF SentOnce
  <1>5. AckDurable'
    BY <1>2, <1>3 DEF WriterInv, AckDurable
  <1>6. HandoffDurable'
    BY <1>2 DEF WriterInv, HandoffDurable, TypeOK
  <1>7. UnavailableIsDefiniteWhileServing'
    BY <1>2 DEF WriterInv, UnavailableIsDefiniteWhileServing, SentOnce, Queued
  <1> QED BY <1>3, <1>4, <1>5, <1>6, <1>7 DEF WriterInv

\* A command is received into the batch under collection.
LEMMA CollectNextStep == ASSUME WriterInv, CollectNext PROVE WriterInv'
  <1>1. pc = "collect" /\ Collect("flush")
    BY DEF CollectNext
  <1>2. call' = call /\ UNCHANGED <<stopping, accepting, shutdown, handed>>
    BY <1>1 DEF Collect
  <1>3. /\ channel' \in Seq(Requests) /\ carry' \in Seq(Requests) /\ batch' \in Seq(Requests)
        /\ bytes' \in Nat /\ Queued' = Queued /\ NoCommandLost'
    BY <1>1, CollectFacts
  <1>4. CASE /\ pc' = pc /\ doc' = doc /\ carry' = <<>>
             /\ ToSet(batch') \subseteq ToSet(batch) \cup ToSet(channel)
    <2>1. TypeOK'
      BY <1>2, <1>3, <1>4 DEF WriterInv, TypeOK
    <2>2. PhasesConsistent'
      BY <1>1, <1>2, <1>4 DEF WriterInv, PhasesConsistent
    <2>3. SentOnce'
      BY <1>1, <1>2, <1>3, <1>4, ToSetEmpty DEF WriterInv, SentOnce, Flushing, Queued
    <2>4. UniqueInStore' /\ AckDurable'
      BY <1>2, <1>4 DEF WriterInv, UniqueInStore, AckDurable, Stored
    <2>5. HandoffDurable' /\ UnavailableIsDefiniteWhileServing'
      BY <1>2, <1>4 DEF WriterInv, HandoffDurable, UnavailableIsDefiniteWhileServing
    <2> QED BY <2>1, <2>2, <2>3, <2>4, <2>5, <1>3 DEF WriterInv
  <1>5. CASE pc' = "flush" /\ SendDocuments /\ batch' = batch
    <2>1. TypeOK'
      BY <1>1, <1>2, <1>3, <1>5, SendFacts DEF WriterInv, TypeOK, Flushing, Open
    <2>2. PhasesConsistent'
      BY <1>1, <1>2, <1>5 DEF WriterInv, PhasesConsistent
    <2>3. ToSet(channel') \cup ToSet(carry') \subseteq ToSet(channel) \cup ToSet(carry)
      BY <1>3, <1>5 DEF WriterInv, NoCommandLost, Queued
    <2> QED BY <2>1, <2>2, <2>3, <1>1, <1>2, <1>3, <1>5, StartFlush
  <1> QED BY <1>1, <1>4, <1>5, CollectFacts

\* A command is received into the batch under collection.
LEMMA DrainNextStep == ASSUME WriterInv, DrainNext PROVE WriterInv'
  <1>1. pc = "fill" /\ Collect("drainflush")
    BY DEF DrainNext
  <1>2. call' = call /\ UNCHANGED <<stopping, accepting, shutdown, handed>>
    BY <1>1 DEF Collect
  <1>3. /\ channel' \in Seq(Requests) /\ carry' \in Seq(Requests) /\ batch' \in Seq(Requests)
        /\ bytes' \in Nat /\ Queued' = Queued /\ NoCommandLost'
    BY <1>1, CollectFacts
  <1>4. CASE /\ pc' = pc /\ doc' = doc /\ carry' = <<>>
             /\ ToSet(batch') \subseteq ToSet(batch) \cup ToSet(channel)
    <2>1. TypeOK'
      BY <1>2, <1>3, <1>4 DEF WriterInv, TypeOK
    <2>2. PhasesConsistent'
      BY <1>1, <1>2, <1>4 DEF WriterInv, PhasesConsistent
    <2>3. SentOnce'
      BY <1>1, <1>2, <1>3, <1>4, ToSetEmpty DEF WriterInv, SentOnce, Flushing, Queued
    <2>4. UniqueInStore' /\ AckDurable'
      BY <1>2, <1>4 DEF WriterInv, UniqueInStore, AckDurable, Stored
    <2>5. HandoffDurable' /\ UnavailableIsDefiniteWhileServing'
      BY <1>2, <1>4 DEF WriterInv, HandoffDurable, UnavailableIsDefiniteWhileServing
    <2> QED BY <2>1, <2>2, <2>3, <2>4, <2>5, <1>3 DEF WriterInv
  <1>5. CASE pc' = "drainflush" /\ SendDocuments /\ batch' = batch
    <2>1. TypeOK'
      BY <1>1, <1>2, <1>3, <1>5, SendFacts DEF WriterInv, TypeOK, Flushing, Open
    <2>2. PhasesConsistent'
      BY <1>1, <1>2, <1>5 DEF WriterInv, PhasesConsistent
    <2>3. ToSet(channel') \cup ToSet(carry') \subseteq ToSet(channel) \cup ToSet(carry)
      BY <1>3, <1>5 DEF WriterInv, NoCommandLost, Queued
    <2> QED BY <2>1, <2>2, <2>3, <1>1, <1>2, <1>3, <1>5, StartFlush
  <1> QED BY <1>1, <1>4, <1>5, CollectFacts

\* The collected batch goes to the store.
LEMMA CollectDoneStep == ASSUME WriterInv, CollectDone PROVE WriterInv'
  <1>1. pc \in {"collect", "fill"} /\ SendDocuments /\ pc' \in {"flush", "drainflush"}
    BY DEF CollectDone
  <1>2. UNCHANGED <<call, channel, carry, batch, bytes, handed, shutdown>>
    BY DEF CollectDone, callVars
  <1>3. TypeOK'
    BY <1>1, <1>2, SendFacts DEF CollectDone, WriterInv, TypeOK, Flushing, Open
  <1>4. NoCommandLost' /\ Queued' = Queued
    BY <1>2 DEF WriterInv, NoCommandLost, Queued
  <1>5. PhasesConsistent'
    BY <1>2 DEF CollectDone, WriterInv, PhasesConsistent
  <1> QED BY <1>1, <1>2, <1>3, <1>4, <1>5, StartFlush

\* The collected batch goes to the store.
LEMMA ShutdownWhileCollectingStep == ASSUME WriterInv, ShutdownWhileCollecting PROVE WriterInv'
  <1>1. pc \in {"collect", "fill"} /\ SendDocuments /\ pc' \in {"flush", "drainflush"}
    BY DEF ShutdownWhileCollecting
  <1>2. UNCHANGED <<call, channel, carry, batch, bytes, handed, shutdown>>
    BY DEF ShutdownWhileCollecting, callVars
  <1>3. TypeOK'
    BY <1>1, <1>2, SendFacts DEF ShutdownWhileCollecting, WriterInv, TypeOK, Flushing, Open
  <1>4. NoCommandLost' /\ Queued' = Queued
    BY <1>2 DEF WriterInv, NoCommandLost, Queued
  <1>5. PhasesConsistent'
    BY <1>2 DEF ShutdownWhileCollecting, WriterInv, PhasesConsistent
  <1> QED BY <1>1, <1>2, <1>3, <1>4, <1>5, StartFlush

\* The collected batch goes to the store.
LEMMA DrainCollectedStep == ASSUME WriterInv, DrainCollected PROVE WriterInv'
  <1>1. pc \in {"collect", "fill"} /\ SendDocuments /\ pc' \in {"flush", "drainflush"}
    BY DEF DrainCollected
  <1>2. UNCHANGED <<call, channel, carry, batch, bytes, handed, shutdown>>
    BY DEF DrainCollected, callVars
  <1>3. TypeOK'
    BY <1>1, <1>2, SendFacts DEF DrainCollected, WriterInv, TypeOK, Flushing, Open
  <1>4. NoCommandLost' /\ Queued' = Queued
    BY <1>2 DEF WriterInv, NoCommandLost, Queued
  <1>5. PhasesConsistent'
    BY <1>2 DEF DrainCollected, WriterInv, PhasesConsistent
  <1> QED BY <1>1, <1>2, <1>3, <1>4, <1>5, StartFlush

\* Control moves on without a command.
LEMMA ShutdownWhileIdleStep == ASSUME WriterInv, ShutdownWhileIdle PROVE WriterInv'
  <1>1. /\ UNCHANGED <<call, channel, doc, batch, bytes, carry, shutdown, handed>>
        /\ pc = "recv" /\ pc' = "drain" /\ stopping' = TRUE /\ accepting' = FALSE /\ shutdown
    BY DEF ShutdownWhileIdle, callVars
  <1>2. TypeOK' /\ NoCommandLost' /\ PhasesConsistent'
    BY <1>1 DEF WriterInv, TypeOK, NoCommandLost, PhasesConsistent, Queued, Open
  <1>3. SentOnce'
    BY <1>1 DEF WriterInv, SentOnce, Flushing, Queued
  <1>4. UniqueInStore' /\ AckDurable' /\ HandoffDurable' /\ UnavailableIsDefiniteWhileServing'
    BY <1>1 DEF WriterInv, UniqueInStore, AckDurable, HandoffDurable, Stored,
                UnavailableIsDefiniteWhileServing
  <1> QED BY <1>2, <1>3, <1>4 DEF WriterInv

\* Control moves on without a command.
LEMMA DrainEmptyStep == ASSUME WriterInv, DrainEmpty PROVE WriterInv'
  BY DEF DrainEmpty, callVars, WriterInv, TypeOK, NoCommandLost, PhasesConsistent,
         SentOnce, UniqueInStore, AckDurable, HandoffDurable, Queued, Flushing, Stored,
         UnavailableIsDefiniteWhileServing, CallStates, Open, Answers

\* The requests of R, all of them queued, get an answer of a and leave the writer;
\* the documents are as they were, or were written off.
LEMMA Answered ==
  ASSUME WriterInv, NEW R \in SUBSET Queued, NEW a \in [Requests -> Answers],
         call' = Answer(R, a), TypeOK', PhasesConsistent', ~Flushing',
         shutdown' = shutdown, ToSet(batch') = {}, Queued' = Queued \ R,
         channel' = channel \/ channel' = <<>>, carry' = carry \/ carry' = <<>>,
         batch' = <<>>, \A r \in Requests : doc'[r] = doc[r] \/ (doc[r] = "sent" /\ doc'[r] = "void"),
         \A r \in handed' \ handed : r \in R /\ doc[r] = "inserted" /\ a[r] = "accepted",
         \A r \in R : /\ a[r] = "accepted" => doc[r] = "inserted"
                      /\ a[r] = "duplicate" => doc[r] = "duplicate"
                      /\ a[r] = "unavailable" => shutdown \/ doc'[r] \notin {"sent", "inserted"}
  PROVE  WriterInv'
  <1>1. R \subseteq Requests /\ Queued \subseteq Requests
    BY ToSetType DEF WriterInv, TypeOK, Queued
  <1>2. \A r \in Requests : \/ r \in R /\ call[r] = "waiting" /\ call'[r] = a[r]
                            \/ ~(r \in R /\ call[r] = "waiting") /\ call'[r] = call[r]
    BY DEF Answer
  <1>3. \A r \in Requests : doc'[r] = "inserted" <=> doc[r] = "inserted"
    OBVIOUS
  <1>4. \A k : Stored(k)' <=> Stored(k)
    BY <1>3 DEF Stored
  <1>5. NoCommandLost'
    <2>1. IsInjective(channel') /\ IsInjective(batch') /\ Len(carry') <= 1
      BY ToSetEmpty DEF WriterInv, NoCommandLost
    <2>2. ToSet(carry') \cap ToSet(channel') = {}
      BY ToSetEmpty DEF WriterInv, NoCommandLost
    <2>3. \A r \in Requests : call'[r] = "waiting" => r \in Queued'
      BY <1>2 DEF WriterInv, NoCommandLost, Answers
    <2> QED BY <2>1, <2>2, <2>3 DEF NoCommandLost
  <1>6. SentOnce'
    <2>1. \A r \in Queued' : call'[r] \in {"waiting", "cancelled"}
      BY <1>1, <1>2 DEF WriterInv, SentOnce
    <2>2. \A r \in Requests : call'[r] \in {"idle", "sending"} => doc'[r] = "none"
      BY <1>2 DEF WriterInv, SentOnce, Answers
    <2>3. \A r \in ToSet(channel') \cup ToSet(carry') : doc'[r] = "none"
      BY <1>1, ToSetEmpty DEF WriterInv, SentOnce, Queued
    <2> QED BY <2>1, <2>2, <2>3 DEF SentOnce
  <1>7. UniqueInStore'
    BY <1>3, <1>4 DEF WriterInv, UniqueInStore
  <1>8. AckDurable'
    BY <1>2, <1>3, <1>4 DEF WriterInv, AckDurable, UniqueInStore
  <1>9. HandoffDurable'
    <2>1. \A r \in handed' : r \in Requests
      BY DEF TypeOK
    <2>2. ASSUME NEW r \in handed', r \in handed
          PROVE  doc'[r] = "inserted" /\ call'[r] \in {"accepted", "cancelled"}
      BY <2>1, <2>2, <1>2 DEF WriterInv, HandoffDurable
    <2>3. ASSUME NEW r \in handed', r \notin handed
          PROVE  doc'[r] = "inserted" /\ call'[r] \in {"accepted", "cancelled"}
      BY <2>1, <2>3, <1>2 DEF WriterInv, SentOnce
    <2> QED BY <2>2, <2>3 DEF HandoffDurable
  <1>10. UnavailableIsDefiniteWhileServing'
    BY <1>2 DEF WriterInv, UnavailableIsDefiniteWhileServing
  <1> QED BY <1>5, <1>6, <1>7, <1>8, <1>9, <1>10 DEF WriterInv

\* Giving up at the drain deadline.
LEMMA DrainDeadlineStep == ASSUME WriterInv, DrainDeadline PROVE WriterInv'
  <1>1. stopping /\ shutdown /\ pc = "drainflush"
    BY DEF DrainDeadline, WriterInv, PhasesConsistent
  <1>2. Unavailable \in [Requests -> Answers]
    BY DEF Unavailable, Answers
  <1>3. call' \in [Requests -> CallStates]
    BY DEF DrainDeadline, Answer, Unavailable, WriterInv, TypeOK, CallStates, Answers
  <1>4. TypeOK'
    BY <1>3 DEF DrainDeadline, WriterInv, TypeOK, Open
  <1>5. PhasesConsistent' /\ ~Flushing'
    BY <1>1 DEF DrainDeadline, PhasesConsistent, Flushing
  <1>6. ToSet(batch') = {} /\ Queued' = Queued \ ToSet(batch) /\ ToSet(batch) \subseteq Queued
    BY ToSetEmpty DEF DrainDeadline, WriterInv, NoCommandLost, Queued
  <1>7. \A r \in Requests : Unavailable[r] = "unavailable"
    BY DEF Unavailable
  <1>8. ToSet(batch) \subseteq Requests
    BY ToSetType DEF WriterInv, TypeOK
  <1> QED
    BY <1>1, <1>2, <1>4, <1>5, <1>6, <1>7, <1>8, Answered DEF DrainDeadline

\* Closing the channel.
LEMMA CloseStep == ASSUME WriterInv, Close PROVE WriterInv'
  <1> DEFINE R == ToSet(channel) \cup ToSet(carry)
  <1>1. stopping /\ shutdown /\ pc = "closing" /\ batch = <<>>
    BY DEF Close, WriterInv, PhasesConsistent
  <1>2. Unavailable \in [Requests -> Answers]
    BY DEF Unavailable, Answers
  <1>3. call' \in [Requests -> CallStates]
    BY DEF Close, Answer, Unavailable, WriterInv, TypeOK, CallStates, Answers
  <1>4. TypeOK'
    <2>1. channel' \in Seq(Requests) /\ carry' \in Seq(Requests)
      BY DEF Close
    <2> QED BY <2>1, <1>3 DEF Close, WriterInv, TypeOK
  <1>5. PhasesConsistent' /\ ~Flushing'
    BY <1>1 DEF Close, PhasesConsistent, Flushing
  <1>6. ToSet(batch') = {} /\ Queued' = Queued \ R /\ R \subseteq Queued
    BY <1>1, ToSetEmpty DEF Close, Queued
  <1>7. \A r \in Requests : Unavailable[r] = "unavailable"
    BY DEF Unavailable
  <1>8. R \subseteq Requests
    BY ToSetType DEF WriterInv, TypeOK
  <1>9. call' = Answer(R, Unavailable)
    BY DEF Close
  <1> HIDE DEF R
  <1> QED
    BY <1>1, <1>2, <1>4, <1>5, <1>6, <1>7, <1>8, <1>9, Answered DEF Close

\* What FinishFlush does, in the form Answered needs: the batch is answered with
\* a, and a carry the stopping writer rejects is answered unavailable.
LEMMA Finish ==
  ASSUME WriterInv, Flushing, NEW a \in [Requests -> Answers], FinishFlush(a),
         doc' \in [Requests -> DocStates], handed' \in SUBSET Requests,
         \A r \in Requests : doc'[r] = doc[r] \/ (doc[r] = "sent" /\ doc'[r] = "void"),
         \A r \in handed' \ handed :
             r \in ToSet(batch) /\ doc[r] = "inserted" /\ a[r] = "accepted",
         \A r \in ToSet(batch) :
             /\ a[r] = "accepted" => doc[r] = "inserted"
             /\ a[r] = "duplicate" => doc[r] = "duplicate"
             /\ a[r] = "unavailable" => doc'[r] \notin {"sent", "inserted"}
  PROVE  WriterInv'
  <1> DEFINE both == pc = "flush" /\ stopping
             R == ToSet(batch) \cup (IF both THEN ToSet(carry) ELSE {})
             b == [r \in Requests |-> IF r \in ToSet(batch) THEN a[r] ELSE "unavailable"]
  <1>1. b \in [Requests -> Answers]
    BY DEF Answers
  <1>2. ToSet(batch) \subseteq Requests /\ R \subseteq Requests /\ R \subseteq Queued
    BY ToSetType DEF WriterInv, TypeOK, Queued
  <1>3. call' = Answer(R, b)
    <2>1. CASE both
      BY <2>1 DEF FinishFlush
    <2>2. CASE ~both
      <3>1. call' = Answer(ToSet(batch), a) /\ R = ToSet(batch)
        BY <2>2 DEF FinishFlush
      <3>2. \A r \in R : b[r] = a[r]
        BY <3>1, <1>2
      <3> QED BY <3>1, <3>2 DEF Answer
    <2> QED BY <2>1, <2>2
  <1>4. /\ batch' = <<>> /\ bytes' = 0 /\ ToSet(batch') = {} /\ channel' = channel
        /\ carry' = IF both THEN <<>> ELSE carry
        /\ UNCHANGED <<stopping, accepting, shutdown>>
        /\ pc' = IF stopping THEN "drain" ELSE "recv"
    BY ToSetEmpty DEF FinishFlush
  <1>5. Queued' = Queued \ R
    BY <1>4, ToSetEmpty DEF Queued, WriterInv, NoCommandLost
  <1>6. call' \in [Requests -> CallStates]
    BY <1>1, <1>3 DEF Answer, WriterInv, TypeOK, CallStates
  <1>7. TypeOK'
    BY <1>4, <1>6 DEF WriterInv, TypeOK, Open
  <1>8. PhasesConsistent' /\ ~Flushing'
    BY <1>4 DEF WriterInv, PhasesConsistent, Flushing
  <1>9. \A r \in handed' \ handed : r \in R /\ doc[r] = "inserted" /\ b[r] = "accepted"
    BY <1>2
  <1>10. \A r \in R : /\ b[r] = "accepted" => doc[r] = "inserted"
                      /\ b[r] = "duplicate" => doc[r] = "duplicate"
                      /\ b[r] = "unavailable" => shutdown \/ doc'[r] \notin {"sent", "inserted"}
    BY <1>2 DEF WriterInv, PhasesConsistent
  <1>11. carry' = carry \/ carry' = <<>>
    BY <1>4
  <1> HIDE DEF both, R, b
  <1> QED BY <1>1, <1>2, <1>3, <1>4, <1>5, <1>7, <1>8, <1>9, <1>10, <1>11, Answered

\* Answering a flushed batch from the statuses of its documents.
LEMMA FlushReplyStep == ASSUME WriterInv, FlushReply PROVE WriterInv'
  <1>1. StatusAnswer \in [Requests -> Answers]
    BY DEF StatusAnswer, Answers
  <1>2. ToSet(batch) \subseteq Requests
    BY ToSetType DEF WriterInv, TypeOK
  <1>3. PICK taken \in SUBSET {r \in ToSet(batch) : doc[r] = "inserted"} :
            handed' = handed \cup taken
    BY DEF FlushReply
  <1>4. \A r \in ToSet(batch) :
          /\ StatusAnswer[r] = "accepted" <=> doc[r] = "inserted"
          /\ StatusAnswer[r] = "duplicate" <=> doc[r] = "duplicate"
          /\ StatusAnswer[r] = "unavailable" => doc[r] = "rejected"
    BY <1>2 DEF StatusAnswer, FlushReply
  <1>5. handed' \in SUBSET Requests /\ doc' = doc /\ Flushing /\ FinishFlush(StatusAnswer)
    BY <1>2, <1>3 DEF FlushReply, WriterInv, TypeOK
  <1>6. doc \in [Requests -> DocStates]
    BY DEF WriterInv, TypeOK
  <1> QED BY <1>1, <1>2, <1>3, <1>4, <1>5, <1>6, Finish

\* Answering a batch whose transaction was rolled back.
LEMMA FlushUnavailableStep == ASSUME WriterInv, FlushUnavailable PROVE WriterInv'
  <1>1. Unavailable \in [Requests -> Answers] /\ \A r \in Requests : Unavailable[r] = "unavailable"
    BY DEF Unavailable, Answers
  <1>2. ToSet(batch) \subseteq Requests
    BY ToSetType DEF WriterInv, TypeOK
  <1>3. /\ doc' \in [Requests -> DocStates] /\ handed' = handed /\ Flushing
        /\ handed \in SUBSET Requests /\ FinishFlush(Unavailable)
    BY DEF FlushUnavailable, WriterInv, TypeOK, DocStates
  <1>4. \A r \in Requests : \/ r \in ToSet(batch) /\ doc[r] = "sent" /\ doc'[r] = "void"
                            \/ r \notin ToSet(batch) /\ doc'[r] = doc[r]
    BY DEF FlushUnavailable
  <1> QED BY <1>1, <1>2, <1>3, <1>4, Finish

\* Answering a batch of unknown outcome.
LEMMA FlushAmbiguousStep == ASSUME WriterInv, FlushAmbiguous PROVE WriterInv'
  <1>1. Ambiguous \in [Requests -> Answers] /\ \A r \in Requests : Ambiguous[r] = "ambiguous"
    BY DEF Ambiguous, Answers
  <1>2. ToSet(batch) \subseteq Requests
    BY ToSetType DEF WriterInv, TypeOK
  <1>3. doc' = doc /\ handed' = handed /\ Flushing /\ FinishFlush(Ambiguous)
    BY DEF FlushAmbiguous
  <1>4. doc \in [Requests -> DocStates] /\ handed \in SUBSET Requests
    BY DEF WriterInv, TypeOK
  <1> QED BY <1>1, <1>2, <1>3, <1>4, Finish

-----------------------------------------------------------------------------

\* Every step of the writer, its callers and the store keeps the invariant.
LEMMA WriterStep == WriterInv /\ [Next]_vars => WriterInv'
  <1> SUFFICES ASSUME WriterInv, [Next]_vars PROVE WriterInv'
    OBVIOUS
  <1>1. CASE UNCHANGED vars
    BY <1>1 DEF vars, WriterInv, TypeOK, NoCommandLost, PhasesConsistent, SentOnce,
       UniqueInStore, AckDurable, HandoffDurable, Queued, Flushing, Stored,
       UnavailableIsDefiniteWhileServing
  <1>2. ASSUME NEW r \in Requests, Caller(r) PROVE WriterInv'
    BY <1>2, PersistStep, SendStep, SendClosedStep, CancelStep DEF Caller
  <1>3. ASSUME NEW r \in Requests, Store(r) PROVE WriterInv'
    BY <1>3, StoreApplyStep, StoreRejectStep DEF Store
  <1>4. CASE BeginShutdown
    BY <1>4, BeginShutdownStep
  <1>5. CASE Task
    BY <1>5, ReceiveStep, ShutdownWhileIdleStep, CollectNextStep, CollectDoneStep,
       ShutdownWhileCollectingStep, DrainFirstStep, DrainNextStep, DrainCollectedStep,
       DrainEmptyStep, DrainDeadlineStep, CloseStep, FlushReplyStep, FlushUnavailableStep,
       FlushAmbiguousStep DEF Task
  <1> QED BY <1>1, <1>2, <1>3, <1>4, <1>5 DEF Next, Finished

\* The inductive invariant of the writer holds in every reachable state.
THEOREM WriterInvariant == Spec => []WriterInv
  BY WriterInit, WriterStep, PTL DEF Spec

\* Type correctness of the writer's state.
THEOREM WriterTypeOK == Spec => []TypeOK
  <1>1. WriterInv => TypeOK
    BY DEF WriterInv
  <1> QED BY <1>1, WriterInvariant, PTL

\* A durable answer is never given for an event that is not in the store.
THEOREM WriterAckDurable == Spec => []AckDurable
  <1>1. WriterInv => AckDurable
    BY DEF WriterInv
  <1> QED BY <1>1, WriterInvariant, PTL

\* A waiting caller's command is always in exactly one of the writer's queues.
THEOREM WriterNoCommandLost == Spec => []NoCommandLost
  <1>1. WriterInv => NoCommandLost
    BY DEF WriterInv
  <1> QED BY <1>1, WriterInvariant, PTL

\* One Accepted answer and one handoff per event key, whatever is retried,
\* cancelled or timed out.
THEOREM WriterOneAcceptedPerKey == Spec => []OneAcceptedPerKey
  <1>1. WriterInv => OneAcceptedPerKey
    BY DEF WriterInv, TypeOK, AckDurable, UniqueInStore, HandoffDurable, OneAcceptedPerKey
  <1> QED BY <1>1, WriterInvariant, PTL

\* Until a shutdown begins, Unavailable means the event was not and will not be
\* stored.
THEOREM WriterUnavailableDefinite == Spec => []UnavailableIsDefiniteWhileServing
  <1>1. WriterInv => UnavailableIsDefiniteWhileServing
    BY DEF WriterInv
  <1> QED BY <1>1, WriterInvariant, PTL

=============================================================================
