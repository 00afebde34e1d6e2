-------------------------- MODULE ProcessingProofs --------------------------
(***************************************************************************)
(* Proofs about Processing for every set of events, either store and every *)
(* configuration the code accepts.                                         *)
(***************************************************************************)
EXTENDS Processing, TLAPS

USE EventsAssumption, ConfigAssumption, BoundsAssumption DEF ValidConfig

-----------------------------------------------------------------------------
(* Requests *)

\* A worker that gives up drops its receiver; its requests stay where they are.
LEMMA UnawaitFacts ==
  ASSUME NEW requests \in Seq(Requests), NEW e
  PROVE  /\ Unawait(requests, e) \in Seq(Requests)
         /\ Len(Unawait(requests, e)) = Len(requests)
         /\ \A i \in 1..Len(requests) : Unawait(requests, e)[i].key = requests[i].key
  <1>1. /\ Len(requests) \in Nat
        /\ \A i \in 1..Len(requests) : requests[i] \in Requests
    OBVIOUS
  <1>2. \A i \in 1..Len(requests) :
            /\ Unawait(requests, e)[i] \in Requests
            /\ Unawait(requests, e)[i].key = requests[i].key
    BY <1>1 DEF Unawait, Requests
  <1>3. Unawait(requests, e) \in [1..Len(requests) -> Requests]
    BY <1>1, <1>2 DEF Unawait
  <1>4. Unawait(requests, e) \in Seq(Requests)
    BY <1>1, <1>3
  <1>5. Len(Unawait(requests, e)) = Len(requests)
    BY <1>1, <1>3, <1>4
  <1> QED BY <1>2, <1>4, <1>5

\* The events of the batch at hand.
LEMMA BatchKeysType == ASSUME TypeOK PROVE BatchKeys \subseteq Events
  <1>1. \A i \in 1..Len(batch) : batch[i] \in Requests
    BY DEF TypeOK
  <1> QED BY <1>1 DEF BatchKeys, Requests

-----------------------------------------------------------------------------
(* The initial state and the steps *)

USE DEF durableVars, workerVars, batchVars

LEMMA ProcessingInit == Init => ProcessingInv
  <1> SUFFICES ASSUME Init PROVE ProcessingInv
    OBVIOUS
  <1>1. channel \in Seq(Requests) /\ batch \in Seq(Requests)
    BY DEF Init
  <1>2. 0 \in 0..MaxAttempts /\ 0 \in 0..(MaxAttempts - 1) /\ 0 \in 0..MaxFaults
    OBVIOUS
  <1>3. TypeOK
    BY <1>1, <1>2 DEF Init, TypeOK, Phases
  <1> QED BY <1>3 DEF Init, ProcessingInv, TypeOK, AttemptsWithinLimit,
             RecordsWithinLimit, BatchConsistent, OkMeansDone, CountedAtLeastOnce,
             CountedExactlyOnce

\* What leaves the durable state and the batch alone.
LEMMA FrameStep ==
  ASSUME ProcessingInv, TypeOK',
         UNCHANGED <<transactional, stored, attempts, counted, hourly, fenced, abandoned,
                     phase, pending, result>>,
         phase \in {"issues", "hourly", "events", "reply"} => BatchKeys' = BatchKeys
  PROVE  ProcessingInv'
  BY DEF ProcessingInv, TypeOK, AttemptsWithinLimit, RecordsWithinLimit,
     BatchConsistent, OkMeansDone, CountedAtLeastOnce, CountedExactlyOnce

\* Processor::process.
LEMMA ScheduleStep == ASSUME ProcessingInv, NEW e \in Events, Schedule(e) PROVE ProcessingInv'
  <1>1. TypeOK'
    <2>1. stored[e] = "pending" => attempts[e] \in 0..(MaxAttempts - 1)
      BY DEF ProcessingInv, TypeOK, AttemptsWithinLimit
    <2>2. 0 \in 0..(MaxAttempts - 1)
      OBVIOUS
    <2>3. PICK n \in 0..(MaxAttempts - 1) : scheduled' = [scheduled EXCEPT ![e] = n]
      BY <2>1, <2>2 DEF Schedule
    <2>4. worker' \in [Events -> {"idle", "stages", "waiting", "failing"}]
      BY DEF Schedule, ProcessingInv, TypeOK
    <2>5. scheduled' \in [Events -> 0..(MaxAttempts - 1)] /\ fresh' \in SUBSET Events
      BY <2>3 DEF Schedule, ProcessingInv, TypeOK
    <2> QED BY <2>4, <2>5 DEF Schedule, ProcessingInv, TypeOK
  <1> QED BY <1>1, FrameStep DEF Schedule, BatchKeys

LEMMA StageFailsStep ==
  ASSUME ProcessingInv, NEW e \in Events, StageFails(e) PROVE ProcessingInv'
  <1>1. PICK class \in {"temporary", "permanent"} : Fail(e, class)
    BY DEF StageFails
  <1>2. TypeOK'
    BY <1>1 DEF StageFails, Fail, ProcessingInv, TypeOK
  <1> QED BY <1>1, <1>2, FrameStep DEF StageFails, Fail, BatchKeys

LEMMA SubmitStep == ASSUME ProcessingInv, NEW e \in Events, Submit(e) PROVE ProcessingInv'
  <1>1. channel' \in Seq(Requests)
    BY DEF Submit, ProcessingInv, TypeOK, Requests
  <1>2. TypeOK'
    BY <1>1 DEF Submit, ProcessingInv, TypeOK
  <1> QED BY <1>2, FrameStep DEF Submit, BatchKeys

LEMMA StageDeadlineStep ==
  ASSUME ProcessingInv, NEW e \in Events, StageDeadline(e) PROVE ProcessingInv'
  <1>1. channel \in Seq(Requests) /\ batch \in Seq(Requests)
    BY DEF ProcessingInv, TypeOK
  <1>2. channel' \in Seq(Requests) /\ batch' \in Seq(Requests) /\ BatchKeys' = BatchKeys
    BY <1>1, UnawaitFacts DEF StageDeadline, BatchKeys
  <1>3. TypeOK'
    BY <1>2 DEF StageDeadline, Fail, ProcessingInv, TypeOK
  <1> QED BY <1>2, <1>3, FrameStep DEF StageDeadline, Fail

\* record_processing_failure takes a pending event one attempt further or fails it, and
\* touches no other.
LEMMA RecordFailureFacts ==
  ASSUME ProcessingInv, NEW r \in Records, RecordFailure(r),
         r.failed \/ r.expected + 1 < MaxAttempts
  PROVE  /\ stored' \in [Events -> {"pending", "processed", "failed"}]
         /\ attempts' \in [Events -> 0..MaxAttempts]
         /\ AttemptsWithinLimit'
         /\ \A e \in Events :
                \/ stored'[e] = stored[e] /\ attempts'[e] = attempts[e]
                \/ /\ stored[e] = "pending" /\ stored'[e] \in {"pending", "failed"}
                   /\ attempts'[e] = attempts[e] + 1
  <1> DEFINE k == r.key
  <1>1. k \in Events /\ r.expected \in Nat /\ r.failed \in BOOLEAN
    BY DEF Records
  <1>2. /\ stored \in [Events -> {"pending", "processed", "failed"}]
        /\ attempts \in [Events -> 0..MaxAttempts]
    BY DEF ProcessingInv, TypeOK
  <1>3. CASE stored[k] = "pending" /\ attempts[k] = r.expected
    <2>1. attempts[k] < MaxAttempts
      BY <1>1, <1>3 DEF ProcessingInv, AttemptsWithinLimit
    <2>2. /\ attempts' = [attempts EXCEPT ![k] = r.expected + 1]
          /\ stored' = [stored EXCEPT ![k] = IF r.failed THEN "failed" ELSE "pending"]
      BY <1>3 DEF RecordFailure
    <2>3. r.expected + 1 \in 0..MaxAttempts
      BY <1>1, <1>3, <2>1
    <2>4. /\ attempts' \in [Events -> 0..MaxAttempts]
          /\ stored' \in [Events -> {"pending", "processed", "failed"}]
      BY <1>2, <2>2, <2>3
    <2>5. ASSUME NEW e \in Events, e # k
          PROVE  stored'[e] = stored[e] /\ attempts'[e] = attempts[e]
      BY <1>2, <2>2, <2>5
    <2>6. /\ stored'[k] = IF r.failed THEN "failed" ELSE "pending"
          /\ attempts'[k] = r.expected + 1
      BY <1>1, <1>2, <2>2
    <2>7. AttemptsWithinLimit'
      BY <1>1, <2>5, <2>6 DEF ProcessingInv, AttemptsWithinLimit
    <2> HIDE DEF k
    <2> QED BY <1>3, <2>4, <2>5, <2>6, <2>7
  <1>4. CASE ~(stored[k] = "pending" /\ attempts[k] = r.expected)
    BY <1>2, <1>4 DEF RecordFailure, ProcessingInv, AttemptsWithinLimit
  <1> QED BY <1>3, <1>4

\* A failure settles no batch: what is recorded beside the batcher keeps the invariant.
LEMMA RecordStep ==
  ASSUME ProcessingInv, NEW r \in Records, RecordFailure(r),
         r.failed \/ r.expected + 1 < MaxAttempts,
         TypeOK', RecordsWithinLimit',
         UNCHANGED <<transactional, counted, hourly, fenced, batchVars>>
  PROVE  ProcessingInv'
  <1>1. /\ AttemptsWithinLimit'
        /\ \A e \in Events : \/ stored'[e] = stored[e]
                             \/ stored[e] = "pending" /\ stored'[e] \in {"pending", "failed"}
    BY RecordFailureFacts
  <1>2. BatchKeys' = BatchKeys /\ BatchKeys \subseteq Events
    BY BatchKeysType DEF BatchKeys, ProcessingInv
  <1>3. pending \subseteq Events
    BY DEF ProcessingInv, TypeOK
  <1>4. BatchConsistent'
    BY <1>1, <1>2, <1>3 DEF ProcessingInv, BatchConsistent
  <1>5. OkMeansDone'
    BY <1>1, <1>2 DEF ProcessingInv, OkMeansDone
  <1>6. CountedAtLeastOnce' /\ CountedExactlyOnce'
    BY <1>1 DEF ProcessingInv, CountedAtLeastOnce, CountedExactlyOnce
  <1> QED BY <1>1, <1>4, <1>5, <1>6 DEF ProcessingInv

\* The failure of a worker's attempt.
LEMMA FailureOfFacts ==
  ASSUME ProcessingInv, NEW e \in Events
  PROVE  /\ FailureOf(e) \in Records
         /\ FailureOf(e).failed \/ FailureOf(e).expected + 1 < MaxAttempts
  <1>1. scheduled[e] \in Nat /\ Exhausted(e) \in BOOLEAN
    BY DEF ProcessingInv, TypeOK, Exhausted
  <1>2. ~Exhausted(e) => scheduled[e] + 1 < MaxAttempts
    BY <1>1 DEF Exhausted
  <1> QED BY <1>1, <1>2 DEF FailureOf, Records

LEMMA ReturnFacts ==
  ASSUME ProcessingInv, NEW e \in Events, Return(e)
  PROVE  /\ worker' \in [Events -> {"idle", "stages", "waiting", "failing"}]
         /\ scheduled' \in [Events -> 0..(MaxAttempts - 1)]
         /\ failure' \in [Events -> {"none", "temporary", "permanent"}]
  <1>1. 0 \in 0..(MaxAttempts - 1)
    OBVIOUS
  <1> QED BY <1>1 DEF Return, ProcessingInv, TypeOK

\* persist_failure: recorded in time, given up, or recorded late.
LEMMA WriteFailureStep ==
  ASSUME ProcessingInv, NEW e \in Events, WriteFailure(e) PROVE ProcessingInv'
  <1>1. RecordFailure(FailureOf(e)) /\ Return(e)
    BY DEF WriteFailure
  <1>2. TypeOK'
    BY <1>1, FailureOfFacts, RecordFailureFacts, ReturnFacts
       DEF WriteFailure, ProcessingInv, TypeOK
  <1>3. RecordsWithinLimit'
    BY DEF WriteFailure, ProcessingInv, RecordsWithinLimit
  <1> QED BY <1>1, <1>2, <1>3, FailureOfFacts, RecordStep DEF WriteFailure

LEMMA AbandonFailureStep ==
  ASSUME ProcessingInv, NEW e \in Events, AbandonFailure(e) PROVE ProcessingInv'
  <1>1. TypeOK'
    <2>1. Return(e) /\ abandoned' \in SUBSET Records /\ faults' \in 0..MaxFaults
      BY FailureOfFacts DEF AbandonFailure, ProcessingInv, TypeOK
    <2> QED BY <2>1, ReturnFacts DEF AbandonFailure, ProcessingInv, TypeOK
  <1>2. RecordsWithinLimit'
    BY FailureOfFacts DEF AbandonFailure, ProcessingInv, RecordsWithinLimit
  <1> QED BY <1>1, <1>2 DEF AbandonFailure, BatchKeys, ProcessingInv, TypeOK,
             AttemptsWithinLimit, RecordsWithinLimit, BatchConsistent, OkMeansDone,
             CountedAtLeastOnce, CountedExactlyOnce

LEMMA LateFailureStep ==
  ASSUME ProcessingInv, NEW r \in abandoned, LateFailure(r) PROVE ProcessingInv'
  <1>1. /\ r \in Records /\ RecordFailure(r)
        /\ r.failed \/ r.expected + 1 < MaxAttempts
    BY DEF LateFailure, ProcessingInv, TypeOK, RecordsWithinLimit
  <1>2. TypeOK'
    BY <1>1, RecordFailureFacts DEF LateFailure, ProcessingInv, TypeOK
  <1>3. RecordsWithinLimit'
    BY DEF LateFailure, ProcessingInv, RecordsWithinLimit
  <1> QED BY <1>1, <1>2, <1>3, RecordStep DEF LateFailure

LEMMA FenceStep == ASSUME ProcessingInv, NEW e \in Events, Fence(e) PROVE ProcessingInv'
  BY DEF Fence, BatchKeys, ProcessingInv, TypeOK, AttemptsWithinLimit,
     RecordsWithinLimit, BatchConsistent, OkMeansDone, CountedAtLeastOnce,
     CountedExactlyOnce

\* run_finalizer_batches: the batch at hand changes only before its store run begins and
\* after its replies.
LEMMA CollectStep == ASSUME ProcessingInv, Collect PROVE ProcessingInv'
  <1>1. batch' \in Seq(Requests) /\ channel' \in Seq(Requests)
    BY DEF Collect, ProcessingInv, TypeOK
  <1>2. TypeOK'
    BY <1>1 DEF Collect, ProcessingInv, TypeOK, Phases
  <1> QED BY <1>2 DEF Collect, ProcessingInv, TypeOK, AttemptsWithinLimit,
             RecordsWithinLimit, BatchConsistent, OkMeansDone, CountedAtLeastOnce,
             CountedExactlyOnce

LEMMA RefuseBatchStep == ASSUME ProcessingInv, RefuseBatch PROVE ProcessingInv'
  BY DEF RefuseBatch, Reply, Phases, ProcessingInv, TypeOK, AttemptsWithinLimit,
     RecordsWithinLimit, BatchConsistent, OkMeansDone, CountedAtLeastOnce,
     CountedExactlyOnce

LEMMA StartStoreStep == ASSUME ProcessingInv, StartStore PROVE ProcessingInv'
  BY DEF StartStore, Phases, ProcessingInv, TypeOK, AttemptsWithinLimit,
     RecordsWithinLimit, BatchConsistent, OkMeansDone, CountedAtLeastOnce,
     CountedExactlyOnce

LEMMA SendRepliesStep == ASSUME ProcessingInv, SendReplies PROVE ProcessingInv'
  <1>1. worker' \in [Events -> {"idle", "stages", "waiting", "failing"}]
    BY DEF SendReplies, ProcessingInv, TypeOK
  <1>2. failure' \in [Events -> {"none", "temporary", "permanent"}]
    BY DEF SendReplies, ProcessingInv, TypeOK
  <1>3. scheduled' \in [Events -> 0..(MaxAttempts - 1)]
    <2>1. 0 \in 0..(MaxAttempts - 1)
      OBVIOUS
    <2> QED BY <2>1 DEF SendReplies, ProcessingInv, TypeOK
  <1>4. TypeOK'
    BY <1>1, <1>2, <1>3 DEF SendReplies, ProcessingInv, TypeOK, Phases
  <1> QED BY <1>4 DEF SendReplies, ProcessingInv, TypeOK, AttemptsWithinLimit,
             RecordsWithinLimit, BatchConsistent, OkMeansDone, CountedAtLeastOnce,
             CountedExactlyOnce

LEMMA RejectRestStep == ASSUME ProcessingInv, RejectRest PROVE ProcessingInv'
  <1>1. /\ worker' \in [Events -> {"idle", "stages", "waiting", "failing"}]
        /\ failure' \in [Events -> {"none", "temporary", "permanent"}]
    BY DEF RejectRest, ProcessingInv, TypeOK
  <1>2. TypeOK'
    BY <1>1 DEF RejectRest, ProcessingInv, TypeOK
  <1> QED BY <1>2, FrameStep DEF RejectRest, BatchKeys

\* The four steps of finalize_inner on MongoDB.
LEMMA IncrementType ==
  ASSUME NEW f \in [Events -> Nat], NEW S
  PROVE  /\ Increment(f, S) \in [Events -> Nat]
         /\ \A e \in Events : Increment(f, S)[e] = IF e \in S THEN f[e] + 1 ELSE f[e]
  BY DEF Increment

LEMMA PendingEventsStep == ASSUME ProcessingInv, PendingEvents PROVE ProcessingInv'
  <1>1. BatchKeys' = BatchKeys /\ BatchKeys \subseteq Events
    BY BatchKeysType DEF PendingEvents, BatchKeys, ProcessingInv
  <1>2. TypeOK'
    BY <1>1 DEF PendingEvents, Reply, ProcessingInv, TypeOK, Phases
  <1>3. BatchConsistent' /\ OkMeansDone'
    BY <1>1 DEF PendingEvents, Reply, ProcessingInv, BatchConsistent, OkMeansDone
  <1> QED BY <1>2, <1>3 DEF PendingEvents, ProcessingInv, TypeOK, AttemptsWithinLimit,
             RecordsWithinLimit, BatchConsistent, OkMeansDone, CountedAtLeastOnce,
             CountedExactlyOnce

LEMMA UpdateIssuesStep == ASSUME ProcessingInv, UpdateIssues PROVE ProcessingInv'
  <1>1. /\ counted \in [Events -> Nat] /\ hourly \in [Events -> Nat]
        /\ pending \subseteq Events
    BY DEF ProcessingInv, TypeOK
  <1>2. /\ counted' \in [Events -> Nat]
        /\ \A e \in Events :
              counted'[e] = IF e \in pending THEN counted[e] + 1 ELSE counted[e]
    BY <1>1, IncrementType DEF UpdateIssues
  <1>3. TypeOK'
    BY <1>2 DEF UpdateIssues, ProcessingInv, TypeOK, Phases
  <1>4. CountedAtLeastOnce' /\ \A e \in pending : hourly[e] < counted'[e]
    BY <1>1, <1>2 DEF UpdateIssues, ProcessingInv, CountedAtLeastOnce
  <1>5. BatchConsistent' /\ CountedExactlyOnce' /\ OkMeansDone'
    BY <1>4 DEF UpdateIssues, BatchKeys, ProcessingInv, BatchConsistent,
       CountedExactlyOnce, OkMeansDone
  <1> QED BY <1>3, <1>4, <1>5 DEF UpdateIssues, ProcessingInv, AttemptsWithinLimit,
             RecordsWithinLimit

LEMMA UpdateHourlyStep == ASSUME ProcessingInv, UpdateHourly PROVE ProcessingInv'
  <1>1. /\ counted \in [Events -> Nat] /\ hourly \in [Events -> Nat]
        /\ pending \subseteq Events
    BY DEF ProcessingInv, TypeOK
  <1>2. /\ hourly' \in [Events -> Nat]
        /\ \A e \in Events : hourly'[e] = IF e \in pending THEN hourly[e] + 1 ELSE hourly[e]
    BY <1>1, IncrementType DEF UpdateHourly
  <1>3. TypeOK'
    BY <1>2 DEF UpdateHourly, ProcessingInv, TypeOK, Phases
  <1>4. \A e \in pending : hourly[e] < counted[e]
    BY DEF UpdateHourly, ProcessingInv, BatchConsistent
  <1>5. CountedAtLeastOnce' /\ \A e \in pending : hourly'[e] >= 1
    BY <1>1, <1>2, <1>4 DEF UpdateHourly, ProcessingInv, CountedAtLeastOnce
  <1>6. BatchConsistent' /\ CountedExactlyOnce' /\ OkMeansDone'
    BY <1>5 DEF UpdateHourly, BatchKeys, ProcessingInv, BatchConsistent,
       CountedExactlyOnce, OkMeansDone
  <1> QED BY <1>3, <1>5, <1>6 DEF UpdateHourly, ProcessingInv, AttemptsWithinLimit,
             RecordsWithinLimit

\* finalize_events and the transaction mark what is still pending.
LEMMA MarkProcessedFacts ==
  ASSUME ProcessingInv, NEW S, MarkProcessed(S)
  PROVE  /\ stored' \in [Events -> {"pending", "processed", "failed"}]
         /\ \A e \in Events :
                \/ stored'[e] = stored[e]
                \/ e \in S /\ stored[e] = "pending" /\ stored'[e] = "processed"
         /\ \A e \in Events : e \in S => stored'[e] # "pending"
         /\ UNCHANGED attempts => AttemptsWithinLimit'
  <1>1. stored \in [Events -> {"pending", "processed", "failed"}]
    BY DEF ProcessingInv, TypeOK
  <1>2. \A e \in Events : stored'[e] = IF e \in S /\ stored[e] = "pending"
                                       THEN "processed" ELSE stored[e]
    BY DEF MarkProcessed
  <1>3. stored' \in [Events -> {"pending", "processed", "failed"}]
    BY <1>1 DEF MarkProcessed
  <1> QED BY <1>2, <1>3 DEF ProcessingInv, AttemptsWithinLimit

LEMMA FinalizeEventsStep == ASSUME ProcessingInv, FinalizeEvents PROVE ProcessingInv'
  <1>1. /\ stored' \in [Events -> {"pending", "processed", "failed"}]
        /\ \A e \in Events :
               \/ stored'[e] = stored[e]
               \/ e \in pending /\ stored[e] = "pending" /\ stored'[e] = "processed"
        /\ \A e \in Events : e \in pending => stored'[e] # "pending"
        /\ AttemptsWithinLimit'
    BY MarkProcessedFacts DEF FinalizeEvents
  <1>2. BatchKeys' = BatchKeys /\ BatchKeys \subseteq Events
    BY BatchKeysType DEF FinalizeEvents, BatchKeys, ProcessingInv
  <1>3. TypeOK'
    BY <1>1 DEF FinalizeEvents, Reply, ProcessingInv, TypeOK, Phases
  <1>4. OkMeansDone'
    BY <1>1, <1>2 DEF FinalizeEvents, Reply, ProcessingInv, BatchConsistent, OkMeansDone
  <1>5. CountedAtLeastOnce' /\ CountedExactlyOnce'
    BY <1>1 DEF FinalizeEvents, ProcessingInv, BatchConsistent, CountedAtLeastOnce,
       CountedExactlyOnce
  <1>6. BatchConsistent' /\ RecordsWithinLimit'
    BY DEF FinalizeEvents, Reply, ProcessingInv, BatchConsistent, RecordsWithinLimit
  <1> QED BY <1>1, <1>3, <1>4, <1>5, <1>6 DEF ProcessingInv

LEMMA StoreFailsFacts ==
  ASSUME StoreFails PROVE phase' = "reply" /\ result' \in {"temporary", "permanent"}
  BY DEF StoreFails, Reply

\* A step of finalize_inner that fails half way.
LEMMA MongoFailsStep == ASSUME ProcessingInv, MongoFails PROVE ProcessingInv'
  <1>1. /\ counted \in [Events -> Nat] /\ hourly \in [Events -> Nat]
        /\ pending \subseteq Events
        /\ stored \in [Events -> {"pending", "processed", "failed"}]
    BY DEF ProcessingInv, TypeOK
  <1>2. PICK done \in SUBSET pending :
          /\ IF phase = "issues" THEN counted' = Increment(counted, done)
                                 ELSE UNCHANGED counted
          /\ IF phase = "hourly" THEN hourly' = Increment(hourly, done)
                                 ELSE UNCHANGED hourly
          /\ IF phase = "events" THEN MarkProcessed(done) ELSE UNCHANGED stored
    BY DEF MongoFails
  <1>3. phase' = "reply" /\ result' \in {"temporary", "permanent"} /\ ~transactional
    BY StoreFailsFacts DEF MongoFails, ProcessingInv, BatchConsistent
  <1>4. /\ counted' \in [Events -> Nat] /\ hourly' \in [Events -> Nat]
        /\ \A e \in Events : counted'[e] >= counted[e] /\ hourly'[e] >= hourly[e]
        /\ \A e \in Events : hourly'[e] <= counted'[e]
    <2>1. CASE phase = "issues"
      BY <1>1, <1>2, <2>1, IncrementType DEF ProcessingInv, CountedAtLeastOnce
    <2>2. CASE phase = "hourly"
      BY <1>1, <1>2, <2>2, IncrementType DEF ProcessingInv, CountedAtLeastOnce,
         BatchConsistent
    <2>3. CASE phase \notin {"issues", "hourly"}
      BY <1>1, <1>2, <2>3 DEF ProcessingInv, CountedAtLeastOnce
    <2> QED BY <2>1, <2>2, <2>3
  <1>5. /\ stored' \in [Events -> {"pending", "processed", "failed"}]
        /\ AttemptsWithinLimit'
        /\ \A e \in Events : stored'[e] = "processed" => hourly[e] >= 1
    <2>1. CASE phase = "events"
      <3>1. MarkProcessed(done) /\ UNCHANGED attempts
        BY <1>2, <2>1 DEF MongoFails
      <3>2. \A e \in done : hourly[e] >= 1
        BY <2>1, <1>2 DEF ProcessingInv, BatchConsistent
      <3> QED BY <3>1, <3>2, MarkProcessedFacts DEF ProcessingInv, CountedAtLeastOnce
    <2>2. CASE phase # "events"
      BY <1>1, <1>2, <2>2 DEF MongoFails, ProcessingInv, AttemptsWithinLimit,
         CountedAtLeastOnce
    <2> QED BY <2>1, <2>2
  <1>6. TypeOK'
    BY <1>3, <1>4, <1>5 DEF MongoFails, ProcessingInv, TypeOK, Phases
  <1>7. CountedAtLeastOnce'
    BY <1>1, <1>4, <1>5 DEF CountedAtLeastOnce
  <1>8. BatchConsistent' /\ OkMeansDone' /\ CountedExactlyOnce' /\ RecordsWithinLimit'
    BY <1>3 DEF MongoFails, ProcessingInv, BatchConsistent, OkMeansDone,
       CountedExactlyOnce, RecordsWithinLimit
  <1> QED BY <1>5, <1>6, <1>7, <1>8 DEF ProcessingInv

\* The transaction of PostgreSQL: an event is counted in the step that settles it.
LEMMA CommitStep == ASSUME ProcessingInv, Commit PROVE ProcessingInv'
  <1>1. /\ counted \in [Events -> Nat] /\ hourly \in [Events -> Nat]
        /\ BatchKeys \subseteq Events /\ BatchKeys' = BatchKeys
        /\ Eligible \subseteq Events /\ UNCHANGED attempts
    BY BatchKeysType DEF Commit, BatchKeys, ProcessingInv, TypeOK, Eligible
  <1>2. /\ counted' \in [Events -> Nat] /\ hourly' \in [Events -> Nat]
        /\ \A e \in Events :
              /\ counted'[e] = IF e \in Eligible THEN counted[e] + 1 ELSE counted[e]
              /\ hourly'[e] = IF e \in Eligible THEN hourly[e] + 1 ELSE hourly[e]
    BY <1>1, IncrementType DEF Commit
  <1>3. /\ stored' \in [Events -> {"pending", "processed", "failed"}]
        /\ \A e \in Events :
               \/ stored'[e] = stored[e]
               \/ e \in Eligible /\ stored[e] = "pending" /\ stored'[e] = "processed"
        /\ \A e \in Events : e \in Eligible => stored'[e] # "pending"
        /\ AttemptsWithinLimit'
    <2>1. MarkProcessed(Eligible)
      BY DEF Commit
    <2> QED BY <1>1, <2>1, MarkProcessedFacts
  <1>4. phase' = "reply" /\ result' \in {"ok", "temporary"}
    BY DEF Commit, Reply
  <1>5. TypeOK'
    BY <1>1, <1>2, <1>3, <1>4 DEF Commit, ProcessingInv, TypeOK, Phases
  <1>6. \A e \in Eligible : stored[e] = "pending"
    BY DEF Eligible
  <1>7. CountedAtLeastOnce'
    BY <1>1, <1>2, <1>3 DEF ProcessingInv, CountedAtLeastOnce
  <1>8. CountedExactlyOnce'
    BY <1>1, <1>2, <1>3, <1>6 DEF Commit, ProcessingInv, CountedExactlyOnce
  <1>9. OkMeansDone'
    BY <1>1, <1>3 DEF Commit, OkMeansDone, Eligible
  <1>10. BatchConsistent' /\ RecordsWithinLimit'
    BY <1>4 DEF Commit, ProcessingInv, BatchConsistent, RecordsWithinLimit
  <1> QED BY <1>3, <1>5, <1>7, <1>8, <1>9, <1>10 DEF ProcessingInv

LEMMA RollbackStep == ASSUME ProcessingInv, Rollback PROVE ProcessingInv'
  <1>1. phase' = "reply" /\ result' \in {"temporary", "permanent"}
    BY StoreFailsFacts DEF Rollback
  <1> QED BY <1>1 DEF Rollback, Phases, ProcessingInv, TypeOK, AttemptsWithinLimit,
             RecordsWithinLimit, BatchConsistent, OkMeansDone, CountedAtLeastOnce,
             CountedExactlyOnce

\* Stopping: what is durable stays.
LEMMA CloseBatcherStep == ASSUME ProcessingInv, CloseBatcher PROVE ProcessingInv'
  <1>1. TypeOK'
    BY DEF CloseBatcher, ProcessingInv, TypeOK
  <1> QED BY <1>1, FrameStep DEF CloseBatcher, BatchKeys

LEMMA RestartStep ==
  ASSUME ProcessingInv, Restart, faults' \in 0..MaxFaults PROVE ProcessingInv'
  <1>1. /\ 0 \in 0..(MaxAttempts - 1)
        /\ channel' \in Seq(Requests) /\ batch' \in Seq(Requests)
    BY DEF Restart
  <1>2. TypeOK'
    BY <1>1 DEF Restart, ProcessingInv, TypeOK, Phases
  <1> QED BY <1>2 DEF Restart, ProcessingInv, TypeOK, AttemptsWithinLimit,
             RecordsWithinLimit, BatchConsistent, OkMeansDone, CountedAtLeastOnce,
             CountedExactlyOnce

LEMMA StutterStep == ASSUME ProcessingInv, UNCHANGED vars PROVE ProcessingInv'
  BY DEF vars, BatchKeys, ProcessingInv, TypeOK, AttemptsWithinLimit,
     RecordsWithinLimit, BatchConsistent, OkMeansDone, CountedAtLeastOnce,
     CountedExactlyOnce

-----------------------------------------------------------------------------
(* Theorems *)

\* Every step of the workers, the batcher, either store and the faults keeps the
\* inductive invariant.
LEMMA ProcessingNext == ProcessingInv /\ [Next]_vars => ProcessingInv'
  <1> SUFFICES ASSUME ProcessingInv, [Next]_vars PROVE ProcessingInv'
    OBVIOUS
  <1>1. CASE \E e \in Events : Schedule(e) \/ Worker(e) \/ Fence(e)
    BY <1>1, ScheduleStep, StageFailsStep, SubmitStep, StageDeadlineStep,
       WriteFailureStep, AbandonFailureStep, FenceStep DEF Worker
  <1>2. CASE \E r \in abandoned : LateFailure(r)
    BY <1>2, LateFailureStep
  <1>3. CASE Collect \/ RefuseBatch \/ StartStore \/ SendReplies \/ RejectRest
    BY <1>3, CollectStep, RefuseBatchStep, StartStoreStep, SendRepliesStep, RejectRestStep
  <1>4. CASE PendingEvents \/ UpdateIssues \/ UpdateHourly \/ FinalizeEvents \/ MongoFails
    BY <1>4, PendingEventsStep, UpdateIssuesStep, UpdateHourlyStep, FinalizeEventsStep,
       MongoFailsStep
  <1>5. CASE Commit \/ Rollback
    BY <1>5, CommitStep, RollbackStep
  <1>6. CASE CloseBatcher
    BY <1>6, CloseBatcherStep
  <1>7. CASE Exit \/ Crash
    <2>1. Restart /\ faults' \in 0..MaxFaults
      BY <1>7 DEF Exit, Crash, ProcessingInv, TypeOK
    <2> QED BY <2>1, RestartStep
  <1>8. CASE UNCHANGED vars
    BY <1>8, StutterStep
  <1> QED BY <1>1, <1>2, <1>3, <1>4, <1>5, <1>6, <1>7, <1>8 DEF Next, Batcher

\* The inductive invariant holds in every reachable state.
THEOREM ProcessingInvariant == Spec => []ProcessingInv
  BY ProcessingInit, ProcessingNext, PTL DEF Spec

\* Every variable keeps its type; attempts never pass max_attempts.
THEOREM ProcessingTypeOK == Spec => []TypeOK
  <1>1. ProcessingInv => TypeOK
    BY DEF ProcessingInv
  <1> QED BY <1>1, ProcessingInvariant, PTL

\* persist_failure leaves no event pending that has used up its attempts, although copies
\* are stale and records come late.
THEOREM ProcessingAttemptsWithinLimit == Spec => []AttemptsWithinLimit
  <1>1. ProcessingInv => AttemptsWithinLimit
    BY DEF ProcessingInv
  <1> QED BY <1>1, ProcessingInvariant, PTL

\* A batch that finalize reports finalized has no pending event left, save fenced ones.
THEOREM ProcessingOkMeansDone == Spec => []OkMeansDone
  <1>1. ProcessingInv => OkMeansDone
    BY DEF ProcessingInv
  <1> QED BY <1>1, ProcessingInvariant, PTL

\* On MongoDB no event is processed that was not counted, wherever finalize_inner was cut
\* off and however often it was run again.
THEOREM ProcessingCountedAtLeastOnce == Spec => []CountedAtLeastOnce
  <1>1. ProcessingInv => CountedAtLeastOnce
    BY DEF ProcessingInv
  <1> QED BY <1>1, ProcessingInvariant, PTL

\* On PostgreSQL an event is counted once when it is processed, and not at all otherwise.
THEOREM ProcessingCountedExactlyOnce == Spec => []CountedExactlyOnce
  <1>1. ProcessingInv => CountedExactlyOnce
    BY DEF ProcessingInv
  <1> QED BY <1>1, ProcessingInvariant, PTL

\* What a step does to an event's state and attempts at all.
LEMMA DurableStep ==
  ASSUME ProcessingInv, [Next]_vars, NEW e \in Events
  PROVE  \/ stored'[e] = stored[e] /\ attempts'[e] = attempts[e]
         \/ /\ stored[e] = "pending"
            /\ attempts'[e] \in {attempts[e], attempts[e] + 1}
  <1>1. CASE \E x \in Events : WriteFailure(x)
    <2>1. PICK x \in Events : WriteFailure(x)
      BY <1>1
    <2>2. RecordFailure(FailureOf(x))
      BY <2>1 DEF WriteFailure
    <2> QED BY <2>2, FailureOfFacts, RecordFailureFacts
  <1>2. CASE \E r \in abandoned : LateFailure(r)
    <2>1. PICK r \in abandoned : LateFailure(r)
      BY <1>2
    <2>2. /\ r \in Records /\ RecordFailure(r)
          /\ r.failed \/ r.expected + 1 < MaxAttempts
      BY <2>1 DEF LateFailure, ProcessingInv, TypeOK, RecordsWithinLimit
    <2> QED BY <2>2, RecordFailureFacts
  <1>3. CASE FinalizeEvents \/ Commit
    <2>1. UNCHANGED attempts /\ \E S : MarkProcessed(S)
      BY <1>3 DEF FinalizeEvents, Commit
    <2> QED BY <2>1, MarkProcessedFacts
  <1>4. CASE MongoFails
    <2>1. UNCHANGED attempts /\ (UNCHANGED stored \/ \E S : MarkProcessed(S))
      BY <1>4 DEF MongoFails
    <2> QED BY <2>1, MarkProcessedFacts
  <1>5. CASE UNCHANGED <<stored, attempts>>
    BY <1>5
  <1>6. \/ UNCHANGED <<stored, attempts>> \/ FinalizeEvents \/ Commit \/ MongoFails
        \/ (\E x \in Events : WriteFailure(x)) \/ (\E r \in abandoned : LateFailure(r))
    BY DEF Next, vars, Worker, Batcher, Schedule, Fence, StageFails, Submit,
       StageDeadline, AbandonFailure, Collect, RefuseBatch, StartStore, SendReplies,
       RejectRest, PendingEvents, UpdateIssues, UpdateHourly, Rollback, CloseBatcher,
       Exit, Crash, Restart
  <1> QED BY <1>1, <1>2, <1>3, <1>4, <1>5, <1>6

\* No step of any worker, store or late record touches a processed or failed event.
THEOREM ProcessingTerminalIsFinal == Spec => TerminalIsFinal
  <1>1. ProcessingInv /\ [Next]_vars =>
          [\A e \in Events : stored[e] # "pending" =>
              stored'[e] = stored[e] /\ attempts'[e] = attempts[e]]_vars
    BY DurableStep
  <1> QED BY <1>1, ProcessingInvariant, PTL DEF Spec, TerminalIsFinal

\* No step gives an event its attempts back, or counts two at once.
THEOREM ProcessingAttemptsMonotone == Spec => AttemptsMonotone
  <1>1. ProcessingInv /\ [Next]_vars =>
          [\A e \in Events : attempts'[e] \in {attempts[e], attempts[e] + 1}]_vars
    BY DurableStep
  <1> QED BY <1>1, ProcessingInvariant, PTL DEF Spec, AttemptsMonotone

=============================================================================
