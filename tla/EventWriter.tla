----------------------------- MODULE EventWriter -----------------------------
(***************************************************************************)
(* The bounded durable micro-batching actor of crates/application/src/     *)
(* writer.rs together with the insert_batch of the event stores it calls   *)
(* (mongo/src/event.rs, postgres/src/events.rs).                           *)
(*                                                                         *)
(* A request is one call of EventSink::persist.  It passes the admission   *)
(* fence, is prepared, waits for room in the bounded channel and then for  *)
(* its oneshot answer.  One task (run_writer) collects commands into a     *)
(* batch, hands the batch to the store, and answers every command of it.   *)
(*                                                                         *)
(* The store is remote: a document that was sent may be applied at any     *)
(* later moment, also after the writer gave up waiting for the reply.      *)
(* Durations are not modelled; a timer is an action that may fire whenever *)
(* the code is waiting under it.                                           *)
(***************************************************************************)
EXTENDS Integers, Sequences, FiniteSets, SequencesExt

CONSTANTS
    Requests,         \* calls of persist
    Keys,             \* event keys: (project id, event id)
    KeyOf,            \* KeyOf[r]: the key of the event of call r
    SizeOf,           \* SizeOf[r]: encoded_len of its prepared document
    ChannelCapacity,  \* EventWriterConfig.channel_capacity
    MaxDocuments,     \* EventWriterConfig.max_documents
    MaxBytes          \* EventWriterConfig.max_bytes

ASSUME RequestsAssumption ==
    /\ IsFiniteSet(Requests)
    /\ KeyOf \in [Requests -> Keys]
    /\ SizeOf \in [Requests -> Nat]

\* validate_config; its 100..500 range for max_documents is scaled down.
ValidConfig ==
    /\ ChannelCapacity \in Nat \ {0}
    /\ MaxDocuments \in Nat \ {0}
    /\ MaxBytes \in Nat \ {0}

ASSUME ConfigAssumption == ValidConfig

VARIABLES
    call,       \* call[r]: where the caller of r is, or the answer it got
    doc,        \* doc[r]: what has become of the document of r in the store
    channel,    \* the bounded mpsc channel: sequence of requests
    batch,      \* the batch being collected or flushed
    bytes,      \* Batch::encoded_bytes of that batch
    carry,      \* the command that did not fit: sequence of length 0 or 1
    pc,         \* where run_writer / drain_writer is
    stopping,   \* the writer has seen the shutdown: it flushes and drains
    accepting,  \* the AtomicBool shared by the callers and the task
    shutdown,   \* the ShutdownSignal has been cancelled
    handed      \* requests whose event AcceptedEventHandoff::offer took

vars == <<call, doc, channel, batch, bytes, carry, pc, stopping, accepting,
          shutdown, handed>>

callVars == <<call, channel>>
taskVars == <<batch, bytes, carry, pc, stopping, accepting>>

-----------------------------------------------------------------------------

Answers == {"accepted", "duplicate", "unavailable", "ambiguous"}
Pending == {"sending", "waiting"}

\* "cancelled": the caller dropped the persist future before its answer.
CallStates == {"idle", "cancelled"} \cup Pending \cup Answers

\* "sent": handed to the store, outcome not decided.  "void": never written and
\* never will be.
DocStates == {"none", "sent", "inserted", "duplicate", "rejected", "void"}

Open == {"recv", "collect", "flush", "drain", "fill", "drainflush", "closing"}

TypeOK ==
    /\ call \in [Requests -> CallStates]
    /\ doc \in [Requests -> DocStates]
    /\ channel \in Seq(Requests)
    /\ batch \in Seq(Requests)
    /\ bytes \in Nat
    /\ carry \in Seq(Requests)
    /\ pc \in Open \cup {"stopped"}
    /\ stopping \in BOOLEAN
    /\ accepting \in BOOLEAN
    /\ shutdown \in BOOLEAN
    /\ handed \in SUBSET Requests

Stored(k) == \E r \in Requests : KeyOf[r] = k /\ doc[r] = "inserted"

\* The commands the writer holds.
Queued == ToSet(channel) \cup ToSet(carry) \cup ToSet(batch)

\* Send result a on the oneshots of the requests in R; a caller that is gone
\* does not see it.
Answer(R, a) ==
    [r \in Requests |-> IF r \in R /\ call[r] = "waiting" THEN a[r] ELSE call[r]]

Unavailable == [r \in Requests |-> "unavailable"]
Ambiguous   == [r \in Requests |-> "ambiguous"]

\* Batch::can_push
CanPush(r) ==
    /\ Len(batch) < MaxDocuments
    /\ \/ batch = <<>>
       \/ bytes + SizeOf[r] <= MaxBytes

-----------------------------------------------------------------------------
(* EventSink::persist *)

\* The is_accepting test and prepare, which are synchronous: the call is turned
\* away, its document cannot be prepared, or it starts to wait for room.
Persist(r) ==
    /\ call[r] = "idle"
    /\ \E outcome \in {"sending", "unavailable"} :
        /\ ~(accepting /\ ~shutdown) => outcome = "unavailable"
        /\ call' = [call EXCEPT ![r] = outcome]
    /\ UNCHANGED <<doc, channel, taskVars, shutdown, handed>>

\* sender.send(..).await got a slot.
Send(r) ==
    /\ call[r] = "sending"
    /\ pc \in Open
    /\ Len(channel) < ChannelCapacity
    /\ channel' = Append(channel, r)
    /\ call' = [call EXCEPT ![r] = "waiting"]
    /\ UNCHANGED <<doc, taskVars, shutdown, handed>>

\* sender.send(..).await failed: the receiver is gone.
SendClosed(r) ==
    /\ call[r] = "sending"
    /\ pc = "stopped"
    /\ call' = [call EXCEPT ![r] = "unavailable"]
    /\ UNCHANGED <<doc, channel, taskVars, shutdown, handed>>

\* The HTTP handler drops the future: client gone, or the shutdown branch of the
\* select in ingest.rs won.  A command already in the channel stays there.
CancelCall(r) ==
    /\ call[r] \in Pending
    /\ call' = [call EXCEPT ![r] = "cancelled"]
    /\ UNCHANGED <<doc, channel, taskVars, shutdown, handed>>

\* ShutdownRoot::begin
BeginShutdown ==
    /\ ~shutdown
    /\ shutdown' = TRUE
    /\ UNCHANGED <<callVars, doc, taskVars, handed>>

-----------------------------------------------------------------------------
(* run_writer and drain_writer *)

\* Batch::new from a single command.
NewBatch(r) ==
    /\ batch' = <<r>>
    /\ bytes' = SizeOf[r]

\* Take the first command of the next batch: the carried one, else the head of
\* the channel.
TakeFirst ==
    \/ /\ carry # <<>>
       /\ NewBatch(Head(carry))
       /\ carry' = <<>>
       /\ UNCHANGED channel
    \/ /\ carry = <<>>
       /\ channel # <<>>
       /\ NewBatch(Head(channel))
       /\ channel' = Tail(channel)
       /\ UNCHANGED carry

\* Hand the documents of the current batch to the store.
SendDocuments ==
    doc' = [r \in Requests |-> IF r \in ToSet(batch) THEN "sent" ELSE doc[r]]

\* Mutant: a command that does not fit is forgotten instead of carried.
CollectWithoutCarry(next) ==
    /\ Len(batch) < MaxDocuments
    /\ channel # <<>>
    /\ channel' = Tail(channel)
    /\ IF CanPush(Head(channel))
       THEN /\ batch' = Append(batch, Head(channel))
            /\ bytes' = bytes + SizeOf[Head(channel)]
            /\ UNCHANGED <<doc, pc>>
       ELSE /\ pc' = next
            /\ SendDocuments
            /\ UNCHANGED <<batch, bytes>>
    /\ UNCHANGED <<call, carry, stopping, accepting, shutdown, handed>>

\* The head of the channel joins the batch, or it does not fit: it becomes the
\* carry and the batch is flushed (control state next).
Collect(next) ==
    /\ Len(batch) < MaxDocuments
    /\ channel # <<>>
    /\ channel' = Tail(channel)
    /\ \/ /\ CanPush(Head(channel))
          /\ batch' = Append(batch, Head(channel))
          /\ bytes' = bytes + SizeOf[Head(channel)]
          /\ UNCHANGED <<doc, carry, pc>>
       \/ /\ ~CanPush(Head(channel))
          /\ carry' = <<Head(channel)>>
          /\ pc' = next
          /\ SendDocuments
          /\ UNCHANGED <<batch, bytes>>
    /\ UNCHANGED <<call, stopping, accepting, shutdown, handed>>

\* The select at the top of run_writer is biased: a visible shutdown wins over a
\* queued command, but a carried command is taken without looking.
Receive ==
    /\ pc = "recv"
    /\ carry # <<>> \/ ~shutdown
    /\ TakeFirst
    /\ pc' = "collect"
    /\ UNCHANGED <<call, doc, stopping, accepting, shutdown, handed>>

ShutdownWhileIdle ==
    /\ pc = "recv"
    /\ carry = <<>>
    /\ shutdown
    /\ accepting' = FALSE
    /\ stopping' = TRUE
    /\ pc' = "drain"
    /\ UNCHANGED <<callVars, doc, batch, bytes, carry, shutdown, handed>>

CollectNext ==
    /\ pc = "collect"
    /\ ~shutdown
    /\ Collect("flush")

\* The batch is full, or max_wait has passed.
CollectDone ==
    /\ pc = "collect"
    /\ Len(batch) = MaxDocuments \/ ~shutdown
    /\ pc' = "flush"
    /\ SendDocuments
    /\ UNCHANGED <<callVars, batch, bytes, carry, stopping, accepting, shutdown,
                   handed>>

ShutdownWhileCollecting ==
    /\ pc = "collect"
    /\ Len(batch) < MaxDocuments
    /\ shutdown
    /\ accepting' = FALSE
    /\ stopping' = TRUE
    /\ pc' = "flush"
    /\ SendDocuments
    /\ UNCHANGED <<callVars, batch, bytes, carry, shutdown, handed>>

DrainFirst ==
    /\ pc = "drain"
    /\ TakeFirst
    /\ pc' = "fill"
    /\ UNCHANGED <<call, doc, stopping, accepting, shutdown, handed>>

DrainNext ==
    /\ pc = "fill"
    /\ Collect("drainflush")

DrainCollected ==
    /\ pc = "fill"
    /\ Len(batch) = MaxDocuments \/ channel = <<>>
    /\ pc' = "drainflush"
    /\ SendDocuments
    /\ UNCHANGED <<callVars, batch, bytes, carry, stopping, accepting, shutdown,
                   handed>>

\* Mutant: the drain waits for one more command instead of trying for it.
DrainEmptyWaiting ==
    /\ pc = "drain"
    /\ carry = <<>>
    /\ channel = <<>>
    /\ UNCHANGED vars

\* try_recv found the channel empty: drain_writer and run_writer return.  A
\* caller may still slip a command in before the receiver is dropped.
DrainEmpty ==
    /\ pc = "drain"
    /\ carry = <<>>
    /\ channel = <<>>
    /\ pc' = "closing"
    /\ UNCHANGED <<callVars, doc, batch, bytes, carry, stopping, accepting,
                   shutdown, handed>>

\* The drain deadline fires during a flush: its future, and with it the oneshots
\* of the batch, is dropped, which the callers see as an unavailable sink.
DrainDeadline ==
    /\ pc = "drainflush"
    /\ call' = Answer(ToSet(batch), Unavailable)
    /\ batch' = <<>>
    /\ bytes' = 0
    /\ pc' = "closing"
    /\ UNCHANGED <<doc, channel, carry, stopping, accepting, shutdown, handed>>

\* What is left in the channel is rejected, or dropped with the receiver, and so
\* is a carried command.
Close ==
    /\ pc = "closing"
    /\ call' = Answer(ToSet(channel) \cup ToSet(carry), Unavailable)
    /\ channel' = <<>>
    /\ carry' = <<>>
    /\ pc' = "stopped"
    /\ UNCHANGED <<doc, batch, bytes, stopping, accepting, shutdown, handed>>

-----------------------------------------------------------------------------
(* flush_batch *)

\* Answer the batch with a.  Back in run_writer a stopping writer also rejects
\* the carry and starts to drain.
FinishFlush(a) ==
    /\ batch' = <<>>
    /\ bytes' = 0
    /\ IF pc = "flush" /\ stopping
       THEN /\ call' = Answer(ToSet(batch) \cup ToSet(carry),
                             [r \in Requests |-> IF r \in ToSet(batch)
                                                 THEN a[r] ELSE "unavailable"])
            /\ carry' = <<>>
       ELSE /\ call' = Answer(ToSet(batch), a)
            /\ UNCHANGED carry
    /\ pc' = IF stopping THEN "drain" ELSE "recv"
    /\ UNCHANGED <<channel, stopping, accepting, shutdown>>

Flushing == pc \in {"flush", "drainflush"}

\* Mutants: a rejected document is reported as a duplicate; the status of the
\* store leaks to the caller.
StatusAnswerRejectedDuplicate ==
    [r \in Requests |-> IF doc[r] = "inserted" THEN "accepted" ELSE "duplicate"]
StatusAnswerRaw == [r \in Requests |-> doc[r]]

\* The answer to a document with a per-document status.
StatusAnswer ==
    [r \in Requests |-> CASE doc[r] = "inserted"  -> "accepted"
                          [] doc[r] = "duplicate" -> "duplicate"
                          [] OTHER                -> "unavailable"]

\* The store reported a status for every document.  The inserted ones are offered
\* to the dispatcher, which takes some of them.
FlushReply ==
    /\ Flushing
    /\ \A r \in ToSet(batch) : doc[r] \in {"inserted", "duplicate", "rejected"}
    /\ \E taken \in SUBSET {r \in ToSet(batch) : doc[r] = "inserted"} :
        handed' = handed \cup taken
    /\ FinishFlush(StatusAnswer)
    /\ UNCHANGED doc

\* EventStoreError::Unavailable: the transaction was rolled back.
FlushUnavailable ==
    /\ Flushing
    /\ \A r \in ToSet(batch) : doc[r] = "sent"
    /\ doc' = [r \in Requests |-> IF r \in ToSet(batch) THEN "void" ELSE doc[r]]
    /\ FinishFlush(Unavailable)
    /\ UNCHANGED handed

\* Mutant: a timeout is reported as a definite failure.
FlushTimeoutUnavailable ==
    /\ Flushing
    /\ FinishFlush(Unavailable)
    /\ UNCHANGED <<doc, handed>>

\* EventStoreError::Ambiguous or the operation timeout: nothing is known of the
\* documents, and what was sent may still be applied.
FlushAmbiguous ==
    /\ Flushing
    /\ FinishFlush(Ambiguous)
    /\ UNCHANGED <<doc, handed>>

-----------------------------------------------------------------------------
(* The store: the unique key decides between inserted and duplicate. *)

\* Mutant: the key is not unique.
StoreApplyNotUnique(r) ==
    /\ doc[r] = "sent"
    /\ doc' = [doc EXCEPT ![r] = "inserted"]
    /\ UNCHANGED <<callVars, taskVars, shutdown, handed>>

StoreApply(r) ==
    /\ doc[r] = "sent"
    /\ doc' = [doc EXCEPT ![r] = IF Stored(KeyOf[r]) THEN "duplicate"
                                                    ELSE "inserted"]
    /\ UNCHANGED <<callVars, taskVars, shutdown, handed>>

\* A write error of this document alone, or its project is fenced.
StoreReject(r) ==
    /\ doc[r] = "sent"
    /\ doc' = [doc EXCEPT ![r] = "rejected"]
    /\ UNCHANGED <<callVars, taskVars, shutdown, handed>>

-----------------------------------------------------------------------------

Init ==
    /\ call = [r \in Requests |-> "idle"]
    /\ doc = [r \in Requests |-> "none"]
    /\ channel = <<>>
    /\ batch = <<>>
    /\ bytes = 0
    /\ carry = <<>>
    /\ pc = "recv"
    /\ stopping = FALSE
    /\ accepting = TRUE
    /\ shutdown = FALSE
    /\ handed = {}

Task ==
    \/ Receive \/ ShutdownWhileIdle
    \/ CollectNext \/ CollectDone \/ ShutdownWhileCollecting
    \/ DrainFirst \/ DrainNext \/ DrainCollected \/ DrainEmpty \/ DrainDeadline
    \/ Close
    \/ FlushReply \/ FlushUnavailable \/ FlushAmbiguous

Caller(r) == Persist(r) \/ Send(r) \/ SendClosed(r) \/ CancelCall(r)

Store(r) == StoreApply(r) \/ StoreReject(r)

\* The process is about to exit: nothing is left to do.
Finished ==
    /\ pc = "stopped"
    /\ \A r \in Requests : call[r] \notin Pending
    /\ UNCHANGED vars

Next ==
    \/ \E r \in Requests : Caller(r) \/ Store(r)
    \/ BeginShutdown
    \/ Task
    \/ Finished

Spec == Init /\ [][Next]_vars

\* The runtime polls a task that can make progress, its timers fire, and the
\* channel's semaphore serves waiting senders in order.
Fairness ==
    /\ WF_vars(Task)
    /\ \A r \in Requests : SF_vars(Send(r)) /\ WF_vars(SendClosed(r))

FairSpec == Spec /\ Fairness

-----------------------------------------------------------------------------
(* Properties *)

\* A durable answer is only given for an event that is in the store: "accepted"
\* when this call's own document was inserted, "duplicate" when another call's
\* document with the same key was (flush_batch answers after insert_batch).
AckDurable ==
    \A r \in Requests :
        /\ call[r] = "accepted" => doc[r] = "inserted"
        /\ call[r] = "duplicate" => doc[r] = "duplicate" /\ Stored(KeyOf[r])

\* However calls, retries of a key and abandoned writes interleave, at most one
\* call per event key is told Accepted, and at most one event per key reaches
\* the dispatcher through the handoff.
OneAcceptedPerKey ==
    \A r, s \in Requests :
        r # s /\ KeyOf[r] = KeyOf[s] =>
            /\ ~(call[r] = "accepted" /\ call[s] = "accepted")
            /\ ~(r \in handed /\ s \in handed)

\* The dispatcher is never offered an event that is not stored, nor one whose
\* caller was told something other than Accepted (handoff.offer runs only for
\* EventWriteStatus::Inserted).
HandoffDurable ==
    \A r \in handed : doc[r] = "inserted" /\ call[r] \in {"accepted", "cancelled"}

\* A waiting caller's command is in exactly one of channel, carry and batch, so
\* there is always somebody who will answer it: no path through collecting,
\* carrying, flushing, draining and closing drops or duplicates a command.
NoCommandLost ==
    /\ IsInjective(channel) /\ IsInjective(batch) /\ Len(carry) <= 1
    /\ ToSet(channel) \cap ToSet(batch) = {}
    /\ ToSet(carry) \cap (ToSet(channel) \cup ToSet(batch)) = {}
    /\ \A r \in Requests : call[r] = "waiting" => r \in Queued

\* While the writer serves, Unavailable is a definite refusal: the document of
\* such a call is not in the store and will not get there later.  It is not when
\* the drain deadline drops a flush: the callers then see Unavailable as well.
UnavailableIsDefiniteWhileServing ==
    ~shutdown =>
        \A r \in Requests :
            call[r] = "unavailable" => doc[r] \notin {"sent", "inserted"}

\* The writer's phase fixes which of batch and carry may be occupied, and a
\* writer that drains has seen the shutdown.
PhasesConsistent ==
    /\ pc \in {"recv", "drain", "closing", "stopped"} => batch = <<>>
    /\ pc \in {"collect", "fill"} => carry = <<>>
    /\ pc \in {"drain", "fill", "drainflush", "closing", "stopped"} => stopping
    /\ stopping => shutdown

\* A document goes to the store once, from a batch being flushed: until then it
\* is untouched, and its command's caller has not been answered.
SentOnce ==
    /\ \A r \in Queued : call[r] \in {"waiting", "cancelled"}
    /\ \A r \in Requests : call[r] \in {"idle", "sending"} => doc[r] = "none"
    /\ \A r \in ToSet(channel) \cup ToSet(carry) : doc[r] = "none"
    /\ \A r \in ToSet(batch) :
        IF Flushing THEN doc[r] \in {"sent", "inserted", "duplicate", "rejected"}
                    ELSE doc[r] = "none"

\* The unique key of the store.
UniqueInStore ==
    \A r, s \in Requests :
        /\ doc[r] = "inserted" /\ doc[s] = "inserted" /\ KeyOf[r] = KeyOf[s] => r = s
        /\ doc[r] = "duplicate" => Stored(KeyOf[r])

\* The inductive invariant: the properties above and what makes them inductive.
WriterInv ==
    /\ TypeOK
    /\ NoCommandLost
    /\ PhasesConsistent
    /\ SentOnce
    /\ UniqueInStore
    /\ AckDurable
    /\ HandoffDurable
    /\ UnavailableIsDefiniteWhileServing

\* Every call that has entered the channel, or waits to, gets its answer.
EveryCallAnswered ==
    \A r \in Requests : call[r] \in Pending ~> call[r] \notin Pending

\* A shutdown always ends the writer task, whatever the store does.
ShutdownCompletes == shutdown ~> pc = "stopped"

=============================================================================
