---------------------------- MODULE BatchWriter ----------------------------
(***************************************************************************)
(* The batch writer of the event listener                                  *)
(* (solana-event-listener/src/persistence/batch_writer.rs): an unbounded   *)
(* channel, a bounded buffer, and two tasks that drain the buffer into the *)
(* event storage, the periodic write loop and the flush of a shutdown.     *)
(*                                                                         *)
(* An event is known by its submission number 1, 2, 3, ...  The storage    *)
(* layer is seen through the result of its write_batch: it stores some of  *)
(* the events of the batch and answers Ok, or it stores some and answers   *)
(* an error of one of the kinds in StorageErrors.                          *)
(***************************************************************************)
EXTENDS Integers, Sequences, Functions

CONSTANTS
  MaxItems,          \* bound: events submitted in a behaviour
  BatchSize,         \* batch_write.batch_size
  BufferSize,        \* batch_write.buffer_size
  MaxRetries,        \* listener.max_retries
  StorageErrors,     \* kinds of error the storage layer answers with
  StorageMaySkip,    \* TRUE: an Ok answer may leave events of the batch out
  MaxFailures,       \* bound: failures that enter the retry table
  ShutdownModes      \* calls that may end it: "flush" (EventListenerService), "stop"

\* settings.rs validates batch_size > 0 and leaves buffer_size unchecked.
ASSUME ParametersAssumption ==
  /\ MaxItems \in Nat
  /\ BatchSize \in Nat \ {0}
  /\ BufferSize \in Nat
  /\ MaxRetries \in Nat
  /\ StorageErrors \subseteq {"Retryable", "Permanent"}
  /\ StorageMaySkip \in BOOLEAN
  /\ MaxFailures \in Nat
  /\ ShutdownModes \subseteq {"flush", "stop"}

Items == 1..MaxItems

\* The tasks that call write_batch: the write loop and the shutdown's flush.
Writers == {"loop", "flush"}

\* The most a buffer of configured size BufferSize holds: every insertion
\* evicts first and inserts second, so a size of 0 still holds one event.
Capacity == IF BufferSize = 0 THEN 1 ELSE BufferSize

\* flush gives up after this many failed attempts (MAX_ATTEMPTS).
MaxAttempts == 3

VARIABLES
  alive,        \* the process is running
  running,      \* is_running
  queued,       \* events_queued: the number of accepted submissions
  channel,      \* the mpsc channel
  buffer,       \* event_buffer
  collector,    \* where event_collection_loop is
  pc,           \* where each writer is
  batch,        \* the events each writer has popped
  waited,       \* max_wait has elapsed since the write loop's last success
  attempts,     \* failed attempts of flush
  retryCounts,  \* retry_counts, by order of batch id
  stored        \* events with a row in the database

vars == <<alive, running, queued, channel, buffer, collector, pc, batch,
          waited, attempts, retryCounts, stored>>

\* The events the process holds in memory.
InMemory ==
  Range(channel) \union Range(buffer) \union
  Range(batch["loop"]) \union Range(batch["flush"])

-----------------------------------------------------------------------------

Init ==
  /\ alive = TRUE
  /\ running = FALSE
  /\ queued = 0
  /\ channel = <<>>
  /\ buffer = <<>>
  /\ collector = "off"
  /\ pc = [w \in Writers |-> "off"]
  /\ batch = [w \in Writers |-> <<>>]
  /\ waited = FALSE
  /\ attempts = 0
  /\ retryCounts = <<>>
  /\ stored = {}

\* start_batch_processing: spawn the collection loop and the write loop.
Start ==
  /\ alive /\ ~running
  /\ collector = "off"
  /\ running' = TRUE
  /\ collector' = "check"
  /\ pc' = [pc EXCEPT !["loop"] = "check"]
  /\ UNCHANGED <<alive, queued, channel, buffer, batch, waited, attempts,
                 retryCounts, stored>>

\* Variant for mutation: the event is counted and never sent.
SubmitUnsent ==
  /\ alive /\ running
  /\ queued < MaxItems
  /\ queued' = queued + 1
  /\ UNCHANGED <<alive, running, channel, buffer, collector, pc, batch, waited,
                 attempts, retryCounts, stored>>

\* submit_event, and one turn of submit_events: refused unless running.
Submit ==
  /\ alive /\ running
  /\ queued < MaxItems
  /\ queued' = queued + 1
  /\ channel' = Append(channel, queued + 1)
  /\ UNCHANGED <<alive, running, buffer, collector, pc, batch, waited,
                 attempts, retryCounts, stored>>

-----------------------------------------------------------------------------
(* event_collection_loop                                                   *)

CollectorCheck ==
  /\ alive
  /\ collector = "check"
  /\ collector' = IF running THEN "recv" ELSE "done"
  /\ UNCHANGED <<alive, running, queued, channel, buffer, pc, batch, waited,
                 attempts, retryCounts, stored>>

\* recv times out after 100 ms without an event.
CollectorTimeout ==
  /\ alive
  /\ collector = "recv"
  /\ channel = <<>>
  /\ collector' = "check"
  /\ UNCHANGED <<alive, running, queued, channel, buffer, pc, batch, waited,
                 attempts, retryCounts, stored>>

\* A full buffer loses its oldest event to the new one.
PushBack(b, e) == Append(IF Len(b) >= Capacity THEN Tail(b) ELSE b, e)

Collect ==
  /\ alive
  /\ collector = "recv"
  /\ channel # <<>>
  /\ channel' = Tail(channel)
  /\ buffer' = PushBack(buffer, Head(channel))
  /\ collector' = "check"
  /\ UNCHANGED <<alive, running, queued, pc, batch, waited, attempts,
                 retryCounts, stored>>

-----------------------------------------------------------------------------
(* batch_write_loop: the timer and the decision to write                   *)

WaitElapses ==
  /\ alive
  /\ pc["loop"] \notin {"off", "done"}
  /\ ~waited
  /\ waited' = TRUE
  /\ UNCHANGED <<alive, running, queued, channel, buffer, collector, pc,
                 batch, attempts, retryCounts, stored>>

LoopCheck ==
  /\ alive
  /\ pc["loop"] = "check"
  /\ pc' = [pc EXCEPT !["loop"] = IF running THEN "tick" ELSE "done"]
  /\ UNCHANGED <<alive, running, queued, channel, buffer, collector, batch,
                 waited, attempts, retryCounts, stored>>

\* The buffer is locked for its length and unlocked before write_batch.
ShouldWrite == buffer # <<>> /\ (Len(buffer) >= BatchSize \/ waited)

LoopTick ==
  /\ alive
  /\ pc["loop"] = "tick"
  /\ pc' = [pc EXCEPT !["loop"] = IF ShouldWrite THEN "take" ELSE "check"]
  /\ UNCHANGED <<alive, running, queued, channel, buffer, collector, batch,
                 waited, attempts, retryCounts, stored>>

-----------------------------------------------------------------------------
(* write_batch, run by either writer                                       *)

\* What the caller does with Ok: the write loop restarts its wait; both go
\* round again.
Succeed(w) ==
  /\ pc' = [pc EXCEPT ![w] = "check"]
  /\ waited' = (waited /\ w # "loop")
  /\ UNCHANGED attempts

\* What the caller does with an error: the write loop logs it and keeps its
\* wait; flush counts the attempt and gives up after the last.
Fail(w) ==
  /\ attempts' = IF w = "flush" THEN attempts + 1 ELSE attempts
  /\ pc' = [pc EXCEPT ![w] = IF w = "flush" /\ attempts + 1 >= MaxAttempts
                             THEN "failed" ELSE "check"]
  /\ UNCHANGED waited

BatchLen == IF Len(buffer) < BatchSize THEN Len(buffer) ELSE BatchSize

\* Variant for mutation: the last event popped stays in the buffer.
RemainingOverlap == SubSeq(buffer, BatchLen, Len(buffer))

\* What write_batch pops from the front, and what it leaves.
Popped    == SubSeq(buffer, 1, BatchLen)
Remaining == SubSeq(buffer, BatchLen + 1, Len(buffer))

\* The pops of one batch happen under the buffer's lock.
Take(w) ==
  /\ alive
  /\ pc[w] = "take"
  /\ buffer # <<>>
  /\ batch' = [batch EXCEPT ![w] = Popped]
  /\ buffer' = Remaining
  /\ pc' = [pc EXCEPT ![w] = "store"]
  /\ UNCHANGED <<alive, running, queued, channel, collector, waited, attempts,
                 retryCounts, stored>>

\* The other writer emptied the buffer since it was measured.
TakeNothing(w) ==
  /\ alive
  /\ pc[w] = "take"
  /\ buffer = <<>>
  /\ Succeed(w)
  /\ UNCHANGED <<alive, running, queued, channel, buffer, collector, batch,
                 retryCounts, stored>>

\* event_storage.write_batch answers Ok.
StoreOk(w) ==
  /\ alive
  /\ pc[w] = "store"
  /\ \E ok \in SUBSET Range(batch[w]) :
       /\ StorageMaySkip \/ ok = Range(batch[w])
       /\ stored' = stored \union ok
  /\ batch' = [batch EXCEPT ![w] = <<>>]
  /\ Succeed(w)
  /\ UNCHANGED <<alive, running, queued, channel, buffer, collector,
                 retryCounts>>

\* Each failure draws a fresh batch id, so the count found is always 0.
BatchId == Len(retryCounts) + 1
RetriesOf(id) == IF id \in DOMAIN retryCounts THEN retryCounts[id] ELSE 0
ShouldRetry(kind, id) == kind = "Retryable" /\ RetriesOf(id) < MaxRetries

\* event_storage.write_batch fails: rows written before the error remain.
StoreFails(w) ==
  /\ alive
  /\ pc[w] = "store"
  /\ \E ok \in SUBSET Range(batch[w]) : stored' = stored \union ok
  /\ \E kind \in StorageErrors :
       \/ /\ ShouldRetry(kind, BatchId)
          /\ Len(retryCounts) < MaxFailures
          /\ retryCounts' = Append(retryCounts, RetriesOf(BatchId) + 1)
          /\ pc' = [pc EXCEPT ![w] = "retry"]
          /\ UNCHANGED <<batch, waited, attempts>>
       \/ /\ ~ShouldRetry(kind, BatchId)
          /\ batch' = [batch EXCEPT ![w] = <<>>]
          /\ Fail(w)
          /\ UNCHANGED retryCounts
  /\ UNCHANGED <<alive, running, queued, channel, buffer, collector>>

\* Variants for mutation: a failed batch goes to the back, or is added to a
\* full buffer.
PushFrontBehind(b, es)    == SubSeq(b \o es, 1, IF Len(es \o b) < Capacity
                                                THEN Len(es \o b) ELSE Capacity)
PushFrontUnbounded(b, es) == es \o b

\* requeue_batch pushes the batch to the front, last event first, and pops
\* the back of a full buffer before each push: what remains is the first
\* Capacity events of batch followed by buffer.
PushFront(b, es) ==
  LET all == es \o b
  IN  SubSeq(all, 1, IF Len(all) < Capacity THEN Len(all) ELSE Capacity)

\* The end of the back-off sleep of a failed batch.
Requeue(w) ==
  /\ alive
  /\ pc[w] = "retry"
  /\ buffer' = PushFront(buffer, batch[w])
  /\ batch' = [batch EXCEPT ![w] = <<>>]
  /\ Fail(w)
  /\ UNCHANGED <<alive, running, queued, channel, collector, retryCounts,
                 stored>>

-----------------------------------------------------------------------------
(* Shutdown                                                                *)

\* EventListenerService::shutdown calls flush; BatchWriter::stop clears
\* is_running first.  The tasks of start_batch_processing are detached and
\* go on until the process ends.
Shutdown ==
  /\ alive /\ collector # "off"
  /\ pc["flush"] = "off"
  /\ pc' = [pc EXCEPT !["flush"] = "check"]
  /\ \E mode \in ShutdownModes : running' = (running /\ mode = "flush")
  /\ UNCHANGED <<alive, queued, channel, buffer, collector, batch, waited,
                 attempts, retryCounts, stored>>

FlushCheck ==
  /\ alive
  /\ pc["flush"] = "check"
  /\ pc' = [pc EXCEPT !["flush"] = IF buffer = <<>> THEN "ok" ELSE "take"]
  /\ UNCHANGED <<alive, running, queued, channel, buffer, collector, batch,
                 waited, attempts, retryCounts, stored>>

\* The end of the process takes its memory with it.
Halt ==
  /\ alive' = FALSE
  /\ running' = FALSE
  /\ channel' = <<>>
  /\ buffer' = <<>>
  /\ batch' = [w \in Writers |-> <<>>]
  /\ UNCHANGED <<queued, collector, pc, waited, attempts, retryCounts,
                 stored>>

\* main returns once flush has answered, whatever the answer.
Exit == alive /\ pc["flush"] \in {"ok", "failed"} /\ Halt

Crash == alive /\ pc["flush"] \notin {"ok", "failed"} /\ Halt

-----------------------------------------------------------------------------

Write(w) == Take(w) \/ TakeNothing(w) \/ StoreOk(w) \/ StoreFails(w) \/ Requeue(w)

CollectionLoop == CollectorCheck \/ CollectorTimeout \/ Collect
WriteLoop      == LoopCheck \/ LoopTick \/ Write("loop")
Flush          == FlushCheck \/ Write("flush")

Next ==
  \/ Start \/ Submit
  \/ CollectionLoop
  \/ WaitElapses \/ WriteLoop
  \/ Shutdown \/ Flush \/ Exit
  \/ Crash

Spec == Init /\ [][Next]_vars

\* The runtime keeps scheduling every spawned task, a storage call answers,
\* and time passes.  Nothing makes a caller submit, a shutdown or a crash.
Fairness ==
  /\ WF_vars(CollectionLoop)
  /\ WF_vars(WaitElapses)
  /\ WF_vars(WriteLoop)
  /\ WF_vars(Flush)
  /\ WF_vars(Exit)

FairSpec == Spec /\ Fairness

-----------------------------------------------------------------------------
(* Properties                                                              *)

TypeOK ==
  /\ alive \in BOOLEAN /\ running \in BOOLEAN /\ waited \in BOOLEAN
  /\ queued \in 0..MaxItems
  /\ channel \in Seq(Items) /\ buffer \in Seq(Items)
  /\ collector \in {"off", "check", "recv", "done"}
  /\ pc \in [Writers -> {"off", "check", "tick", "take", "store", "retry",
                         "done", "ok", "failed"}]
  /\ batch \in [Writers -> Seq(Items)]
  /\ attempts \in 0..MaxAttempts
  /\ retryCounts \in Seq(Nat)
  /\ stored \subseteq Items

\* The buffer never outgrows its configured size, whichever of collection
\* and requeueing fills it and in whatever order they alternate.
BufferBounded == Len(buffer) <= Capacity

Increasing(s) == \A i, j \in DOMAIN s : i < j => s[i] < s[j]

\* Until a shutdown adds a second writer, the batch in the write loop's
\* hands, the buffer and the channel together hold events in the order they
\* were submitted, without a duplicate: a retried batch goes back in front
\* of everything that arrived while it slept.
SubmissionOrder ==
  pc["flush"] = "off" => Increasing(batch["loop"] \o buffer \o channel)

\* The two writers never hold, and the buffer never repeats, the same event:
\* each event of the process is in exactly one place.
OnePlace ==
  LET all == batch["loop"] \o batch["flush"] \o buffer \o channel
  IN  \A i, j \in DOMAIN all : i # j => all[i] # all[j]

\* The batch writer keeps the promise of EventSink.
Sink == INSTANCE EventSink WITH accepted <- queued, pending <- InMemory,
                                rows <- stored

ImplementsSink == Sink!FairSpec

=============================================================================
