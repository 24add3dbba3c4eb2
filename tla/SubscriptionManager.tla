------------------------- MODULE SubscriptionManager -------------------------
(***************************************************************************)
(* Intake of live transactions: the WebSocket connection, the broadcast    *)
(* ring it feeds, the event processing loop with its signature cache, the  *)
(* cache cleanup and one detached task per transaction                     *)
(* (solana-event-listener/src/subscriber).                                 *)
(*                                                                         *)
(* A transaction is announced once for each program it mentions that the   *)
(* listener subscribes to, so one signature may be announced several       *)
(* times.  Announcements are known by their position in log.               *)
(***************************************************************************)
EXTENDS Integers, FiniteSets, Sequences, SequencesExt

CONSTANTS
  Signatures,
  Accepted,      \* signatures whose logs pass the filter and hold an event
  Copies,        \* signature -> its announcements (subscribed programs it mentions)
  RingSize,      \* messages the broadcast channel retains
  CacheSize,     \* listener.signature_cache_size
  Shard,         \* signature -> the shard of the cache's map it lives in
  MayExpire      \* TRUE: behaviours may outlast the cache's one hour

ASSUME SubscriptionAssumption ==
  /\ Accepted \subseteq Signatures
  /\ Copies \in [Signatures -> Nat \ {0}] /\ RingSize \in Nat \ {0} /\ CacheSize \in Nat
  /\ MayExpire \in BOOLEAN
  /\ DOMAIN Shard = Signatures

VARIABLES
  running,      \* is_running of the manager and of the WebSocket manager
  writing,      \* the batch writer accepts events
  connected,    \* is_connected
  log,          \* signatures broadcast so far, in order
  announced,    \* announcements of each signature, heard or not
  loop,         \* where event_processing_loop is
  next,         \* the position its receiver reads next
  missed,       \* positions no receiver of the loop will read
  cache,        \* signature_cache, oldest entry first
  evictions,    \* how often each signature left the cache
  guarded,      \* shards the cleanup holds read guards on
  task,         \* the processing task of each position
  submitted,    \* how often each signature's events went to the writer
  refused       \* signatures whose events the writer refused

vars == <<running, writing, connected, log, announced, loop, next, missed,
          cache, evictions, guarded, task, submitted, refused>>

\* Every position log can reach.
Positions == 1..MapThenSumSet(LAMBDA s : Copies[s], Signatures)

\* What the tasks and the cleanup leave alone.
intake  == <<connected, log, announced>>
reading == <<loop, next, missed>>
caching == <<cache, evictions, guarded>>
outcome == <<submitted, refused>>

Init ==
  /\ running = TRUE
  /\ writing = FALSE
  /\ connected = FALSE
  /\ log = <<>>
  /\ announced = [s \in Signatures |-> 0]
  /\ loop = "off" /\ next = 1 /\ missed = {}
  /\ cache = <<>>
  /\ evictions = [s \in Signatures |-> 0]
  /\ guarded = {}
  /\ task = <<>>
  /\ submitted = [s \in Signatures |-> 0]
  /\ refused = {}

-----------------------------------------------------------------------------
(* The connection                                                          *)

\* connect_and_subscribe subscribes all programs or fails and is retried.
Connect ==
  /\ running /\ ~connected
  /\ connected' = TRUE
  /\ UNCHANGED <<running, writing, log, announced, reading, caching, task,
                 outcome>>

\* The merged stream ends; the retry loop connects again.
Disconnect ==
  /\ running /\ connected
  /\ connected' = FALSE
  /\ UNCHANGED <<running, writing, log, announced, reading, caching, task,
                 outcome>>

\* The chain announces s for one more program.  Nobody hears it while the
\* connection is down.
Announce(s) ==
  /\ announced[s] < Copies[s]
  /\ announced' = [announced EXCEPT ![s] = @ + 1]
  /\ IF connected /\ running
     THEN log' = Append(log, s) /\ task' = Append(task, "none")
     ELSE UNCHANGED <<log, task>>
  /\ UNCHANGED <<running, writing, connected, reading, caching, outcome>>

\* start_batch_processing runs in a task of its own, after the subscription.
WriterStarts ==
  /\ running /\ ~writing
  /\ writing' = TRUE
  /\ UNCHANGED <<running, intake, reading, caching, task, outcome>>

\* stop
Stop ==
  /\ running
  /\ running' = FALSE
  /\ connected' = FALSE
  /\ UNCHANGED <<writing, log, announced, reading, caching, task, outcome>>

-----------------------------------------------------------------------------
(* event_processing_loop                                                   *)

\* A new receiver reads what is sent after its creation.
Subscribe ==
  /\ loop = "off"
  /\ loop' = "check"
  /\ next' = Len(log) + 1
  /\ missed' = 1..Len(log)
  /\ UNCHANGED <<running, writing, intake, caching, task, outcome>>

\* The ring retains the last RingSize messages.
Lagging == next <= Len(log) - RingSize

LoopCheck ==
  /\ loop = "check"
  /\ loop' = IF running THEN "recv" ELSE "done"
  /\ UNCHANGED <<running, writing, intake, next, missed, caching, task, outcome>>

\* 100 ms pass without a message.
Timeout ==
  /\ loop = "recv"
  /\ next > Len(log)
  /\ loop' = "check"
  /\ UNCHANGED <<running, writing, intake, next, missed, caching, task, outcome>>

\* Variants for mutation: every announcement counts as new; a signature that
\* was processed is not remembered.
NotSeen(s)         == FALSE
RememberNothing(s) == cache

\* is_signature_processed, which does not wait for readers.
Seen(s) == Contains(cache, s)

Receive ==
  /\ loop = "recv"
  /\ next <= Len(log) /\ ~Lagging
  /\ IF Seen(log[next])
     THEN next' = next + 1 /\ loop' = "check"
     ELSE loop' = "mark" /\ UNCHANGED next
  /\ UNCHANGED <<running, writing, intake, missed, caching, task, outcome>>

Remember(s) == Append(cache, s)

\* mark_signature_processed waits for the write lock of the signature's
\* shard; then the task is spawned.
Mark ==
  /\ loop = "mark"
  /\ Shard[log[next]] \notin guarded
  /\ cache' = Remember(log[next])
  /\ task' = [task EXCEPT ![next] = "parse"]
  /\ loop' = "check"
  /\ next' = next + 1
  /\ UNCHANGED <<running, writing, intake, missed, evictions, guarded, outcome>>

\* Variant for mutation: a lag ends the loop like a closed channel.
LagBreaks ==
  /\ loop = "recv"
  /\ Lagging
  /\ loop' = "done"
  /\ UNCHANGED <<running, writing, intake, next, missed, caching, task, outcome>>

\* RecvError::Lagged: a new receiver replaces the old one.
Lag ==
  /\ loop = "recv"
  /\ Lagging
  /\ next' = Len(log) + 1
  /\ missed' = missed \union next..Len(log)
  /\ loop' = "check"
  /\ UNCHANGED <<running, writing, intake, caching, task, outcome>>

-----------------------------------------------------------------------------
(* process_event                                                           *)

\* The slot is fetched, then the logs are filtered and parsed.
Parse(i) ==
  /\ task[i] = "parse"
  /\ task' = [task EXCEPT ![i] = IF log[i] \in Accepted THEN "submit" ELSE "end"]
  /\ UNCHANGED <<running, writing, intake, reading, caching, outcome>>

\* Variant for mutation: a refusal goes unnoticed.
SubmitSilently(i) ==
  /\ task[i] = "submit"
  /\ task' = [task EXCEPT ![i] = "end"]
  /\ IF writing
     THEN submitted' = [submitted EXCEPT ![log[i]] = @ + 1] /\ UNCHANGED refused
     ELSE UNCHANGED outcome
  /\ UNCHANGED <<running, writing, intake, reading, caching>>

\* submit_events refuses unless the writer is running.
Submit(i) ==
  /\ task[i] = "submit"
  /\ task' = [task EXCEPT ![i] = "end"]
  /\ IF writing
     THEN submitted' = [submitted EXCEPT ![log[i]] = @ + 1] /\ UNCHANGED refused
     ELSE refused' = refused \union {log[i]} /\ UNCHANGED submitted
  /\ UNCHANGED <<running, writing, intake, reading, caching>>

-----------------------------------------------------------------------------
(* cleanup_signature_cache                                                 *)

\* retain drops the entries older than an hour, the first n of the cache.
\* Then, if the cache is still too large, iter().collect() takes a read guard
\* on the shard of every entry, and remove waits for the write lock of one of
\* these shards; the guards are dropped after the last removal.  The cleanup
\* waits for itself: no action follows.
Cleanup(n) ==
  /\ running /\ guarded = {}
  /\ cache' = SubSeq(cache, n + 1, Len(cache))
  /\ evictions' = [s \in Signatures |->
                     IF Contains(SubSeq(cache, 1, n), s)
                     THEN evictions[s] + 1 ELSE evictions[s]]
  /\ guarded' = IF Len(cache') > CacheSize
                THEN {Shard[s] : s \in Range(cache')} ELSE {}
  /\ UNCHANGED <<running, writing, intake, reading, task, outcome>>

-----------------------------------------------------------------------------

ProcessingLoop ==
  Subscribe \/ LoopCheck \/ Timeout \/ Receive \/ Mark \/ Lag
Process(i)     == Parse(i) \/ Submit(i)
Expirable      == IF MayExpire THEN 0..Len(cache) ELSE {0}

Next ==
  \/ Connect \/ Disconnect \/ Stop \/ WriterStarts
  \/ \E s \in Signatures : Announce(s)
  \/ ProcessingLoop
  \/ \E i \in DOMAIN task : Process(i)
  \/ \E n \in Expirable : Cleanup(n)

Spec == Init /\ [][Next]_vars

\* The runtime polls the loop, the writer's start and the spawned tasks.  The
\* connection, the chain, a cleanup and a stop do as they like.
Fairness ==
  /\ WF_vars(ProcessingLoop)
  /\ WF_vars(WriterStarts)
  /\ \A i \in Positions : WF_vars(i \in DOMAIN task /\ Process(i))

FairSpec == Spec /\ Fairness

-----------------------------------------------------------------------------
(* Properties                                                              *)

TypeOK ==
  /\ running \in BOOLEAN /\ writing \in BOOLEAN /\ connected \in BOOLEAN
  /\ log \in Seq(Signatures)
  /\ announced \in [Signatures -> Nat]
  /\ \A s \in Signatures : announced[s] <= Copies[s]
  /\ loop \in {"off", "check", "recv", "mark", "done"}
  /\ next \in 1..(Len(log) + 1)
  /\ missed \subseteq DOMAIN log
  /\ cache \in Seq(Signatures) /\ IsInjective(cache)
  /\ evictions \in [Signatures -> Nat]
  /\ guarded \subseteq Range(Shard)
  /\ task \in [DOMAIN log -> {"none", "parse", "submit", "end"}]
  /\ submitted \in [Signatures -> Nat]
  /\ refused \subseteq Accepted

\* The events of a transaction go to the writer once, however many programs
\* announce it and however its tasks interleave, unless its signature has
\* left the cache meanwhile.
SubmittedOnce ==
  \A s \in Signatures : submitted[s] <= 1 + evictions[s]

\* An announcement the loop has passed was submitted, refused or rejected, is
\* still at work, or was missed: the cache never hides a transaction that no
\* task has taken.
InHand(s) == \E i \in DOMAIN log : log[i] = s /\ task[i] \in {"parse", "submit"}
PassedIsHandled ==
  \A i \in 1..(next - 1) :
    \/ i \in missed
    \/ log[i] \notin Accepted
    \/ submitted[log[i]] > 0
    \/ log[i] \in refused
    \/ InHand(log[i])

\* The loop waits to remember a signature whose shard a cleanup holds; by
\* OversizeCacheIsTrimmed, which fails, it waits for ever.
Stuck == loop = "mark" /\ Shard[log[next]] \in guarded

\* The events of an announced transaction reach the writer, unless the
\* announcement came before the loop or was skipped by a lag, the writer did
\* not run yet, the service stops, or the loop is stuck behind a cleanup of a
\* cache over its size (subscription_manager.rs:468-482).  A cleanup whose
\* guards the loop never meets keeps nothing from the writer.
HeardIsSubmitted ==
  \A i \in Positions :
    (i \in DOMAIN log /\ log[i] \in Accepted) ~>
      \/ ~running \/ i \in missed \/ Stuck
      \/ i \in DOMAIN log /\ (log[i] \in refused \/ submitted[log[i]] > 0)

\* A cleanup that finds the cache too large makes it small enough.
OversizeCacheIsTrimmed == guarded # {} ~> Len(cache) <= CacheSize
=============================================================================
