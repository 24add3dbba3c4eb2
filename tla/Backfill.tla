------------------------------ MODULE Backfill ------------------------------
(***************************************************************************)
(* The backfill service (solana-event-listener/src/recovery): one loop per *)
(* event type scans the transactions of a program after its checkpoint,    *)
(* hands those the database does not hold to the batch writer, and moves   *)
(* the checkpoint.  The live intake and the batch writer run beside it.    *)
(*                                                                         *)
(* The program's transactions are known by their position on the chain;    *)
(* Chain gives the event type each carries.  Two events of one slot count  *)
(* as ordered by submission.  The early return for equal range ends is     *)
(* left out: the lower end is never the empty string.                      *)
(***************************************************************************)
EXTENDS Integers, Sequences, FiniteSets, FiniteSetsExt, SequencesExt

CONSTANTS
  Types,         \* event types
  Loops,         \* event types with an enabled backfill
  Chain,         \* position -> the event type it carries, or None
  Reverted,      \* positions whose transaction failed on chain
  Blind,         \* types whose signature_exists ignores the signature
  Limit,         \* signatures one request returns (1000)
  UpdateEvery,   \* transactions between two updates of the scan record (10)
  Faults,        \* kinds of failing call: "rpc", "database", "transaction"
  MaxFaults,     \* bound: failing calls in a behaviour
  MaxCrashes,    \* bound: crashes in a behaviour
  None

ASSUME BackfillAssumption ==
  /\ Chain \in Seq(Types \cup {None})
  /\ None \notin Types \cup Nat /\ Loops \subseteq Types
  /\ Blind \subseteq Loops
  /\ Limit \in Nat \ {0} /\ UpdateEvery \in Nat \ {0}
  /\ Faults \subseteq {"rpc", "database", "transaction"}
  /\ MaxFaults \in Nat /\ MaxCrashes \in Nat

Transactions == DOMAIN Chain

\* The signature of all ones: a position before every transaction.
ZeroSignature == 0

VARIABLES
  tip,         \* transactions confirmed so far
  live,        \* positions the live intake has handed to the writer
  queue,       \* the batch writer: submitted, not yet durable
  stored,      \* the event collections, by slot
  checkpoint,  \* EventScannerCheckpoints.last_signature of each loop
  since,       \* the lower end of the scan that first set the checkpoint
  record,      \* the status of each loop's latest ScanRecords
  pc,          \* where each loop is in its cycle
  until,       \* the lower end of the scan's range
  latest,      \* actual_latest_signature
  todo,        \* signatures still to look up
  missing,     \* signatures found missing, still to process
  filled,      \* backfilled_count
  given_up,    \* positions a scan lets go of, for the properties
  lost,        \* positions submitted and lost since their type's last scan
               \* began, for the properties
  faults,      \* failing calls so far
  crashes      \* crashes so far

world  == <<tip, live>>
saved  == <<checkpoint, since>>
scan   == <<until, latest, todo, missing, filled>>
backfillVars   == <<world, queue, stored, saved, record, pc, scan, given_up, lost, faults, crashes>>

BackfillInit ==
  /\ tip = 0 /\ live = {}
  /\ queue = <<>> /\ stored = <<>>
  /\ checkpoint = [l \in Loops |-> None]
  /\ since = [l \in Loops |-> None]
  /\ record = [l \in Loops |-> "None"]
  /\ pc = [l \in Loops |-> "idle"]
  /\ until = [l \in Loops |-> ZeroSignature]
  /\ latest = [l \in Loops |-> None]
  /\ todo = [l \in Loops |-> {}]
  /\ missing = [l \in Loops |-> {}]
  /\ filled = [l \in Loops |-> 0]
  /\ given_up = {} /\ lost = {}
  /\ faults = 0 /\ crashes = 0

-----------------------------------------------------------------------------
(* The chain, the live intake and the batch writer                         *)

Confirm ==
  /\ tip < Len(Chain)
  /\ tip' = tip + 1
  /\ UNCHANGED <<live, queue, stored, saved, record, pc, scan, faults, given_up, lost, crashes>>

\* The writer's queue after i is handed to it.  Of several copies of an
\* event all but the first fall to the unique index of its collection.
Submitted(i) ==
  IF i \in ToSet(queue) \cup ToSet(stored) THEN queue ELSE Append(queue, i)

\* The live intake filters failed transactions, and may miss any.
Live(i) ==
  /\ i <= tip /\ i \notin live
  /\ Chain[i] # None /\ i \notin Reverted
  /\ live' = live \cup {i}
  /\ queue' = Submitted(i)
  /\ UNCHANGED <<tip, stored, saved, record, pc, scan, faults, given_up, lost, crashes>>

\* The writer stores the head of its queue.
Write ==
  /\ queue # <<>>
  /\ stored' = Append(stored, Head(queue))
  /\ queue' = Tail(queue)
  /\ UNCHANGED <<world, saved, record, pc, scan, faults, given_up, lost, crashes>>

\* The writer loses an event of its queue: evicted from a full buffer, at the
\* front by a new event or at the back by a batch put back; dropped with a
\* batch whose error is not retried; or skipped by a storage that swallows
\* the error and answers Ok (event_storage.rs:337-351).
Lose ==
  /\ \E k \in DOMAIN queue :
       /\ queue' = RemoveAt(queue, k)
       /\ lost' = lost \cup {queue[k]}
  /\ UNCHANGED <<world, stored, saved, record, pc, scan, faults, given_up, crashes>>

-----------------------------------------------------------------------------
(* One cycle of a loop                                                     *)

Fails(kind) ==
  /\ kind \in Faults /\ faults < MaxFaults
  /\ faults' = faults + 1

\* A call's ? ends the cycle; the scan record stays as last written.
GiveUp(l) ==
  /\ pc' = [pc EXCEPT ![l] = "idle"]
  /\ todo' = [todo EXCEPT ![l] = {}]
  /\ missing' = [missing EXCEPT ![l] = {}]
  /\ UNCHANGED <<until, latest, filled>>

\* The documents of l's collection.
OfType(l) == {d \in DOMAIN stored : Chain[stored[d]] = l}

\* get_oldest_event_signature sorts by slot, and an event bears the slot at
\* which it was handed in, not that of its transaction.
OldestEvent(l) ==
  IF OfType(l) = {} THEN ZeroSignature ELSE stored[Min(OfType(l))]

\* determine_scan_range; the upper end is always the latest signature.
ScanFrom(l) == IF checkpoint[l] # None THEN checkpoint[l] ELSE OldestEvent(l)

\* The timer ticks: the range is read and a record created.  A new scan asks
\* again for what was lost above the range's lower end.
Tick(l) ==
  /\ pc[l] = "idle"
  /\ pc' = [pc EXCEPT ![l] = "fetch"]
  /\ until' = [until EXCEPT ![l] = ScanFrom(l)]
  /\ record' = [record EXCEPT ![l] = "Running"]
  /\ latest' = [latest EXCEPT ![l] = None]
  /\ filled' = [filled EXCEPT ![l] = 0]
  /\ lost' = {i \in lost : Chain[i] = l => i <= ScanFrom(l)}
  /\ UNCHANGED <<world, queue, stored, saved, todo, missing, faults, given_up, crashes>>

\* Variant for mutation.
FetchedFromCheckpoint(l) == {i \in until[l]..tip : i > tip - Limit}

\* Signatures come newest first, up to the limit, and are not asked for again.
Fetched(l) ==
  {i \in (until[l] + 1)..tip : i > tip - Limit}

Fetch(l) ==
  /\ pc[l] = "fetch"
  /\ todo' = [todo EXCEPT ![l] = Fetched(l)]
  /\ latest' = [latest EXCEPT ![l] = IF Fetched(l) = {} THEN None ELSE tip]
  /\ pc' = [pc EXCEPT ![l] = "check"]
  /\ given_up' = given_up \cup ((until[l] + 1)..tip \ Fetched(l))
  /\ UNCHANGED <<world, queue, stored, saved, record, until, missing, filled,
                 lost, faults, crashes>>

FetchFails(l) ==
  /\ pc[l] = "fetch"
  /\ Fails("rpc")
  /\ record' = [record EXCEPT ![l] = "Failed"]
  /\ GiveUp(l)
  /\ UNCHANGED <<world, queue, stored, saved, given_up, lost, crashes>>

\* signature_exists counts the documents of the collection that match; the
\* filter of PoolCreatedEvent names its key twice and keeps the last, so
\* that any document matches.
SignatureExists(l, i) ==
  IF l \in Blind THEN OfType(l) # {} ELSE \E d \in OfType(l) : stored[d] = i

\* A look-up that fails counts the signature as missing.
LookUp(l) ==
  /\ pc[l] = "check" /\ todo[l] # {}
  /\ LET i == Max(todo[l]) IN
       /\ todo' = [todo EXCEPT ![l] = @ \ {i}]
       /\ \/ /\ missing' = IF SignatureExists(l, i)
                           THEN missing
                           ELSE [missing EXCEPT ![l] = @ \cup {i}]
             /\ UNCHANGED faults
          \/ /\ Fails("database")
             /\ missing' = [missing EXCEPT ![l] = @ \cup {i}]
  /\ UNCHANGED <<world, queue, stored, saved, record, pc, until, latest,
                 filled, given_up, lost, crashes>>

LookedUp(l) ==
  /\ pc[l] = "check" /\ todo[l] = {}
  /\ pc' = [pc EXCEPT ![l] = IF missing[l] = {} THEN "complete" ELSE "fill"]
  /\ UNCHANGED <<world, queue, stored, saved, record, scan, faults, given_up, lost, crashes>>

\* Variant for mutation.
ProcessedUnsent(l, i) ==
  /\ queue' = queue
  /\ filled' = IF Chain[i] = None THEN filled
               ELSE [filled EXCEPT ![l] = @ + 1]

\* The transaction is fetched and parsed; whether it failed on chain is not
\* asked.  Any event in it goes to the writer, of whatever type.
Processed(l, i) ==
  /\ queue' = IF Chain[i] = None THEN queue ELSE Submitted(i)
  /\ filled' = IF Chain[i] = None THEN filled
               ELSE [filled EXCEPT ![l] = @ + 1]

\* backfill_missing_events: a transaction that fails is passed over, and the
\* scan record is updated after some of them and after the last.
Fill(l) ==
  /\ pc[l] = "fill"
  /\ LET i == Max(missing[l]) IN
       /\ missing' = [missing EXCEPT ![l] = @ \ {i}]
       /\ \/ Processed(l, i) /\ UNCHANGED <<faults, given_up>>
          \/ /\ Fails("transaction")
             /\ given_up' = given_up \cup {i}
             /\ UNCHANGED <<queue, filled>>
  /\ pc' = IF filled'[l] % UpdateEvery = 0 \/ missing'[l] = {}
           THEN [pc EXCEPT ![l] = "update"]
           ELSE pc
  /\ UNCHANGED <<world, stored, saved, record, until, latest, todo, lost, crashes>>

Update(l) ==
  /\ pc[l] = "update"
  /\ pc' = [pc EXCEPT ![l] = IF missing[l] = {} THEN "complete" ELSE "fill"]
  /\ UNCHANGED <<world, queue, stored, saved, record, scan, faults, given_up, lost, crashes>>

\* A write of the scan record or of the checkpoint fails.
UpdateFails(l) ==
  /\ pc[l] \in {"fetch", "update", "complete", "checkpoint"}
  /\ Fails("database")
  /\ GiveUp(l)
  /\ UNCHANGED <<world, queue, stored, saved, record, given_up, lost, crashes>>

Complete(l) ==
  /\ pc[l] = "complete"
  /\ record' = [record EXCEPT ![l] = "Completed"]
  /\ pc' = [pc EXCEPT ![l] = "checkpoint"]
  /\ UNCHANGED <<world, queue, stored, saved, scan, faults, given_up, lost, crashes>>

\* Variants for mutation.
ScannedToTip(l) == tip
ScannedToLatest(l) == IF latest[l] = None THEN ZeroSignature ELSE latest[l]

\* The checkpoint's new value: the newest signature fetched.
ScannedTo(l) == IF latest[l] = None THEN until[l] ELSE latest[l]

UpdateCheckpoint(l) ==
  /\ pc[l] = "checkpoint"
  /\ checkpoint' = [checkpoint EXCEPT ![l] = ScannedTo(l)]
  /\ since' = [since EXCEPT ![l] = IF @ = None THEN until[l] ELSE @]
  /\ pc' = [pc EXCEPT ![l] = "idle"]
  /\ UNCHANGED <<world, queue, stored, record, scan, faults, given_up, lost, crashes>>

\* The process dies with what was submitted but not written, and starts anew.
Crash ==
  /\ crashes < MaxCrashes
  /\ crashes' = crashes + 1
  /\ lost' = lost \cup ToSet(queue)
  /\ queue' = <<>>
  /\ pc' = [l \in Loops |-> "idle"]
  /\ todo' = [l \in Loops |-> {}]
  /\ missing' = [l \in Loops |-> {}]
  /\ UNCHANGED <<world, stored, saved, record, until, latest, filled, faults, given_up>>

-----------------------------------------------------------------------------
Cycle(l) ==
  \/ Tick(l) \/ Fetch(l) \/ FetchFails(l) \/ LookUp(l) \/ LookedUp(l)
  \/ Fill(l) \/ Update(l) \/ Complete(l) \/ UpdateCheckpoint(l)

BackfillNext ==
  \/ Confirm \/ Write \/ Lose \/ Crash
  \/ \E i \in Transactions : Live(i)
  \/ \E l \in Loops : Cycle(l) \/ UpdateFails(l)

BackfillSpec == BackfillInit /\ [][BackfillNext]_backfillVars

\* The timers tick, calls answer, and the writer goes on: what it neither
\* writes nor loses does not stay in its queue.
BackfillFairness == WF_backfillVars(Write) /\ \A l \in Loops : WF_backfillVars(Cycle(l))

BackfillFairSpec == BackfillSpec /\ BackfillFairness

-----------------------------------------------------------------------------
(* Properties                                                              *)

\* Every variable has its type, and a loop holds signatures only while it
\* looks them up or processes them (BackfillTaskContext).
BackfillTypeOK ==
  /\ tip \in 0..Len(Chain) /\ live \subseteq 1..tip
  /\ queue \in Seq(Transactions) /\ stored \in Seq(Transactions)
  /\ ToSet(queue) \cup ToSet(stored) \subseteq 1..tip
  /\ checkpoint \in [Loops -> 0..tip \cup {None}]
  /\ since \in [Loops -> 0..tip \cup {None}]
  /\ record \in [Loops -> {"None", "Running", "Completed", "Failed"}]
  /\ pc \in [Loops -> {"idle", "fetch", "check", "fill", "update",
                       "complete", "checkpoint"}]
  /\ until \in [Loops -> 0..tip] /\ latest \in [Loops -> 1..tip \cup {None}]
  /\ filled \in [Loops -> Nat] /\ given_up \cup lost \subseteq 1..tip
  /\ faults \in 0..MaxFaults /\ crashes \in 0..MaxCrashes
  /\ \A l \in Loops :
       /\ todo[l] \cup missing[l] \subseteq (until[l] + 1)..tip
       /\ todo[l] # {} => pc[l] = "check"
       /\ missing[l] # {} => pc[l] \in {"check", "fill", "update"}

\* A checkpoint vouches for what it passes: every event of its type from the
\* first scan on is in the database or with the writer, unless a scan gave it
\* up or it was lost after the scan had handed it in.  A scan gives up in two
\* ways only: a transaction whose processing fails (backfill_task_context.rs:
\* 433) and a backlog longer than one request returns (:332).  An event is
\* lost by the writer (batch_writer.rs:235, :383, :462) or in a crash before
\* it was written.  Whatever was lost before a scan began, that scan finds
\* again.  Nothing is promised of a type whose look-up ignores the signature
\* (backfill_handler.rs:252).
CheckpointCovers ==
  \A l \in Loops \ Blind : checkpoint[l] # None =>
    \A i \in (since[l] + 1)..checkpoint[l] :
      Chain[i] = l /\ i \notin Reverted =>
        i \in ToSet(queue) \cup ToSet(stored) \cup given_up \cup lost

\* A checkpoint, once set, is never taken back, whatever fails and however
\* the scan, the live intake and restarts interleave.
CheckpointForward ==
  [][\A l \in Loops : checkpoint[l] # None =>
       checkpoint'[l] # None /\ checkpoint'[l] >= checkpoint[l]]_backfillVars

\* What the live intake misses, or the writer or a crash loses ahead of the
\* checkpoint, is repaired: an event confirmed after the start of the type's
\* first scan is stored in the end, unless a scan gave it up or it was lost
\* and the checkpoint has passed it, so that no scan asks for it again.
LostForGood(l, i) == i \in lost /\ checkpoint[l] # None /\ i <= checkpoint[l]
Repaired ==
  \A l \in Loops \ Blind : \A i \in Transactions :
    Chain[i] = l /\ i \notin Reverted =>
      (tip >= i ~> \/ i \in ToSet(stored) \cup given_up
                   \/ LostForGood(l, i)
                   \/ since[l] # None /\ i <= since[l])
=============================================================================
