---------------------------- MODULE ProjectToken ----------------------------
(***************************************************************************)
(* One crowdfunding project as the event storage keeps it: the row of its  *)
(* token's creation, the rows of deposits, the row of its launch with the  *)
(* state of the migration, and the TokenInfo document they all show in.    *)
(*                                                                         *)
(* The batch loop and flush store batches; a batch is worked off by kind   *)
(* of event, an event at a time.  Deposits and the launch spawn tasks, and *)
(* the push API rewrites the TokenInfo document, all at the same time.     *)
(*                                                                         *)
(* Of TokenInfo only total_raised in the extensions is kept: None when the *)
(* key is absent.  Every collection has its unique index.                  *)
(***************************************************************************)
EXTENDS Integers, FiniteSets

CONSTANTS
  Totals,      \* a deposit event for each: the project's total_raised at it
  Writers,     \* callers of write_batch: the batch loop and flush
  Pushes,      \* requests to push the token, with fields of their own
  MaxHandIns,  \* bound: times an event is handed in, for each kind
  MigrationMayFail,
  Faults,      \* which other calls may fail: "storage", "api"
  MaxFaults,   \* bound: failing calls in a behaviour
  MaxCrashes,  \* bound: crashes in a behaviour
  None

Creation == [kind |-> "creation", total |-> 0]
Launch   == [kind |-> "launch", total |-> 0]
Deposits == [kind: {"deposit"}, total: Totals]
Events   == {Creation, Launch} \cup Deposits

\* TokenInfo documents.
Tokens == [total: Totals \cup {0, None}]

ASSUME ProjectTokenAssumption ==
  /\ Totals \subseteq Nat \ {0}
  /\ MigrationMayFail \in BOOLEAN /\ Faults \subseteq {"storage", "api"}
  /\ MaxHandIns \in [{"creation", "launch", "deposit"} -> Nat]
  /\ {MaxFaults, MaxCrashes} \subseteq Nat
  /\ None \notin Nat \cup Tokens

VARIABLES
  waiting,    \* events handed in and not yet taken into a batch
  handed,     \* how often each event was handed in
  writer,     \* each caller: its next call, what is left of its batch,
              \* whether the batch held the creation, the event at hand
  stored,     \* events with a row
  token,      \* the TokenInfo document, or None
  task,       \* the spawned task of each deposit
  together,   \* deposits stored out of a batch that held the creation
  migration,  \* migration_status in the launch's row, None without one
  migrating,  \* the spawned task of the launch
  triggered,  \* calls of the migration service
  push,       \* each push request, and the document it read
  faults,
  crashes

intake == <<waiting, handed>>
launching == <<migration, migrating, triggered>>
vars == <<intake, writer, stored, token, task, together, launching, push,
          faults, crashes>>

Resting == [pc |-> "idle", batch |-> {}, withCreation |-> FALSE, event |-> None]

Init ==
  /\ waiting = {} /\ handed = [e \in Events |-> 0]
  /\ writer = [w \in Writers |-> Resting]
  /\ stored = {} /\ token = None
  /\ task = [d \in Deposits |-> "idle"] /\ together = {}
  /\ migration = None /\ migrating = "idle" /\ triggered = 0
  /\ push = [p \in Pushes |-> [pc |-> "idle", seen |-> None]]
  /\ faults = 0 /\ crashes = 0

Fails(who) ==
  who \in Faults /\ faults < MaxFaults /\ faults' = faults + 1

-----------------------------------------------------------------------------
(* The intake                                                              *)

\* By the subscription, or again by a reconnection or a backfill.
Deliver(e) ==
  /\ e \notin waiting /\ handed[e] < MaxHandIns[e.kind]
  /\ waiting' = waiting \cup {e}
  /\ handed' = [handed EXCEPT ![e] = @ + 1]
  /\ UNCHANGED <<writer, stored, token, task, together, launching, push,
                 faults, crashes>>

Take(w) ==
  /\ writer[w].pc = "idle"
  /\ \E batch \in (SUBSET waiting) \ {{}} :
       /\ writer' = [writer EXCEPT ![w] =
            [pc |-> "next", batch |-> batch,
             withCreation |-> Creation \in batch, event |-> None]]
       /\ waiting' = waiting \ batch
  /\ UNCHANGED <<handed, stored, token, task, together, launching, push,
                 faults, crashes>>

-----------------------------------------------------------------------------
(* write_batch                                                             *)

\* Variant for mutation: deposits go first.
DepositsFirst(kind) ==
  CASE kind = "creation" -> 3 [] kind = "launch" -> 2 [] kind = "deposit" -> 1

\* The order the kinds of a batch are written in.
Rank(kind) ==
  CASE kind = "creation" -> 1 [] kind = "launch" -> 2 [] kind = "deposit" -> 3

\* Within a kind the batch's own order, which may be any.
Foremost(batch) ==
  {e \in batch : \A f \in batch : Rank(e.kind) <= Rank(f.kind)}

\* Variant for mutation: the last event leaves the caller in its loop.
LeftOpen(r, e) == [r EXCEPT !.pc = "next", !.batch = @ \ {e}, !.event = None]

\* What the caller goes on with once it is through with e.
Left(r, e) ==
  IF r.batch = {e} THEN Resting
  ELSE [r EXCEPT !.pc = "next", !.batch = @ \ {e}, !.event = None]

Done(w, e) == writer' = [writer EXCEPT ![w] = Left(@, e)]

\* Variant for mutation: a creation with a row is skipped like the others.
CheckSkips(w) ==
  /\ writer[w].pc = "next"
  /\ \E e \in Foremost(writer[w].batch) :
       IF e \in stored THEN Done(w, e)
       ELSE writer' = [writer EXCEPT ![w].event = e, ![w].pc = "insert"]
  /\ UNCHANGED <<intake, stored, token, task, together, launching, push,
                 faults, crashes>>

\* exists_by_signature, find_by_signature: an event with a row is skipped,
\* but for a creation TokenInfo is looked at all the same.
Check(w) ==
  /\ writer[w].pc = "next"
  /\ \E e \in Foremost(writer[w].batch) :
       IF e \in stored /\ e # Creation THEN Done(w, e)
       ELSE writer' = [writer EXCEPT ![w].event = e,
              ![w].pc = IF e \in stored THEN "token" ELSE "insert"]
  /\ UNCHANGED <<intake, stored, token, task, together, launching, push,
                 faults, crashes>>

\* The task the row's insert spawns.
Spawn(e, withCreation) ==
  /\ task' = IF e \in Deposits THEN [task EXCEPT ![e] = "find"] ELSE task
  /\ together' = IF e \in Deposits /\ withCreation
                 THEN together \cup {e} ELSE together
  /\ IF e = Launch
     THEN migration' = "pending" /\ migrating' = "call"
     ELSE UNCHANGED <<migration, migrating>>

\* Variant for mutation: no unique index refuses a second row.
InsertAnyway(w) ==
  LET e == writer[w].event IN
  /\ writer[w].pc = "insert"
  /\ stored' = stored \cup {e}
  /\ Spawn(e, writer[w].withCreation)
  /\ IF e = Creation THEN writer' = [writer EXCEPT ![w].pc = "token"]
                     ELSE Done(w, e)
  /\ UNCHANGED <<intake, token, triggered, push, faults, crashes>>

\* The unique index refuses a second row, and the handler ends there.
Insert(w) ==
  LET e == writer[w].event IN
  /\ writer[w].pc = "insert"
  /\ IF e \in stored
     THEN /\ Done(w, e)
          /\ UNCHANGED <<stored, task, together, migration, migrating>>
     ELSE /\ stored' = stored \cup {e}
          /\ Spawn(e, writer[w].withCreation)
          /\ IF e = Creation THEN writer' = [writer EXCEPT ![w].pc = "token"]
                             ELSE Done(w, e)
  /\ UNCHANGED <<intake, token, triggered, push, faults, crashes>>

FindToken(w) ==
  /\ writer[w].pc = "token"
  /\ IF token = None THEN writer' = [writer EXCEPT ![w].pc = "push"]
                     ELSE Done(w, Creation)
  /\ UNCHANGED <<intake, stored, token, task, together, launching, push,
                 faults, crashes>>

\* push_token with the extensions the parser made: total_raised is 0, be the
\* document new or not.
PushCreation(w) ==
  /\ writer[w].pc = "push"
  /\ token' = [total |-> 0]
  /\ Done(w, Creation)
  /\ UNCHANGED <<intake, stored, task, together, launching, push, faults,
                 crashes>>

\* Variant for mutation: the deposit's task is spawned before the insert.
WriterFailsSpawned(w) ==
  /\ writer[w].pc # "idle" /\ Fails("storage")
  /\ \E e \in Foremost(writer[w].batch) :
       /\ writer[w].event \in {None, e}
       /\ Done(w, e)
       /\ task' = IF e \in Deposits /\ writer[w].pc = "insert"
                  THEN [task EXCEPT ![e] = "find"] ELSE task
  /\ UNCHANGED <<intake, stored, token, together, launching, push, crashes>>

\* A call fails: the event at hand is skipped with a warning.
WriterFails(w) ==
  /\ writer[w].pc # "idle" /\ Fails("storage")
  /\ \E e \in Foremost(writer[w].batch) :
       writer[w].event \in {None, e} /\ Done(w, e)
  /\ UNCHANGED <<intake, stored, token, task, together, launching, push,
                 crashes>>

Write(w) == Check(w) \/ Insert(w) \/ FindToken(w) \/ PushCreation(w)

-----------------------------------------------------------------------------
(* The task of a deposit                                                   *)

TaskFind(d) ==
  /\ task[d] = "find"
  /\ task' = [task EXCEPT ![d] = IF token = None THEN "missed" ELSE "write"]
  /\ UNCHANGED <<intake, writer, stored, token, together, launching, push,
                 faults, crashes>>

\* merge_extensions_for_deposit
Merged(t, d) == [t EXCEPT !.total = d.total]

\* update_token sets what the task made, whatever else is there by now.
TaskWrite(d) ==
  /\ task[d] = "write"
  /\ token' = IF token = None THEN None ELSE Merged(token, d)
  /\ task' = [task EXCEPT ![d] = "done"]
  /\ UNCHANGED <<intake, writer, stored, together, launching, push, faults,
                 crashes>>

\* Either call's error is dropped.
TaskFails(d) ==
  /\ task[d] \in {"find", "write"} /\ Fails("storage")
  /\ task' = [task EXCEPT ![d] = "done"]
  /\ UNCHANGED <<intake, writer, stored, token, together, launching, push,
                 crashes>>

-----------------------------------------------------------------------------
(* The task of the launch                                                  *)

\* The client is a stub that always succeeds, with the real call commented
\* out; the handler is ready for its failing.
Trigger ==
  /\ migrating = "call"
  /\ triggered' = triggered + 1
  /\ \/ migrating' = "success"
     \/ MigrationMayFail /\ migrating' = "failed"
  /\ UNCHANGED <<intake, writer, stored, token, task, together, migration,
                 push, faults, crashes>>

UpdateStatus ==
  /\ migrating \in {"success", "failed"}
  /\ migration' = migrating
  /\ migrating' = "idle"
  /\ UNCHANGED <<intake, writer, stored, token, task, together, triggered,
                 push, faults, crashes>>

UpdateStatusFails ==
  /\ migrating \in {"success", "failed"} /\ Fails("storage")
  /\ migrating' = "idle"
  /\ UNCHANGED <<intake, writer, stored, token, task, together, migration,
                 triggered, push, crashes>>

-----------------------------------------------------------------------------
(* The push API                                                            *)

\* handle_external_push leaves a document alone that has all the request
\* says; else push_token reads it.
PushFind(p) ==
  /\ push[p].pc = "idle"
  /\ \/ push' = [push EXCEPT ![p] = [pc |-> "write", seen |-> token]]
     \/ token # None /\ push' = [push EXCEPT ![p].pc = "done"]
  /\ UNCHANGED <<intake, writer, stored, token, task, together, launching,
                 faults, crashes>>

\* The whole document is set, as read: with its extensions, or with those of
\* the request, which need not have the key.
PushWrite(p) ==
  /\ push[p].pc = "write"
  /\ \/ token' = [total |-> None]
     \/ push[p].seen # None /\ token' = push[p].seen
  /\ push' = [push EXCEPT ![p] = [pc |-> "done", seen |-> None]]
  /\ UNCHANGED <<intake, writer, stored, task, together, launching, faults,
                 crashes>>

PushFails(p) ==
  /\ push[p].pc # "done" /\ Fails("api")
  /\ push' = [push EXCEPT ![p] = [pc |-> "done", seen |-> None]]
  /\ UNCHANGED <<intake, writer, stored, token, task, together, launching,
                 crashes>>

-----------------------------------------------------------------------------
\* Batches, spawned tasks and requests under way are gone.
Crash ==
  /\ crashes < MaxCrashes /\ crashes' = crashes + 1
  /\ waiting' = {}
  /\ writer' = [w \in Writers |-> Resting]
  /\ task' = [d \in Deposits |-> IF task[d] = "idle" THEN "idle" ELSE "done"]
  /\ migrating' = "idle"
  /\ push' = [p \in Pushes |-> IF push[p].pc = "idle" THEN push[p]
                               ELSE [pc |-> "done", seen |-> None]]
  /\ UNCHANGED <<handed, stored, token, together, migration, triggered, faults>>

Store(w) == Take(w) \/ Write(w) \/ WriterFails(w)
Task(d) == TaskFind(d) \/ TaskWrite(d) \/ TaskFails(d)
Migrate == Trigger \/ UpdateStatus \/ UpdateStatusFails
Request(p) == PushFind(p) \/ PushWrite(p) \/ PushFails(p)

Next ==
  \/ \E e \in Events : Deliver(e)
  \/ \E w \in Writers : Store(w)
  \/ \E d \in Deposits : Task(d)
  \/ Migrate
  \/ \E p \in Pushes : Request(p)
  \/ Crash

Spec == Init /\ [][Next]_vars

\* What the runtime can run: a batch to take or to go on with (nobody need
\* call flush, nor push), a spawned task, a request under way.
Running ==
  \/ \E w \in Writers : Take(w) \/ Write(w)
  \/ \E d \in Deposits : Task(d)
  \/ Migrate
  \/ \E p \in Pushes : push[p].pc # "idle" /\ Request(p)

\* The runtime does not stand still while it can run something: less than
\* fairness to every task, and enough where hand-ins are bounded.
FairSpec == Spec /\ WF_vars(Running)

-----------------------------------------------------------------------------
\* Every variable keeps to its range; a caller has a batch exactly while it is
\* not at rest, and holds one of its events while it writes.
TypeOK ==
  /\ waiting \subseteq Events /\ handed \in [Events -> Nat]
  /\ writer \in [Writers -> [pc: {"idle", "next", "insert", "token", "push"},
                             batch: SUBSET Events, withCreation: BOOLEAN,
                             event: Events \cup {None}]]
  /\ \A w \in Writers :
       /\ writer[w].pc = "idle" <=> writer[w].batch = {}
       /\ writer[w].pc \in {"insert", "token", "push"} =>
            writer[w].event \in writer[w].batch
  /\ stored \subseteq Events /\ token \in Tokens \cup {None}
  /\ task \in [Deposits -> {"idle", "find", "write", "missed", "done"}]
  /\ together \subseteq Deposits
  /\ migration \in {None, "pending", "success", "failed"}
  /\ migrating \in {"idle", "call", "success", "failed"}
  /\ triggered \in Nat
  /\ push \in [Pushes -> [pc: {"idle", "write", "done"},
                          seen: Tokens \cup {None}]]
  /\ faults \in 0..MaxFaults /\ crashes \in 0..MaxCrashes

\* A launch is migrated at most once, though it is handed in again, to either
\* caller, before or after a crash: a second call would create a second pool.
MigratedOnce == triggered <= 1

\* The amount raised that a project shows is that of a deposit with a row.
RaisedIsBacked ==
  token # None /\ token.total \in Totals =>
    \E d \in stored : d.kind = "deposit" /\ d.total = token.total

\* A deposit that came in one batch with its token's creation finds the token's
\* document, in whatever order the batch held them: the kinds are written in
\* a fixed order, and deposits' tasks start after it.
SameBatchFindsToken ==
  \A d \in together :
    task[d] = "missed" /\ handed[Creation] = 1 => faults > 0

\* After the last failure, a creation handed in brings the token's document
\* about, even if an earlier attempt stored the row and no more.
CreationRepairs ==
  Creation \in waiting /\ faults = MaxFaults /\ crashes = MaxCrashes
    ~> token # None

=============================================================================
