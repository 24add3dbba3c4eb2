----------------------------- MODULE PoolRecord -----------------------------
(***************************************************************************)
(* The document of one CLMM pool (collection ClmmPool) and its writers:    *)
(* the API that builds a creation transaction, the launch migration, the   *)
(* loader that reads pools from the chain, the synchronisation of mint     *)
(* data, and the event listener, whose batch loop and flush call may store *)
(* two deliveries of the creation event at a time.  One pool is enough:    *)
(* every writer works address by address.                                  *)
(*                                                                         *)
(* status is Active exactly where chain_confirmed is set, and so is left   *)
(* out.  mint says that decimals and owner of both mints are filled in.    *)
(***************************************************************************)
EXTENDS Integers, Sequences, FiniteSets

CONSTANTS
  Mode,           \* EVENT_LISTENER_DB_MODE: "UpdateOnly" or "Upsert"
  InsertEnabled,  \* ENABLE_POOL_EVENT_INSERT
  Builders,       \* API requests that build the pool's creation
  Launches,       \* whether a launch migration builds it as well
  Outside,        \* whether another client may create the pool
  ApiSlots,       \* what get_current_slot may give: a tenth of the time
  Readable,       \* whether both mints' accounts can be read: subset of BOOLEAN
  Writers,        \* callers of the event storage: the batch loop and flush
  MaxSlot,        \* bound: slots of the chain
  MaxDeliveries,  \* bound: times the creation event is handed in
  Faults,         \* which calls may fail: "storage", "api", "sync"
  MaxFaults,      \* bound: failing calls in a behaviour
  MaxCrashes,     \* bound: crashes in a behaviour
  None

Slots == 1..MaxSlot

Pools ==
  [confirmed: BOOLEAN,
   source: {"api", "chain", "api_chain_confirmed"},
   slot: Slots \cup {None},          \* event_updated_slot
   apiSlot: ApiSlots \cup {None},    \* api_created_slot
   mint: BOOLEAN,
   needsSync: BOOLEAN]

ASSUME PoolRecordAssumption ==
  /\ Mode \in {"UpdateOnly", "Upsert"}
  /\ {InsertEnabled, Launches, Outside} \subseteq BOOLEAN
  /\ ApiSlots \subseteq Nat /\ Readable \subseteq BOOLEAN
  /\ Faults \subseteq {"storage", "api", "sync"}
  /\ MaxSlot \in Nat \ {0}
  /\ {MaxDeliveries, MaxFaults, MaxCrashes} \subseteq Nat
  /\ None \notin Nat /\ None \notin Pools

VARIABLES
  created,     \* the pool is on the chain
  slot,        \* the chain's slot
  deliveries,  \* times the creation event was handed in
  queue,       \* those not yet taken, by the slot each was handed in at
  pool,        \* the pool's document, or None
  audited,     \* the event is in ClmmPoolEvent
  writer,      \* where each caller of the event storage is
  builder,     \* where each API request is
  launch,      \* where the launch migration is
  loader,      \* where the loader is
  sync,        \* where the synchronisation is
  unread,      \* it last took the mark off without having read both mints,
               \* for the properties
  faults,      \* failing calls so far
  crashes      \* crashes so far

chain == <<created, slot>>
intake == <<deliveries, queue>>
api == <<builder, launch, loader>>
vars == <<chain, intake, pool, audited, writer, api, sync, unread, faults, crashes>>

Resting == [pc |-> "idle", event |-> None, seen |-> None]

Init ==
  /\ created = FALSE /\ slot = 1
  /\ deliveries = 0 /\ queue = <<>>
  /\ pool = None /\ audited = FALSE
  /\ writer = [w \in Writers |-> Resting]
  /\ builder = [b \in Builders |-> "idle"]
  /\ launch = "idle" /\ loader = "idle"
  /\ sync = [pc |-> "idle", seen |-> None] /\ unread = FALSE
  /\ faults = 0 /\ crashes = 0

Fails(who) ==
  who \in Faults /\ faults < MaxFaults /\ faults' = faults + 1

-----------------------------------------------------------------------------
(* The chain and the intake of its events                                  *)

Tick ==
  /\ slot < MaxSlot /\ slot' = slot + 1
  /\ UNCHANGED <<created, intake, pool, audited, writer, api, sync, unread, faults, crashes>>

\* The transaction an API response carried is signed and sent.
CreateOnChain ==
  /\ ~created
  /\ \/ \E b \in Builders : builder[b] = "done"
     \/ launch \in {"built", "done"}
     \/ Outside
  /\ created' = TRUE
  /\ UNCHANGED <<slot, intake, pool, audited, writer, api, sync, unread, faults, crashes>>

\* An event bears the slot at which it is handed in; a backfill or a
\* reconnection hands it in again.
Deliver ==
  /\ created /\ deliveries < MaxDeliveries
  /\ deliveries' = deliveries + 1
  /\ queue' = Append(queue, slot)
  /\ UNCHANGED <<chain, pool, audited, writer, api, sync, unread, faults, crashes>>

-----------------------------------------------------------------------------
(* The event storage: write_single_pool_creation                           *)

\* Variant for mutation: the API's slot is compared the wrong way.
StaleSwapped(p, event) ==
  \/ p.apiSlot # None /\ event > p.apiSlot
  \/ p.confirmed /\ p.slot # None /\ event <= p.slot

\* Version control before the update: an event older than the API record,
\* or not newer than the one a confirmed record bears, is dropped.
Stale(p, event) ==
  \/ p.apiSlot # None /\ event < p.apiSlot
  \/ p.confirmed /\ p.slot # None /\ event <= p.slot

AfterFind(event) ==
  IF pool = None THEN IF InsertEnabled THEN "insert" ELSE "audit"
  ELSE IF Stale(pool, event) THEN "idle" ELSE "update"

Find(w) ==
  /\ writer[w].pc = "idle" /\ queue # <<>>
  /\ LET pc == AfterFind(Head(queue)) IN
     writer' = [writer EXCEPT ![w] =
       IF pc = "idle" THEN Resting
       ELSE [pc |-> pc, event |-> Head(queue), seen |-> pool]]
  /\ queue' = Tail(queue)
  /\ UNCHANGED <<chain, deliveries, pool, audited, api, sync, unread, faults, crashes>>

\* data_source, from the record as read: only an "ApiCreated" one becomes
\* "api_chain_confirmed" under UpdateOnly.
Source(seen) ==
  IF Mode = "Upsert" \/ seen.source = "api"
  THEN "api_chain_confirmed" ELSE "chain"

\* Variant for mutation: the filter forgets the slot.
NoVersionCheck(p, event) == p # None

\* The filter of update_pool_with_version_check.
VersionAllows(p, event) ==
  p # None /\ (p.slot = None \/ p.slot <= event)

Update(w) ==
  /\ writer[w].pc = "update"
  /\ pool' = IF VersionAllows(pool, writer[w].event)
             THEN [pool EXCEPT !.confirmed = TRUE,
                               !.source = Source(writer[w].seen),
                               !.slot = writer[w].event]
             ELSE pool
  /\ writer' = [writer EXCEPT ![w].pc = "audit"]
  /\ UNCHANGED <<chain, intake, audited, api, sync, unread, faults, crashes>>

\* Variant for mutation: the new record counts as synchronised.
FromEventSynced(event) ==
  [confirmed |-> TRUE, source |-> "chain", slot |-> event, apiSlot |-> None,
   mint |-> FALSE, needsSync |-> FALSE]

\* create_pool_from_chain_event: decimals come with the event, owners not.
FromEvent(event) ==
  [confirmed |-> TRUE, source |-> "chain", slot |-> event, apiSlot |-> None,
   mint |-> FALSE, needsSync |-> TRUE]

\* A second record for the address falls to the unique index, and the error
\* ends the handler before the audit.
Insert(w) ==
  /\ writer[w].pc = "insert"
  /\ IF pool = None
     THEN /\ pool' = FromEvent(writer[w].event)
          /\ writer' = [writer EXCEPT ![w].pc = "audit"]
     ELSE pool' = pool /\ writer' = [writer EXCEPT ![w] = Resting]
  /\ UNCHANGED <<chain, intake, audited, api, sync, unread, faults, crashes>>

\* A second row for the signature is refused, which changes nothing.
Audit(w) ==
  /\ writer[w].pc = "audit"
  /\ audited' = TRUE
  /\ writer' = [writer EXCEPT ![w] = Resting]
  /\ UNCHANGED <<chain, intake, pool, api, sync, unread, faults, crashes>>

\* Any of the calls fails: the event is skipped with a warning.
WriterFails(w) ==
  /\ Fails("storage")
  /\ \/ /\ writer[w].pc = "idle" /\ queue # <<>>
        /\ queue' = Tail(queue)
     \/ writer[w].pc # "idle" /\ queue' = queue
  /\ writer' = [writer EXCEPT ![w] = Resting]
  /\ UNCHANGED <<chain, deliveries, pool, audited, api, sync, unread, crashes>>

-----------------------------------------------------------------------------
(* The API: store_pool_creation                                            *)

BuildFind(b) ==
  /\ builder[b] = "idle"
  /\ builder' = [builder EXCEPT ![b] =
       IF pool # None /\ pool.confirmed THEN "done" ELSE "store"]
  /\ UNCHANGED <<chain, intake, pool, audited, writer, launch, loader, sync, unread, faults, crashes>>

\* upsert_pool sets the whole document but the event's fields, which are not
\* serialised when absent.
BuildStore(b) ==
  /\ builder[b] = "store"
  /\ \E s \in ApiSlots :
       pool' = [confirmed |-> FALSE, source |-> "api",
                slot |-> IF pool = None THEN None ELSE pool.slot,
                apiSlot |-> s, mint |-> FALSE, needsSync |-> TRUE]
  /\ builder' = [builder EXCEPT ![b] = "done"]
  /\ UNCHANGED <<chain, intake, audited, writer, launch, loader, sync, unread, faults, crashes>>

\* A failing look-up is taken for no record; a failing write only logged.
BuildFails(b) ==
  /\ Fails("api")
  /\ \/ builder[b] = "idle" /\ builder' = [builder EXCEPT ![b] = "store"]
     \/ builder[b] = "store" /\ builder' = [builder EXCEPT ![b] = "done"]
  /\ UNCHANGED <<chain, intake, pool, audited, writer, launch, loader, sync, unread, crashes>>

-----------------------------------------------------------------------------
(* The launch migration and the loader: an insert, spawned                 *)

\* The record the document store holds after p is inserted for the address.
Inserted(p) == IF pool = None THEN p ELSE pool

LaunchBuild ==
  /\ Launches /\ launch = "idle" /\ launch' = "built"
  /\ UNCHANGED <<chain, intake, pool, audited, writer, builder, loader, sync, unread, faults, crashes>>

LaunchStore ==
  /\ launch = "built" /\ launch' = "done"
  /\ pool' = Inserted([confirmed |-> FALSE, source |-> "api", slot |-> None,
                       apiSlot |-> None, mint |-> FALSE, needsSync |-> TRUE])
  /\ UNCHANGED <<chain, intake, audited, writer, builder, loader, sync, unread, faults, crashes>>

\* A pool asked for by address, absent from the collection.
LoadFind ==
  /\ loader = "idle" /\ pool = None /\ created
  /\ loader' = "loaded"
  /\ UNCHANGED <<chain, intake, pool, audited, writer, builder, launch, sync, unread, faults, crashes>>

LoadStore ==
  /\ loader = "loaded" /\ loader' = "done"
  /\ pool' = Inserted([confirmed |-> TRUE, source |-> "chain", slot |-> None,
                       apiSlot |-> None, mint |-> TRUE, needsSync |-> FALSE])
  /\ UNCHANGED <<chain, intake, audited, writer, builder, launch, sync, unread, faults, crashes>>

-----------------------------------------------------------------------------
(* The synchronisation: one pool of a batch                                *)

SyncFind ==
  /\ sync.pc = "idle" /\ pool # None /\ pool.needsSync
  /\ sync' = [pc |-> "read", seen |-> pool]
  /\ UNCHANGED <<chain, intake, pool, audited, writer, api, unread, faults, crashes>>

SyncRest == sync' = [pc |-> "idle", seen |-> None]

\* Variant for mutation: the mark stays.
SyncedStillMarked(p, differs) == [p EXCEPT !.mint = @ \/ differs]

\* update_pool_onchain_data when the mint data differ from those read,
\* update_sync_status otherwise; either takes the mark off.
Synced(p, differs) ==
  [p EXCEPT !.mint = @ \/ differs, !.needsSync = FALSE]

\* A mint whose account is missing or no mint is passed over: the mark is
\* taken off all the same.
SyncStore ==
  /\ sync.pc = "read"
  /\ \E readable \in Readable :
       /\ pool' = Synced(pool, readable /\ ~sync.seen.mint)
       /\ unread' = ~readable
  /\ SyncRest
  /\ UNCHANGED <<chain, intake, audited, writer, api, faults, crashes>>

\* mark_sync_failed, after the retries of the single-pool way are spent.
SyncFails ==
  /\ sync.pc = "read" /\ Fails("sync")
  /\ pool' = [pool EXCEPT !.needsSync = TRUE]
  /\ SyncRest
  /\ UNCHANGED <<chain, intake, audited, writer, api, unread, crashes>>

-----------------------------------------------------------------------------
\* What is in memory is gone; requests under way end.
Crash ==
  /\ crashes < MaxCrashes /\ crashes' = crashes + 1
  /\ queue' = <<>>
  /\ writer' = [w \in Writers |-> Resting]
  /\ builder' = [b \in Builders |-> IF builder[b] = "idle" THEN "idle" ELSE "done"]
  /\ launch' = IF launch = "idle" THEN "idle" ELSE "done"
  /\ loader' = IF loader = "idle" THEN "idle" ELSE "done"
  /\ SyncRest
  /\ UNCHANGED <<chain, deliveries, pool, audited, unread, faults>>

Handle(w) == Find(w) \/ Update(w) \/ Insert(w) \/ Audit(w)
Build(b) == BuildFind(b) \/ BuildStore(b) \/ BuildFails(b)
Sync == SyncFind \/ SyncStore \/ SyncFails

Next ==
  \/ Tick \/ CreateOnChain \/ Deliver
  \/ \E w \in Writers : Handle(w) \/ WriterFails(w)
  \/ \E b \in Builders : Build(b)
  \/ LaunchBuild \/ LaunchStore \/ LoadFind \/ LoadStore
  \/ Sync \/ Crash

Spec == Init /\ [][Next]_vars

\* The batch loop keeps taking batches (nobody need call flush), a handler
\* once begun ends, and so do spawned tasks and requests; the
\* synchronisation ticks on.
FairSpec ==
  /\ Spec
  /\ WF_vars(\E w \in Writers : Find(w))
  /\ \A w \in Writers : WF_vars(writer[w].pc # "idle" /\ Handle(w))
  /\ \A b \in Builders : WF_vars(builder[b] # "idle" /\ Build(b))
  /\ WF_vars(LaunchStore) /\ WF_vars(LoadStore) /\ WF_vars(Sync)

-----------------------------------------------------------------------------
\* Every variable keeps to its range, and a handler that holds an event has
\* what it read: a record when it updates, none when it inserts.
TypeOK ==
  /\ created \in BOOLEAN /\ slot \in Slots
  /\ deliveries \in 0..MaxDeliveries
  /\ queue \in Seq(Slots) /\ Len(queue) <= deliveries
  /\ pool \in Pools \cup {None}
  /\ audited \in BOOLEAN
  /\ writer \in [Writers -> [pc: {"idle", "update", "insert", "audit"},
                             event: Slots \cup {None},
                             seen: Pools \cup {None}]]
  /\ \A w \in Writers :
       /\ writer[w].pc # "idle" => writer[w].event # None
       /\ writer[w].pc = "update" => writer[w].seen # None
       /\ writer[w].pc = "insert" => writer[w].seen = None
  /\ builder \in [Builders -> {"idle", "store", "done"}]
  /\ launch \in {"idle", "built", "done"}
  /\ loader \in {"idle", "loaded", "done"}
  /\ sync \in [pc: {"idle", "read"}, seen: Pools \cup {None}]
  /\ sync.pc = "read" => sync.seen # None
  /\ unread \in BOOLEAN
  /\ faults \in 0..MaxFaults /\ crashes \in 0..MaxCrashes

\* The slot of the newest event in the record never goes back or away,
\* whatever order deliveries are stored in and whoever else writes: the
\* "version control" of smart_update_pool_from_event.
SlotForward ==
  [][pool # None /\ pool.slot # None =>
       pool' # None /\ pool'.slot # None /\ pool'.slot >= pool.slot]_vars

\* A record the synchronisation is done with has its mint data, however it
\* was rewritten and updated between the synchronisation's read and its write,
\* with one exception: a mint that could not be read when the mark was last
\* taken off (sync.rs:356-364, :494-530).  Nothing marks such a record again.
SyncedHasMint ==
  pool # None /\ ~pool.needsSync => pool.mint \/ unread

\* An event handed in once the record exists and every API request has ended
\* confirms the record in the end, unless a crash or a failing call costs the
\* event, or the API's slot runs ahead of the chain's.
EventConfirms ==
  /\ pool # None /\ \A b \in Builders : builder[b] = "done"
  /\ \E i \in DOMAIN queue : pool.apiSlot # None => queue[i] >= pool.apiSlot
  ~> (pool # None /\ pool.confirmed) \/ faults > 0 \/ crashes > 0

\* A record marked for synchronisation is synchronised in the end, through
\* failing calls and rewrites.
SyncEnds == pool # None /\ pool.needsSync ~> pool # None /\ ~pool.needsSync
=============================================================================
