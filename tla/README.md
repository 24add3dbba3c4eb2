# Verification of the Coinfair backend

TLA+ specifications of the Coinfair Solana backend (a Rust workspace: an
on-chain event listener, a MongoDB layer, a REST server and the on-chain
programs), the TLC runs that check them and the TLAPS proofs about them.
`PROJECT.json` is the index: components, runs, mutants, the source lines behind
each definition, findings, hazards and theorems. Paths below are relative to
`src/crates/`; *EL* stands for `solana-event-listener/src`.

Contents: 1 the system, 2 modules, 3 runs, 4 proofs, 5 where code and its
documentation disagree, 6 not modelled, 7 plan.

## 1. The system

One process (`coinfair/src/main.rs`) runs the REST server, the CLMM pool
synchronisation and the event listener; the latter two are restarted two seconds
after they end. Everything durable is in MongoDB. The listener can also be run on
its own (`EL/main.rs`), with one difference that matters: it does not create the
unique indexes (section 2.6).

```
 Solana RPC/WS ──► WebSocketManager ─ring─► SubscriptionManager ─tasks─┐
       │                                                               ▼
       └──────────► Backfill loops (one per event type) ───────► BatchWriter
                      │ checkpoints, scan records                      │ write_batch
                      ▼                                                ▼
                   MongoDB ◄───────────── EventStorage (handlers, spawned tasks)
                      ▲                                                │
   REST API, launch migration, pool loader, pool sync                  └► points,
                                                        TokenInfo, ClmmPool, launches
```

| Component | State | Operations | What is hard | What makes it correct |
|---|---|---|---|---|
| Batch writer `EL/persistence/batch_writer.rs` | channel, bounded buffer, batch of each caller, retry table | submit, collect, write, retry, flush, stop | two tasks and a shutdown drain one buffer; batches sleep unlocked between attempts; eviction | order and uniqueness of what it holds, bounded memory, every event settles, no loss without a cause |
| Subscription intake `EL/subscriber` | connection, broadcast ring, cursor, signature cache, a task per message | connect, receive, mark, process, clean up | lagging receiver, expiry against marking, a mark made before the work | each transaction goes on once; what is heard goes on |
| Backfill `EL/recovery` | checkpoint and scan record per type, the scan in progress | cycle: tick, fetch, look up, process, update, complete, checkpoint | crashes and failing calls between any two steps, asynchronous writer, request limit | checkpoint only forward, past nothing unstored; all that was missed is repaired |
| Event storage `EL/persistence/event_storage.rs` | rows of each event kind | one handler per kind, spawned tasks | two callers, redelivery, crash between row and document, order of kinds | each event has its effects once, half effects are completed |
| Reward points `database/src/cpmm/points` | detail and summary documents | first and later swap, claim as upper and as claimer | read-modify-write by unserialised tasks | totals agree with the events stored |
| Pool record (`ClmmPool`) | confirmation, slot of newest event, mint data, sync mark | API build, launch migration, loader, sync, event handler | five writers of one document, none of them locked | newest slot wins, confirmation stays, sync ends with complete data |
| Project token (`TokenInfo`, launches, deposits) | document, rows, migration status | creation, deposit, launch, push | deposits and creation race, launch redelivered | launched once, amount raised is backed, half creations repaired |
| Permission configuration `server/src/services/solana/auth` | configuration in memory, copy in MongoDB | toggles, updates, save, reload, restart, check of a request | save, reload and restart interleave, parts of a save fail | what an administrator nobody overlapped was told is done stays done; a shutdown refuses every request that is checked |
| Rate limiting `server/src/auth/rate_limit.rs` | counter per key and minute | check, clean up | two Redis calls per count | at most the limit per window, windows end |
| CPMM program `solana/cpmm` | pool, fees, two vaults, LP tokens | create, deposit, withdraw, swap both ways, collect, administer | a root, quotients and shares rounded in sequence; three kinds of fee in two vaults | vaults stay solvent, no holder's share falls |
| Referral program `solana/referral` | a mint counter and a pool of NFTs per wallet, `upper` of each | mint, claim, change of the official mint | counters against pools of another mint | what is counted is what can be claimed and what lies under an earlier mint |
| CLMM program `solana/amm` | pool, ticks, tick arrays and their bitmap, positions | open, increase, decrease, close, swap step by step, rewards, collect | growth outside ticks that comes round below zero, counts and bits that must agree, a swap that starts between arrays | the books agree, the next tick is found, dues are covered |
| Quote services `server/.../cpmm`, `utils/src/solana/swap_calculator.rs` | none | repeat the program's calculation on fetched accounts | differences of one rounding, one rate or one tick array | what is quoted is what the program does on the same state, but for named exceptions |
| REST API, authentication, other services | none of their own | validate, fetch accounts, build transactions, query | no shared state beyond the documents above | pure computation |
| Clients, utilities, monitor, timer, telegram, dex | none relevant | | the monitor is disabled in `main.rs`, `dex` is empty | |

The sources and status of each part are under "components" in `PROJECT.json`, the
40 places where something could go wrong beyond a test's reach under "hazards".

## 2. Modules

Every module abstracts data to what its properties tell apart: events are numbers
or model values, documents are records of the few fields that matter, an HTTP, RPC
or database call is one step. A step between two `await`s is one action, since
other tasks run only there or on other threads, and what such a step touches is
behind a lock or is one atomic MongoDB call.

### 2.1 BatchWriter and EventSink

`BatchWriter.tla` is `batch_writer.rs`: `submit_event(s)` (Submit),
`event_collection_loop` (CollectorCheck, CollectorTimeout, Collect),
`batch_write_loop` (LoopCheck, LoopTick, WaitElapses), `write_batch` for either of
its callers, the write loop and `flush` (Take, TakeNothing, StoreOk, StoreFails,
Requeue), and the ends of the process (Shutdown, FlushCheck, Exit, Crash). An
event is its submission number. The storage below is seen through what
`write_batch` of `event_storage.rs` answers, with rows stored or not. In the
repository as it stands that function logs and swallows the errors of its
handlers, so it always answers Ok and may have stored less than it was given
(`StorageMaySkip`); the error path of the writer is modelled as written.
`stop()` has no caller in production: EventListenerService calls `flush` alone.

`EventSink.tla` is the promise: events are accepted in order, are pending, then
settle, with a row or lost. `BatchWriter` implements it under `accepted <- queued`,
`pending <- InMemory`, `rows <- stored` (property `ImplementsSink`, fairness
included).

### 2.2 SubscriptionManager

`websocket_manager.rs` and `subscription_manager.rs`: Connect, Disconnect and
Announce for the connection, the ring and who is not there to hear; Subscribe,
LoopCheck, Timeout, Receive, Mark and Lag for `event_processing_loop`; Parse and
Submit for the task of one transaction; Cleanup for `cleanup_signature_cache`;
Stop. A message is its position in the log; a transaction is announced once for
each program it mentions. The streams of all programs end together, so one flag
says connected. Messages with the all-ones signature are dropped at once and left
out. The cache's shards matter because the cleanup holds guards of whole shards: a
loop that has to remember a signature of such a shard is *Stuck*, for good, and the
promise that what is heard goes on excepts it (the expected violation
`OversizeCacheIsTrimmed` is the same deadlock seen from the cleanup).

### 2.3 Backfill

`backfill_task_context.rs` and its two persistence files, one loop per event type.
A cycle is Tick (read or make the checkpoint, choose the range, write the scan
record), Fetch, LookUp and LookedUp (which signatures are not stored), Fill
(process a missing one, hand it to the writer), Update (the scan record every ten
transactions), Complete, UpdateCheckpoint. Any call may fail (FetchFails,
UpdateFails); Crash loses the writer's queue and the scan. Live, Write and Lose are
the live intake and the batch writer in brief: an event in the writer's queue is
stored, or lost to an eviction, a batch that is dropped or a handler whose error the
storage swallows. `lost` remembers those until a later scan of their type starts
below them, `given_up` what a scan itself lets go of. Positions on the chain stand for
signatures; slots are in submission order.

### 2.4 UserPoints

The swap and claim handlers of `event_storage.rs` and
`database/src/cpmm/points/{repository,transaction_detail_repository}.rs`. Storing
a row spawns a task (WriteSwap, WriteClaim); a task makes one database call per
step (Find, Insert, InsertDuplicate, Update, CallFails), on details and on the
summaries of payer, upper and claimer in the order of the code, so that tasks of
one wallet interleave at each call. Restart cuts all tasks off.

### 2.5 PoolRecord

One document of `ClmmPool` with all that write it: the listener's handler of
`PoolCreatedEvent` (Find, Update, Insert, Audit), `store_pool_creation` of the API
(BuildFind, BuildStore), the launch migration's spawned insert (LaunchBuild,
LaunchStore), the loader from the chain (LoadFind, LoadStore) and the
synchronisation (SyncFind, SyncStore, SyncFails). `status` equals Active exactly
where `chain_confirmed` holds and is left out; "mint" is decimals and owner of both
mints. A mint may be unreadable (`Readable`), and the synchronisation then takes its
mark off with the data missing, which `unread` remembers. `EVENT_LISTENER_DB_MODE`
and `ENABLE_POOL_EVENT_INSERT` are constants. The API's slot is the clock's seconds
over ten (`pool/storage.rs:196`), unrelated to the chain's slots: `ApiSlots`.

### 2.6 ProjectToken

One crowdfunding project: the creation's row and `TokenInfo` document, deposits'
rows and the tasks that enrich the document, the launch's row, migration and
status, and the push API. `write_batch` works kind by kind in a fixed order, which
Take and the steps of Write follow. Of `TokenInfo` only
`extensions.total_raised` is kept; description, links, status and volumes are left
out. A creation handed in again still looks at the document: that is how a half
creation is repaired. Assumed: the unique indexes the server creates
(`database/src/lib.rs:217`). The listener run on its own does not create them; there
two callers could both insert a launch, and both call the migration.
`MigrationClient` is a stub that answers Ok (`EL/services/migration_client.rs:49`);
MigrationMayFail is the branch its caller has for an error.

### 2.7 PermissionConfig

`solana_permission_service.rs`, `solana_permissions.rs` and the repository of the
two collections. The memory is behind a lock, so a change of it (Toggle,
UpdateGlobal, UpdateApis, the steps of Disable) is one action; the save that
follows is a chain of steps, each a read of the memory or a call to the database
(ReadGlobal, WriteGlobal, ReadApis, WriteApi), that other requests, reloads
(FindGlobal, LoadGlobal, FindApis, LoadApis) and a Restart may come between. A
failed upsert of an endpoint is logged and passed over (WriteApiFails), any other
failed call ends the request with an error while the change stays in memory, and a
start whose reads fail keeps the default, open configuration. `Permitted` is
the check of a request, `ToldOf` and `Passes` what the two kinds of middleware make of
its answer: the required one (`/swap`, `/position`, `/nft`, `/pool`, `/liquidity`
and `/admin/permissions`) refuses, the optional one (`/main`, `/mint`, `/pools`,
`/events`) lets a request with a token go on without its user. Where
`AUTH_DISABLED` is set nothing is checked (`AuthDisabled`). The routes `/user`,
`/refer`, `/reward`, the static files and `/health` have neither and are outside
the model. The requests of administrators are writes behind the required middleware
themselves (Admit), and their handlers run some time after they have passed it.
`promised` remembers what an administrator nobody overlapped was told is done.

### 2.8 Referral, CpmmPool, CpmmService

`Referral.tla` is the program that keeps who is whose upper: MintNft, ClaimNft, and
UpdateNftMint, which changes the official mint and leaves the counters as they are;
from then on a claim reaches the NFTs of the new mint only (`Claimable`), and what
was minted before is `Stranded`. `CpmmPool.tla` extends it with one pool of the CPMM
program: creation with and without permission, deposit, withdrawal, swaps by input
and by output, collection of the three fees, status and rates. The curve is x^4·y
in integers as the code computes it, the fourth root by the code's search
(`RootSlack`: above u128 the search may stop short of the root), the values cut off at
u128 where the code does so (`Wide`, with `WideMax` for u128::MAX), and every rounding
is the code's. An instruction is one action that does everything or is refused.
How many uppers a swap names, and the mint its reward is to be paid in, are the
caller's choice, as in the code.

`CpmmService.tla` adds what `swap_service.rs`, `deposit_service.rs` and
`withdraw_service.rs` compute from the same accounts, the amounts quoted and the
limits put in the transaction, with the mint of the reward and the uppers it names.
Slippage goes through doubles as in the code: `FloorDouble` and `CeilDouble` round a
fraction to the nearest double, ties to even, and then to an integer. `Exact` is 2^53
in the code and 8 in the run, so that amounts no double holds are met there.

### 2.9 ClmmPool, ClmmQuote

`ClmmPool.tla` is the concentrated-liquidity program of the workspace
(`solana/amm`; `solana/clmm` is an older copy and no member): OpenPosition,
IncreaseLiquidity, DecreaseLiquidity, ClosePosition, rewards, fees and status,
each one action, and a swap as SwapStart, one SwapStep per turn of its loop and
SwapEnd, between which nothing else happens. It keeps the books: liquidity gross
and net on ticks, counts of tick arrays and their bitmap, growth global and
outside, positions and what they are owed, with `wrapping_sub` modulo `Modulus`.
The price curve is abstracted: a step goes any way towards the next tick for any
fee, and the balances of the two vaults may be found short or not.

The swap's transfers with the checks behind them (`swap.rs:781`) are `SwapPaid`. A
range nobody has put liquidity on is not opened by an increase of nothing
(`protocol_position.rs:74`), which its guard repeats. `Settled` takes no account of
`to_underflow_u64`: a share beyond 64 bits is paid as nothing in the code, which only
lowers what is owed.

`ClmmQuote.tla` adds the two loops of `swap_calculator.rs` that quote a swap and
simulate its impact over the tick arrays they load, each with its limit of turns: at
the limit the quote is an error (`:1014`), while the impact breaks off and answers
for the part of the swap it has followed (`:407`).

## 3. Runs

Twelve runs. Each passing run's properties each have a mutant, a small change of a
definition in the way a bug would make it, that TLC finds. Deadlock is not checked
where the process may stop or the bounded input may run out; the backfill run
checks it (a loop always has a next step).

| Run | Instance | Shows |
|---|---|---|
| `writer` | 3 events, batch 2, buffer 2, 1 retry, both kinds of error, flush and stop; 55,000 states | BufferBounded, SubmissionOrder, OnePlace, ImplementsSink |
| `points_mixed` | 2 swaps and a claim of one wallet, a claim without upper, failing calls, a restart; 42,000 | NeverOverpaid, SummaryBackedByDetails, ClaimRewarded, PayerGetsAccount |
| `subscription_intake` | 2 signatures, one announced twice, ring of 2, cache of 1, a third ignored, expiry; 298,000 | TypeOK, SubmittedOnce, PassedIsHandled, HeardIsSubmitted |
| `backfill` | 3 transactions, one of another type, limit 2, any failing call, a crash, a writer that may lose any event; 630,000 | BackfillTypeOK, CheckpointCovers, CheckpointForward, Repaired |
| `pool_race` | every writer, 2 deliveries, 2 slots, readable mints or not, 1 failure, 1 crash, Upsert with inserts; 379,000 | SyncedHasMint, SlotForward, EventConfirms, SyncEnds |
| `project` | creation and launch twice, a deposit, 2 callers, a push, 1 failure, 1 crash; 492,000 | TypeOK, MigratedOnce, RaisedIsBacked, SameBatchFindsToken, CreationRepairs |
| `cpmm_pool` | 2 wallets, 5 instructions on one pool and the referral program, u128::MAX 4095, doubles of 3 bits; 94,000 | Solvent, QuotesKeepConstant, ClaimsAccounted, QuotesHonoured, ShareNeverFalls |
| `clmm_books` | 2 positions, 3 ranges on 4 ticks in 3 tick arrays, 5 instructions, 2 turns; 623,000 | TypeOK, LiquidityIsSum, NextTickIsNearest, GrowthIsExact, DuesCovered, QuoteSeesPositions |
| `permission` | 2 administrators, 3 changes, an endpoint behind each middleware, 1 failing call, 1 restart; 407,000 | AcknowledgedLasts, ShutdownStopsAll |
| `points_lost_update` | expected violation | TransactionPointsExact |
| `subscription_trim` | expected violation | OversizeCacheIsTrimmed |
| `clmm_fees` | expected violation | FeesSharedOnce |

Why the bounds are enough. Three events through a buffer of two reach eviction on
both sides, a batch that is retried while events arrive, and a flush beside a
sleeping write loop. Three announcements with a ring of two reach a lag, a duplicate
across an expiry and a message after a stop; a cache of one is over its size with
the second signature, so the cleanup's second branch and its deadlock are reached.
Three chain positions give a first scan, a scan with a lower end and a limit below
the backlog, and `UpdateEvery` 2 gives scans with and without an update; the
writer's losses are not bounded. Two deliveries, two slots and two callers are the
smallest instance in which deliveries overtake one another. Two swaps show every
interleaving of two updates of a counter; a third adds no new pair. One failing call
and one crash are enough for what a single cut can leave half done, and leave the
rest of the behaviour to repair it. Five instructions on the CPMM pool are a
creation, its opening and any three others, which is what it takes to make, change
and use a state; amounts of a few units are where roundings weigh most, and
`WideMax` and `Exact` are low enough for a quote to be cut off and for amounts
without a double. Three ranges share their four ticks, two of which are in one
array, with a gap the price can rest in; a range opened beside one that has grown
has a growth inside that starts below zero and comes round. Five instructions on
them open, swap across, empty, reopen and swap back. `MaxTurns` is 2, where the code
stops at eleven, so that quotes reach their limit as well as the end of the arrays
they can use. Three changes are the least in which one request saves, one reloads
and one overtakes.

Fairness. The tokio runtime polls every spawned task, and RPC and database calls
answer (with an error, perhaps): weak fairness on tasks and loops. Nobody need call
flush, connect, announce, submit or push, nothing must be confirmed on chain, and
crashes and failures are bounded rather than fair, so liveness says that finitely
many failures are recovered from. In `Backfill` the writer goes on (Write); that it
loses an event (Lose) need never happen, and may at any time. In `PoolRecord`
fairness is on the batch loop's taking (either caller will do), on each handler once
begun, and on the synchronisation. In `ProjectToken` it is on the disjunction of all
that can run, which is weaker than fairness to each task and is enough because
hand-ins are bounded. Nothing needs strong fairness. The programs and the permission
configuration promise nothing that must eventually happen and have none.

## 4. Proofs

TLAPS proves the following for every value of the constants that satisfies the
modules' named assumptions. Each proof is an invariant shown inductive, action by
action; a listed property follows from it. The proofs stand in eight modules, by
part of the system; `BatchWriter` and `UserPoints` share one, `SubscriptionManager`
and `Backfill` another. Every invariant a passing run checks is the subject of a
theorem, and so is every action property. Type invariants proved here are in a run
only where they carry more than types.

* **DataLemmas**, what the others rest on. The library's induction theorems take an
  operator and cannot be used, so induction is here over sets: a set of natural
  numbers has a least one (`LeastExists`, `InductionUpTo`), and what passes from all
  proper subsets of a finite set to the set holds of it (`SubsetInduction`, from
  well-foundedness). With it the sum of the community modules, a recursive function
  under a CHOOSE, is shown to exist and to be unique (`SumIs`), then to unfold, add
  up, change with one term and be monotone; a finite set of integers has its
  maximum; quotients and remainders are what they should be.
* **EventProofs, the batch writer.** `TypeCorrect` and `BufferNeverOverflows`. The
  inductive invariant adds to both *FlushBudget*: `flush` goes on only while it has
  attempts left. Without it nothing says that the failure counted next is not the
  fourth. Lemmas give what insertion at either end and popping do to the buffer's
  length, for any `buffer_size`, 0 included, and any batch size. `KeepsItsPromise`
  is the safety half of the refinement, `Spec => Sink!Spec`: a step is a submission
  or *Letting*, which stores some of what is in memory and takes up nothing new.
  `InOnePlace` and `OrderKept` come from one invariant, *PlacesInv*, read with two
  relations: what is earlier in the row "write loop, flush, buffer, channel" is
  related to what is later, by being different (always) or by being older (until a
  shutdown). It needs that a writer about to pop holds nothing, and that nobody
  holds an event not yet submitted.
* **EventProofs, the points.** `PointsTyped`; `NobodyOverpaid`, by *PaidInv*: what a
  stored document shows, and what a task is about to write back from a copy read
  before, is no more than the wallet's stored events are worth; `SummariesBacked`,
  that a summary shows no more than the wallet's details add up to, from the same
  invariant and a lower bound of the sum over details (`DetailsWorth`: one of them
  is a first, the others count ten each); `ClaimsRewarded`, that what a finished
  claim has paid no later write takes back below it; `FirstIsMarked`.
* **ListenerProofs, the intake.** `IntakeTyped`, in which the cache holds no signature
  twice although looking up and remembering are separate steps: in between the
  cache only loses entries. `EventsSubmittedOnce`, by counting: submissions plus
  tasks at work are no more than a signature's stays in the cache.
  `NothingHidden`, by *PassedInv*: what is in the cache, and what the loop passed,
  has a task that took it.
* **ListenerProofs, the backfill.** `BackfillTyped`; `NeverTakenBack`, by
  *ForwardOK*: a scan in progress starts at the checkpoint, if there is one, and ends
  above it; and `CheckpointVouches`, by *Covered*: behind the checkpoint everything
  of the type since its first scan is settled (with the writer, stored, given up by a
  scan, or lost), in the scan everything is settled or still held by it. What the
  writer or a crash loses is settled only until the next scan of its type begins
  below it: Tick takes it out of `lost`, and from then on the scan has to hold it.
  Any number of loops, limits, losses, failures and crashes.
* **PoolRecordProofs.** `TypeCorrect`; `SlotNeverGoesBack`, that no step of any
  number of requests, callers and deliveries takes the newest slot back; and
  `SyncedIsComplete`, that a record not marked for synchronisation has its mint
  data, or its mint could not be read when the mark was last taken off (the code
  counts that as synchronised, section 5). The invariant is TypeOK with
  *RecordInHand*, that the record the synchronisation has read is still there
  when it writes, and, for the last theorem, *MintKnown*: where mint data is missing
  the mark is set or the mint was unreadable, and the synchronisation holds only
  records without mint data. The last is why the write of a stale comparison is harmless.
* **ProjectTokenProofs.** `LaunchMigratesOnce`, by *OneCall*: a call of the
  service still to come excludes one made, and a launch without a row excludes
  both; the row under its unique index is what makes redelivery harmless. And
  `RaisedComesFromRows`, by *AllBacked*: the amount in the document, and in every
  copy of it a request still holds, is that of a deposit with a row, and every
  running task is of such a deposit. `ProjectTyped` is the type invariant.
  `DepositFindsToken`, by *InTime*: as long as no call has failed and the creation
  was handed in once, there is one copy of it, nobody else stores its row, and
  whoever has worked it off has seen to the document.
* **CpmmProofs.** For any rates, amounts and sequence of instructions: `PoolTyped`
  and `PoolSolvent` from TypeOK, Solvent and *NoFeesBefore* (no fee is owed before
  the pool is there); `SharesKept`, that no instruction lowers what stands behind an
  LP token, from lemmas about each rounding; `QuotesAlwaysHonoured`, that no limit
  the services set makes the program refuse the transaction they built, but for
  amounts no double holds and for exact output while a reward is due, which the
  program refuses in every case; it rests on lemmas about the doubles (`NearestIs`,
  `FinerIs`: rounding to the nearest one passes over none, and a fraction below
  `Exact` has a finest step). `ClaimsHold`: what a wallet minted and has not given
  away lies in its pools, a sum over the mints, and what a claim can reach of it is
  what is not stranded under an earlier one. And `CurveKeepsConstant`, that a quote
  does not lower the constant of the curve but where a division cuts off a remainder
  in front of a fourth power, and where the value under the root is cut off at u128.
  That rests on `RootAbove`: the two searches of `Root4`, the code's loops, end, and
  what they end with is not below the fourth root. Of the widths of integers the
  curve's u128 is modelled, u64 and U512 are not.
* **ClmmProofs.** For any ticks, tick arrays, ranges, positions, fees, rates, and any
  modulus and Q, `ClmmInvariant`, whose parts lean on one another: *LiquidityIsSum* (a
  property of the run) says that the ends of a range with liquidity are used ticks
  (`EndsUsed`); *Tables*, that counts and bits of the arrays are those of their ticks;
  *Place*, that tick and price of pool and swap belong together, also where the
  price rests on the boundary of two ticks; *Search*, that a swap is in the array of
  its tick, or has left it downwards by one, or waits in the first array ahead of
  one without ticks. From these comes that the loop finds the nearest used tick,
  so that a crossing changes the liquidity by what the ranges do. *Bounded*, that
  growth outside a tick is within the global growth, is why the checked subtractions
  never fail; it needs the checked additions of the growth (`pool.rs:332`,
  `swap.rs:499`), which are guards of Emit and SwapStep. *Noted* and *Taken* say of
  each range and each position that the growth inside since it was last looked at,
  modulo `Modulus`, is what history has recorded; a crossing, or a tick put to use,
  changes the growth inside only by constants that cancel. *Owing* bounds what all
  positions can claim, unrounded, by Q times the books; the roundings of growth,
  share and emission each go the pool's way (`FeeCovers`, `EmissionCovers`,
  `AccruedFloor`). The theorems about the run's properties are `ClmmTypes`,
  `LiquidityAgrees`, `SearchFindsNearest`, `GrowthExact` and `DuesAreCovered`.
  `QuotesSee` is about the server's loops: *QuoteInv* holds at every turn of a
  quote (what it has visited is what is no longer ahead of it, its liquidity
  that of the ranges around its tick, and it is in the first array or in the
  second), and as long as the quote goes on, the impact goes the same way; a
  quote gives up only at the limit of its loop or with the ticks of two arrays used
  up. Of an impact broken off at its limit nothing is said.
* **PermissionProofs.** `ConfigTyped`; `PromiseKept`, by *AloneIsAlone* (who is
  alone has nobody beside it until it answers), *SavedSoFar* (what it has already
  written is in the database), *OnlyReloads* and the property itself;
  `ShutdownHolds`, where authentication is enabled: after an acknowledged shutdown
  the required middleware runs no handler, not an administrator's either, and the
  optional one none that is told of a user; and `TiersOrdered`, that a higher tier
  is never shut out where a lower one gets in.

The assumptions are types and signs of the constants, that the sets summed over are
finite, and of the code's fixed numbers what the argument takes: that rates are
below their denominator and that at least one more array is loaded.

Checked by TLC only: liveness (PayerGetsAccount, HeardIsSubmitted, Repaired,
EventConfirms, SyncEnds, CreationRepairs, and that of EventSink within
ImplementsSink), since ENABLED is out of the prover's reach; and the three expected
violations. The modules use no RECURSIVE operators.

## 5. Where code and documentation disagree

Shown by a run (see "findings"): concurrent swaps of a wallet lose points; the
cleanup of an oversize signature cache waits for its own guards; a swap credits
what is left of its fee to the protocol and again to the positions.

Met while modelling, each visible in the module, without a run of its own:

* Batch writer. A graceful shutdown loses what is in the channel or in the hands of
  the write loop (`EL/lib.rs:272`, `batch_writer.rs:470`): `flush` sees the buffer only.
  A batch gets a fresh id at each failure, so `max_retries` is never
  reached (`batch_writer.rs:367`). Requeueing into a full buffer pops the newest
  event where the comment (`:463`) says the oldest.
* Points. Two concurrent first swaps may both be marked first
  (`transaction_detail_repository.rs:140`). A swap after a claim has a summary
  already and earns 10 where the detail says 200 (`points/repository.rs:96`). When
  two claims race the upper's insert, the loser's claimer gets nothing (`:141`).
* Intake. After a lag the loop resubscribes and loses what the ring still held
  (`subscription_manager.rs:255`).
* Backfill. The checkpoint passes events that only the writer's memory holds
  (`backfill_task_context.rs:534`), where `recovery/mod.rs:1` promises that none is
  missed; so it passes events the writer then evicts (`batch_writer.rs:235`, `:462`)
  or drops (`:383`), and those whose handler's error the storage swallows
  (`event_storage.rs:337`). It also passes a transaction whose processing failed
  (`backfill_task_context.rs:433`) and what lies beyond the request's limit (`:332`). The look-up for pool
  creations has a duplicate key and ignores the signature
  (`backfill_handler.rs:252`; constant `Blind`). Events of failed transactions are
  stored, by the backfill only (`backfill_task_context.rs:499`). A scan record stays
  Running after a crash (`:177`). "Oldest" is by a slot that is the one current at
  handling, not the transaction's (`event_model_repository.rs:247`). A test counts 8
  event types (`backfill_manager.rs:218`) where 9 are registered
  (`backfill_handler.rs:474`).
* Pool record. An API build that looked before the event came takes the confirmation
  back (`pool/storage.rs:81`). A redelivered event turns `api_chain_confirmed` into
  `chain` (`event_storage.rs:1791`). A launch's record inserted after its event was
  handled stays unconfirmed (`launch_migration_service.rs:328`). An unreadable mint
  counts as synchronised (`pool/sync.rs:376`; `unread`), and nothing marks such a
  record again. A crash between update and audit leaves the event unaudited
  (`event_storage.rs:1864`).
* Project token. `push_token` sets the whole document it read, so a status or an
  amount written meanwhile is lost (`token_info/repository.rs:118`). Two deposit
  tasks may lose each other's metadata keys. No loop takes up migrations that are
  pending or failed.
* Permission configuration. A request whose save fails is answered with an error,
  yet the change stays in memory until a reload. A start whose reads fail runs on
  the default, open configuration. A reload keeps what it does not find, and a save
  never removes what the memory has lost. A shutdown is said to have the highest
  priority (`solana_permissions.rs:60`), yet the optional middleware lets a refused
  request with a token go on without its user (`auth/middleware.rs:535`), and the routes
  `/user`, `/refer` and `/reward` are not checked. The requests of administrators pass
  the same check: a shutdown, or writes switched off, cannot be lifted over the API
  but by a request that had passed already or with `AUTH_DISABLED`, although the
  controller has an answer for lifting it.
* CPMM program. `fund_fee_rate` and `protocol_fee_rate` of the configuration are
  ignored by swaps, whose shares are fixed, and the fund's is 0. The comment of
  `lp_supply` leaves the locked tokens out, the code counts them. A root cut off to a
  fourth power lets a quote of token 1 for token 0 lower the constant by a unit, and
  the swap is refused; `constant_product.rs:635` asserts the contrary. The value under the
  root is cut off at u128::MAX (`:55`), so that with close to 2^32 of token 0 in the pool
  an exact output asks for too little, and the check of the constant refuses it, or
  ends in a panic. The test of
  `nth_root_4` names the floor, the code computes the ceiling.
* CPMM services. A withdrawal's share is rounded up where the program rounds down
  (`withdraw_service.rs:89`), so one without slippage, which `simple_tests.rs:57` calls
  valid, is refused unless the share is whole; any positive slippage covers it
  (proved). An exact-output transaction names the output's mint as that of the reward
  (`swap_service.rs:1821`), where the program pays it from the input's vault
  (`swap_base_output.rs:344`) and refuses when one is due. Limits go through doubles
  (`swap_service.rs:80`), which may put one on the wrong side of an amount above 2^53.
* CLMM program. `reward_fee` is overwritten at each step (`swap.rs:465`), so that only
  the last step's is paid out; the plain `swap` pays no upper; without an upper only
  the project's half leaves the pool.
* Swap calculator. It says it is an exact port (`swap_calculator.rs:877`) but takes the
  first array for that of the current tick in any case (`:900`), so where that array
  has no ticks the quote leaves out the next one, in which the program starts
  (`swap.rs:331`); and the next start index is shadowed in the loop (`:1042`), so a
  quote that needs a third array fails though up to six are loaded. The limit
  of eleven turns is an error in the quote (`:1014`), while the impact silently answers
  for the part of the swap it has followed (`:407`).
* Referral program. A change of the official mint leaves the counters of what can
  be claimed as they were (`init_config.rs:63`): `remain_mint`, "what can be claimed"
  (`mint_nft.rs:10`), counts the NFTs under an earlier mint that no claim reaches.
* Event storage. The comment at `event_storage.rs:1447` calls connection errors
  fatal; handlers map every error to one that is not.

## 6. Not modelled

Event parsers (pure decoding), metrics and statistics queries, the handlers of
rewards, liquidity changes and pool initialisations (one look-up and one insert
each), REST routing and DTOs, JWT and wallet login (stateless), the building and
sending of transactions, the clients and the utilities, which are most of the lines of the
repository and keep no state. The price arithmetic of the CLMM program (Q64.64 with
256-bit products), the width of integers in both programs but for the u128 of the
CPMM curve, observations, the fees
mints take on transfers and the schedule of rewards are left out of the pools.
Administration of tokens (status, verification, deletion) shares the document of
2.6 and is left out with the fields it sets. The rate limiter is not modelled: its
one hazard is listed, without a property. Time is left out of every module: a
timeout may happen, the cache may expire. `Blind` is empty in the run of the
backfill: of a type whose look-up ignores the signature nothing is promised.

## 7. Plan

Done, most important first: 1. BatchWriter with EventSink, 2. UserPoints,
3. SubscriptionManager, 4. Backfill, 5. PoolRecord, 6. ProjectToken,
7. PermissionConfig, 8. Referral, CpmmPool and CpmmService, 9. ClmmPool and
ClmmQuote.

Left, in this order:

10. **EventPipeline**: intake, backfill, writer and storage composed through the
    abstract EventSink, with the end-to-end promise: an event confirmed after the
    first scan gets its row or is lost for a named reason. Reward, liquidity and
    initialisation handlers join here.
11. **RateLimit**: windows in memory (exact) against Redis (two calls), refinement
    of an abstract window counter.
12. Positions: `position_storage`, the document of a position against the
    listener's and the API's writes.

Proofs to add: with the EventPipeline, that it keeps the end-to-end promise of
EventSink; that the abstract window counter bounds RateLimit.
