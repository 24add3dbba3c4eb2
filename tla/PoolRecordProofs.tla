-------------------------- MODULE PoolRecordProofs --------------------------
(***************************************************************************)
(* Proofs about the pool record, for any numbers of requests, callers and  *)
(* deliveries: its type, that the slot of the newest event is never lost,  *)
(* and that a record the synchronisation is done with has its mint data.   *)
(***************************************************************************)
EXTENDS PoolRecord, TLAPS

-----------------------------------------------------------------------------
(* What the writers put into the record                                    *)

\* An update by an event the filter allows keeps the record a record.
LEMMA UpdatedIsPool ==
  ASSUME NEW p \in Pools, NEW e \in Slots, NEW s
  PROVE  [p EXCEPT !.confirmed = TRUE, !.source = Source(s), !.slot = e]
           \in Pools
BY DEF Pools, Source

LEMMA FromEventIsPool ==
  ASSUME NEW e \in Slots
  PROVE  FromEvent(e) \in Pools
BY DEF FromEvent, Pools

LEMMA SyncedIsPool ==
  ASSUME NEW p \in Pools, NEW differs \in BOOLEAN
  PROVE  Synced(p, differs) \in Pools
BY DEF Synced, Pools

LEMMA QueueSteps ==
  ASSUME NEW q \in Seq(Slots), q # <<>>
  PROVE  /\ Head(q) \in Slots
         /\ Tail(q) \in Seq(Slots)
         /\ Len(Tail(q)) = Len(q) - 1
         /\ Len(q) \in Nat
OBVIOUS

-----------------------------------------------------------------------------
(* Type correctness                                                        *)

LEMMA InitTyped == Init => TypeOK
<1> SUFFICES ASSUME Init PROVE TypeOK
  OBVIOUS
<1>1. <<>> \in Seq(Slots) /\ Len(<<>>) = 0
  OBVIOUS
<1>2. /\ 1 \in Slots
      /\ 0 \in 0..MaxDeliveries /\ 0 \in 0..MaxFaults /\ 0 \in 0..MaxCrashes
  BY PoolRecordAssumption DEF Slots
<1>3. writer \in [Writers -> [pc: {"idle", "update", "insert", "audit"},
                             event: Slots \cup {None},
                             seen: Pools \cup {None}]]
  BY DEF Init, Resting
<1>4. \A w \in Writers : writer[w].pc = "idle"
  BY DEF Init, Resting
<1>5. builder \in [Builders -> {"idle", "store", "done"}]
  BY DEF Init
<1>6. /\ sync \in [pc: {"idle", "read"}, seen: Pools \cup {None}]
      /\ sync.pc = "idle"
  BY DEF Init
<1>7. /\ created \in BOOLEAN /\ slot \in Slots /\ deliveries \in 0..MaxDeliveries
      /\ pool \in Pools \cup {None} /\ audited \in BOOLEAN
      /\ launch \in {"idle", "built", "done"}
      /\ loader \in {"idle", "loaded", "done"}
      /\ faults \in 0..MaxFaults /\ crashes \in 0..MaxCrashes
      /\ unread \in BOOLEAN
  BY <1>2 DEF Init
<1>8. queue \in Seq(Slots) /\ Len(queue) <= deliveries
  BY <1>1 DEF Init
<1> QED
  BY <1>3, <1>4, <1>5, <1>6, <1>7, <1>8 DEF TypeOK

\* A caller of the event storage at rest is one of its states.
LEMMA RestingTyped ==
  Resting \in [pc: {"idle", "update", "insert", "audit"},
               event: Slots \cup {None}, seen: Pools \cup {None}]
BY DEF Resting

\* The record the synchronisation works on is still there when it writes.
RecordInHand == sync.pc = "read" => pool # None

LEMMA StepTyped == TypeOK /\ RecordInHand /\ [Next]_vars => TypeOK'
<1> SUFFICES ASSUME TypeOK, RecordInHand, [Next]_vars PROVE TypeOK'
  OBVIOUS
<1> USE DEF chain, intake, api
<1> DEFINE State == [pc: {"idle", "update", "insert", "audit"},
                     event: Slots \cup {None}, seen: Pools \cup {None}]
<1>0. None \notin Slots /\ None \notin Pools
  BY PoolRecordAssumption DEF Slots
<1>f. ASSUME NEW who, Fails(who) PROVE faults' \in 0..MaxFaults
  BY <1>f, PoolRecordAssumption DEF Fails, TypeOK
<1>1. CASE Tick
  BY <1>1, PoolRecordAssumption DEF Tick, TypeOK, Slots
<1>2. CASE CreateOnChain
  BY <1>2 DEF CreateOnChain, TypeOK
<1>3. CASE Deliver
  <2>1. queue' \in Seq(Slots) /\ Len(queue') = Len(queue) + 1 /\ Len(queue) \in Nat
    BY <1>3 DEF Deliver, TypeOK
  <2> QED
    BY <1>3, <2>1, PoolRecordAssumption DEF Deliver, TypeOK
<1>4. ASSUME NEW w \in Writers, Find(w) PROVE TypeOK'
  <2>1. /\ Head(queue) \in Slots /\ queue' \in Seq(Slots)
        /\ Len(queue') <= deliveries'
    BY <1>4, QueueSteps DEF Find, TypeOK
  <2>2. AfterFind(Head(queue)) \in {"idle", "insert", "audit", "update"}
    BY DEF AfterFind
  <2>3. /\ AfterFind(Head(queue)) = "update" => pool # None
        /\ AfterFind(Head(queue)) = "insert" => pool = None
    BY DEF AfterFind
  <2>4. writer' = [writer EXCEPT ![w] =
          IF AfterFind(Head(queue)) = "idle" THEN Resting
          ELSE [pc |-> AfterFind(Head(queue)), event |-> Head(queue), seen |-> pool]]
    BY <1>4 DEF Find
  <2>5. writer' \in [Writers -> State]
    BY <2>1, <2>2, <2>4, RestingTyped DEF TypeOK
  <2>6. \A v \in Writers :
          /\ writer'[v].pc # "idle" => writer'[v].event # None
          /\ writer'[v].pc = "update" => writer'[v].seen # None
          /\ writer'[v].pc = "insert" => writer'[v].seen = None
    BY <1>0, <2>1, <2>3, <2>4 DEF TypeOK, Resting
  <2> QED
    BY <1>4, <2>1, <2>5, <2>6 DEF Find, TypeOK
<1>5. ASSUME NEW w \in Writers, Update(w) PROVE TypeOK'
  <2>1. writer[w].event \in Slots
    BY <1>5 DEF Update, TypeOK
  <2>2. pool' \in Pools \cup {None}
    BY <1>5, <2>1, UpdatedIsPool DEF Update, TypeOK, VersionAllows
  <2>3. writer' \in [Writers -> State]
    BY <1>5 DEF Update, TypeOK
  <2>4. \A v \in Writers : /\ writer'[v].event = writer[v].event
                           /\ writer'[v].seen = writer[v].seen
                           /\ writer'[v].pc = IF v = w THEN "audit" ELSE writer[v].pc
    BY <1>5 DEF Update, TypeOK
  <2> QED
    BY <1>5, <2>1, <2>2, <2>3, <2>4, <1>0 DEF Update, TypeOK
<1>6. ASSUME NEW w \in Writers, Insert(w) PROVE TypeOK'
  <2>1. writer[w].event \in Slots
    BY <1>6 DEF Insert, TypeOK
  <2>2. pool' \in Pools \cup {None}
    BY <1>6, <2>1, FromEventIsPool DEF Insert, TypeOK
  <2>3. \/ writer' = [writer EXCEPT ![w].pc = "audit"]
        \/ writer' = [writer EXCEPT ![w] = Resting]
    BY <1>6 DEF Insert
  <2>4. writer' \in [Writers -> State]
    BY <2>3, RestingTyped DEF TypeOK
  <2>5. \A v \in Writers :
          /\ writer'[v].pc # "idle" => writer'[v].event # None
          /\ writer'[v].pc = "update" => writer'[v].seen # None
          /\ writer'[v].pc = "insert" => writer'[v].seen = None
    BY <2>1, <2>3, <1>0 DEF TypeOK, Resting
  <2> QED
    BY <1>6, <2>2, <2>4, <2>5 DEF Insert, TypeOK
<1>7. ASSUME NEW w \in Writers, writer' = [writer EXCEPT ![w] = Resting]
      PROVE  /\ writer' \in [Writers -> State]
             /\ \A v \in Writers :
                  /\ writer'[v].pc # "idle" => writer'[v].event # None
                  /\ writer'[v].pc = "update" => writer'[v].seen # None
                  /\ writer'[v].pc = "insert" => writer'[v].seen = None
  BY <1>7, RestingTyped DEF TypeOK, Resting
<1>8. ASSUME NEW w \in Writers, Audit(w) PROVE TypeOK'
  BY <1>7, <1>8 DEF Audit, TypeOK
<1>9. ASSUME NEW w \in Writers, WriterFails(w) PROVE TypeOK'
  <2>a. queue \in Seq(Slots) /\ Len(queue) <= deliveries
        /\ deliveries \in Int /\ Len(queue) \in Int
    BY PoolRecordAssumption DEF TypeOK
  <2>b. queue' = queue \/ (queue # <<>> /\ queue' = Tail(queue))
    BY <1>9 DEF WriterFails
  <2>1. queue' \in Seq(Slots) /\ Len(queue') <= deliveries
    BY <2>a, <2>b, QueueSteps
  <2> QED
    BY <1>7, <1>9, <1>f, <2>1 DEF WriterFails, TypeOK
<1>10. ASSUME NEW b \in Builders, Build(b) PROVE TypeOK'
  <2>1. CASE BuildFind(b)
    BY <2>1 DEF BuildFind, TypeOK
  <2>2. CASE BuildStore(b)
    <3>1. pool' \in Pools
      BY <2>2 DEF BuildStore, TypeOK, Pools
    <3> QED
      BY <2>2, <3>1 DEF BuildStore, TypeOK
  <2>3. CASE BuildFails(b)
    BY <2>3, <1>f DEF BuildFails, TypeOK
  <2> QED
    BY <1>10, <2>1, <2>2, <2>3 DEF Build
<1>11. CASE LaunchBuild \/ LoadFind
  BY <1>11 DEF LaunchBuild, LoadFind, TypeOK
<1>12. CASE LaunchStore \/ LoadStore
  <2>1. ASSUME NEW p \in Pools, pool' = Inserted(p)
        PROVE  pool' \in Pools \cup {None}
    BY <2>1 DEF Inserted, TypeOK
  <2>2. /\ [confirmed |-> FALSE, source |-> "api", slot |-> None,
            apiSlot |-> None, mint |-> FALSE, needsSync |-> TRUE] \in Pools
        /\ [confirmed |-> TRUE, source |-> "chain", slot |-> None,
            apiSlot |-> None, mint |-> TRUE, needsSync |-> FALSE] \in Pools
    BY DEF Pools
  <2>3. pool' \in Pools \cup {None}
    BY <1>12, <2>1, <2>2 DEF LaunchStore, LoadStore
  <2> QED
    BY <1>12, <2>3 DEF LaunchStore, LoadStore, TypeOK
<1>13. CASE SyncFind
  BY <1>13 DEF SyncFind, TypeOK
<1>14. CASE SyncStore
  <2>1. sync.seen \in Pools
    BY <1>14 DEF SyncStore, TypeOK
  <2>2. PICK readable \in Readable :
          pool' = Synced(pool, readable /\ ~sync.seen.mint)
    BY <1>14 DEF SyncStore
  <2>3. (readable /\ ~sync.seen.mint) \in BOOLEAN
    OBVIOUS
  <2>4. pool' \in Pools
    BY <1>14, <2>2, <2>3, SyncedIsPool DEF SyncStore, RecordInHand, TypeOK
  <2>5. unread' \in BOOLEAN
    BY <1>14 DEF SyncStore
  <2> QED
    BY <1>14, <2>4, <2>5 DEF SyncStore, SyncRest, TypeOK
<1>15. CASE SyncFails
  <2>1. pool' \in Pools
    BY <1>15 DEF SyncFails, RecordInHand, TypeOK, Pools
  <2> QED
    BY <1>15, <1>f, <2>1 DEF SyncFails, SyncRest, TypeOK
<1>16. CASE Crash
  <2>1. <<>> \in Seq(Slots) /\ Len(<<>>) = 0
    OBVIOUS
  <2>2. writer' \in [Writers -> State]
    BY <1>16, RestingTyped DEF Crash
  <2>3. crashes' \in 0..MaxCrashes
    BY <1>16, PoolRecordAssumption DEF Crash, TypeOK
  <2>4. \A v \in Writers : writer'[v].pc = "idle"
    BY <1>16 DEF Crash, Resting
  <2>5. builder' \in [Builders -> {"idle", "store", "done"}]
    BY <1>16 DEF Crash, TypeOK
  <2> QED
    BY <1>16, <2>1, <2>2, <2>3, <2>4, <2>5 DEF Crash, SyncRest, TypeOK
<1>17. CASE UNCHANGED vars
  BY <1>17 DEF vars, chain, intake, api, TypeOK
<1>18. ASSUME NEW w \in Writers, Handle(w) PROVE TypeOK'
  BY <1>4, <1>5, <1>6, <1>8, <1>18 DEF Handle
<1> HIDE DEF TypeOK
<1> QED
  BY <1>1, <1>2, <1>3, <1>9, <1>10, <1>11, <1>12, <1>13, <1>14, <1>15,
     <1>16, <1>17, <1>18 DEF Next, Sync

-----------------------------------------------------------------------------
(* No step takes the record, or the slot it bears, back                    *)

\* Most steps leave the record alone.
Elsewhere ==
  \/ Tick \/ CreateOnChain \/ Deliver \/ LaunchBuild \/ LoadFind \/ SyncFind
  \/ Crash
  \/ \E w \in Writers : Find(w) \/ Audit(w) \/ WriterFails(w)
  \/ \E b \in Builders : BuildFind(b) \/ BuildFails(b)
  \/ UNCHANGED vars

LEMMA ElsewhereKeepsPool == Elsewhere => pool' = pool
BY DEF Elsewhere, Tick, CreateOnChain, Deliver, LaunchBuild, LoadFind, SyncFind,
       Crash, Find, Audit, WriterFails, BuildFind, BuildFails, vars, chain,
       intake, api

LEMMA StepCases ==
  ASSUME [Next]_vars
  PROVE  \/ Elsewhere
         \/ \E w \in Writers : Update(w) \/ Insert(w)
         \/ \E b \in Builders : BuildStore(b)
         \/ LaunchStore \/ LoadStore
         \/ SyncStore \/ SyncFails
BY DEF Next, Handle, Build, Sync, Elsewhere

LEMMA StepKeepsSlot ==
  ASSUME TypeOK, RecordInHand, [Next]_vars, pool # None
  PROVE  /\ pool' # None
         /\ pool.slot # None => pool'.slot # None /\ pool'.slot >= pool.slot
<1> DEFINE Kept == /\ pool' # None
                   /\ pool.slot # None =>
                        pool'.slot # None /\ pool'.slot >= pool.slot
<1>1. pool \in Pools /\ (pool.slot # None => pool.slot \in Slots)
  BY DEF TypeOK, Pools
<1>2. None \notin Slots /\ None \notin Pools /\ Slots \subseteq Int
  BY PoolRecordAssumption DEF Slots
<1>3. ASSUME pool' \in Pools, pool'.slot = pool.slot PROVE Kept
  <2>1. CASE pool.slot = None
    BY <1>2, <1>3, <2>1
  <2>2. CASE pool.slot # None
    <3>1. pool.slot \in Int
      BY <1>1, <1>2, <2>2
    <3>2. pool'.slot >= pool.slot
      BY <1>3, <3>1
    <3> QED
      BY <1>2, <1>3, <2>2, <3>2
  <2> QED
    BY <2>1, <2>2
<1>4. CASE Elsewhere
  BY <1>1, <1>3, <1>4, ElsewhereKeepsPool
<1>5. ASSUME NEW w \in Writers, Update(w) PROVE Kept
  <2>1. writer[w].event \in Slots
    BY <1>5 DEF Update, TypeOK
  <2>2. CASE VersionAllows(pool, writer[w].event)
    <3>1. pool' = [pool EXCEPT !.confirmed = TRUE,
                               !.source = Source(writer[w].seen),
                               !.slot = writer[w].event]
      BY <1>5, <2>2 DEF Update
    <3>2. pool' \in Pools /\ pool'.slot = writer[w].event
      BY <1>1, <2>1, <3>1, UpdatedIsPool DEF Pools
    <3>3. pool.slot # None => pool.slot <= writer[w].event
      BY <2>2 DEF VersionAllows
    <3> QED
      BY <1>1, <1>2, <2>1, <3>2, <3>3
  <2>3. CASE ~VersionAllows(pool, writer[w].event)
    BY <1>1, <1>3, <1>5, <2>3 DEF Update
  <2> QED
    BY <2>2, <2>3
<1>6. ASSUME NEW w \in Writers, Insert(w) PROVE Kept
  BY <1>1, <1>3, <1>6 DEF Insert
<1>7. ASSUME NEW b \in Builders, BuildStore(b) PROVE Kept
  <2>1. pool' \in Pools /\ pool'.slot = pool.slot
    BY <1>1, <1>7 DEF BuildStore, Pools
  <2> QED
    BY <1>3, <2>1
<1>8. CASE LaunchStore \/ LoadStore
  BY <1>1, <1>3, <1>8 DEF LaunchStore, LoadStore, Inserted
<1>9. CASE SyncStore
  <2>1. PICK readable \in Readable :
          pool' = Synced(pool, readable /\ ~sync.seen.mint)
    BY <1>9 DEF SyncStore
  <2>2. (readable /\ ~sync.seen.mint) \in BOOLEAN
    OBVIOUS
  <2>3. pool' \in Pools
    BY <1>1, <2>1, <2>2, SyncedIsPool
  <2>4. pool'.slot = pool.slot
    BY <1>1, <2>1 DEF Synced, Pools
  <2> QED
    BY <1>3, <2>3, <2>4
<1>10. CASE SyncFails
  <2>1. pool' \in Pools /\ pool'.slot = pool.slot
    BY <1>1, <1>10 DEF SyncFails, Pools
  <2> QED
    BY <1>3, <2>1
<1> QED
  BY <1>4, <1>5, <1>6, <1>7, <1>8, <1>9, <1>10, StepCases

-----------------------------------------------------------------------------
(* The invariant of every instance                                         *)

IInv == TypeOK /\ RecordInHand

LEMMA InitEstablishes == Init => IInv
BY InitTyped DEF IInv, Init, RecordInHand

LEMMA StepKeepsRecordInHand == IInv /\ [Next]_vars => RecordInHand'
<1> SUFFICES ASSUME IInv, [Next]_vars, sync'.pc = "read" PROVE pool' # None
  BY DEF RecordInHand
<1>1. TypeOK /\ RecordInHand
  BY DEF IInv
<1>2. CASE SyncFind
  BY <1>2 DEF SyncFind
<1>3. CASE ~SyncFind
  <2>a. ASSUME Elsewhere PROVE sync' = sync \/ sync'.pc = "idle"
    BY <1>3, <2>a DEF Elsewhere, Tick, CreateOnChain, Deliver, LaunchBuild,
       LoadFind, Crash, SyncRest, Find, Audit, WriterFails, BuildFind,
       BuildFails, vars
  <2>b. ASSUME SyncStore \/ SyncFails PROVE sync'.pc = "idle"
    BY <2>b DEF SyncStore, SyncFails, SyncRest
  <2>c. ASSUME NEW w \in Writers, Update(w) \/ Insert(w) PROVE sync' = sync
    BY <2>c DEF Update, Insert
  <2>d. ASSUME NEW b \in Builders, BuildStore(b) PROVE sync' = sync
    BY <2>d DEF BuildStore
  <2>e. ASSUME LaunchStore \/ LoadStore PROVE sync' = sync
    BY <2>e DEF LaunchStore, LoadStore
  <2>1. sync' = sync \/ sync'.pc = "idle"
    BY <2>a, <2>b, <2>c, <2>d, <2>e, StepCases
  <2>2. pool # None
    BY <1>1, <2>1 DEF RecordInHand
  <2> QED
    BY <1>1, <2>2, StepKeepsSlot
<1> QED
  BY <1>2, <1>3

LEMMA StepPreserves == IInv /\ [Next]_vars => IInv'
BY StepTyped, StepKeepsRecordInHand DEF IInv

LEMMA Invariant == Spec => []IInv
BY InitEstablishes, StepPreserves, PTL DEF Spec

-----------------------------------------------------------------------------
(* What is synchronised has its mint data, or one that could not be read   *)

\* A record that is marked misses its mint data, one that is not misses them
\* only if they were unread, and the synchronisation works on a record that
\* misses them.
MintKnown ==
  /\ pool # None => IF pool.needsSync THEN ~pool.mint ELSE pool.mint \/ unread
  /\ sync.pc = "read" => ~sync.seen.mint /\ ~pool.mint

LEMMA StepKeepsMintKnown ==
  ASSUME IInv, MintKnown, [Next]_vars
  PROVE  MintKnown'
<1>1. TypeOK /\ RecordInHand
  BY DEF IInv
<1>2. pool # None => pool \in Pools
  BY <1>1 DEF TypeOK
<1>3. None \notin Pools
  BY PoolRecordAssumption
<1>4. ASSUME \/ sync'.pc = "idle"
             \/ /\ sync' = sync
                /\ sync.pc = "read" => pool' = pool \/ ~pool'.mint,
             pool' # None => IF pool'.needsSync THEN ~pool'.mint ELSE pool'.mint \/ unread'
      PROVE  MintKnown'
  BY <1>4 DEF MintKnown
<1>5. CASE SyncFind
  BY <1>5 DEF SyncFind, MintKnown
<1>6. CASE Elsewhere /\ ~SyncFind
  <2>1. sync' = sync \/ sync'.pc = "idle"
    BY <1>6 DEF Elsewhere, Tick, CreateOnChain, Deliver, LaunchBuild,
       LoadFind, Crash, SyncRest, Find, Audit, WriterFails, BuildFind,
       BuildFails, vars
  <2>2. pool' = pool /\ unread' = unread
    BY <1>6, ElsewhereKeepsPool
    DEF Elsewhere, Tick, CreateOnChain, Deliver, LaunchBuild, LoadFind, Crash, Find, Audit,
        WriterFails, BuildFind, BuildFails, vars
  <2> QED
    BY <1>4, <2>1, <2>2 DEF MintKnown
<1>7. ASSUME NEW w \in Writers, Update(w) PROVE MintKnown'
  <2>a. sync.pc = "read" => pool # None /\ ~pool.mint
    BY <1>1 DEF RecordInHand, MintKnown
  <2>1. pool # None => pool' = pool \/
          pool' = [pool EXCEPT !.confirmed = TRUE,
                               !.source = Source(writer[w].seen),
                               !.slot = writer[w].event]
    BY <1>7 DEF Update
  <2>2. pool # None => /\ pool'.needsSync = pool.needsSync
                       /\ pool'.mint = pool.mint
    BY <1>2, <2>1 DEF Pools
  <2>3. pool = None => pool' = None
    BY <1>7 DEF Update, VersionAllows
  <2> QED
    BY <1>4, <1>7, <2>a, <2>2, <2>3 DEF Update, MintKnown
<1>8. ASSUME NEW w \in Writers, Insert(w) PROVE MintKnown'
  BY <1>4, <1>8 DEF Insert, FromEvent, MintKnown
<1>9. ASSUME NEW b \in Builders, BuildStore(b) PROVE MintKnown'
  BY <1>4, <1>9 DEF BuildStore
<1>10. CASE LaunchStore \/ LoadStore
  BY <1>1, <1>4, <1>10 DEF LaunchStore, LoadStore, Inserted, MintKnown,
                          RecordInHand
<1>11. CASE SyncStore
  <2>1. PICK readable \in Readable :
          pool' = Synced(pool, readable /\ ~sync.seen.mint) /\ unread' = ~readable
    BY <1>11 DEF SyncStore
  <2>2. ~sync.seen.mint
    BY <1>11 DEF SyncStore, MintKnown
  <2>3. pool \in Pools
    BY <1>1, <1>2, <1>11 DEF SyncStore, RecordInHand
  <2>4. ~pool'.needsSync /\ (readable => pool'.mint)
    BY <2>1, <2>2, <2>3 DEF Synced, Pools
  <2> QED
    BY <1>4, <1>11, <2>1, <2>4 DEF SyncStore, SyncRest
<1>12. CASE SyncFails
  <2>1. pool \in Pools /\ pool # None
    BY <1>1, <1>2, <1>12 DEF SyncFails, RecordInHand
  <2>2. pool.mint = FALSE
    BY <1>1, <1>12, <2>1 DEF SyncFails, MintKnown
  <2>3. pool'.needsSync /\ ~pool'.mint
    BY <1>12, <2>1, <2>2 DEF SyncFails, Pools
  <2> QED
    BY <1>4, <1>12, <2>3 DEF SyncFails, SyncRest
<1> HIDE DEF MintKnown
<1> QED
  BY <1>5, <1>6, <1>7, <1>8, <1>9, <1>10, <1>11, <1>12, StepCases

-----------------------------------------------------------------------------
(* The theorems                                                            *)

\* Every variable keeps its type; in particular a handler of the event storage
\* that updates has read a record, and one that inserts has read none.
THEOREM TypeCorrect == Spec => []TypeOK
BY Invariant, PTL DEF IInv

\* However deliveries are reordered between callers, and whatever the API, the
\* launch migration, the loader and the synchronisation write meanwhile, the
\* slot of the newest event in the record never goes back.
THEOREM SlotNeverGoesBack == Spec => SlotForward
<1>1. IInv /\ [Next]_vars =>
        [pool # None /\ pool.slot # None =>
           pool' # None /\ pool'.slot # None /\ pool'.slot >= pool.slot]_vars
  BY StepKeepsSlot DEF IInv
<1> QED
  BY <1>1, Invariant, PTL DEF Spec, SlotForward

\* A record the synchronisation is done with has its mint data, unless a mint
\* could not be read when the mark was last taken off, though requests rewrite
\* it and events update it between the synchronisation's read and its write.
THEOREM SyncedIsComplete == Spec => []SyncedHasMint
<1>1. Init => MintKnown
  BY DEF Init, MintKnown
<1>2. IInv /\ MintKnown /\ [Next]_vars => MintKnown'
  BY StepKeepsMintKnown
<1>3. MintKnown => SyncedHasMint
  BY DEF MintKnown, SyncedHasMint
<1> QED
  BY <1>1, <1>2, <1>3, Invariant, PTL DEF Spec
=============================================================================
