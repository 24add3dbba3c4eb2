----------------------------- MODULE EventProofs -----------------------------
(***************************************************************************)
(* Proofs about what becomes of an event once it is submitted, for every   *)
(* value of the constants.                                                 *)
(*                                                                         *)
(* On its way through the batch writer, over every interleaving of the     *)
(* collection loop, the two writers, retries, shutdown and crash: the type *)
(* invariant and the bound of the buffer, that the batch writer implements *)
(* EventSink, that no event is in two places and that events stay in the   *)
(* order of their submission.                                              *)
(*                                                                         *)
(* The points a stored event earns, for any wallets, swaps and claims and  *)
(* any interleaving of their tasks, with failing calls and restarts.       *)
(***************************************************************************)
EXTENDS BatchWriter, UserPoints, DataLemmas, SequenceTheorems

-----------------------------------------------------------------------------
(* The batch writer                                                        *)

\* flush runs on only while it has attempts left: the bound of attempts is
\* not inductive without it.
FlushBudget == pc["flush"] # "failed" => attempts < MaxAttempts

IInv == TypeOK /\ BufferBounded /\ FlushBudget

-----------------------------------------------------------------------------
(* What the operators on the buffer return                                 *)

\* A capacity is a positive number whatever buffer_size is configured.
LEMMA CapacityPositive == Capacity \in Nat \ {0}
BY ParametersAssumption DEF Capacity

\* Collecting into a buffer within its capacity keeps it within: the
\* eviction of event_collection_loop makes exactly the room one event needs.
LEMMA PushBackBounded ==
  ASSUME NEW b \in Seq(Items), NEW e \in Items, Len(b) <= Capacity
  PROVE  /\ PushBack(b, e) \in Seq(Items)
         /\ Len(PushBack(b, e)) <= Capacity
<1>1. Capacity \in Nat \ {0} /\ Len(b) \in Nat
  BY CapacityPositive, LenProperties
<1>2. CASE Len(b) >= Capacity
  <2>1. b # <<>>
    BY <1>1, <1>2, EmptySeq
  <2>2. Tail(b) \in Seq(Items) /\ Len(Tail(b)) = Len(b) - 1
    BY <2>1, HeadTailProperties
  <2>3. PushBack(b, e) = Append(Tail(b), e)
    BY <1>2 DEF PushBack
  <2>4. /\ Append(Tail(b), e) \in Seq(Items)
        /\ Len(Append(Tail(b), e)) = Len(Tail(b)) + 1
    BY <2>2, AppendProperties
  <2> QED
    BY <1>1, <2>2, <2>3, <2>4
<1>3. CASE ~(Len(b) >= Capacity)
  <2>1. PushBack(b, e) = Append(b, e)
    BY <1>3 DEF PushBack
  <2>2. Append(b, e) \in Seq(Items) /\ Len(Append(b, e)) = Len(b) + 1
    BY AppendProperties
  <2> QED
    BY <1>1, <1>3, <2>1, <2>2
<1> QED
  BY <1>2, <1>3

\* Requeueing a batch of any length leaves the buffer within its capacity.
LEMMA PushFrontBounded ==
  ASSUME NEW b \in Seq(Items), NEW es \in Seq(Items)
  PROVE  /\ PushFront(b, es) \in Seq(Items)
         /\ Len(PushFront(b, es)) <= Capacity
<1> DEFINE all == es \o b
           n   == IF Len(all) < Capacity THEN Len(all) ELSE Capacity
<1>1. all \in Seq(Items)
  BY ConcatProperties
<1>2. Capacity \in Nat \ {0} /\ Len(all) \in Nat
  BY <1>1, CapacityPositive, LenProperties
<1>3. n \in Nat /\ n <= Capacity /\ n <= Len(all)
  BY <1>2
<1>4. \A i \in 1..n : all[i] \in Items
  BY <1>1, <1>2, <1>3, ElementOfSeq
<1> HIDE DEF n, all
<1>5. /\ SubSeq(all, 1, n) \in Seq(Items)
      /\ Len(SubSeq(all, 1, n)) = IF 1 <= n THEN n - 1 + 1 ELSE 0
  BY <1>3, <1>4, SubSeqProperties
<1>6. PushFront(b, es) = SubSeq(all, 1, n)
  BY DEF PushFront, n, all
<1> QED
  BY <1>2, <1>3, <1>5, <1>6

\* write_batch pops events of the buffer and leaves no more than there was.
LEMMA PoppedAndRemaining ==
  ASSUME buffer \in Seq(Items)
  PROVE  /\ Popped \in Seq(Items)
         /\ Remaining \in Seq(Items)
         /\ Len(Remaining) <= Len(buffer)
<1>1. Len(buffer) \in Nat /\ BatchLen \in 0..Len(buffer)
  BY ParametersAssumption, LenProperties DEF BatchLen
<1>2. \A i \in 1..Len(buffer) : buffer[i] \in Items
  BY ElementOfSeq
<1>3. SubSeq(buffer, 1, BatchLen) \in Seq(Items)
  BY <1>1, <1>2, SubSeqProperties
<1>4. /\ SubSeq(buffer, BatchLen + 1, Len(buffer)) \in Seq(Items)
      /\ Len(SubSeq(buffer, BatchLen + 1, Len(buffer)))
           = IF BatchLen + 1 <= Len(buffer)
             THEN Len(buffer) - (BatchLen + 1) + 1 ELSE 0
  BY <1>1, <1>2, SubSeqProperties
<1> QED
  BY <1>1, <1>3, <1>4 DEF Popped, Remaining

-----------------------------------------------------------------------------
(* The invariant is inductive                                              *)

LEMMA InitEstablishes == Init => IInv
<1> SUFFICES ASSUME Init PROVE IInv
  OBVIOUS
<1>a. <<>> \in Seq(Items) /\ <<>> \in Seq(Nat)
  BY EmptySeq
<1>b. queued \in 0..MaxItems /\ attempts \in 0..MaxAttempts
  BY ParametersAssumption DEF Init, MaxAttempts
<1>1. TypeOK
  BY <1>a, <1>b DEF Init, TypeOK
<1>2. BufferBounded
  BY CapacityPositive, EmptySeq DEF Init, BufferBounded
<1>3. FlushBudget
  BY DEF Init, FlushBudget, Writers, MaxAttempts
<1> QED
  BY <1>1, <1>2, <1>3 DEF IInv

LEMMA StepPreserves == IInv /\ [Next]_vars => IInv'
<1> SUFFICES ASSUME IInv, [Next]_vars PROVE IInv'
  OBVIOUS
<1> USE DEF IInv
<1>a. TypeOK /\ BufferBounded /\ FlushBudget
  OBVIOUS
<1>b. "loop" \in Writers /\ "flush" \in Writers
  BY DEF Writers
<1>1. CASE Start
  BY <1>1, <1>b DEF Start, TypeOK, BufferBounded, FlushBudget
<1>2. CASE Submit
  <2>1. queued + 1 \in Items /\ queued' \in 0..MaxItems
    BY <1>2, ParametersAssumption DEF Submit, TypeOK, Items
  <2>2. channel' \in Seq(Items)
    BY <1>2, <2>1, AppendProperties DEF Submit, TypeOK
  <2> QED
    BY <1>2, <2>1, <2>2 DEF Submit, TypeOK, BufferBounded, FlushBudget
<1>3. CASE CollectorCheck \/ CollectorTimeout
  BY <1>3 DEF CollectorCheck, CollectorTimeout, TypeOK, BufferBounded,
              FlushBudget
<1>4. CASE Collect
  <2>1. Head(channel) \in Items /\ Tail(channel) \in Seq(Items)
    BY <1>4, HeadTailProperties DEF Collect, TypeOK
  <2>2. buffer' \in Seq(Items) /\ Len(buffer') <= Capacity
    BY <1>4, <2>1, PushBackBounded DEF Collect, TypeOK, BufferBounded
  <2> QED
    BY <1>4, <2>1, <2>2 DEF Collect, TypeOK, BufferBounded, FlushBudget
<1>5. CASE WaitElapses
  BY <1>5 DEF WaitElapses, TypeOK, BufferBounded, FlushBudget
<1>6. CASE LoopCheck \/ LoopTick
  BY <1>6, <1>b DEF LoopCheck, LoopTick, TypeOK, BufferBounded, FlushBudget
<1>7. ASSUME NEW w \in Writers, Take(w) PROVE IInv'
  <2>1. /\ Popped \in Seq(Items) /\ Remaining \in Seq(Items)
        /\ Len(Remaining) <= Len(buffer)
    BY PoppedAndRemaining DEF TypeOK
  <2>2. TypeOK'
    BY <1>7, <2>1 DEF Take, TypeOK
  <2>3. BufferBounded'
    BY <1>7, <2>1, CapacityPositive, LenProperties
       DEF Take, TypeOK, BufferBounded
  <2>4. FlushBudget'
    BY <1>7, <1>b DEF Take, TypeOK, FlushBudget
  <2> QED
    BY <2>2, <2>3, <2>4
<1>8. ASSUME NEW w \in Writers, TakeNothing(w) PROVE IInv'
  BY <1>8, <1>b DEF TakeNothing, Succeed, TypeOK, BufferBounded, FlushBudget
<1>9. ASSUME NEW w \in Writers, StoreOk(w) PROVE IInv'
  <2>1. Range(batch[w]) \subseteq Items
    BY <1>9, RangeOfSeq DEF TypeOK
  <2>2. stored' \subseteq Items
    BY <1>9, <2>1 DEF StoreOk, TypeOK
  <2> QED
    BY <1>9, <1>b, <2>2, EmptySeq
       DEF StoreOk, Succeed, TypeOK, BufferBounded, FlushBudget
<1>10. ASSUME NEW w \in Writers, Fail(w),
              w = "loop" \/ pc["flush"] # "failed"
       PROVE  /\ waited' = waited
              /\ attempts' \in 0..MaxAttempts
              /\ pc' \in [Writers -> {"off", "check", "tick", "take", "store",
                                      "retry", "done", "ok", "failed"}]
              /\ FlushBudget'
  BY <1>10, <1>b DEF Fail, TypeOK, FlushBudget, MaxAttempts
<1>11. ASSUME NEW w \in Writers, StoreFails(w) PROVE IInv'
  <2>1. /\ Range(batch[w]) \subseteq Items
        /\ stored' \subseteq Items
    BY <1>11, RangeOfSeq DEF StoreFails, TypeOK
  <2>2. /\ pc[w] = "store"
        /\ UNCHANGED <<alive, running, queued, channel, buffer, collector>>
    BY <1>11 DEF StoreFails
  <2>3. ASSUME NEW kind \in StorageErrors, ShouldRetry(kind, BatchId),
               retryCounts' = Append(retryCounts, RetriesOf(BatchId) + 1),
               pc' = [pc EXCEPT ![w] = "retry"],
               UNCHANGED <<batch, waited, attempts>>
        PROVE  IInv'
    <3>1. RetriesOf(BatchId) \in Nat
      BY LenProperties, ElementOfSeq DEF TypeOK, RetriesOf
    <3>2. retryCounts' \in Seq(Nat)
      BY <2>3, <3>1, AppendProperties DEF TypeOK
    <3> QED
      BY <1>b, <2>1, <2>2, <2>3, <3>2 DEF TypeOK, BufferBounded, FlushBudget
  <2>4. ASSUME batch' = [batch EXCEPT ![w] = <<>>], Fail(w),
               UNCHANGED retryCounts
        PROVE  IInv'
    <3>1. w = "loop" \/ pc["flush"] # "failed"
      BY <2>2 DEF Writers
    <3>2. batch' \in [Writers -> Seq(Items)]
      BY <2>4, EmptySeq DEF TypeOK
    <3> QED
      BY <1>10, <2>1, <2>2, <2>4, <3>1, <3>2 DEF TypeOK, BufferBounded
  <2> QED
    BY <1>11, <2>3, <2>4 DEF StoreFails
<1>12. ASSUME NEW w \in Writers, Requeue(w) PROVE IInv'
  <2>1. /\ pc[w] = "retry" /\ Fail(w)
        /\ UNCHANGED <<alive, running, queued, channel, collector,
                       retryCounts, stored>>
    BY <1>12 DEF Requeue
  <2>2. w = "loop" \/ pc["flush"] # "failed"
    BY <2>1 DEF Writers
  <2>3. buffer' \in Seq(Items) /\ Len(buffer') <= Capacity
    BY <1>12, PushFrontBounded DEF Requeue, TypeOK
  <2>4. batch' \in [Writers -> Seq(Items)]
    BY <1>12, EmptySeq DEF Requeue, TypeOK
  <2> QED
    BY <1>10, <2>1, <2>2, <2>3, <2>4 DEF TypeOK, BufferBounded
<1>13. CASE Shutdown
  BY <1>13, <1>b DEF Shutdown, TypeOK, BufferBounded, FlushBudget
<1>14. CASE FlushCheck
  BY <1>14, <1>b DEF FlushCheck, TypeOK, BufferBounded, FlushBudget
<1>15. CASE Halt
  <2>1. <<>> \in Seq(Items) /\ Len(<<>>) <= Capacity
    BY CapacityPositive, EmptySeq
  <2> QED
    BY <1>15, <2>1 DEF Halt, TypeOK, BufferBounded, FlushBudget
<1>16. CASE UNCHANGED vars
  BY <1>16 DEF vars, TypeOK, BufferBounded, FlushBudget
<1>17. ASSUME NEW w \in Writers, Write(w) PROVE IInv'
  BY <1>7, <1>8, <1>9, <1>11, <1>12, <1>17 DEF Write
<1> HIDE DEF IInv
<1> QED
  BY <1>b, <1>1, <1>2, <1>3, <1>4, <1>5, <1>6, <1>13, <1>14, <1>15,
     <1>16, <1>17 DEF Next, CollectionLoop, WriteLoop, Flush, Exit, Crash

-----------------------------------------------------------------------------
(* The theorems                                                            *)

LEMMA Invariant == Spec => []IInv
BY InitEstablishes, StepPreserves, PTL DEF Spec

\* Every variable keeps its type; in particular flush never counts more than
\* MAX_ATTEMPTS failures, however writes, failures and retries interleave.
THEOREM TypeCorrect == Spec => []TypeOK
BY Invariant, PTL DEF IInv

\* event_buffer never holds more than buffer_size events (one, if the size
\* configured is 0), although collection and requeueing both fill it.
THEOREM BufferNeverOverflows == Spec => []BufferBounded
BY Invariant, PTL DEF IInv

-----------------------------------------------------------------------------
(* What the process holds, and EventSink                                   *)

\* Collecting and requeueing put nothing into the buffer but what they are
\* given, and write_batch takes nothing but what was there.
LEMMA RangesOfOperators ==
  ASSUME NEW b \in Seq(Items)
  PROVE  /\ \A e \in Items : Range(PushBack(b, e)) \subseteq Range(b) \union {e}
         /\ \A es \in Seq(Items) :
              Range(PushFront(b, es)) \subseteq Range(es) \union Range(b)
         /\ b = buffer => /\ Range(Popped) \subseteq Range(b)
                          /\ Range(Remaining) \subseteq Range(b)
         /\ b # <<>> => /\ Range(Tail(b)) \subseteq Range(b)
                         /\ Head(b) \in Range(b)
<1>1. ASSUME b # <<>> PROVE Range(Tail(b)) \subseteq Range(b) /\ Head(b) \in Range(b)
  BY <1>1 DEF Range
<1>2. ASSUME NEW e \in Items PROVE Range(PushBack(b, e)) \subseteq Range(b) \union {e}
  <2>1. CASE Len(b) >= Capacity
    <3>1. Len(b) # 0
      BY <2>1, CapacityPositive, LenProperties
    <3>2. Range(Append(Tail(b), e)) = Range(Tail(b)) \union {e}
      BY <3>1, EmptySeq, HeadTailProperties DEF Range
    <3> QED
      BY <1>1, <2>1, <3>1, <3>2, EmptySeq DEF PushBack
  <2>2. CASE ~(Len(b) >= Capacity)
    BY <2>2 DEF PushBack, Range
  <2> QED
    BY <2>1, <2>2
<1>3. ASSUME NEW es \in Seq(Items)
      PROVE  Range(PushFront(b, es)) \subseteq Range(es) \union Range(b)
  <2> DEFINE all == es \o b
             n   == IF Len(all) < Capacity THEN Len(all) ELSE Capacity
  <2>1. all \in Seq(Items) /\ Range(all) \subseteq Range(es) \union Range(b)
    BY DEF Range
  <2>2. n \in 0..Len(all)
    BY <2>1, CapacityPositive, LenProperties
  <2> HIDE DEF all, n
  <2>3. Range(SubSeq(all, 1, n)) \subseteq Range(all)
    BY <2>1, <2>2 DEF Range
  <2> QED
    BY <2>1, <2>3 DEF PushFront, all, n
<1>4. ASSUME b = buffer
      PROVE  Range(Popped) \subseteq Range(b) /\ Range(Remaining) \subseteq Range(b)
  <2>1. BatchLen \in 0..Len(b)
    BY <1>4, ParametersAssumption, LenProperties DEF BatchLen
  <2>2. /\ Range(SubSeq(b, 1, BatchLen)) \subseteq Range(b)
        /\ Range(SubSeq(b, BatchLen + 1, Len(b))) \subseteq Range(b)
    BY <2>1 DEF Range
  <2> QED
    BY <1>4, <2>2 DEF Popped, Remaining
<1> QED
  BY <1>1, <1>2, <1>3, <1>4

\* What a step other than a submission does, seen from EventSink: it stores
\* some of what is held, takes up nothing new, and submits nothing.
Letting == /\ queued' = queued
           /\ InMemory' \subseteq InMemory
           /\ \E S \in SUBSET InMemory : stored' = stored \union S

LEMMA StepLets ==
  ASSUME IInv, [Next]_vars
  PROVE  Submit \/ Letting
<1>t. /\ buffer \in Seq(Items) /\ channel \in Seq(Items)
      /\ \A w \in Writers : batch[w] \in Seq(Items)
      /\ batch \in [Writers -> Seq(Items)]
  BY DEF IInv, TypeOK
<1>w. Writers = {"loop", "flush"}
  BY DEF Writers
<1>e. Range(<<>>) = {}
  BY DEF Range
<1>1. ASSUME UNCHANGED <<queued, channel, buffer, batch, stored>> PROVE Letting
  <2>1. InMemory' = InMemory
    BY <1>1 DEF InMemory
  <2>2. stored' = stored \union {}
    BY <1>1
  <2> QED
    BY <1>1, <2>1, <2>2 DEF Letting
<1>2. CASE Collect
  <2>1. /\ channel # <<>> /\ channel' = Tail(channel)
        /\ buffer' = PushBack(buffer, Head(channel))
        /\ UNCHANGED <<queued, batch, stored>>
    BY <1>2 DEF Collect
  <2>2. /\ Range(Tail(channel)) \subseteq Range(channel)
        /\ Head(channel) \in Range(channel) /\ Head(channel) \in Items
    BY <1>t, <2>1, RangesOfOperators, HeadTailProperties
  <2>3. Range(buffer') \subseteq Range(buffer) \union {Head(channel)}
    BY <1>t, <2>1, <2>2, RangesOfOperators
  <2>4. stored' = stored \union {}
    BY <2>1
  <2> QED
    BY <2>1, <2>2, <2>3, <2>4 DEF Letting, InMemory
<1>3. ASSUME NEW w \in Writers, Take(w) PROVE Letting
  <2>1. /\ batch' = [batch EXCEPT ![w] = Popped] /\ buffer' = Remaining
        /\ UNCHANGED <<queued, channel, stored>>
    BY <1>3 DEF Take
  <2>2. Range(Popped) \subseteq Range(buffer) /\ Range(Remaining) \subseteq Range(buffer)
    BY <1>t, RangesOfOperators
  <2>3. \A v \in Writers : Range(batch'[v]) \subseteq Range(batch[v]) \union Range(buffer)
    BY <1>t, <2>1, <2>2
  <2>4. stored' = stored \union {}
    BY <2>1
  <2> QED
    BY <1>w, <2>1, <2>2, <2>3, <2>4 DEF Letting, InMemory
<1>4. ASSUME NEW w \in Writers, StoreOk(w) \/ StoreFails(w) PROVE Letting
  <2>1. UNCHANGED <<queued, channel, buffer>>
    BY <1>4 DEF StoreOk, StoreFails
  <2>2. batch' = [batch EXCEPT ![w] = <<>>] \/ batch' = batch
    BY <1>4 DEF StoreOk, StoreFails
  <2>3. PICK ok \in SUBSET Range(batch[w]) : stored' = stored \union ok
    BY <1>4 DEF StoreOk, StoreFails
  <2>4. \A v \in Writers : Range(batch'[v]) \subseteq Range(batch[v])
    BY <1>t, <1>e, <2>2
  <2> QED
    BY <1>w, <2>1, <2>3, <2>4 DEF Letting, InMemory
<1>5. ASSUME NEW w \in Writers, Requeue(w) PROVE Letting
  <2>1. /\ buffer' = PushFront(buffer, batch[w])
        /\ batch' = [batch EXCEPT ![w] = <<>>]
        /\ UNCHANGED <<queued, channel, stored>>
    BY <1>5 DEF Requeue
  <2>2. Range(buffer') \subseteq Range(batch[w]) \union Range(buffer)
    BY <1>t, <2>1, RangesOfOperators
  <2>3. \A v \in Writers : Range(batch'[v]) \subseteq Range(batch[v])
    BY <1>t, <1>e, <2>1
  <2>4. stored' = stored \union {}
    BY <2>1
  <2> QED
    BY <1>w, <2>1, <2>2, <2>3, <2>4 DEF Letting, InMemory
<1>6. CASE Halt
  <2>1. /\ channel' = <<>> /\ buffer' = <<>> /\ batch' = [w \in Writers |-> <<>>]
        /\ UNCHANGED <<queued, stored>>
    BY <1>6 DEF Halt
  <2>2. batch'["loop"] = <<>> /\ batch'["flush"] = <<>>
    BY <1>w, <2>1
  <2>3. stored' = stored \union {}
    BY <2>1
  <2> QED
    BY <1>e, <2>1, <2>2, <2>3 DEF Letting, InMemory
<1>7. ASSUME NEW w \in Writers, TakeNothing(w) PROVE Letting
  BY <1>1, <1>7 DEF TakeNothing
<1>8. CASE \/ Start \/ CollectorCheck \/ CollectorTimeout \/ WaitElapses
           \/ LoopCheck \/ LoopTick \/ Shutdown \/ FlushCheck \/ UNCHANGED vars
  BY <1>1, <1>8 DEF Start, CollectorCheck, CollectorTimeout, WaitElapses, LoopCheck,
                    LoopTick, Shutdown, FlushCheck, vars
<1>9. ASSUME NEW w \in Writers, Write(w) PROVE Letting
  BY <1>3, <1>4, <1>5, <1>7, <1>9 DEF Write
<1> QED
  BY <1>w, <1>2, <1>6, <1>8, <1>9
  DEF Next, CollectionLoop, WriteLoop, Flush, Exit, Crash

\* Every step of the batch writer is a submission, an attempt to store some
\* of what is pending that lets go of some of it, or nothing, as EventSink
\* sees it: no row comes from nowhere, no row goes, and an event that is let
\* go of is never pending again.
THEOREM KeepsItsPromise == Spec => Sink!Spec
<1>1. Init => Sink!Init
  <2> SUFFICES ASSUME Init PROVE Sink!Init
    OBVIOUS
  <2>1. /\ queued = 0 /\ stored = {} /\ channel = <<>> /\ buffer = <<>>
        /\ batch["loop"] = <<>> /\ batch["flush"] = <<>>
    BY DEF Init, Writers
  <2>2. InMemory = {}
    BY <2>1 DEF InMemory, Range
  <2> QED
    BY <2>1, <2>2 DEF Sink!Init
<1>2. IInv /\ [Next]_vars => [Sink!Next]_(Sink!vars)
  <2> SUFFICES ASSUME IInv, [Next]_vars PROVE Sink!Next
    BY DEF Sink!vars
  <2>1. CASE Submit
    <3>1. /\ queued < MaxItems /\ queued' = queued + 1
          /\ channel' = Append(channel, queued + 1)
          /\ UNCHANGED <<buffer, batch, stored>>
      BY <2>1 DEF Submit
    <3>2. channel \in Seq(Items) /\ queued + 1 \in Items
      BY <3>1, ParametersAssumption DEF IInv, TypeOK, Items
    <3>3. Range(channel') = Range(channel) \union {queued + 1}
      BY <3>1, <3>2 DEF Range
    <3>4. InMemory' = InMemory \union {queued + 1}
      BY <3>1, <3>3 DEF InMemory
    <3> QED
      BY <3>1, <3>4 DEF Sink!Next, Sink!Accept
  <2>2. CASE Letting
    <3>1. PICK S \in SUBSET InMemory : stored' = stored \union S
      BY <2>2 DEF Letting
    <3> DEFINE D == InMemory \ InMemory'
    <3>2. InMemory' = InMemory \ D
      BY <2>2 DEF Letting
    <3>3. queued' = queued /\ D \in SUBSET InMemory
      BY <2>2 DEF Letting
    <3> HIDE DEF D
    <3>4. Sink!Attempt(S, D)
      BY <3>1, <3>2, <3>3 DEF Sink!Attempt
    <3> QED
      BY <3>3, <3>4 DEF Sink!Next
  <2> QED
    BY <2>1, <2>2, StepLets
<1> QED
  BY <1>1, <1>2, Invariant, PTL DEF Spec, Sink!Spec

-----------------------------------------------------------------------------
(* Where events are, and in which order                                    *)

\* The earlier elements of s are related by rel to the later ones; all of S
\* to all of T.  With one relation this says that events are in order, with
\* another that they differ.
Pairwise(rel, s)  == \A i, j \in DOMAIN s : i < j => <<s[i], s[j]>> \in rel
Across(rel, S, T) == \A x \in S, y \in T : <<x, y>> \in rel

LEMMA PairwiseSplit ==
  ASSUME NEW rel, NEW b \in Seq(Items), NEW n \in 0..Len(b), Pairwise(rel, b)
  PROVE  LET front == SubSeq(b, 1, n)
             back  == SubSeq(b, n + 1, Len(b))
         IN  /\ front \in Seq(Items) /\ back \in Seq(Items)
             /\ Range(front) \subseteq Range(b) /\ Range(back) \subseteq Range(b)
             /\ Pairwise(rel, front) /\ Pairwise(rel, back)
             /\ Across(rel, Range(front), Range(back))
<1> DEFINE front == SubSeq(b, 1, n)
           back  == SubSeq(b, n + 1, Len(b))
<1>1. /\ Len(b) \in Nat /\ DOMAIN b = 1..Len(b) /\ n \in Nat /\ n <= Len(b)
      /\ \A i \in 1..Len(b) : b[i] \in Items
  BY LenProperties, ElementOfSeq
<1>2. /\ front \in Seq(Items) /\ DOMAIN front = 1..n
      /\ \A i \in 1..n : front[i] = b[i]
  BY <1>1
<1>3. /\ back \in Seq(Items) /\ DOMAIN back = 1..(Len(b) - n)
      /\ \A i \in 1..(Len(b) - n) : back[i] = b[i + n]
  BY <1>1
<1> HIDE DEF front, back
<1>a. \A i \in DOMAIN front : i \in 1..n /\ i \in DOMAIN b /\ front[i] = b[i]
  BY <1>1, <1>2
<1>b. \A i \in DOMAIN back : /\ i \in Nat /\ i + n > n /\ i + n \in DOMAIN b
                            /\ back[i] = b[i + n]
  BY <1>1, <1>3
<1>4. Range(front) \subseteq Range(b) /\ Range(back) \subseteq Range(b)
  <2>1. ASSUME NEW i \in DOMAIN front PROVE front[i] \in Range(b)
    BY <1>a DEF Range
  <2>2. ASSUME NEW i \in DOMAIN back PROVE back[i] \in Range(b)
    BY <1>b DEF Range
  <2> QED
    BY <2>1, <2>2 DEF Range
<1>5. Pairwise(rel, front) /\ Pairwise(rel, back)
  <2>1. Pairwise(rel, front)
    BY <1>a DEF Pairwise
  <2>2. ASSUME NEW i \in DOMAIN back, NEW j \in DOMAIN back, i < j
        PROVE  <<back[i], back[j]>> \in rel
    <3>1. /\ i + n \in DOMAIN b /\ back[i] = b[i + n]
          /\ j + n \in DOMAIN b /\ back[j] = b[j + n]
      BY <1>b
    <3>2. i + n < j + n
      BY <1>1, <1>b, <2>2
    <3> QED
      BY <3>1, <3>2 DEF Pairwise
  <2> QED
    BY <2>1, <2>2 DEF Pairwise
<1>6. Across(rel, Range(front), Range(back))
  <2>1. ASSUME NEW i \in DOMAIN front, NEW j \in DOMAIN back
        PROVE  <<front[i], back[j]>> \in rel
    <3>1. /\ i \in DOMAIN b /\ front[i] = b[i] /\ i \in 1..n
          /\ j + n \in DOMAIN b /\ back[j] = b[j + n] /\ j \in Nat /\ j + n > n
      BY <1>a, <1>b
    <3>2. i < j + n
      BY <1>1, <3>1
    <3> QED
      BY <3>1, <3>2 DEF Pairwise
  <2> QED
    BY <2>1 DEF Across, Range
<1> QED
  BY <1>2, <1>3, <1>4, <1>5, <1>6 DEF front, back

LEMMA PairwiseConcat ==
  ASSUME NEW rel, NEW s \in Seq(Items), NEW t \in Seq(Items),
         Pairwise(rel, s), Pairwise(rel, t), Across(rel, Range(s), Range(t))
  PROVE  /\ s \o t \in Seq(Items)
         /\ Range(s \o t) = Range(s) \union Range(t)
         /\ Pairwise(rel, s \o t)
<1> DEFINE all == s \o t
<1>1. /\ Len(s) \in Nat /\ Len(t) \in Nat
      /\ DOMAIN s = 1..Len(s) /\ DOMAIN t = 1..Len(t)
  BY LenProperties
<1>2. /\ all \in Seq(Items) /\ DOMAIN all = 1..(Len(s) + Len(t))
      /\ \A i \in 1..Len(s) : all[i] = s[i]
      /\ \A i \in (Len(s) + 1)..(Len(s) + Len(t)) : all[i] = t[i - Len(s)]
  BY <1>1
<1> HIDE DEF all
<1>3. Range(all) \subseteq Range(s) \union Range(t)
  <2> SUFFICES ASSUME NEW i \in DOMAIN all PROVE all[i] \in Range(s) \union Range(t)
    BY DEF Range
  <2>1. CASE i <= Len(s)
    <3>1. i \in DOMAIN s /\ all[i] = s[i]
      BY <1>1, <1>2, <2>1
    <3> QED
      BY <3>1 DEF Range
  <2>2. CASE i > Len(s)
    <3>1. i - Len(s) \in DOMAIN t /\ all[i] = t[i - Len(s)]
      BY <1>1, <1>2, <2>2
    <3> QED
      BY <3>1 DEF Range
  <2> QED
    BY <1>1, <1>2, <2>1, <2>2
<1>4. Range(s) \subseteq Range(all)
  BY <1>1, <1>2 DEF Range
<1>5. Range(t) \subseteq Range(all)
  <2> SUFFICES ASSUME NEW i \in 1..Len(t) PROVE t[i] \in Range(all)
    BY <1>1 DEF Range
  <2>1. i + Len(s) \in DOMAIN all /\ all[i + Len(s)] = t[i]
    BY <1>1, <1>2
  <2> QED
    BY <2>1 DEF Range
<1>6. Pairwise(rel, all)
  <2> SUFFICES ASSUME NEW i \in DOMAIN all, NEW j \in DOMAIN all, i < j
               PROVE  <<all[i], all[j]>> \in rel
    BY DEF Pairwise
  <2>1. CASE j <= Len(s)
    BY <1>1, <1>2, <2>1 DEF Pairwise
  <2>2. CASE i > Len(s)
    <3>1. ASSUME NEW k \in DOMAIN all, k > Len(s)
          PROVE  k - Len(s) \in DOMAIN t /\ all[k] = t[k - Len(s)]
      <4>1. k \in (Len(s) + 1)..(Len(s) + Len(t)) /\ k - Len(s) \in 1..Len(t)
        BY <1>1, <1>2, <3>1
      <4> QED
        BY <1>1, <1>2, <4>1
    <3>2. /\ j > Len(s) /\ i - Len(s) < j - Len(s)
      BY <1>1, <1>2, <2>2
    <3>3. /\ i - Len(s) \in DOMAIN t /\ j - Len(s) \in DOMAIN t
          /\ i - Len(s) < j - Len(s)
          /\ all[i] = t[i - Len(s)] /\ all[j] = t[j - Len(s)]
      BY <2>2, <3>1, <3>2
    <3> QED
      BY <3>3 DEF Pairwise
  <2>3. CASE i <= Len(s) /\ j > Len(s)
    <3>1. all[i] \in Range(s) /\ all[j] \in Range(t)
      <4>1. i \in DOMAIN s /\ all[i] = s[i]
        BY <1>1, <1>2, <2>3
      <4>2. j - Len(s) \in DOMAIN t /\ all[j] = t[j - Len(s)]
        <5>1. j \in (Len(s) + 1)..(Len(s) + Len(t)) /\ j - Len(s) \in 1..Len(t)
          BY <1>1, <1>2, <2>3
        <5> QED
          BY <1>1, <1>2, <5>1
      <4> QED
        BY <4>1, <4>2 DEF Range
    <3> QED
      BY <3>1 DEF Across
  <2> QED
    BY <1>1, <1>2, <2>1, <2>2, <2>3
<1> QED
  BY <1>2, <1>3, <1>4, <1>5, <1>6 DEF all

\* Appending an event all others precede.
LEMMA PairwiseAppend ==
  ASSUME NEW rel, NEW s \in Seq(Items), NEW e \in Items,
         Pairwise(rel, s), Across(rel, Range(s), {e})
  PROVE  /\ Append(s, e) \in Seq(Items)
         /\ Range(Append(s, e)) = Range(s) \union {e}
         /\ Pairwise(rel, Append(s, e))
<1>1. /\ <<e>> \in Seq(Items) /\ Range(<<e>>) = {e} /\ Pairwise(rel, <<e>>)
      /\ Append(s, e) = s \o <<e>>
  BY DEF Range, Pairwise
<1> DEFINE one == <<e>>
<1>2. /\ one \in Seq(Items) /\ Range(one) = {e} /\ Pairwise(rel, one)
      /\ Append(s, e) = s \o one
  BY <1>1
<1> HIDE DEF one
<1>3. Across(rel, Range(s), Range(one))
  BY <1>2
<1>4. /\ s \o one \in Seq(Items) /\ Range(s \o one) = Range(s) \union Range(one)
      /\ Pairwise(rel, s \o one)
  <2>1. one \in Seq(Items) /\ Pairwise(rel, one)
    BY <1>2
  <2> QED
    BY <1>3, <2>1, PairwiseConcat
<1> QED
  BY <1>2, <1>4

\* The head of a channel precedes the rest of it.
LEMMA PairwiseTail ==
  ASSUME NEW rel, NEW s \in Seq(Items), s # <<>>, Pairwise(rel, s)
  PROVE  /\ Head(s) \in Range(s) /\ Head(s) \in Items
         /\ Tail(s) \in Seq(Items) /\ Range(Tail(s)) \subseteq Range(s)
         /\ Pairwise(rel, Tail(s)) /\ Across(rel, {Head(s)}, Range(Tail(s)))
<1>1. /\ Len(s) \in Nat /\ Len(s) >= 1
      /\ Tail(s) = SubSeq(s, 2, Len(s)) /\ Head(s) = s[1]
      /\ 1 \in DOMAIN s /\ s[1] \in Items
  BY LenProperties, EmptySeq
<1>2. Range(SubSeq(s, 1, 1)) = {s[1]}
  BY <1>1 DEF Range
<1>3. 1 \in 0..Len(s) /\ 1 + 1 = 2
  BY <1>1
<1>4. s[1] \in Range(s)
  BY <1>1 DEF Range
<1>5. /\ SubSeq(s, 2, Len(s)) \in Seq(Items)
      /\ Range(SubSeq(s, 2, Len(s))) \subseteq Range(s)
      /\ Pairwise(rel, SubSeq(s, 2, Len(s)))
      /\ Across(rel, Range(SubSeq(s, 1, 1)), Range(SubSeq(s, 2, Len(s))))
  BY <1>3, PairwiseSplit
<1> QED
  BY <1>1, <1>2, <1>4, <1>5

\* The events in the hands of the write loop, in those of flush, in the buffer
\* and in the channel, in this order.
Places(rel) ==
  LET L == batch["loop"]
      F == batch["flush"]
  IN  /\ Pairwise(rel, L) /\ Pairwise(rel, F)
      /\ Pairwise(rel, buffer) /\ Pairwise(rel, channel)
      /\ Across(rel, Range(L), Range(F))
      /\ Across(rel, Range(L), Range(buffer)) /\ Across(rel, Range(L), Range(channel))
      /\ Across(rel, Range(F), Range(buffer)) /\ Across(rel, Range(F), Range(channel))
      /\ Across(rel, Range(buffer), Range(channel))

Less   == {p \in Items \X Items : p[1] < p[2]}
Differ == {p \in Items \X Items : p[1] # p[2]}

\* No writer is at work before the collection loop; a writer holds events only
\* between popping and settling them; and nobody holds an event that has not
\* been submitted.
Idle       == collector = "off" => \A w \in Writers : pc[w] = "off"
HandsEmpty == \A w \in Writers : batch[w] # <<>> => pc[w] \in {"store", "retry"}
Submitted  == InMemory \subseteq 1..queued

PlacesInv ==
  /\ Idle /\ HandsEmpty
  /\ Submitted
  /\ Places(Differ)
  /\ pc["flush"] = "off" => Places(Less)

LEMMA IdleStep == IInv /\ Idle /\ [Next]_vars => Idle'
<1> SUFFICES ASSUME IInv, Idle, [Next]_vars PROVE Idle'
  OBVIOUS
<1> USE DEF Idle
<1>t. pc \in [Writers -> {"off", "check", "tick", "take", "store", "retry",
                         "done", "ok", "failed"}] /\ Writers = {"loop", "flush"}
  BY DEF IInv, TypeOK, Writers
<1>1. ASSUME NEW w \in Writers, Write(w) PROVE Idle'
  <2>1. collector' = collector /\ pc[w] # "off"
    BY <1>1 DEF Write, Take, TakeNothing, StoreOk, StoreFails, Requeue
  <2> QED
    BY <2>1
<1>2. CASE Start
  BY <1>2 DEF Start
<1>3. CASE CollectionLoop
  BY <1>3 DEF CollectionLoop, CollectorCheck, CollectorTimeout, Collect
<1>4. CASE LoopCheck \/ LoopTick \/ Shutdown \/ FlushCheck
  BY <1>t, <1>4 DEF LoopCheck, LoopTick, Shutdown, FlushCheck
<1>5. CASE Submit \/ WaitElapses \/ Halt \/ UNCHANGED vars
  BY <1>5 DEF Submit, WaitElapses, Halt, vars
<1> HIDE DEF Idle
<1> QED
  BY <1>t, <1>1, <1>2, <1>3, <1>4, <1>5 DEF Next, WriteLoop, Flush, Exit, Crash

LEMMA HandsStep == IInv /\ Idle /\ HandsEmpty /\ [Next]_vars => HandsEmpty'
<1> SUFFICES ASSUME IInv, Idle, HandsEmpty, [Next]_vars PROVE HandsEmpty'
  OBVIOUS
<1> USE DEF HandsEmpty
<1>t. /\ pc \in [Writers -> {"off", "check", "tick", "take", "store", "retry",
                            "done", "ok", "failed"}]
      /\ batch \in [Writers -> Seq(Items)]
      /\ Writers = {"loop", "flush"}
  BY DEF IInv, TypeOK, Writers
<1>1. ASSUME UNCHANGED <<batch, pc>> PROVE HandsEmpty'
  BY <1>1
<1>2. ASSUME NEW w \in Writers, Take(w) PROVE HandsEmpty'
  BY <1>t, <1>2 DEF Take
<1>3. ASSUME NEW w \in Writers, batch' = [batch EXCEPT ![w] = <<>>],
             \A v \in Writers : v # w => pc'[v] = pc[v]
      PROVE  HandsEmpty'
  BY <1>t, <1>3
<1>4. ASSUME NEW w \in Writers, Succeed(w) \/ Fail(w)
      PROVE  \A v \in Writers : v # w => pc'[v] = pc[v]
  BY <1>t, <1>4 DEF Succeed, Fail
<1>5. ASSUME NEW w \in Writers, TakeNothing(w) PROVE HandsEmpty'
  <2>1. pc[w] = "take" /\ batch' = batch
    BY <1>5 DEF TakeNothing
  <2>2. \A v \in Writers : v # w => pc'[v] = pc[v]
    BY <1>4, <1>5 DEF TakeNothing
  <2> QED
    BY <1>t, <2>1, <2>2
<1>6. ASSUME NEW w \in Writers, StoreOk(w) \/ Requeue(w) PROVE HandsEmpty'
  BY <1>3, <1>4, <1>6 DEF StoreOk, Requeue
<1>7. ASSUME NEW w \in Writers, StoreFails(w) PROVE HandsEmpty'
  <2>1. \/ pc' = [pc EXCEPT ![w] = "retry"] /\ batch' = batch
        \/ batch' = [batch EXCEPT ![w] = <<>>] /\ Fail(w)
    BY <1>7 DEF StoreFails
  <2> QED
    BY <1>t, <1>3, <1>4, <2>1
<1>8. CASE LoopCheck \/ LoopTick \/ Shutdown \/ FlushCheck
  BY <1>t, <1>8 DEF LoopCheck, LoopTick, Shutdown, FlushCheck
<1>9. CASE Start
  <2>1. batch' = batch /\ pc' = [pc EXCEPT !["loop"] = "check"]
        /\ collector = "off"
    BY <1>9 DEF Start
  <2> QED
    BY <1>t, <2>1 DEF Idle
<1>10. CASE Halt
  BY <1>10 DEF Halt
<1>11. CASE \/ Submit \/ CollectionLoop \/ WaitElapses \/ UNCHANGED vars
  BY <1>1, <1>11 DEF Submit, CollectionLoop, CollectorCheck, CollectorTimeout, Collect,
                     WaitElapses, vars
<1>12. ASSUME NEW w \in Writers, Write(w) PROVE HandsEmpty'
  BY <1>2, <1>5, <1>6, <1>7, <1>12 DEF Write
<1> HIDE DEF HandsEmpty
<1> QED
  BY <1>t, <1>8, <1>9, <1>10, <1>11, <1>12
  DEF Next, WriteLoop, Flush, Exit, Crash

\* Whatever relation the submissions are in, the events keep to it wherever
\* they go, while flush is not at work or if the relation goes both ways.
LEMMA PlacesStep ==
  ASSUME IInv, HandsEmpty, Idle, Submitted, [Next]_vars, NEW rel, Places(rel),
         \A x, y \in Items : x < y => <<x, y>> \in rel,
         \/ \A x, y \in Items : <<x, y>> \in rel => <<y, x>> \in rel
         \/ pc["flush"] = "off"
  PROVE  Places(rel)'
<1> DEFINE L == batch["loop"]
           F == batch["flush"]
<1>t. /\ buffer \in Seq(Items) /\ channel \in Seq(Items)
      /\ batch \in [Writers -> Seq(Items)] /\ L \in Seq(Items) /\ F \in Seq(Items)
      /\ Writers = {"loop", "flush"}
  BY DEF IInv, TypeOK, Writers
<1>p. /\ Pairwise(rel, L) /\ Pairwise(rel, F)
      /\ Pairwise(rel, buffer) /\ Pairwise(rel, channel)
      /\ Across(rel, Range(L), Range(F))
      /\ Across(rel, Range(L), Range(buffer)) /\ Across(rel, Range(L), Range(channel))
      /\ Across(rel, Range(F), Range(buffer)) /\ Across(rel, Range(F), Range(channel))
      /\ Across(rel, Range(buffer), Range(channel))
  BY DEF Places
<1>r. /\ Range(L) \subseteq Items /\ Range(F) \subseteq Items
      /\ Range(buffer) \subseteq Items /\ Range(channel) \subseteq Items
  BY <1>t, RangeOfSeq
<1>e. Range(<<>>) = {} /\ Pairwise(rel, <<>>) /\ <<>> \in Seq(Items)
  BY DEF Range, Pairwise
<1>s. Across(rel, Range(buffer), Range(F)) /\ Across(rel, Range(F), Range(L))
  <2>1. CASE pc["flush"] = "off"
    <3>1. F = <<>>
      BY <1>t, <2>1 DEF HandsEmpty
    <3> QED
      BY <1>e, <3>1 DEF Across
  <2>2. CASE \A x, y \in Items : <<x, y>> \in rel => <<y, x>> \in rel
    BY <1>p, <1>r, <2>2 DEF Across
  <2> QED
    BY <2>1, <2>2
<1> HIDE DEF L, F
<1>1. ASSUME UNCHANGED <<batch, buffer, channel>> PROVE Places(rel)'
  BY <1>1, <1>p DEF Places, L, F
<1>2. CASE Submit
  <2>1. /\ queued < MaxItems /\ channel' = Append(channel, queued + 1)
        /\ UNCHANGED <<buffer, batch>>
    BY <1>2 DEF Submit
  <2>2. queued \in Nat /\ queued + 1 \in Items
    BY <2>1, ParametersAssumption DEF IInv, TypeOK, Items
  <2>3. /\ Range(L) \subseteq 1..queued /\ Range(F) \subseteq 1..queued
        /\ Range(buffer) \subseteq 1..queued /\ Range(channel) \subseteq 1..queued
    BY DEF Submitted, InMemory, L, F
  <2>4. \A x \in 1..queued : x \in Items /\ <<x, queued + 1>> \in rel
    BY <2>1, <2>2, ParametersAssumption DEF Items
  <2>5. /\ Across(rel, Range(L), {queued + 1}) /\ Across(rel, Range(F), {queued + 1})
        /\ Across(rel, Range(buffer), {queued + 1})
        /\ Across(rel, Range(channel), {queued + 1})
    BY <2>3, <2>4 DEF Across
  <2>6. /\ Range(channel') = Range(channel) \union {queued + 1}
        /\ Pairwise(rel, channel')
    BY <1>t, <1>p, <2>1, <2>2, <2>5, PairwiseAppend
  <2> QED
    BY <1>p, <2>1, <2>5, <2>6 DEF Places, Across, L, F
<1>3. CASE Collect
  <2> DEFINE e == Head(channel)
             kept == IF Len(buffer) >= Capacity THEN Tail(buffer) ELSE buffer
  <2>1. /\ channel # <<>> /\ channel' = Tail(channel)
        /\ buffer' = Append(kept, e) /\ batch' = batch
    BY <1>3 DEF Collect, PushBack
  <2>2. /\ e \in Range(channel) /\ e \in Items
        /\ Range(channel') \subseteq Range(channel)
        /\ Pairwise(rel, channel') /\ Across(rel, {e}, Range(channel'))
    BY <1>t, <1>p, <2>1, PairwiseTail
  <2>3. /\ kept \in Seq(Items) /\ Range(kept) \subseteq Range(buffer)
        /\ Pairwise(rel, kept)
    <3>1. CASE Len(buffer) >= Capacity
      <4>1. buffer # <<>>
        BY <3>1, CapacityPositive, EmptySeq
      <4> QED
        BY <1>t, <1>p, <3>1, <4>1, PairwiseTail
    <3>2. CASE ~(Len(buffer) >= Capacity)
      BY <1>t, <1>p, <3>2
    <3> QED
      BY <3>1, <3>2
  <2> HIDE DEF e, kept
  <2>4. Across(rel, Range(kept), {e})
    BY <1>p, <2>2, <2>3 DEF Across
  <2>5. Range(buffer') = Range(kept) \union {e} /\ Pairwise(rel, buffer')
    BY <2>1, <2>2, <2>3, <2>4, PairwiseAppend
  <2>6. /\ Across(rel, Range(L), Range(buffer')) /\ Across(rel, Range(F), Range(buffer'))
        /\ Across(rel, Range(L), Range(channel')) /\ Across(rel, Range(F), Range(channel'))
    BY <1>p, <2>2, <2>3, <2>5 DEF Across
  <2>7. Across(rel, Range(buffer'), Range(channel'))
    BY <1>p, <2>2, <2>3, <2>5 DEF Across
  <2> QED
    BY <1>p, <2>1, <2>2, <2>5, <2>6, <2>7 DEF Places, L, F
<1>4. ASSUME NEW w \in Writers, Take(w) PROVE Places(rel)'
  <2>1. /\ pc[w] = "take" /\ batch' = [batch EXCEPT ![w] = Popped]
        /\ buffer' = Remaining /\ channel' = channel
    BY <1>4 DEF Take
  <2>2. BatchLen \in 0..Len(buffer)
    BY <1>t, ParametersAssumption, LenProperties DEF BatchLen
  <2>3. /\ Range(Popped) \subseteq Range(buffer) /\ Range(buffer') \subseteq Range(buffer)
        /\ Pairwise(rel, Popped) /\ Pairwise(rel, buffer')
        /\ Across(rel, Range(Popped), Range(buffer'))
    BY <1>t, <1>p, <2>1, <2>2, PairwiseSplit DEF Popped, Remaining
  <2>4. /\ Across(rel, Range(L), Range(buffer')) /\ Across(rel, Range(F), Range(buffer'))
        /\ Across(rel, Range(buffer'), Range(channel))
        /\ Across(rel, Range(Popped), Range(channel))
        /\ Across(rel, Range(L), Range(Popped)) /\ Across(rel, Range(Popped), Range(F))
    BY <1>p, <1>s, <2>3 DEF Across
  <2>5. CASE w = "loop"
    <3>1. batch'["loop"] = Popped /\ batch'["flush"] = F
      BY <1>t, <2>1, <2>5 DEF F
    <3> QED
      BY <1>p, <2>1, <2>3, <2>4, <3>1 DEF Places
  <2>6. CASE w = "flush"
    <3>1. batch'["flush"] = Popped /\ batch'["loop"] = L
      BY <1>t, <2>1, <2>6 DEF L
    <3> QED
      BY <1>p, <2>1, <2>3, <2>4, <3>1 DEF Places
  <2> QED
    BY <1>t, <2>5, <2>6
<1>5. ASSUME NEW w \in Writers, batch' = [batch EXCEPT ![w] = <<>>],
             UNCHANGED <<buffer, channel>>
      PROVE  Places(rel)'
  <2>1. \A v \in Writers : batch'[v] = batch[v] \/ batch'[v] = <<>>
    BY <1>t, <1>5
  <2>2. \A S : Across(rel, {}, S) /\ Across(rel, S, {})
    BY DEF Across
  <2> QED
    BY <1>t, <1>p, <1>e, <1>5, <2>1, <2>2 DEF Places, L, F
<1>6. ASSUME NEW w \in Writers, Requeue(w) PROVE Places(rel)'
  <2> DEFINE all == batch[w] \o buffer
             n == IF Len(all) < Capacity THEN Len(all) ELSE Capacity
  <2>1. /\ batch' = [batch EXCEPT ![w] = <<>>] /\ channel' = channel
        /\ buffer' = SubSeq(all, 1, n)
    BY <1>6 DEF Requeue, PushFront
  <2>2. /\ batch[w] \in Seq(Items) /\ Pairwise(rel, batch[w])
        /\ Across(rel, Range(batch[w]), Range(buffer))
        /\ Across(rel, Range(batch[w]), Range(channel))
    BY <1>t, <1>p DEF L, F
  <2>3. /\ all \in Seq(Items) /\ Range(all) = Range(batch[w]) \union Range(buffer)
        /\ Pairwise(rel, all)
    BY <1>t, <1>p, <2>2, PairwiseConcat
  <2>4. n \in 0..Len(all)
    BY <2>3, CapacityPositive, LenProperties
  <2> HIDE DEF all, n
  <2>5. Range(buffer') \subseteq Range(all) /\ Pairwise(rel, buffer')
    BY <2>1, <2>3, <2>4, PairwiseSplit
  <2>6. Across(rel, Range(buffer'), Range(channel))
    BY <1>p, <2>2, <2>3, <2>5 DEF Across
  <2>7. \A S : Across(rel, {}, S) /\ Across(rel, S, {})
    BY DEF Across
  <2>8. CASE w = "loop"
    <3>1. batch'["loop"] = <<>> /\ batch'["flush"] = F /\ batch[w] = L
      BY <1>t, <2>1, <2>8 DEF F, L
    <3>2. Across(rel, Range(F), Range(buffer'))
      BY <1>p, <1>s, <2>3, <2>5, <3>1 DEF Across
    <3> QED
      BY <1>p, <1>e, <2>1, <2>5, <2>6, <2>7, <3>1, <3>2 DEF Places
  <2>9. CASE w = "flush"
    <3>1. batch'["flush"] = <<>> /\ batch'["loop"] = L /\ batch[w] = F
      BY <1>t, <2>1, <2>9 DEF F, L
    <3>2. Across(rel, Range(L), Range(buffer'))
      BY <1>p, <2>3, <2>5, <3>1 DEF Across
    <3> QED
      BY <1>p, <1>e, <2>1, <2>5, <2>6, <2>7, <3>1, <3>2 DEF Places
  <2> QED
    BY <1>t, <2>8, <2>9
<1>7. CASE Halt
  <2>1. /\ channel' = <<>> /\ buffer' = <<>> /\ batch'["loop"] = <<>>
        /\ batch'["flush"] = <<>>
    BY <1>t, <1>7 DEF Halt
  <2> QED
    BY <1>e, <2>1 DEF Places, Across
<1>8. ASSUME NEW w \in Writers, Write(w) PROVE Places(rel)'
  <2>1. CASE TakeNothing(w)
    BY <1>1, <2>1 DEF TakeNothing
  <2>2. CASE StoreOk(w)
    BY <1>5, <2>2 DEF StoreOk
  <2>3. CASE StoreFails(w)
    BY <1>1, <1>5, <2>3 DEF StoreFails
  <2> QED
    BY <1>4, <1>6, <1>8, <2>1, <2>2, <2>3 DEF Write
<1>9. CASE \/ Start \/ CollectorCheck \/ CollectorTimeout \/ WaitElapses
           \/ LoopCheck \/ LoopTick \/ Shutdown \/ FlushCheck \/ UNCHANGED vars
  BY <1>1, <1>9 DEF Start, CollectorCheck, CollectorTimeout, WaitElapses, LoopCheck,
                    LoopTick, Shutdown, FlushCheck, vars
<1> QED
  BY <1>t, <1>2, <1>3, <1>7, <1>8, <1>9
  DEF Next, CollectionLoop, WriteLoop, Flush, Exit, Crash

LEMMA PlacesInit == Init => PlacesInv
<1> SUFFICES ASSUME Init PROVE PlacesInv
  OBVIOUS
<1>1. /\ channel = <<>> /\ buffer = <<>> /\ batch = [w \in Writers |-> <<>>]
      /\ pc = [w \in Writers |-> "off"] /\ "loop" \in Writers /\ "flush" \in Writers
  BY DEF Init, Writers
<1>2. Range(<<>>) = {}
  BY DEF Range
<1>3. ASSUME NEW rel PROVE Places(rel)
  BY <1>1, <1>2 DEF Places, Pairwise, Across
<1>4. Idle /\ HandsEmpty /\ Submitted
  BY <1>1, <1>2 DEF Idle, HandsEmpty, Submitted, InMemory
<1> QED
  BY <1>3, <1>4 DEF PlacesInv

LEMMA PlacesInvStep == IInv /\ PlacesInv /\ [Next]_vars => PlacesInv'
<1> SUFFICES ASSUME IInv, PlacesInv, [Next]_vars PROVE PlacesInv'
  OBVIOUS
<1>0. /\ Idle /\ HandsEmpty /\ Submitted /\ Places(Differ)
      /\ pc["flush"] = "off" => Places(Less)
  BY DEF PlacesInv
<1>1. Idle' /\ HandsEmpty'
  BY <1>0, IdleStep, HandsStep
<1>2. Submitted'
  <2>1. CASE Letting
    BY <1>0, <2>1 DEF Letting, Submitted
  <2>2. CASE Submit
    <3>1. /\ queued \in Nat /\ queued' = queued + 1
          /\ channel' = Append(channel, queued + 1) /\ channel \in Seq(Items)
          /\ UNCHANGED <<buffer, batch>>
      BY <2>2, ParametersAssumption DEF Submit, IInv, TypeOK
    <3>2. Range(channel') = Range(channel) \union {queued + 1}
      BY <3>1 DEF Range
    <3>3. InMemory' = InMemory \union {queued + 1}
      BY <3>1, <3>2 DEF InMemory
    <3> QED
      BY <1>0, <3>1, <3>3 DEF Submitted
  <2> QED
    BY <2>1, <2>2, StepLets
<1>3. /\ \A x, y \in Items : x < y => <<x, y>> \in Differ /\ <<x, y>> \in Less
      /\ \A x, y \in Items : <<x, y>> \in Differ => <<y, x>> \in Differ
  BY DEF Differ, Less, Items
<1>4. Places(Differ)'
  BY <1>0, <1>3, PlacesStep
<1>5. ASSUME pc'["flush"] = "off" PROVE pc["flush"] = "off"
  <2>1. pc \in [Writers -> {"off", "check", "tick", "take", "store", "retry",
                           "done", "ok", "failed"}] /\ Writers = {"loop", "flush"}
    BY DEF IInv, TypeOK, Writers
  <2>2. ASSUME NEW w \in Writers, Write(w) PROVE pc["flush"] = "off"
    <3>1. w # "flush"
      BY <1>5, <2>1, <2>2
      DEF Write, Take, TakeNothing, StoreOk, StoreFails, Requeue, Succeed, Fail
    <3> QED
      BY <1>5, <2>1, <2>2, <3>1
      DEF Write, Take, TakeNothing, StoreOk, StoreFails, Requeue, Succeed, Fail
  <2>3. CASE Start \/ LoopCheck \/ LoopTick \/ Shutdown \/ FlushCheck
    BY <1>5, <2>1, <2>3 DEF Start, LoopCheck, LoopTick, Shutdown, FlushCheck
  <2>4. CASE Submit \/ CollectionLoop \/ WaitElapses \/ Halt \/ UNCHANGED vars
    BY <1>5, <2>4 DEF Submit, CollectionLoop, CollectorCheck, CollectorTimeout, Collect,
                      WaitElapses, Halt, vars
  <2> QED
    BY <2>1, <2>2, <2>3, <2>4 DEF Next, WriteLoop, Flush, Exit, Crash
<1>6. ASSUME pc'["flush"] = "off" PROVE Places(Less)'
  BY <1>0, <1>3, <1>5, <1>6, PlacesStep
<1> QED
  BY <1>1, <1>2, <1>4, <1>6 DEF PlacesInv

LEMMA PlacesInvariant == Spec => []PlacesInv
BY Invariant, PlacesInit, PlacesInvStep, PTL DEF Spec

\* An event is never in two places, and never twice in one: not in both
\* writers' hands, although both pop the buffer, and not in the buffer and in
\* the hands of a writer that puts its batch back.
THEOREM InOnePlace == Spec => []OnePlace
<1>1. IInv /\ PlacesInv => OnePlace
  <2> SUFFICES ASSUME IInv, PlacesInv PROVE OnePlace
    OBVIOUS
  <2> DEFINE L == batch["loop"]
             F == batch["flush"]
             a == L \o F
             b == a \o buffer
             all == b \o channel
  <2>t. /\ buffer \in Seq(Items) /\ channel \in Seq(Items)
        /\ L \in Seq(Items) /\ F \in Seq(Items)
    BY DEF IInv, TypeOK, Writers
  <2>p. Places(Differ)
    BY DEF PlacesInv
  <2>1. a \in Seq(Items) /\ Range(a) = Range(L) \union Range(F) /\ Pairwise(Differ, a)
    BY <2>t, <2>p, PairwiseConcat DEF Places
  <2> HIDE DEF a
  <2>2. /\ Across(Differ, Range(a), Range(buffer)) /\ Across(Differ, Range(a), Range(channel))
        /\ Across(Differ, Range(buffer), Range(channel))
        /\ Pairwise(Differ, buffer) /\ Pairwise(Differ, channel)
    BY <2>1, <2>p DEF Places, Across
  <2>a. a \in Seq(Items) /\ Pairwise(Differ, a)
    BY <2>1
  <2>3. b \in Seq(Items) /\ Range(b) = Range(a) \union Range(buffer) /\ Pairwise(Differ, b)
    BY <2>t, <2>2, <2>a, PairwiseConcat
  <2> HIDE DEF b
  <2>4. Across(Differ, Range(b), Range(channel))
    BY <2>2, <2>3 DEF Across
  <2>5. all \in Seq(Items) /\ Pairwise(Differ, all)
    BY <2>t, <2>2, <2>3, <2>4, PairwiseConcat
  <2> HIDE DEF all
  <2>6. ASSUME NEW i \in DOMAIN all, NEW j \in DOMAIN all, i # j PROVE all[i] # all[j]
    <3>1. i < j \/ j < i
      BY <2>5, <2>6, LenProperties
    <3> QED
      BY <2>5, <3>1 DEF Pairwise, Differ
  <2> QED
    BY <2>6 DEF OnePlace, all, b, a
<1> QED
  BY <1>1, Invariant, PlacesInvariant, PTL

\* Until a shutdown adds a second writer, events are kept in the order of
\* their submission, for a buffer and batches of any size.
THEOREM OrderKept == Spec => []SubmissionOrder
<1>1. IInv /\ PlacesInv => SubmissionOrder
  <2> SUFFICES ASSUME IInv, PlacesInv, pc["flush"] = "off"
               PROVE  Increasing(batch["loop"] \o buffer \o channel)
    BY DEF SubmissionOrder
  <2> DEFINE L == batch["loop"]
             a == L \o buffer
             all == a \o channel
  <2>t. buffer \in Seq(Items) /\ channel \in Seq(Items) /\ L \in Seq(Items)
    BY DEF IInv, TypeOK, Writers
  <2>p. Places(Less)
    BY DEF PlacesInv
  <2>1. a \in Seq(Items) /\ Range(a) = Range(L) \union Range(buffer) /\ Pairwise(Less, a)
    BY <2>t, <2>p, PairwiseConcat DEF Places
  <2> HIDE DEF a
  <2>2. Across(Less, Range(a), Range(channel))
    BY <2>1, <2>p DEF Places, Across
  <2>3. Pairwise(Less, all)
    BY <2>t, <2>p, <2>1, <2>2, PairwiseConcat DEF Places
  <2> HIDE DEF all
  <2>4. Increasing(all)
    BY <2>3 DEF Pairwise, Increasing, Less
  <2> QED
    BY <2>4 DEF all, a
<1> QED
  BY <1>1, Invariant, PlacesInvariant, PTL

-----------------------------------------------------------------------------
(* The points                                                              *)

-----------------------------------------------------------------------------
(* Types and tasks                                                         *)

\* A task belongs to an event with a row and is about one of its wallets,
\* and a document that was found stays.
TaskOK ==
  /\ \A e \in Events : step[e] # "idle" => e \in rows
  /\ \A e \in Swaps : field[e] = "transaction"
  /\ \A e \in Claims :
       /\ field[e] \in {"nftClaimed", "claimNft"}
       /\ step[e] \notin DetailCalls
       /\ step[e] \in {"find", "write"} => Upper[e] # None
  /\ \A e \in Events :
       step[e] = "write" /\ read[e] # None => account[Owner(e)] # None

TasksInv == PointsTypeOK /\ TaskOK

\* A wallet's task of a swap concerns its payer, that of a claim the upper
\* and then the claimer.
LEMMA Owners ==
  ASSUME TasksInv, NEW e \in Events, step[e] \in {"find", "write"}
  PROVE  /\ Owner(e) \in Wallets
         /\ field[e] = "transaction" => e \in Swaps /\ Owner(e) = Payer[e]
         /\ field[e] = "nftClaimed" => e \in Claims /\ Owner(e) = Upper[e]
         /\ field[e] = "claimNft" => e \in Claims /\ Owner(e) = Claimer[e]
<1> USE PointsAssumption
<1>1. CASE e \in Swaps
  BY <1>1 DEF TasksInv, TaskOK, Owner
<1>2. CASE e \in Claims
  BY <1>2 DEF TasksInv, TaskOK, Owner
<1> QED
  BY <1>1, <1>2 DEF Events

\* What the writes put into a document is a document.
LEMMA Documents ==
  /\ \A f \in Fields : NewAccount(f) \in Account /\ NewAccount(f) # None
  /\ \A f \in Fields, v \in Nat : Updated(f, v) \in Nat
<1>1. First \in [Fields -> Nat]
  BY DEF First, Fields
<1>2. \A f \in Fields : NewAccount(f) \in Account
  BY <1>1 DEF NewAccount, Account
<1>3. \A f \in Fields : NewAccount(f) # None
  BY <1>2, PointsAssumption DEF Account
<1>4. \A f \in Fields, v \in Nat : Updated(f, v) \in Nat
  BY DEF Fields, Updated, Later, First
<1> QED
  BY <1>2, <1>3, <1>4

\* The document Set leaves: the field is set, the others are as they were.
Changed(w, f, doc) == [account[w] EXCEPT ![f] = Updated(f, doc[f])]

LEMMA Setting ==
  ASSUME TasksInv, NEW w \in Wallets, account[w] # None, NEW f \in Fields,
         NEW doc \in Account
  PROVE  /\ Changed(w, f, doc) \in Account /\ Changed(w, f, doc) # None
         /\ Changed(w, f, doc)[f] = Updated(f, doc[f])
         /\ \A g \in Fields : g # f => Changed(w, f, doc)[g] = account[w][g]
         /\ Set(w, f, doc) = [account EXCEPT ![w] = Changed(w, f, doc)]
<1>1. account[w] \in [Fields -> Nat]
  BY DEF TasksInv, PointsTypeOK, Account
<1>2. doc[f] \in Nat /\ Updated(f, doc[f]) \in Nat
  BY Documents DEF Account
<1>3. Changed(w, f, doc) \in Account
  BY <1>1, <1>2 DEF Account, Changed
<1>4. Changed(w, f, doc) # None
  BY <1>3, PointsAssumption DEF Account
<1>5. /\ Changed(w, f, doc)[f] = Updated(f, doc[f])
      /\ \A g \in Fields : g # f => Changed(w, f, doc)[g] = account[w][g]
  BY <1>1 DEF Changed
<1>6. Set(w, f, doc) = [account EXCEPT ![w] = Changed(w, f, doc)]
  BY DEF Set, Changed
<1> QED
  BY <1>3, <1>4, <1>5, <1>6

\* How a write leaves its task.
LEMMA AfterWrite ==
  ASSUME TasksInv, NEW e \in Events, Written(e), step[e] = "write"
  PROVE  \/ /\ field[e] = "nftClaimed"
            /\ field' = [field EXCEPT ![e] = "claimNft"]
            /\ step' = [step EXCEPT ![e] = "find"]
         \/ /\ \/ field[e] # "nftClaimed" /\ step' = [step EXCEPT ![e] = "done"]
               \/ step' = [step EXCEPT ![e] = "failed"]
            /\ field' = field
  BY DEF Written

LEMMA TasksInit == PointsInit => TasksInv
<1> SUFFICES ASSUME PointsInit PROVE TasksInv
  OBVIOUS
<1>1. PointsTypeOK
  BY PointsAssumption DEF PointsInit, PointsTypeOK, Events, Steps, Fields
<1>2. TaskOK
  BY PointsAssumption DEF PointsInit, TaskOK, Events, DetailCalls
<1> QED
  BY <1>1, <1>2 DEF TasksInv

\* Steps that touch neither the documents nor what was read keep the types.
LEMMA TasksElsewhere ==
  ASSUME TasksInv, account' = account, read' = read, field' = field,
         step' \in [Events -> Steps], restarts' \in 0..MaxRestarts,
         rows \subseteq rows', rows' \subseteq Events,
         firsts' \subseteq details', details' \subseteq rows \intersect Swaps,
         counted' \in [Swaps -> BOOLEAN],
         \A e \in Events : step'[e] # "idle" => e \in rows',
         \A e \in Claims : step'[e] \notin DetailCalls,
         \A e \in Claims : step'[e] \in {"find", "write"} => Upper[e] # None,
         \A e \in Events : step'[e] = "write" => step[e] = "write"
  PROVE  TasksInv'
<1>1. PointsTypeOK'
  BY DEF TasksInv, PointsTypeOK
<1>2. \A e \in Events : Owner(e)' = Owner(e)
  BY DEF Owner
<1>3. TaskOK'
  BY <1>2 DEF TasksInv, TaskOK
<1> QED
  BY <1>1, <1>3 DEF TasksInv

LEMMA TasksStep == TasksInv /\ [PointsNext]_pointsVars => TasksInv'
<1> SUFFICES ASSUME TasksInv, [PointsNext]_pointsVars PROVE TasksInv'
  OBVIOUS
<1> USE PointsAssumption
<1>t. PointsTypeOK /\ TaskOK
  BY DEF TasksInv
<1>1. ASSUME NEW e \in Swaps, WriteSwap(e) PROVE TasksInv'
  <2>1. e \in Events /\ step' \in [Events -> Steps]
    BY <1>1, <1>t DEF WriteSwap, PointsTypeOK, Events, Steps, DetailCalls
  <2>2. \A c \in Claims : step'[c] = step[c]
    BY <1>1, <1>t DEF WriteSwap, PointsTypeOK, Events
  <2> QED
    BY <1>1, <1>t, <2>1, <2>2, TasksElsewhere DEF WriteSwap, PointsTypeOK, TaskOK, Events
<1>2. ASSUME NEW e \in Claims, WriteClaim(e) PROVE TasksInv'
  <2>1. e \in Events /\ step' \in [Events -> Steps]
    BY <1>2, <1>t DEF WriteClaim, PointsTypeOK, Events, Steps, Ended
  <2>2. step'[e] = IF Upper[e] = None THEN "done" ELSE "find"
    BY <1>2, <1>t, <2>1 DEF WriteClaim, PointsTypeOK
  <2>3. \A c \in Events : c # e => step'[c] = step[c]
    BY <1>2, <1>t DEF WriteClaim, PointsTypeOK
  <2> QED
    BY <1>2, <1>t, <2>1, <2>2, <2>3, TasksElsewhere
    DEF WriteClaim, PointsTypeOK, TaskOK, Events, DetailCalls
<1>3. ASSUME NEW e \in Swaps, FindDetail(e) \/ CountDetails(e) \/ InsertDetail(e)
      PROVE  TasksInv'
  <2>1. e \in Events /\ e \in rows
    BY <1>3, <1>t DEF FindDetail, CountDetails, InsertDetail, TaskOK, Events
  <2>2. step' \in [Events -> Steps] /\ counted' \in [Swaps -> BOOLEAN]
    BY <1>3, <1>t, <2>1
    DEF FindDetail, CountDetails, InsertDetail, PointsTypeOK, Steps, DetailCalls
  <2>3. step'[e] # "write" /\ \A c \in Events : c # e => step'[c] = step[c]
    BY <1>3, <1>t, <2>1 DEF FindDetail, CountDetails, InsertDetail, PointsTypeOK
  <2>4. firsts' \subseteq details' /\ details' \subseteq rows \intersect Swaps
    BY <1>3, <1>t, <2>1 DEF FindDetail, CountDetails, InsertDetail, PointsTypeOK
  <2> QED
    BY <1>3, <1>t, <2>1, <2>2, <2>3, <2>4, TasksElsewhere
    DEF FindDetail, CountDetails, InsertDetail, PointsTypeOK, TaskOK, Events
<1>4. ASSUME NEW e \in Events, Find(e) PROVE TasksInv'
  <2>1. step[e] = "find" /\ Owner(e) \in Wallets /\ e \in rows
    BY <1>4, <1>t, Owners DEF Find, TaskOK
  <2>2. /\ read' = [read EXCEPT ![e] = account[Owner(e)]]
        /\ step' \in [Events -> Steps] /\ step'[e] \in {"done", "write"}
        /\ \A c \in Events : c # e => step'[c] = step[c]
        /\ UNCHANGED <<rows, field, counted, details, firsts, account, restarts>>
    BY <1>4, <1>t DEF Find, PointsTypeOK, Steps, Ended
  <2>3. PointsTypeOK'
    BY <1>t, <2>1, <2>2 DEF PointsTypeOK
  <2>4. \A c \in Events : Owner(c)' = Owner(c)
    BY <2>2 DEF Owner
  <2>5. TaskOK'
    BY <1>t, <2>1, <2>2, <2>4 DEF TaskOK, PointsTypeOK, Events, DetailCalls
  <2> QED
    BY <2>3, <2>5 DEF TasksInv
<1>5. ASSUME NEW e \in Events, Insert(e) \/ Update(e) PROVE TasksInv'
  <2>1. step[e] = "write" /\ Owner(e) \in Wallets /\ e \in rows /\ Written(e)
    BY <1>5, <1>t, Owners DEF Insert, Update, TaskOK
  <2>2. UNCHANGED <<rows, counted, read, details, firsts, restarts>>
    BY <1>5 DEF Insert, Update
  <2>3. field[e] \in Fields
    BY <1>t DEF PointsTypeOK
  <2>4. \E doc \in Account : doc # None /\ account' = [account EXCEPT ![Owner(e)] = doc]
    <3>1. CASE Insert(e)
      BY <3>1, <2>3, Documents DEF Insert
    <3>2. CASE Update(e)
      <4>1. read[e] \in Account /\ account[Owner(e)] # None
        BY <3>2, <1>t, <2>1 DEF Update, PointsTypeOK, TaskOK
      <4>2. LET new == Changed(Owner(e), field[e], read[e])
            IN  /\ new \in Account /\ new # None
                /\ Set(Owner(e), field[e], read[e]) = [account EXCEPT ![Owner(e)] = new]
        BY <4>1, <2>1, <2>3, Setting
      <4> QED
        BY <3>2, <4>2 DEF Update
    <3> QED
      BY <1>5, <3>1, <3>2
  <2>5. /\ account' \in [Wallets -> Account \union {None}]
        /\ \A w \in Wallets : account[w] # None => account'[w] # None
    <3>1. account \in [Wallets -> Account \union {None}]
      BY <1>t DEF PointsTypeOK
    <3>2. PICK doc \in Account :
            doc # None /\ account' = [account EXCEPT ![Owner(e)] = doc]
      BY <2>4
    <3> QED
      BY <3>1, <3>2
  <2>6. CASE /\ field[e] = "nftClaimed"
             /\ field' = [field EXCEPT ![e] = "claimNft"]
             /\ step' = [step EXCEPT ![e] = "find"]
    <3>1. e \in Claims
      BY <2>1, <2>6, Owners
    <3>2. PointsTypeOK'
      BY <1>t, <2>2, <2>5, <2>6 DEF PointsTypeOK, Fields, Steps
    <3>3. \A c \in Events : c # e => Owner(c)' = Owner(c) /\ field'[c] = field[c] /\ step'[c] = step[c]
      BY <1>t, <2>6 DEF Owner, PointsTypeOK
    <3>4. step'[e] = "find" /\ field'[e] = "claimNft"
      BY <1>t, <2>6 DEF PointsTypeOK
    <3>5. \A c \in Events : step[c] = "write" => Owner(c) \in Wallets
      BY Owners
    <3>6. \A c \in Events :
            step'[c] = "write" /\ read'[c] # None => account'[Owner(c)'] # None
      BY <1>t, <2>2, <2>5, <3>3, <3>4, <3>5 DEF TaskOK
    <3>7. \A c \in Claims : step'[c] \in {"find", "write"} => Upper[c] # None
      BY <1>t, <2>1, <3>1, <3>3, <3>4 DEF TaskOK, Events
    <3>8. TaskOK'
      BY <1>t, <2>1, <2>2, <3>1, <3>3, <3>4, <3>6, <3>7 DEF TaskOK, Events, DetailCalls
    <3> QED
      BY <3>2, <3>8 DEF TasksInv
  <2>7. CASE /\ step' = [step EXCEPT ![e] = "done"] \/ step' = [step EXCEPT ![e] = "failed"]
             /\ field' = field
    <3>1. PointsTypeOK'
      BY <1>t, <2>2, <2>5, <2>7 DEF PointsTypeOK, Steps, Ended
    <3>2. \A c \in Events : Owner(c)' = Owner(c)
      BY <2>7 DEF Owner
    <3>3. /\ step'[e] \in {"done", "failed"}
          /\ \A c \in Events : c # e => step'[c] = step[c]
      BY <1>t, <2>7 DEF PointsTypeOK
    <3>4. \A c \in Events : step[c] = "write" => Owner(c) \in Wallets
      BY Owners
    <3>5. \A c \in Events :
            step'[c] = "write" /\ read'[c] # None => account'[Owner(c)'] # None
      BY <1>t, <2>2, <2>5, <3>2, <3>3, <3>4 DEF TaskOK
    <3>6. TaskOK'
      BY <1>t, <2>1, <2>2, <2>7, <3>3, <3>5 DEF TaskOK, Events, DetailCalls
    <3> QED
      BY <3>1, <3>6 DEF TasksInv
  <2> QED
    BY <2>1, <2>6, <2>7, AfterWrite
<1>6. ASSUME NEW e \in Events, InsertDuplicate(e) \/ CallFails(e) PROVE TasksInv'
  <2>1. /\ step' \in [Events -> Steps] /\ step'[e] # "write" /\ step[e] # "idle"
        /\ \A c \in Events : c # e => step'[c] = step[c]
        /\ UNCHANGED <<rows, field, counted, read, details, firsts, account, restarts>>
    BY <1>6, <1>t DEF InsertDuplicate, CallFails, PointsTypeOK, Steps, Ended, DetailCalls
  <2>2. e \in Claims => step'[e] = "failed"
    BY <1>6, <1>t DEF InsertDuplicate, CallFails, PointsTypeOK, TaskOK, Events
  <2> QED
    BY <1>t, <2>1, <2>2, TasksElsewhere DEF PointsTypeOK, TaskOK, Events, DetailCalls
<1>7. CASE Restart
  <2>1. step' \in [Events -> Steps]
    BY <1>7, <1>t DEF Restart, PointsTypeOK, Steps, Ended
  <2>2. \A e \in Events : step'[e] = step[e] \/ (step[e] # "idle" /\ step'[e] = "cut")
    BY <1>7 DEF Restart, Ended
  <2>3. restarts' \in 0..MaxRestarts
    BY <1>7, <1>t DEF Restart, PointsTypeOK
  <2> QED
    BY <1>7, <1>t, <2>1, <2>2, <2>3, TasksElsewhere
    DEF Restart, PointsTypeOK, TaskOK, Events, DetailCalls
<1>8. CASE UNCHANGED pointsVars
  <2>1. PointsTypeOK' /\ \A e \in Events : Owner(e)' = Owner(e)
    BY <1>8, <1>t DEF pointsVars, PointsTypeOK, Owner
  <2>2. rows' = rows /\ step' = step /\ field' = field /\ read' = read /\ account' = account
    BY <1>8 DEF pointsVars
  <2>3. \A e \in Events :
          step'[e] = "write" /\ read'[e] # None => account'[Owner(e)'] # None
    BY <1>t, <2>1, <2>2 DEF TaskOK
  <2>4. TaskOK'
    BY <1>t, <2>2, <2>3 DEF TaskOK
  <2> QED
    BY <2>1, <2>4 DEF TasksInv
<1> QED
  BY <1>1, <1>2, <1>3, <1>4, <1>5, <1>6, <1>7, <1>8 DEF PointsNext, Task, Summary

\* Every variable keeps its type, and a task that writes to a document it
\* found still finds it: no step of the code deletes a summary.
THEOREM PointsTyped == PointsSpec => []PointsTypeOK
<1>1. TasksInv => PointsTypeOK
  BY DEF TasksInv
<1> QED
  BY <1>1, TasksInit, TasksStep, PTL DEF PointsSpec

-----------------------------------------------------------------------------
(* Nobody is overpaid                                                      *)

\* The swaps whose task has come to an end, and the claims whose task has
\* done with the upper: no later write counts for these.
SwapsDone(w) == {e \in SwapsOf(w) : step[e] \in Ended}
ClaimsDone(w) ==
  {e \in ClaimsOf(w) : step[e] \in Ended \/ field[e] = "claimNft"}

\* A document shows no more than those swaps and claims are worth.
Worth(w, doc) ==
  /\ doc["transaction"] <= SwapPoints(Cardinality(SwapsDone(w)))
  /\ doc["nftClaimed"] <= First["nftClaimed"] * Cardinality(ClaimsDone(w))
  /\ doc["claimNft"] \in {0, First["claimNft"]}
  /\ doc["claimNft"] > 0 => \E e \in rows \intersect Claims : Claimer[e] = w

\* That goes for the stored documents and for those about to be written back.
PaidInv ==
  /\ IsFiniteSet(rows)
  /\ \A w \in Holders : Worth(w, account[w])
  /\ \A e \in Events :
       step[e] = "write" /\ read[e] # None => Worth(Owner(e), read[e])

PointsInv == TasksInv /\ PaidInv

\* What swaps are worth does not fall with their number, and one more is
\* worth at least what a later swap earns.
LEMMA Worths ==
  /\ \A m, n \in Nat : m <= n => SwapPoints(m) <= SwapPoints(n)
  /\ \A n \in Nat : /\ SwapPoints(n) \in Nat
                    /\ SwapPoints(n) + Later <= SwapPoints(n + 1)
                    /\ First["transaction"] <= SwapPoints(n + 1)
BY DEF SwapPoints, First, Later

\* The sets of a wallet are finite.
LEMMA Finite ==
  ASSUME PointsInv, NEW w
  PROVE  /\ IsFiniteSet(SwapsDone(w)) /\ IsFiniteSet(ClaimsDone(w))
         /\ Cardinality(SwapsDone(w)) \in Nat /\ Cardinality(ClaimsDone(w)) \in Nat
<1>1. SwapsDone(w) \subseteq rows /\ ClaimsDone(w) \subseteq rows
  BY DEF SwapsDone, SwapsOf, ClaimsDone, ClaimsOf
<1>2. IsFiniteSet(rows)
  BY DEF PointsInv, PaidInv
<1>3. IsFiniteSet(SwapsDone(w)) /\ IsFiniteSet(ClaimsDone(w))
  BY <1>1, <1>2, FS_Subset
<1> QED
  BY <1>3, FS_CardinalityType

\* What was worth it stays worth it while rows are added and tasks go on.
LEMMA WorthStays ==
  ASSUME PointsInv, NEW w, NEW doc \in Account, Worth(w, doc),
         rows \subseteq rows', IsFiniteSet(rows'),
         \A e \in rows \intersect Swaps : step[e] \in Ended => step'[e] \in Ended,
         \A e \in rows \intersect Claims :
           step[e] \in Ended \/ field[e] = "claimNft" =>
             step'[e] \in Ended \/ field'[e] = "claimNft"
  PROVE  Worth(w, doc)'
<1>1. SwapsDone(w) \subseteq SwapsDone(w)' /\ ClaimsDone(w) \subseteq ClaimsDone(w)'
  BY DEF SwapsDone, SwapsOf, ClaimsDone, ClaimsOf
<1>2. SwapsDone(w)' \subseteq rows' /\ ClaimsDone(w)' \subseteq rows'
  BY DEF SwapsDone, SwapsOf, ClaimsDone, ClaimsOf
<1>3. /\ IsFiniteSet(SwapsDone(w)') /\ IsFiniteSet(ClaimsDone(w)')
  BY <1>2, FS_Subset
<1>4. /\ Cardinality(SwapsDone(w)) <= Cardinality(SwapsDone(w)')
      /\ Cardinality(ClaimsDone(w)) <= Cardinality(ClaimsDone(w)')
      /\ Cardinality(SwapsDone(w)) \in Nat /\ Cardinality(ClaimsDone(w)) \in Nat
      /\ Cardinality(SwapsDone(w)') \in Nat /\ Cardinality(ClaimsDone(w)') \in Nat
  BY <1>1, <1>3, FS_Subset, FS_CardinalityType, Finite
<1>5. SwapPoints(Cardinality(SwapsDone(w))) <= SwapPoints(Cardinality(SwapsDone(w)'))
  BY <1>4, Worths
<1>6. /\ doc["transaction"] \in Nat /\ doc["nftClaimed"] \in Nat
      /\ SwapPoints(Cardinality(SwapsDone(w))) \in Nat
      /\ SwapPoints(Cardinality(SwapsDone(w)')) \in Nat
  BY <1>4, Worths DEF Account, Fields
<1>7. doc["transaction"] <= SwapPoints(Cardinality(SwapsDone(w)'))
  BY <1>5, <1>6 DEF Worth
<1>8. doc["nftClaimed"] <= First["nftClaimed"] * Cardinality(ClaimsDone(w)')
  BY <1>4, <1>6 DEF Worth, First
<1> QED
  BY <1>7, <1>8 DEF Worth, SwapPoints

\* The tasks go on: what was done stays done.
GoOn ==
  /\ rows \subseteq rows' /\ IsFiniteSet(rows')
  /\ \A e \in rows \intersect Swaps : step[e] \in Ended => step'[e] \in Ended
  /\ \A e \in rows \intersect Claims :
       step[e] \in Ended \/ field[e] = "claimNft" =>
         step'[e] \in Ended \/ field'[e] = "claimNft"

\* A document left alone is worth it, and one read and not yet written back.
LEMMA HolderStays ==
  ASSUME PointsInv, GoOn, NEW w \in Holders', account'[w] = account[w]
  PROVE  Worth(w, account[w])'
<1>1. PICK doc \in Account : doc = account[w] /\ Worth(w, doc)
  BY DEF Holders, PointsInv, PaidInv, TasksInv, PointsTypeOK
<1>2. Worth(w, doc)'
  BY <1>1, WorthStays DEF GoOn
<1> QED
  BY <1>1, <1>2 DEF Worth

LEMMA ReadStays ==
  ASSUME PointsInv, GoOn, NEW e \in Events, step'[e] = "write", read'[e] # None,
         step[e] = "write", read'[e] = read[e], field'[e] = field[e]
  PROVE  Worth(Owner(e), read[e])'
<1>1. Owner(e)' = Owner(e)
  BY DEF Owner
<1>2. PICK doc \in Account, w \in {Owner(e)} : doc = read[e] /\ Worth(w, doc)
  BY DEF PointsInv, PaidInv, TasksInv, PointsTypeOK
<1>3. Worth(w, doc)'
  BY <1>2, WorthStays DEF GoOn
<1> QED
  BY <1>1, <1>2, <1>3 DEF Worth, SwapsDone, SwapsOf, ClaimsDone, ClaimsOf

\* Steps that read and write no document.
LEMMA PaidElsewhere ==
  ASSUME PointsInv, GoOn, account' = account,
         \A e \in Events : step'[e] = "write" =>
           step[e] = "write" /\ read'[e] = read[e] /\ field'[e] = field[e]
  PROVE  PaidInv'
  BY HolderStays, ReadStays DEF PaidInv, GoOn

\* A write counts for the wallet it is about: one more of its swaps, or of
\* the claims it is the upper of, is done.
LEMMA OneMore ==
  ASSUME PointsInv, GoOn, NEW e \in Events, step[e] = "write", NEW w, Owner(e) = w,
         step'[e] \in Ended \/ (field[e] = "nftClaimed" /\ field'[e] = "claimNft")
  PROVE  /\ field[e] = "transaction" =>
              Cardinality(SwapsDone(w)) + 1 <= Cardinality(SwapsDone(w)')
         /\ field[e] = "nftClaimed" =>
              Cardinality(ClaimsDone(w)) + 1 <= Cardinality(ClaimsDone(w)')
<1>1. /\ e \in rows
      /\ field[e] = "transaction" => e \in Swaps /\ w = Payer[e]
      /\ field[e] = "nftClaimed" => e \in Claims /\ w = Upper[e]
  BY Owners DEF PointsInv, TasksInv, TaskOK
<1>2. SwapsDone(w) \subseteq SwapsDone(w)' /\ ClaimsDone(w) \subseteq ClaimsDone(w)'
  BY DEF GoOn, SwapsDone, SwapsOf, ClaimsDone, ClaimsOf
<1>3. IsFiniteSet(SwapsDone(w)') /\ IsFiniteSet(ClaimsDone(w)')
  <2>1. SwapsDone(w)' \subseteq rows' /\ ClaimsDone(w)' \subseteq rows'
    BY DEF SwapsDone, SwapsOf, ClaimsDone, ClaimsOf
  <2> QED
    BY <2>1, FS_Subset DEF GoOn
<1>4. ASSUME NEW A, NEW B, IsFiniteSet(A), IsFiniteSet(B), A \subseteq B, e \notin A, e \in B
      PROVE  Cardinality(A) + 1 <= Cardinality(B)
  <2>1. IsFiniteSet(A \cup {e}) /\ Cardinality(A \cup {e}) = Cardinality(A) + 1
    BY <1>4, FS_AddElement
  <2>2. Cardinality(A \cup {e}) <= Cardinality(B)
    BY <1>4, FS_Subset
  <2> QED
    BY <2>1, <2>2
<1>5. ASSUME field[e] = "transaction"
      PROVE  Cardinality(SwapsDone(w)) + 1 <= Cardinality(SwapsDone(w)')
  <2>1. e \notin SwapsDone(w) /\ e \in SwapsDone(w)'
    BY <1>1, <1>5 DEF SwapsDone, SwapsOf, GoOn, Ended
  <2> QED
    BY <2>1, <1>2, <1>3, <1>4, Finite
<1>6. ASSUME field[e] = "nftClaimed"
      PROVE  Cardinality(ClaimsDone(w)) + 1 <= Cardinality(ClaimsDone(w)')
  <2>1. e \notin ClaimsDone(w) /\ e \in ClaimsDone(w)'
    BY <1>1, <1>6 DEF ClaimsDone, ClaimsOf, GoOn, Ended
  <2> QED
    BY <2>1, <1>2, <1>3, <1>4, Finite
<1> QED
  BY <1>5, <1>6

\* So what a write puts into the field of its wallet is covered, and the
\* other fields are by what was done before.
LEMMA WriteWorth ==
  ASSUME PointsInv, GoOn, NEW e \in Events, step[e] = "write", NEW w, Owner(e) = w,
         step'[e] \in Ended \/ (field[e] = "nftClaimed" /\ field'[e] = "claimNft"),
         NEW old \in Account, Worth(w, old), NEW doc \in Account, Worth(w, doc),
         NEW new \in Account,
         new[field[e]] = Updated(field[e], doc[field[e]]) \/ new[field[e]] = First[field[e]],
         \A g \in Fields : g # field[e] => new[g] = old[g]
  PROVE  Worth(w, new)'
<1>1. /\ Cardinality(SwapsDone(w)) \in Nat /\ Cardinality(ClaimsDone(w)) \in Nat
      /\ Cardinality(SwapsDone(w)') \in Nat /\ Cardinality(ClaimsDone(w)') \in Nat
  <2>1. SwapsDone(w)' \subseteq rows' /\ ClaimsDone(w)' \subseteq rows'
    BY DEF SwapsDone, SwapsOf, ClaimsDone, ClaimsOf
  <2>2. IsFiniteSet(SwapsDone(w)') /\ IsFiniteSet(ClaimsDone(w)')
    BY <2>1, FS_Subset DEF GoOn
  <2> QED
    BY <2>2, Finite, FS_CardinalityType
<1>2. Worth(w, old)' /\ Worth(w, doc)'
  BY WorthStays DEF GoOn
<1>3. /\ field[e] \in Fields
      /\ field[e] = "claimNft" => e \in rows \intersect Claims /\ Claimer[e] = w
  BY Owners DEF PointsInv, TasksInv, PointsTypeOK, TaskOK
<1>4. /\ new["transaction"] \in Nat /\ new["nftClaimed"] \in Nat
      /\ doc["transaction"] \in Nat /\ doc["nftClaimed"] \in Nat
  BY DEF Account, Fields
<1>5. CASE field[e] = "transaction"
  <2>1. PICK m \in Nat, n \in Nat :
          /\ m = Cardinality(SwapsDone(w)) /\ n = Cardinality(SwapsDone(w)')
          /\ m + 1 <= n
    BY <1>1, <1>5, OneMore
  <2>2. /\ SwapPoints(m) \in Nat /\ SwapPoints(m + 1) \in Nat /\ SwapPoints(n) \in Nat
        /\ SwapPoints(m) + Later <= SwapPoints(m + 1)
        /\ First["transaction"] <= SwapPoints(m + 1)
        /\ SwapPoints(m + 1) <= SwapPoints(n)
    BY <2>1, Worths
  <2>3. new["transaction"] <= SwapPoints(Cardinality(SwapsDone(w)'))
    <3>1. doc["transaction"] <= SwapPoints(m)
      BY <2>1 DEF Worth
    <3>2. new["transaction"] = doc["transaction"] + Later \/ new["transaction"] = First["transaction"]
      BY <1>5 DEF Updated
    <3>3. new["transaction"] <= SwapPoints(n)
      BY <1>4, <2>2, <3>1, <3>2 DEF Later, First
    <3> QED
      BY <2>1, <3>3
  <2>4. new["nftClaimed"] = old["nftClaimed"] /\ new["claimNft"] = old["claimNft"]
    BY <1>5 DEF Fields
  <2> QED
    BY <1>2, <2>3, <2>4 DEF Worth, SwapPoints
<1>6. CASE field[e] = "nftClaimed"
  <2>1. new["nftClaimed"] <= First["nftClaimed"] * (Cardinality(ClaimsDone(w)) + 1)
    BY <1>1, <1>4, <1>6 DEF Worth, Updated, First
  <2>2. Cardinality(ClaimsDone(w)) + 1 <= Cardinality(ClaimsDone(w)')
    BY <1>6, OneMore
  <2>3. new["nftClaimed"] <= First["nftClaimed"] * Cardinality(ClaimsDone(w)')
    BY <1>1, <1>4, <2>1, <2>2 DEF First
  <2>4. new["transaction"] = old["transaction"] /\ new["claimNft"] = old["claimNft"]
    BY <1>6 DEF Fields
  <2> QED
    BY <1>2, <2>3, <2>4 DEF Worth, SwapPoints
<1>7. CASE field[e] = "claimNft"
  <2>1. new["claimNft"] = First["claimNft"]
    BY <1>7 DEF Updated
  <2>2. e \in rows' \intersect Claims /\ Claimer[e] = w
    BY <1>3, <1>7 DEF GoOn
  <2>3. new["transaction"] = old["transaction"] /\ new["nftClaimed"] = old["nftClaimed"]
    BY <1>7 DEF Fields
  <2> QED
    BY <1>2, <2>1, <2>2, <2>3 DEF Worth, SwapPoints
<1> QED
  BY <1>3, <1>5, <1>6, <1>7 DEF Fields

LEMMA PaidStep == PointsInv /\ [PointsNext]_pointsVars => PaidInv'
<1> SUFFICES ASSUME PointsInv, [PointsNext]_pointsVars PROVE PaidInv'
  OBVIOUS
<1> USE PointsAssumption
<1>t. PointsTypeOK /\ TaskOK /\ PaidInv
  BY DEF PointsInv, TasksInv
<1>1. ASSUME NEW e \in Events, (e \in Swaps /\ WriteSwap(e)) \/ (e \in Claims /\ WriteClaim(e))
      PROVE  PaidInv'
  <2>1. /\ rows' = rows \cup {e} /\ e \notin rows
        /\ step'[e] \in {"findDetail", "find", "done"}
        /\ \A c \in Events : c # e => step'[c] = step[c]
        /\ UNCHANGED <<field, read, account>>
    BY <1>1, <1>t DEF WriteSwap, WriteClaim, PointsTypeOK
  <2>2. IsFiniteSet(rows')
    BY <1>t, <2>1, FS_AddElement DEF PaidInv
  <2>3. GoOn
    BY <1>t, <2>1, <2>2 DEF GoOn, Events
  <2> QED
    BY <1>t, <2>1, <2>3, PaidElsewhere DEF Events
<1>2. ASSUME NEW e \in Events, \/ FindDetail(e) \/ CountDetails(e) \/ InsertDetail(e)
                                \/ InsertDuplicate(e) \/ CallFails(e)
      PROVE  PaidInv'
  <2>1. /\ rows' = rows
        /\ step[e] \notin Ended /\ step'[e] # "write"
        /\ \A c \in Events : c # e => step'[c] = step[c]
        /\ UNCHANGED <<field, read, account>>
    BY <1>2, <1>t
    DEF FindDetail, CountDetails, InsertDetail, InsertDuplicate, CallFails, PointsTypeOK,
        Ended, DetailCalls
  <2>2. GoOn
    BY <1>t, <2>1 DEF GoOn, Events, PaidInv
  <2> QED
    BY <2>1, <2>2, PaidElsewhere
<1>3. CASE Restart
  <2>1. /\ rows' = rows
        /\ \A c \in Events : step'[c] = step[c] \/ step'[c] = "cut"
        /\ UNCHANGED <<field, read, account>>
    BY <1>3 DEF Restart
  <2>2. GoOn
    BY <1>t, <2>1 DEF GoOn, Events, PaidInv, Ended
  <2> QED
    BY <2>1, <2>2, PaidElsewhere DEF Ended
<1>4. CASE UNCHANGED pointsVars
  <2>1. GoOn
    BY <1>t, <1>4 DEF GoOn, PaidInv, pointsVars
  <2> QED
    BY <1>4, <2>1, PaidElsewhere DEF pointsVars
<1>5. ASSUME NEW e \in Events, Find(e) PROVE PaidInv'
  <2>1. /\ rows' = rows /\ step[e] = "find" /\ Owner(e) \in Wallets
        /\ read'[e] = account[Owner(e)] /\ step'[e] \in {"done", "write"}
        /\ \A c \in Events : c # e => step'[c] = step[c] /\ read'[c] = read[c]
        /\ UNCHANGED <<field, account>>
    BY <1>5, <1>t, Owners DEF Find, PointsTypeOK, PointsInv
  <2>2. GoOn
    BY <1>t, <2>1 DEF GoOn, Events, PaidInv, Ended
  <2>3. ASSUME read'[e] # None PROVE Worth(Owner(e), read[e])'
    <3>1. PICK w \in Holders' : w = Owner(e) /\ Owner(e)' = w
      BY <2>1, <2>3 DEF Holders, Owner
    <3>2. Worth(w, account[w])'
      BY <2>1, <2>2, HolderStays
    <3> QED
      BY <2>1, <3>1, <3>2 DEF Worth, SwapsDone, SwapsOf, ClaimsDone, ClaimsOf
  <2> QED
    BY <2>1, <2>2, <2>3, HolderStays, ReadStays DEF PaidInv, GoOn
<1>6. ASSUME NEW e \in Events, Insert(e) \/ Update(e) PROVE PaidInv'
  <2>1. /\ rows' = rows /\ read' = read /\ step[e] = "write" /\ Owner(e) \in Wallets
        /\ field[e] \in Fields
        /\ step'[e] \in Ended \/ (field[e] = "nftClaimed" /\ field'[e] = "claimNft")
        /\ step'[e] # "write"
        /\ \A c \in Events : c # e => step'[c] = step[c] /\ field'[c] = field[c]
        /\ field'[e] = field[e] \/ field'[e] = "claimNft"
    BY <1>6, <1>t, Owners DEF Insert, Update, Written, PointsTypeOK, PointsInv, Ended
  <2>2. GoOn
    BY <1>t, <2>1 DEF GoOn, Events, PaidInv, Ended
  <2>3. PICK w \in Wallets : w = Owner(e)
    BY <2>1
  <2>4. \E new \in Account : Worth(w, new)' /\ account' = [account EXCEPT ![w] = new]
    <3>1. CASE Insert(e)
      <4>1. PICK none \in Account : none = [g \in Fields |-> 0]
        BY DEF Account
      <4>2. Worth(w, none)
        BY <4>1, Finite, Worths DEF Worth, Fields, First
      <4>3. PICK new \in Account : new = NewAccount(field[e])
        BY <2>1, Documents
      <4>4. new[field[e]] = First[field[e]] /\ \A g \in Fields : g # field[e] => new[g] = none[g]
        BY <2>1, <4>1, <4>3 DEF NewAccount
      <4>5. Worth(w, new)'
        BY <2>1, <2>2, <2>3, <4>2, <4>4, WriteWorth
      <4> QED
        BY <3>1, <2>3, <4>3, <4>5 DEF Insert
    <3>2. CASE Update(e)
      <4>1. read[e] # None /\ w \in Holders
        BY <3>2, <1>t, <2>1, <2>3 DEF Update, TaskOK, Holders
      <4>2. PICK doc \in Account : doc = read[e] /\ Worth(w, doc)
        BY <1>t, <2>1, <2>3, <4>1 DEF PaidInv, PointsTypeOK
      <4>3. PICK old \in Account : old = account[w] /\ Worth(w, old)
        BY <1>t, <4>1 DEF PaidInv, PointsTypeOK, Holders
      <4>4. PICK new \in Account :
              /\ new[field[e]] = Updated(field[e], doc[field[e]])
              /\ \A g \in Fields : g # field[e] => new[g] = old[g]
              /\ Set(w, field[e], doc) = [account EXCEPT ![w] = new]
        <5> DEFINE upd == Changed(w, field[e], doc)
        <5>1. TasksInv /\ account[w] # None
          BY <4>1 DEF PointsInv, Holders
        <5>2. /\ upd \in Account
              /\ upd[field[e]] = Updated(field[e], doc[field[e]])
              /\ \A g \in Fields : g # field[e] => upd[g] = old[g]
              /\ Set(w, field[e], doc) = [account EXCEPT ![w] = upd]
          BY <2>1, <4>3, <5>1, Setting
        <5> HIDE DEF upd
        <5> QED
          BY <5>2
      <4>5. Worth(w, new)'
        BY <2>1, <2>2, <2>3, <4>2, <4>3, <4>4, WriteWorth
      <4> QED
        BY <3>2, <2>3, <4>2, <4>4, <4>5 DEF Update
    <3> QED
      BY <1>6, <3>1, <3>2
  <2>5. PICK new \in Account : Worth(w, new)' /\ account' = [account EXCEPT ![w] = new]
    BY <2>4
  <2>6. account'[w] = new /\ \A v \in Wallets : v # w => account'[v] = account[v]
    BY <1>t, <2>5 DEF PointsTypeOK
  <2>7. Worth(w, account[w])'
    BY <2>5, <2>6 DEF Worth
  <2>8. \A v \in Holders' : Worth(v, account[v])'
    BY <2>2, <2>6, <2>7, HolderStays DEF Holders
  <2> QED
    BY <2>1, <2>2, <2>8, ReadStays DEF PaidInv, GoOn
<1> QED
  BY <1>1, <1>2, <1>3, <1>4, <1>5, <1>6 DEF PointsNext, Task, Summary, Events

LEMMA PointsInvHolds == PointsSpec => []PointsInv
<1>1. PointsInit => PaidInv
  BY FS_EmptySet, PointsAssumption DEF PointsInit, PaidInv, Holders
<1>2. PointsInit => PointsInv
  BY <1>1, TasksInit DEF PointsInv
<1>3. PointsInv /\ [PointsNext]_pointsVars => PointsInv'
  BY TasksStep, PaidStep DEF PointsInv
<1> QED
  BY <1>2, <1>3, PTL DEF PointsSpec

\* For any number of wallets, swaps and claims, and however their tasks
\* interleave, fail or are cut off, no wallet shows more points than its
\* stored events are worth, though every sum is computed from a document
\* read before (repository.rs:93, 100).
THEOREM NobodyOverpaid == PointsSpec => []NeverOverpaid
<1>1. PointsInv => NeverOverpaid
  <2> SUFFICES ASSUME PointsInv, NEW w \in Holders
               PROVE  /\ account[w]["transaction"] <= SwapPoints(Cardinality(SwapsOf(w)))
                      /\ account[w]["nftClaimed"] <= First["nftClaimed"] * Cardinality(ClaimsOf(w))
                      /\ account[w]["claimNft"] <= First["claimNft"]
                      /\ account[w]["claimNft"] > 0 =>
                           \E e \in rows \intersect Claims : Claimer[e] = w
    BY DEF NeverOverpaid
  <2>1. Worth(w, account[w]) /\ account[w] \in Account
    BY DEF PointsInv, PaidInv, TasksInv, PointsTypeOK, Holders
  <2>2. IsFiniteSet(SwapsOf(w)) /\ IsFiniteSet(ClaimsOf(w))
    <3>1. SwapsOf(w) \subseteq rows /\ ClaimsOf(w) \subseteq rows
      BY DEF SwapsOf, ClaimsOf
    <3> QED
      BY <3>1, FS_Subset DEF PointsInv, PaidInv
  <2>3. PICK i \in Nat, m \in Nat, j \in Nat, n \in Nat :
          /\ i = Cardinality(SwapsDone(w)) /\ m = Cardinality(SwapsOf(w)) /\ i <= m
          /\ j = Cardinality(ClaimsDone(w)) /\ n = Cardinality(ClaimsOf(w)) /\ j <= n
    <3>1. SwapsDone(w) \subseteq SwapsOf(w) /\ ClaimsDone(w) \subseteq ClaimsOf(w)
      BY DEF SwapsDone, ClaimsDone
    <3> QED
      BY <2>2, <3>1, FS_Subset, FS_CardinalityType, Finite
  <2>4. SwapPoints(i) <= SwapPoints(m) /\ SwapPoints(i) \in Nat /\ SwapPoints(m) \in Nat
    BY <2>3, Worths
  <2>5. account[w]["transaction"] \in Nat /\ account[w]["nftClaimed"] \in Nat
    BY <2>1 DEF Account, Fields
  <2>6. account[w]["transaction"] <= SwapPoints(m)
    BY <2>1, <2>3, <2>4, <2>5 DEF Worth
  <2>7. account[w]["nftClaimed"] <= First["nftClaimed"] * n
    BY <2>1, <2>3, <2>5 DEF Worth, First
  <2> QED
    BY <2>1, <2>3, <2>6, <2>7 DEF Worth, First
<1> QED
  BY <1>1, PointsInvHolds, PTL

-----------------------------------------------------------------------------
(* A finished claim has rewarded both sides                                *)

\* A task that is done with the upper has rewarded it, and one that is done
\* with both the claimer too.
Rewarded(w, f) == account[w] # None /\ account[w][f] >= First[f]

ClaimInv ==
  \A e \in Claims : Upper[e] # None =>
    /\ field[e] = "claimNft" => Rewarded(Upper[e], "nftClaimed")
    /\ step[e] = "done" => field[e] = "claimNft" /\ Rewarded(Claimer[e], "claimNft")

\* Rewards stay: a document's field is never set below what the first event
\* of its kind is worth, but for the swaps', and documents are not removed.
LEMMA RewardStays ==
  ASSUME PointsInv, [PointsNext]_pointsVars, NEW w \in Wallets, NEW f \in {"nftClaimed", "claimNft"},
         Rewarded(w, f)
  PROVE  Rewarded(w, f)'
<1>1. ASSUME NEW e \in Events, Insert(e) \/ Update(e) PROVE Rewarded(w, f)'
  <2>1. step[e] = "write" /\ Owner(e) \in Wallets /\ field[e] \in Fields
    BY <1>1, Owners DEF Insert, Update, PointsInv, TasksInv, PointsTypeOK
  <2>2. account \in [Wallets -> Account \union {None}]
    BY DEF PointsInv, TasksInv, PointsTypeOK
  <2>3. CASE Owner(e) # w \/ Insert(e)
    BY <1>1, <2>1, <2>2, <2>3 DEF Insert, Update, Set, Rewarded
  <2>4. CASE Owner(e) = w /\ Update(e)
    <3>1. PICK doc \in Account : doc = read[e]
      BY <2>4 DEF Update, PointsInv, TasksInv, PointsTypeOK
    <3> DEFINE upd == Changed(w, field[e], doc)
    <3>2. /\ upd \in Account /\ upd # None /\ upd[field[e]] = Updated(field[e], doc[field[e]])
          /\ \A g \in Fields : g # field[e] => upd[g] = account[w][g]
          /\ Set(w, field[e], doc) = [account EXCEPT ![w] = upd]
      <4>1. TasksInv /\ account[w] # None
        BY DEF Rewarded, PointsInv
      <4> QED
        BY <2>1, <4>1, Setting
    <3>3. account' = [account EXCEPT ![w] = upd] /\ account'[w] = upd
      BY <2>2, <2>4, <3>1, <3>2 DEF Update
    <3>4. f = field[e] => upd[f] >= First[f]
      BY <3>2 DEF Updated, First, Account, Fields
    <3>5. f # field[e] => upd[f] = account[w][f]
      BY <3>2 DEF Fields
    <3> QED
      BY <3>2, <3>3, <3>4, <3>5 DEF Rewarded
  <2> QED
    BY <1>1, <2>3, <2>4
<1>2. ASSUME account' = account PROVE Rewarded(w, f)'
  BY <1>2 DEF Rewarded
<1> QED
  BY <1>1, <1>2
  DEF PointsNext, Task, Summary, Find, InsertDuplicate, FindDetail, CountDetails, InsertDetail,
      CallFails, Restart, WriteSwap, WriteClaim, pointsVars

LEMMA ClaimStep == PointsInv /\ ClaimInv /\ [PointsNext]_pointsVars => ClaimInv'
<1> SUFFICES ASSUME PointsInv, ClaimInv, [PointsNext]_pointsVars, NEW c \in Claims, Upper[c] # None
             PROVE  /\ field'[c] = "claimNft" => Rewarded(Upper[c], "nftClaimed")'
                    /\ step'[c] = "done" =>
                         field'[c] = "claimNft" /\ Rewarded(Claimer[c], "claimNft")'
  BY DEF ClaimInv
<1> USE PointsAssumption
<1>t. PointsTypeOK /\ TaskOK
  BY DEF PointsInv, TasksInv
<1>w. Upper[c] \in Wallets /\ Claimer[c] \in Wallets /\ c \in Events /\ c \notin Swaps
  BY DEF Events
<1>c. /\ field[c] = "claimNft" => Rewarded(Upper[c], "nftClaimed")'
      /\ step[c] = "done" => field[c] = "claimNft" /\ Rewarded(Claimer[c], "claimNft")'
  BY <1>w, RewardStays DEF ClaimInv
<1>1. CASE field'[c] = field[c] /\ (step'[c] = "done" => step[c] = "done")
  BY <1>1, <1>c
<1>2. CASE Find(c)
  <2>1. /\ field' = field /\ account' = account
        /\ step'[c] = "done" => /\ field[c] = "claimNft" /\ account[Owner(c)] # None
                                /\ account[Owner(c)]["claimNft"] > 0
    BY <1>2, <1>t, <1>w DEF Find, AlreadyClaimed, PointsTypeOK
  <2>2. step'[c] = "done" => Rewarded(Claimer[c], "claimNft")
    <3>1. SUFFICES ASSUME step'[c] = "done" PROVE Rewarded(Claimer[c], "claimNft")
      OBVIOUS
    <3>2. Owner(c) = Claimer[c]
      BY <1>2, <1>w, <2>1, <3>1, Owners DEF Find, PointsInv
    <3>3. Claimer[c] \in Holders /\ account[Claimer[c]]["claimNft"] > 0
      BY <1>w, <2>1, <3>1, <3>2 DEF Holders
    <3>4. account[Claimer[c]]["claimNft"] \in {0, First["claimNft"]}
      BY <3>3 DEF PointsInv, PaidInv, Worth
    <3> QED
      BY <3>3, <3>4 DEF Rewarded, Holders, First
  <2> QED
    BY <1>c, <2>1, <2>2 DEF Rewarded
<1>3. CASE Insert(c) \/ Update(c)
  <2>1. /\ step[c] = "write" /\ field[c] \in {"nftClaimed", "claimNft"}
        /\ Owner(c) \in Wallets /\ field[c] \in Fields
        /\ field[c] = "nftClaimed" => Owner(c) = Upper[c]
        /\ field[c] = "claimNft" => Owner(c) = Claimer[c]
    BY <1>3, <1>t, <1>w, Owners DEF Insert, Update, PointsInv, TaskOK, PointsTypeOK
  <2>2. PICK w \in Wallets, f \in {"nftClaimed", "claimNft"} : w = Owner(c) /\ f = field[c]
    BY <2>1
  <2>3. Rewarded(w, f)'
    <3>1. account \in [Wallets -> Account \union {None}]
      BY <1>t DEF PointsTypeOK
    <3>2. CASE Insert(c)
      <4>1. account' = [account EXCEPT ![w] = NewAccount(f)] /\ NewAccount(f) # None
        BY <3>2, <2>2, Documents DEF Insert, Fields
      <4>2. NewAccount(f)[f] = First[f] /\ First[f] \in Nat
        BY DEF NewAccount, First, Fields
      <4> QED
        BY <3>1, <4>1, <4>2 DEF Rewarded
    <3>3. CASE Update(c)
      <4>1. PICK doc \in Account : doc = read[c] /\ account[w] # None
        BY <3>3, <1>t, <1>w, <2>1, <2>2 DEF Update, PointsTypeOK, TaskOK
      <4> DEFINE upd == Changed(w, f, doc)
      <4>2. /\ upd \in Account /\ upd # None /\ upd[f] = Updated(f, doc[f])
            /\ Set(w, f, doc) = [account EXCEPT ![w] = upd]
        BY <4>1, Setting DEF PointsInv, Fields
      <4>3. account'[w] = upd
        BY <3>1, <3>3, <2>2, <4>1, <4>2 DEF Update
      <4>4. upd[f] >= First[f]
        BY <4>2 DEF Updated, First, Account, Fields
      <4> QED
        BY <4>2, <4>3, <4>4 DEF Rewarded
    <3> QED
      BY <1>3, <3>2, <3>3
  <2>4. Written(c)
    BY <1>3 DEF Insert, Update
  <2>5. \/ /\ field[c] = "nftClaimed" /\ field'[c] = "claimNft" /\ step'[c] = "find"
        \/ /\ field'[c] = field[c]
           /\ step'[c] = "done" => field[c] # "nftClaimed"
    BY <1>t, <1>w, <2>1, <2>4 DEF Written, PointsTypeOK
  <2> QED
    BY <1>c, <2>1, <2>2, <2>3, <2>5
<1>4. (field'[c] = field[c] /\ (step'[c] = "done" => step[c] = "done"))
        \/ Find(c) \/ Insert(c) \/ Update(c)
  <2>1. ASSUME NEW e \in Events, e # c, Task(e) \/ CallFails(e)
        PROVE  field'[c] = field[c] /\ step'[c] = step[c]
    <3>1. CASE Find(e) \/ InsertDuplicate(e) \/ CallFails(e)
      BY <2>1, <3>1, <1>t, <1>w DEF Find, InsertDuplicate, CallFails, PointsTypeOK
    <3>2. CASE FindDetail(e) \/ CountDetails(e) \/ InsertDetail(e)
      BY <2>1, <3>2, <1>t, <1>w DEF FindDetail, CountDetails, InsertDetail, PointsTypeOK
    <3>3. CASE Insert(e) \/ Update(e)
      <4>1. Written(e)
        BY <3>3 DEF Insert, Update
      <4> QED
        BY <2>1, <4>1, <1>t, <1>w DEF Written, PointsTypeOK
    <3> QED
      BY <2>1, <3>1, <3>2, <3>3 DEF Task, Summary
  <2>2. ASSUME InsertDuplicate(c) \/ CallFails(c)
        PROVE  field'[c] = field[c] /\ step'[c] # "done"
    BY <2>2, <1>t, <1>w DEF InsertDuplicate, CallFails, PointsTypeOK
  <2>3. ASSUME NEW e \in Swaps, WriteSwap(e)
        PROVE  field'[c] = field[c] /\ step'[c] = step[c]
    BY <2>3, <1>t, <1>w DEF WriteSwap, PointsTypeOK
  <2>4. ASSUME NEW e \in Claims, WriteClaim(e)
        PROVE  field'[c] = field[c] /\ (step'[c] = "done" => step[c] = "done")
    BY <2>4, <1>t, <1>w DEF WriteClaim, PointsTypeOK, Events
  <2>5. ASSUME Restart \/ UNCHANGED pointsVars
        PROVE  field'[c] = field[c] /\ (step'[c] = "done" => step[c] = "done")
    BY <2>5, <1>t, <1>w DEF Restart, pointsVars, PointsTypeOK, Ended
  <2> QED
    BY <1>w, <2>1, <2>2, <2>3, <2>4, <2>5 DEF PointsNext, Task, Summary
<1> QED
  BY <1>1, <1>2, <1>3, <1>4

\* A claim task that came to its end has rewarded the referrer and the
\* claimer, whatever other tasks of these wallets wrote meanwhile.
THEOREM ClaimsRewarded == PointsSpec => []ClaimRewarded
<1>1. PointsInit => ClaimInv
  BY PointsAssumption DEF PointsInit, ClaimInv, Events
<1>2. PointsInv /\ ClaimInv => ClaimRewarded
  <2> SUFFICES ASSUME PointsInv, ClaimInv, NEW e \in Claims, step[e] = "done", Upper[e] # None
               PROVE  /\ {Upper[e], Claimer[e]} \subseteq Holders
                      /\ account[Upper[e]]["nftClaimed"] >= First["nftClaimed"]
                      /\ account[Claimer[e]]["claimNft"] = First["claimNft"]
    BY DEF ClaimRewarded
  <2>1. Rewarded(Upper[e], "nftClaimed") /\ Rewarded(Claimer[e], "claimNft")
    BY DEF ClaimInv
  <2>2. Upper[e] \in Holders /\ Claimer[e] \in Holders
    BY <2>1, PointsAssumption DEF Rewarded, Holders
  <2>3. account[Claimer[e]]["claimNft"] \in {0, First["claimNft"]}
    BY <2>2 DEF PointsInv, PaidInv, Worth
  <2> QED
    BY <2>1, <2>2, <2>3 DEF Rewarded, First
<1> QED
  BY <1>1, <1>2, PointsInvHolds, ClaimStep, PTL DEF PointsSpec

-----------------------------------------------------------------------------
(* A first transaction                                                     *)

\* A task that counted transactions of its payer finds them when it inserts.
FirstInv ==
  /\ SomeFirst
  /\ \A e \in Swaps :
       step[e] = "insertDetail" /\ ~counted[e] => \E f \in details : Payer[f] = Payer[e]

\* A wallet with transaction details has one that is its first transaction,
\* although the count and the insert are separate calls: there may be two,
\* never none.
THEOREM FirstIsMarked == PointsSpec => []SomeFirst
<1> USE PointsAssumption
<1>1. PointsInit => FirstInv
  BY DEF PointsInit, FirstInv, SomeFirst, Events
<1>2. TasksInv /\ FirstInv /\ [PointsNext]_pointsVars => FirstInv'
  <2> SUFFICES ASSUME TasksInv, FirstInv, [PointsNext]_pointsVars PROVE FirstInv'
    OBVIOUS
  <2>t. PointsTypeOK
    BY DEF TasksInv
  <2>1. ASSUME details' = details, firsts' = firsts,
               \A e \in Swaps : step'[e] = "insertDetail" =>
                 step[e] = "insertDetail" /\ counted'[e] = counted[e]
        PROVE  FirstInv'
    BY <2>1 DEF FirstInv, SomeFirst
  <2>2. ASSUME NEW e \in Swaps, CountDetails(e) PROVE FirstInv'
    <3>1. /\ details' = details /\ firsts' = firsts
          /\ counted'[e] = (DetailsOf(Payer[e]) = {})
          /\ \A c \in Swaps : c # e => step'[c] = step[c] /\ counted'[c] = counted[c]
      BY <2>2, <2>t DEF CountDetails, PointsTypeOK, Events
    <3>2. ~counted'[e] => \E f \in details : Payer[f] = Payer[e]
      BY <3>1 DEF DetailsOf
    <3> QED
      BY <3>1, <3>2 DEF FirstInv, SomeFirst
  <2>3. ASSUME NEW e \in Swaps, InsertDetail(e) PROVE FirstInv'
    <3>1. /\ step[e] = "insertDetail" /\ details' = details \cup {e}
          /\ firsts' = IF counted[e] THEN firsts \cup {e} ELSE firsts
          /\ \A c \in Swaps : step'[c] = "insertDetail" => step[c] = "insertDetail"
          /\ counted' = counted
      BY <2>3, <2>t DEF InsertDetail, PointsTypeOK, Events
    <3> QED
      BY <3>1 DEF FirstInv, SomeFirst
  <2>4. ASSUME NEW e \in Events,
               FindDetail(e) \/ Summary(e) \/ CallFails(e)
        PROVE  FirstInv'
    <3>1. step'[e] # "insertDetail" /\ \A c \in Events : c # e => step'[c] = step[c]
      BY <2>4, <2>t
      DEF FindDetail, Summary, Find, Insert, InsertDuplicate, Update, Written, CallFails,
          PointsTypeOK, DetailCalls
    <3>2. details' = details /\ firsts' = firsts /\ counted' = counted
      BY <2>4 DEF FindDetail, Summary, Find, Insert, InsertDuplicate, Update, CallFails
    <3> QED
      BY <2>1, <2>t, <3>1, <3>2 DEF PointsTypeOK, Events
  <2>5. CASE Restart \/ UNCHANGED pointsVars
    BY <2>1, <2>5, <2>t DEF Restart, pointsVars, PointsTypeOK, Events
  <2>6. ASSUME NEW e \in Events, (e \in Swaps /\ WriteSwap(e)) \/ (e \in Claims /\ WriteClaim(e))
        PROVE  FirstInv'
    BY <2>1, <2>6, <2>t DEF WriteSwap, WriteClaim, PointsTypeOK, Events
  <2> QED
    BY <2>2, <2>3, <2>4, <2>5, <2>6 DEF PointsNext, Task, Events
<1>3. FirstInv => SomeFirst
  BY DEF FirstInv
<1> QED
  BY <1>1, <1>2, <1>3, TasksInit, TasksStep, PTL DEF PointsSpec

-----------------------------------------------------------------------------
(* Summaries and details                                                   *)

\* Details of which one is a first transaction add up to what that many
\* swaps are worth, or more.
LEMMA DetailsWorth ==
  ASSUME PointsInv, SomeFirst, NEW w \in Wallets
  PROVE  /\ IsFiniteSet(DetailsOf(w)) /\ DetailPoints(w) \in Int
         /\ SwapPoints(Cardinality(DetailsOf(w))) <= DetailPoints(w)
<1> DEFINE D == DetailsOf(w)
           f == [e \in Swaps |-> IF e \in firsts THEN First["transaction"] ELSE Later]
           n == Cardinality(D)
<1>1. D \subseteq details /\ details \subseteq rows \intersect Swaps /\ IsFiniteSet(rows)
  BY DEF DetailsOf, PointsInv, PaidInv, TasksInv, PointsTypeOK
<1>2. IsFiniteSet(D) /\ n \in Nat
  BY <1>1, FS_Subset, FS_CardinalityType
<1>3. /\ \A e \in D : f[e] \in Nat /\ f[e] >= 10
      /\ \A e \in D \intersect firsts : f[e] = 200
  BY <1>1 DEF First, Later
<1>4. DetailPoints(w) = SumFunctionOnSet(f, D)
  BY DEF DetailPoints
<1>5. SwapPoints(n) = IF n = 0 THEN 0 ELSE 200 + 10 * (n - 1)
  BY DEF SwapPoints, First, Later
<1>6. \A e \in D : \E g \in D : g \in firsts
  BY <1>1 DEF SomeFirst, DetailsOf, PointsInv, TasksInv, PointsTypeOK
<1> HIDE DEF D, f
<1>7. SumFunctionOnSet(f, D) \in Nat
  BY <1>2, <1>3, SumNatural
<1>8. CASE D = {}
  <2>1. n = 0
    BY <1>8, FS_EmptySet
  <2> QED
    BY <1>2, <1>4, <1>5, <1>7, <2>1 DEF D
<1>9. CASE D # {}
  <2>1. PICK g \in D : g \in firsts
    BY <1>6, <1>9
  <2> DEFINE U == D \ {g}
             m == Cardinality(U)
  <2>2. IsFiniteSet(U) /\ m = n - 1 /\ m \in Nat
    BY <1>2, <2>1, FS_RemoveElement, FS_CardinalityType
  <2>3. SumFunctionOnSet(f, D) = f[g] + SumFunctionOnSet(f, U)
    BY <1>2, <1>3, <2>1, SumRemove
  <2>4. \A e \in U : f[e] \in Int /\ f[e] >= 10
    BY <1>3
  <2>5. SumFunctionOnSet(f, U) >= 10 * m /\ SumFunctionOnSet(f, U) \in Int
    BY <2>2, <2>4, SumAbove, SumType
  <2>6. f[g] = 200
    BY <1>3, <2>1
  <2> HIDE DEF U, m
  <2>7. SumFunctionOnSet(f, D) >= 200 + 10 * m
    BY <2>2, <2>3, <2>5, <2>6
  <2>8. SwapPoints(n) = 200 + 10 * m
    BY <1>2, <1>5, <2>2
  <2> QED
    BY <1>2, <1>4, <1>7, <2>7, <2>8 DEF D
<1> QED
  BY <1>8, <1>9

\* While every task of a wallet that went on to the summary has left its
\* detail, the summary shows no more than the details add up to: only tasks
\* that are through count for the summary, and each has its detail.
THEOREM SummariesBacked == PointsSpec => []SummaryBackedByDetails
<1>1. PointsInv /\ SomeFirst => SummaryBackedByDetails
  <2> SUFFICES ASSUME PointsInv, SomeFirst, NEW w \in Holders,
                      \A e \in SwapsOf(w) : e \in details \/ BeforeSummary(e)
               PROVE  account[w]["transaction"] <= DetailPoints(w)
    BY DEF SummaryBackedByDetails
  <2>1. w \in Wallets /\ account[w]["transaction"] \in Nat
    BY DEF Holders, PointsInv, TasksInv, PointsTypeOK, Account, Fields
  <2>2. SwapsDone(w) \subseteq DetailsOf(w)
    BY DEF SwapsDone, SwapsOf, DetailsOf, BeforeSummary, Ended, DetailCalls
  <2>3. account[w]["transaction"] <= SwapPoints(Cardinality(SwapsDone(w)))
    BY DEF PointsInv, PaidInv, Worth
  <2>4. /\ IsFiniteSet(DetailsOf(w)) /\ DetailPoints(w) \in Int
        /\ SwapPoints(Cardinality(DetailsOf(w))) <= DetailPoints(w)
    BY <2>1, DetailsWorth
  <2>5. /\ Cardinality(SwapsDone(w)) \in Nat /\ Cardinality(DetailsOf(w)) \in Nat
        /\ Cardinality(SwapsDone(w)) <= Cardinality(DetailsOf(w))
    BY <2>2, <2>4, Finite, FS_Subset, FS_CardinalityType
  <2>6. /\ SwapPoints(Cardinality(SwapsDone(w))) <= SwapPoints(Cardinality(DetailsOf(w)))
        /\ SwapPoints(Cardinality(SwapsDone(w))) \in Nat
        /\ SwapPoints(Cardinality(DetailsOf(w))) \in Nat
    BY <2>5, Worths
  <2> QED
    BY <2>1, <2>3, <2>4, <2>6
<1> QED
  BY <1>1, PointsInvHolds, FirstIsMarked, PTL
=============================================================================
