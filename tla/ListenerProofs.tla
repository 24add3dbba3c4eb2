---------------------------- MODULE ListenerProofs ----------------------------
(***************************************************************************)
(* Proofs about the two ways events come into the listener.                *)
(*                                                                         *)
(* The intake of live transactions, for any signatures, announcements,     *)
(* sizes of the ring and of the cache: a transaction's events go to the    *)
(* writer once per stay of its signature in the cache, and the cache hides *)
(* none that no task has taken.                                            *)
(*                                                                         *)
(* The backfill service, for any chain, any loops, any limit of a request, *)
(* any number of failing calls and of crashes: a checkpoint moves forward  *)
(* only, and passes no event of its type that is not in the database, on   *)
(* its way there, or given up in one of three named ways.                  *)
(***************************************************************************)
EXTENDS SubscriptionManager, Backfill, FiniteSetTheorems, SequenceTheorems,
        WellFoundedInduction, TLAPS

-----------------------------------------------------------------------------
(* The intake of live transactions                                         *)

Phases == {"none", "parse", "submit", "end"}

\* The tasks go with the log, only accepted transactions get to the writer,
\* and a signature about to be remembered is not in the cache: since it was
\* looked up, the cache can only have lost entries.
IntakeInv ==
  /\ TypeOK
  /\ task \in Seq(Phases) /\ Len(task) = Len(log)
  /\ \A i \in 1..Len(log) : task[i] = "submit" => log[i] \in Accepted
  /\ loop = "mark" => next <= Len(log) /\ log[next] \notin Range(cache)

\* What SMT knows of the two helpers on sequences.
LEMMA Membership ==
  ASSUME NEW T, NEW c \in Seq(T), NEW s
  PROVE  /\ Contains(c, s) <=> s \in Range(c)
         /\ Range(c) \subseteq T
         /\ IsInjective(c) <=> \A i, j \in 1..Len(c) : c[i] = c[j] => i = j
  BY DEF Contains, Range, IsInjective

\* One more entry at the end.
LEMMA Appended ==
  ASSUME NEW T, NEW c \in Seq(T), NEW s \in T
  PROVE  /\ Append(c, s) \in Seq(T) /\ Len(Append(c, s)) = Len(c) + 1
         /\ \A i \in 1..Len(c) : Append(c, s)[i] = c[i]
         /\ Append(c, s)[Len(c) + 1] = s
         /\ Range(Append(c, s)) = Range(c) \union {s}
         /\ IsInjective(c) /\ s \notin Range(c) => IsInjective(Append(c, s))
<1> DEFINE d == Append(c, s)
<1>1. /\ d \in Seq(T) /\ Len(d) = Len(c) + 1
      /\ \A i \in 1..Len(c) : d[i] = c[i]
      /\ d[Len(c) + 1] = s
  BY AppendProperties
<1> HIDE DEF d
<1>2. DOMAIN d = 1..(Len(c) + 1) /\ DOMAIN c = 1..Len(c)
  BY <1>1
<1>3. Range(d) = Range(c) \union {s}
  BY <1>1, <1>2 DEF Range
<1>4. IsInjective(c) /\ s \notin Range(c) => IsInjective(d)
  BY <1>1, <1>2 DEF Range, IsInjective
<1> QED
  BY <1>1, <1>3, <1>4 DEF d

\* The first entries go: of a cache without repetitions each entry is either
\* among those that go or among those that stay.
LEMMA Split ==
  ASSUME NEW T, NEW c \in Seq(T), NEW n \in 0..Len(c)
  PROVE  LET front == SubSeq(c, 1, n)
             back  == SubSeq(c, n + 1, Len(c))
         IN  /\ front \in Seq(T) /\ back \in Seq(T)
             /\ Range(front) \union Range(back) = Range(c)
             /\ IsInjective(c) => IsInjective(back) /\ Range(front) \cap Range(back) = {}
<1> DEFINE front == SubSeq(c, 1, n)
           back  == SubSeq(c, n + 1, Len(c))
<1>1. /\ front \in Seq(T) /\ Len(front) = n
      /\ \A i \in 1..n : front[i] = c[i]
  BY SubSeqProperties
<1>2. /\ back \in Seq(T) /\ Len(back) = Len(c) - n
      /\ \A i \in 1..(Len(c) - n) : back[i] = c[n + i]
  <2>1. n + 1 \in 1..(Len(c) + 1) /\ Len(c) \in n..Len(c)
    OBVIOUS
  <2> QED
    BY <2>1, SubSeqProperties
<1> HIDE DEF front, back
<1>3. DOMAIN front = 1..n /\ DOMAIN back = 1..(Len(c) - n) /\ DOMAIN c = 1..Len(c)
  BY <1>1, <1>2
<1>4. Range(front) \union Range(back) = Range(c)
  <2>1. ASSUME NEW i \in 1..Len(c) PROVE c[i] \in Range(front) \union Range(back)
    <3>1. CASE i <= n
      BY <1>1, <1>3, <3>1 DEF Range
    <3>2. CASE i > n
      <4>1. i - n \in 1..(Len(c) - n) /\ back[i - n] = c[i]
        BY <1>2, <3>2
      <4> QED
        BY <1>3, <4>1 DEF Range
    <3> QED
      BY <3>1, <3>2
  <2>2. ASSUME NEW i \in 1..n PROVE front[i] \in Range(c)
    BY <1>1, <1>3 DEF Range
  <2>3. ASSUME NEW i \in 1..(Len(c) - n) PROVE back[i] \in Range(c)
    <3>1. n + i \in 1..Len(c) /\ back[i] = c[n + i]
      BY <1>2
    <3> QED
      BY <1>3, <3>1 DEF Range
  <2>4. /\ Range(front) = {front[i] : i \in 1..n}
        /\ Range(back) = {back[i] : i \in 1..(Len(c) - n)}
        /\ Range(c) = {c[i] : i \in 1..Len(c)}
    BY <1>3 DEF Range
  <2> QED
    BY <2>1, <2>2, <2>3, <2>4
<1>5. ASSUME IsInjective(c)
      PROVE  IsInjective(back) /\ Range(front) \cap Range(back) = {}
  <2>1. \A i, j \in 1..Len(c) : c[i] = c[j] => i = j
    BY <1>3, <1>5 DEF IsInjective
  <2>2. ASSUME NEW i \in 1..(Len(c) - n), NEW j \in 1..(Len(c) - n), back[i] = back[j]
        PROVE  i = j
    <3>1. n + i \in 1..Len(c) /\ n + j \in 1..Len(c) /\ c[n + i] = c[n + j]
      BY <1>2, <2>2
    <3>2. n + i = n + j
      BY <2>1, <3>1
    <3> QED
      BY <3>2
  <2>3. ASSUME NEW i \in 1..n, NEW j \in 1..(Len(c) - n) PROVE front[i] # back[j]
    <3>1. i \in 1..Len(c) /\ n + j \in 1..Len(c) /\ n + j # i
      OBVIOUS
    <3> QED
      BY <1>1, <1>2, <2>1, <3>1
  <2> QED
    BY <1>3, <2>2, <2>3 DEF IsInjective, Range
<1> QED
  BY <1>1, <1>2, <1>4, <1>5 DEF front, back

-----------------------------------------------------------------------------
(* Types                                                                   *)

LEMMA IntakeInvInit == Init => IntakeInv
<1> USE SubscriptionAssumption
<1> SUFFICES ASSUME Init PROVE IntakeInv
  OBVIOUS
<1>1. log \in Seq(Signatures) /\ cache \in Seq(Signatures) /\ task \in Seq(Phases)
      /\ Len(log) = 0 /\ Len(task) = 0 /\ Len(cache) = 0
  BY EmptySeq DEF Init
<1>2. DOMAIN log = {} /\ DOMAIN cache = {} /\ DOMAIN task = {}
  BY <1>1
<1>3. task \in [DOMAIN log -> Phases] /\ IsInjective(cache)
  BY <1>1, <1>2 DEF IsInjective
<1>4. /\ announced \in [Signatures -> Nat]
      /\ \A s \in Signatures : announced[s] <= Copies[s]
  BY DEF Init
<1>5. TypeOK
  <2>1. next \in 1..(Len(log) + 1) /\ missed \subseteq DOMAIN log
    BY <1>1 DEF Init
  <2>2. /\ evictions \in [Signatures -> Nat] /\ submitted \in [Signatures -> Nat]
        /\ guarded \subseteq Range(Shard) /\ refused \subseteq Accepted
        /\ running \in BOOLEAN /\ writing \in BOOLEAN /\ connected \in BOOLEAN
        /\ loop \in {"off", "check", "recv", "mark", "done"}
    BY DEF Init
  <2> QED
    BY <1>1, <1>3, <1>4, <2>1, <2>2 DEF TypeOK, Phases
<1> QED
  BY <1>1, <1>5 DEF Init, IntakeInv

LEMMA IntakeInvStep == IntakeInv /\ [Next]_vars => IntakeInv'
<1> SUFFICES ASSUME IntakeInv, [Next]_vars PROVE IntakeInv'
  OBVIOUS
<1> USE SubscriptionAssumption DEF intake, reading, caching, outcome
<1>t. TypeOK
  BY DEF IntakeInv
<1>1. CASE Connect \/ Disconnect \/ WriterStarts \/ Stop \/ UNCHANGED vars
  <2>1. UNCHANGED <<log, announced, loop, next, missed, cache, evictions, guarded, task,
                    submitted, refused>>
    BY <1>1 DEF Connect, Disconnect, WriterStarts, Stop, vars
  <2>2. running' \in BOOLEAN /\ writing' \in BOOLEAN /\ connected' \in BOOLEAN
    BY <1>1, <1>t DEF Connect, Disconnect, WriterStarts, Stop, vars, TypeOK
  <2> QED
    BY <2>1, <2>2 DEF IntakeInv, TypeOK
<1>2. ASSUME NEW s \in Signatures, Announce(s) PROVE IntakeInv'
  <2>0. /\ announced' \in [Signatures -> Nat]
        /\ \A r \in Signatures : announced'[r] <= Copies[r]
        /\ UNCHANGED <<running, writing, connected, loop, next, missed, cache, evictions,
                       guarded, submitted, refused>>
    <3>1. /\ announced \in [Signatures -> Nat]
          /\ \A r \in Signatures : announced[r] <= Copies[r] /\ Copies[r] \in Nat
      BY <1>t DEF TypeOK
    <3>2. announced' = [announced EXCEPT ![s] = @ + 1] /\ announced[s] < Copies[s]
      BY <1>2 DEF Announce
    <3>3. announced[s] \in Nat /\ announced[s] + 1 \in Nat /\ announced[s] + 1 <= Copies[s]
      BY <3>1, <3>2
    <3>4. announced' \in [Signatures -> Nat]
      BY <3>1, <3>2, <3>3
    <3>5. \A r \in Signatures : announced'[r] = IF r = s THEN announced[r] + 1 ELSE announced[r]
      BY <3>1, <3>2
    <3>6. \A r \in Signatures : announced'[r] <= Copies[r]
      BY <3>1, <3>3, <3>5
    <3> QED
      BY <1>2, <3>4, <3>6 DEF Announce
  <2>1. CASE log' = log /\ task' = task
    BY <2>0, <2>1 DEF IntakeInv, TypeOK
  <2>2. CASE log' = Append(log, s) /\ task' = Append(task, "none")
    <3>1. /\ log' \in Seq(Signatures) /\ Len(log') = Len(log) + 1
          /\ \A i \in 1..Len(log) : log'[i] = log[i]
      BY <1>t, <2>2, Appended DEF TypeOK
    <3>2. /\ task' \in Seq(Phases) /\ Len(task') = Len(log')
          /\ \A i \in 1..Len(log) : task'[i] = task[i]
          /\ task'[Len(log) + 1] = "none"
      <4>1. "none" \in Phases /\ task \in Seq(Phases) /\ Len(task) = Len(log)
        BY DEF IntakeInv, Phases
      <4> QED
        BY <2>2, <3>1, <4>1, Appended
    <3>3. DOMAIN log' = 1..(Len(log) + 1) /\ DOMAIN log = 1..Len(log) /\ Len(log) \in Nat
      BY <1>t, <3>1 DEF TypeOK
    <3>4. task' \in [DOMAIN log' -> Phases]
      BY <3>1, <3>2
    <3>5. TypeOK'
      <4>1. next' \in 1..(Len(log') + 1) /\ missed' \subseteq DOMAIN log'
        <5>1. next \in 1..(Len(log) + 1) /\ missed \subseteq DOMAIN log
          BY <1>t DEF TypeOK
        <5>2. next' = next /\ missed' = missed
          BY <2>0
        <5> QED
          BY <3>1, <3>3, <5>1, <5>2
      <4> QED
        BY <1>t, <2>0, <3>1, <3>4, <4>1 DEF TypeOK, Phases
    <3>6. \A i \in 1..Len(log') : task'[i] = "submit" => log'[i] \in Accepted
      BY <3>1, <3>2, <3>3 DEF IntakeInv
    <3>7. loop' = "mark" => next' <= Len(log') /\ log'[next'] \notin Range(cache')
      BY <1>t, <2>0, <3>1, <3>3 DEF IntakeInv, TypeOK
    <3> QED
      BY <3>2, <3>5, <3>6, <3>7 DEF IntakeInv
  <2> QED
    BY <1>2, <2>1, <2>2 DEF Announce
<1>3. CASE Subscribe \/ LoopCheck \/ Timeout \/ Receive \/ Lag
  <2>0. UNCHANGED <<running, writing, connected, log, announced, cache, evictions, guarded,
                    task, submitted, refused>>
    BY <1>3 DEF Subscribe, LoopCheck, Timeout, Receive, Lag
  <2>1. Len(log) \in Nat /\ DOMAIN log = 1..Len(log)
    BY <1>t DEF TypeOK
  <2>2. next' \in 1..(Len(log) + 1) /\ missed' \subseteq DOMAIN log
    <3>1. next \in 1..(Len(log) + 1) /\ missed \subseteq DOMAIN log
      BY <1>t DEF TypeOK
    <3>2. CASE Subscribe
      BY <2>1, <3>2 DEF Subscribe
    <3>3. CASE LoopCheck \/ Timeout
      BY <3>1, <3>3 DEF LoopCheck, Timeout
    <3>4. CASE Receive
      BY <2>1, <3>1, <3>4 DEF Receive
    <3>5. CASE Lag
      BY <2>1, <3>1, <3>5 DEF Lag
    <3> QED
      BY <1>3, <3>2, <3>3, <3>4, <3>5
  <2>3. loop' \in {"off", "check", "recv", "mark", "done"}
    BY <1>3, <1>t DEF Subscribe, LoopCheck, Timeout, Receive, Lag, TypeOK
  <2>4. loop' = "mark" => next' <= Len(log) /\ log[next'] \notin Range(cache)
    <3>1. cache \in Seq(Signatures)
      BY <1>t DEF TypeOK
    <3> QED
      BY <1>3, <3>1, Membership DEF Subscribe, LoopCheck, Timeout, Receive, Lag, Seen
  <2> QED
    BY <2>0, <2>2, <2>3, <2>4 DEF IntakeInv, TypeOK
<1>4. CASE Mark
  <2>0. /\ next \in 1..Len(log) /\ log[next] \in Signatures /\ log[next] \notin Range(cache)
        /\ Len(log) \in Nat /\ DOMAIN log = 1..Len(log)
    BY <1>4, <1>t DEF Mark, IntakeInv, TypeOK
  <2>1. cache' \in Seq(Signatures) /\ IsInjective(cache')
    BY <1>4, <1>t, <2>0, Appended DEF Mark, Remember, TypeOK
  <2>2. /\ task' \in Seq(Phases) /\ Len(task') = Len(log)
        /\ task' \in [DOMAIN log -> Phases]
        /\ \A i \in 1..Len(log) : task'[i] = task[i] \/ task'[i] = "parse"
    <3>1. task' = [task EXCEPT ![next] = "parse"] /\ "parse" \in Phases
      BY <1>4 DEF Mark, Phases
    <3>2. task \in Seq(Phases) /\ Len(task) = Len(log) /\ next \in 1..Len(task)
      BY <2>0 DEF IntakeInv
    <3> QED
      BY <2>0, <3>1, <3>2, ExceptSeq
  <2>3. TypeOK'
    <3>1. next' \in 1..(Len(log') + 1) /\ log' = log /\ loop' = "check"
      BY <1>4, <2>0 DEF Mark
    <3>2. UNCHANGED <<running, writing, connected, announced, missed, evictions, guarded,
                      submitted, refused>>
      BY <1>4 DEF Mark
    <3> QED
      BY <1>t, <2>1, <2>2, <3>1, <3>2 DEF TypeOK, Phases
  <2> QED
    BY <1>4, <2>2, <2>3 DEF Mark, IntakeInv
<1>5. ASSUME NEW i \in DOMAIN task, Process(i) PROVE IntakeInv'
  <2>0. /\ task \in Seq(Phases) /\ Len(task) = Len(log) /\ i \in 1..Len(task)
        /\ Len(log) \in Nat /\ DOMAIN log = 1..Len(log) /\ log[i] \in Signatures
    BY <1>5, <1>t DEF IntakeInv, TypeOK
  <2>1. \E p \in Phases : /\ task' = [task EXCEPT ![i] = p]
                          /\ p = "submit" => log[i] \in Accepted
    BY <1>5 DEF Process, Parse, Submit, Phases
  <2>2. /\ task' \in Seq(Phases) /\ Len(task') = Len(log)
        /\ task' \in [DOMAIN log -> Phases]
        /\ \A j \in 1..Len(log) : task'[j] = "submit" => log[j] \in Accepted
    BY <2>0, <2>1, ExceptSeq DEF IntakeInv
  <2>3. /\ submitted' \in [Signatures -> Nat] /\ refused' \subseteq Accepted
        /\ UNCHANGED <<running, writing, connected, log, announced, loop, next, missed,
                       cache, evictions, guarded>>
    <3>1. CASE Parse(i)
      BY <1>t, <3>1 DEF Parse, TypeOK
    <3>2. CASE Submit(i)
      <4>1. log[i] \in Accepted
        BY <2>0, <3>2 DEF Submit, IntakeInv
      <4>2. submitted \in [Signatures -> Nat] /\ refused \subseteq Accepted
        BY <1>t DEF TypeOK
      <4>3. /\ UNCHANGED <<running, writing, connected, log, announced, loop, next, missed,
                           cache, evictions, guarded>>
            /\ \/ submitted' = [submitted EXCEPT ![log[i]] = @ + 1] /\ refused' = refused
               \/ refused' = refused \union {log[i]} /\ submitted' = submitted
        BY <3>2 DEF Submit
      <4> QED
        BY <2>0, <4>1, <4>2, <4>3
    <3> QED
      BY <1>5, <3>1, <3>2 DEF Process
  <2>4. TypeOK'
    BY <1>t, <2>2, <2>3 DEF TypeOK, Phases
  <2> QED
    BY <2>2, <2>3, <2>4 DEF IntakeInv
<1>6. ASSUME NEW n \in Expirable, Cleanup(n) PROVE IntakeInv'
  <2>0. cache \in Seq(Signatures) /\ IsInjective(cache) /\ n \in 0..Len(cache)
    BY <1>t DEF TypeOK, Expirable
  <2>1. /\ cache' \in Seq(Signatures) /\ IsInjective(cache')
        /\ Range(cache') \subseteq Range(cache)
    BY <1>6, <2>0, Split DEF Cleanup
  <2>2. guarded' \subseteq Range(Shard)
    <3>1. Range(cache') \subseteq DOMAIN Shard
      BY <2>1, Membership
    <3> QED
      BY <1>6, <3>1 DEF Cleanup, Range
  <2>3. evictions' \in [Signatures -> Nat]
    <3>1. evictions \in [Signatures -> Nat]
      BY <1>t DEF TypeOK
    <3>2. PICK front : evictions' = [s \in Signatures |-> IF Contains(front, s)
                                                          THEN evictions[s] + 1 ELSE evictions[s]]
      BY <1>6 DEF Cleanup
    <3>3. \A s \in Signatures : evictions[s] \in Nat /\ evictions[s] + 1 \in Nat
      BY <3>1
    <3> QED
      BY <3>2, <3>3
  <2>4. UNCHANGED <<running, writing, connected, log, announced, loop, next, missed, task,
                    submitted, refused>>
    BY <1>6 DEF Cleanup
  <2>5. TypeOK'
    BY <1>t, <2>1, <2>2, <2>3, <2>4 DEF TypeOK
  <2> QED
    BY <2>1, <2>4, <2>5 DEF IntakeInv
<1> QED
  BY <1>1, <1>2, <1>3, <1>4, <1>5, <1>6 DEF Next, ProcessingLoop

\* Every variable keeps its type; the cache holds no signature twice,
\* although looking a signature up and remembering it are separate steps with
\* the cleanup in between.
THEOREM IntakeTyped == Spec => []TypeOK
<1>1. IntakeInv => TypeOK
  BY DEF IntakeInv
<1> QED
  BY <1>1, IntakeInvInit, IntakeInvStep, PTL DEF Spec

-----------------------------------------------------------------------------
(* Submitted once                                                          *)

\* The tasks at work on a signature.
Work(s) == {i \in 1..Len(log) : log[i] = s /\ task[i] \in {"parse", "submit"}}

\* How often a signature may have been handed out to a task: once while it is
\* in the cache and once for every time it left it.
Stays(s) == (IF s \in Range(cache) THEN 1 ELSE 0) + evictions[s]

CountInv == \A s \in Signatures : submitted[s] + Cardinality(Work(s)) <= Stays(s)

LEMMA WorkFinite ==
  ASSUME IntakeInv, NEW s
  PROVE  /\ IsFiniteSet(Work(s)) /\ Cardinality(Work(s)) \in Nat
<1>1. IsFiniteSet(1..Len(log))
  BY FS_Interval DEF IntakeInv, TypeOK
<1>2. Work(s) \subseteq 1..Len(log)
  BY DEF Work
<1> QED
  BY <1>1, <1>2, FS_Subset, FS_CardinalityType

LEMMA Counts ==
  ASSUME IntakeInv, NEW s \in Signatures
  PROVE  submitted[s] \in Nat /\ evictions[s] \in Nat /\ Stays(s) \in Nat
<1>1. submitted \in [Signatures -> Nat] /\ evictions \in [Signatures -> Nat]
  BY DEF IntakeInv, TypeOK
<1>2. submitted[s] \in Nat /\ evictions[s] \in Nat
  BY <1>1
<1> QED
  BY <1>2 DEF Stays

\* Steps after which no signature has more tasks at work, more events
\* submitted or fewer stays.
LEMMA CountElsewhere ==
  ASSUME IntakeInv, IntakeInv', CountInv, submitted' = submitted,
         \A s \in Signatures : Work(s)' \subseteq Work(s) /\ Stays(s)' = Stays(s)
  PROVE  CountInv'
<1> SUFFICES ASSUME NEW s \in Signatures
             PROVE  submitted'[s] + Cardinality(Work(s)') <= Stays(s)'
  BY DEF CountInv
<1>1. /\ Cardinality(Work(s)') <= Cardinality(Work(s))
      /\ Cardinality(Work(s)) \in Nat /\ Cardinality(Work(s)') \in Nat
  BY WorkFinite, FS_Subset, FS_CardinalityType
<1>2. submitted[s] \in Nat /\ Stays(s) \in Nat
  BY Counts
<1>3. submitted[s] + Cardinality(Work(s)) <= Stays(s)
  BY DEF CountInv
<1> QED
  BY <1>1, <1>2, <1>3

LEMMA CountStep == IntakeInv /\ IntakeInv' /\ CountInv /\ [Next]_vars => CountInv'
<1> SUFFICES ASSUME IntakeInv, IntakeInv', CountInv, [Next]_vars PROVE CountInv'
  OBVIOUS
<1> USE SubscriptionAssumption DEF intake, reading, caching, outcome
<1>t. TypeOK
  BY DEF IntakeInv
<1>1. ASSUME UNCHANGED <<log, task, cache, evictions, submitted>> PROVE CountInv'
  BY <1>1, CountElsewhere DEF Work, Stays
<1>2. ASSUME NEW s \in Signatures, Announce(s) PROVE CountInv'
  <2>1. CASE log' = log /\ task' = task
    BY <1>1, <1>2, <2>1 DEF Announce
  <2>2. CASE log' = Append(log, s) /\ task' = Append(task, "none")
    <3>1. /\ Len(log') = Len(log) + 1 /\ \A i \in 1..Len(log) : log'[i] = log[i]
          /\ Len(log) \in Nat
      BY <1>t, <2>2, Appended DEF TypeOK
    <3>2. /\ \A i \in 1..Len(log) : task'[i] = task[i]
          /\ task'[Len(log) + 1] = "none"
      <4>1. "none" \in Phases /\ task \in Seq(Phases) /\ Len(task) = Len(log)
        BY DEF IntakeInv, Phases
      <4> QED
        BY <2>2, <4>1, Appended
    <3>3. \A r \in Signatures : Work(r)' \subseteq Work(r)
      BY <3>1, <3>2 DEF Work
    <3> QED
      BY <1>2, <3>3, CountElsewhere DEF Announce, Stays
  <2> QED
    BY <1>2, <2>1, <2>2 DEF Announce
<1>3. CASE Mark
  <2> DEFINE s == log[next]
  <2>0. /\ next \in 1..Len(log) /\ s \in Signatures /\ s \notin Range(cache)
        /\ log' = log /\ submitted' = submitted /\ evictions' = evictions
        /\ task' = [task EXCEPT ![next] = "parse"]
    BY <1>3, <1>t DEF Mark, IntakeInv, TypeOK
  <2>1. Range(cache') = Range(cache) \union {s}
    <3>1. cache' = Append(cache, s)
      BY <1>3 DEF Mark, Remember
    <3>2. cache \in Seq(Signatures)
      BY <1>t DEF TypeOK
    <3> QED
      BY <2>0, <3>1, <3>2, Appended
  <2>2. \A i \in 1..Len(log) : i # next => task'[i] = task[i]
    BY <2>0 DEF IntakeInv
  <2> SUFFICES ASSUME NEW r \in Signatures
               PROVE  submitted'[r] + Cardinality(Work(r)') <= Stays(r)'
    BY DEF CountInv
  <2>3. /\ submitted[r] \in Nat /\ evictions[r] \in Nat
        /\ submitted[r] + Cardinality(Work(r)) <= Stays(r)
        /\ Cardinality(Work(r)) \in Nat /\ Cardinality(Work(r)') \in Nat
        /\ IsFiniteSet(Work(r)) /\ IsFiniteSet(Work(r)')
    <3>1. IsFiniteSet(Work(r)) /\ Cardinality(Work(r)) \in Nat
      BY WorkFinite
    <3>2. IsFiniteSet(Work(r)') /\ Cardinality(Work(r)') \in Nat
      <4>1. Work(r)' \subseteq 1..Len(log') /\ IsFiniteSet(1..Len(log'))
        BY <2>0, FS_Interval DEF Work, IntakeInv, TypeOK
      <4> QED
        BY <4>1, FS_Subset, FS_CardinalityType
    <3> QED
      BY <3>1, <3>2, Counts DEF CountInv
  <2>4. CASE r = s
    <3>1. Work(r)' \subseteq Work(r) \union {next}
      BY <2>0, <2>2 DEF Work
    <3>2. Cardinality(Work(r)') <= Cardinality(Work(r)) + 1
      <4>1. /\ IsFiniteSet(Work(r) \union {next})
            /\ Cardinality(Work(r) \union {next}) \in Nat
            /\ Cardinality(Work(r) \union {next}) <= Cardinality(Work(r)) + 1
        <5>1. /\ IsFiniteSet(Work(r) \union {next})
              /\ Cardinality(Work(r) \union {next}) =
                   IF next \in Work(r) THEN Cardinality(Work(r)) ELSE Cardinality(Work(r)) + 1
          BY <2>3, FS_AddElement
        <5> QED
          BY <2>3, <5>1
      <4>2. Cardinality(Work(r)') <= Cardinality(Work(r) \union {next})
        BY <3>1, <4>1, FS_Subset
      <4> QED
        BY <2>3, <4>1, <4>2
    <3>3. Stays(r)' = Stays(r) + 1
      BY <2>0, <2>1, <2>3, <2>4 DEF Stays
    <3> QED
      <4>1. submitted'[r] = submitted[r]
        BY <2>0
      <4> QED
        BY <2>3, <3>2, <3>3, <4>1, Counts
  <2>5. CASE r # s
    <3>1. Work(r)' = Work(r)
      BY <2>0, <2>2, <2>5 DEF Work
    <3>2. Stays(r)' = Stays(r)
      BY <2>0, <2>1, <2>5 DEF Stays
    <3> QED
      BY <2>0, <2>3, <3>1, <3>2
  <2> QED
    BY <2>4, <2>5
<1>4. ASSUME NEW i \in DOMAIN task, Parse(i) PROVE CountInv'
  <2>1. /\ log' = log /\ submitted' = submitted /\ cache' = cache /\ evictions' = evictions
        /\ task[i] = "parse" /\ \A j \in 1..Len(log) : j # i => task'[j] = task[j]
    BY <1>4 DEF Parse, IntakeInv
  <2>2. \A r \in Signatures : Work(r)' \subseteq Work(r)
    BY <2>1 DEF Work
  <2> QED
    BY <2>1, <2>2, CountElsewhere DEF Stays
<1>5. ASSUME NEW i \in DOMAIN task, Submit(i) PROVE CountInv'
  <2>0. /\ log' = log /\ cache' = cache /\ evictions' = evictions
        /\ i \in 1..Len(log) /\ task[i] = "submit" /\ task'[i] = "end"
        /\ \A j \in 1..Len(log) : j # i => task'[j] = task[j]
    BY <1>5 DEF Submit, IntakeInv
  <2>1. \/ submitted' = submitted
        \/ submitted' = [submitted EXCEPT ![log[i]] = @ + 1]
    BY <1>5 DEF Submit
  <2>f. submitted \in [Signatures -> Nat]
    BY <1>t DEF TypeOK
  <2> SUFFICES ASSUME NEW r \in Signatures
               PROVE  submitted'[r] + Cardinality(Work(r)') <= Stays(r)'
    BY DEF CountInv
  <2>2. /\ submitted[r] \in Nat /\ Stays(r) \in Nat /\ Stays(r)' = Stays(r)
        /\ submitted[r] + Cardinality(Work(r)) <= Stays(r)
        /\ Cardinality(Work(r)) \in Nat /\ IsFiniteSet(Work(r))
    <3>1. Stays(r)' = Stays(r)
      BY <2>0 DEF Stays
    <3> QED
      BY <3>1, WorkFinite, Counts DEF CountInv
  <2>3. CASE log[i] = r
    <3>1. i \in Work(r) /\ Work(r)' = Work(r) \ {i}
      BY <2>0, <2>3 DEF Work
    <3>2. Cardinality(Work(r)') = Cardinality(Work(r)) - 1
      BY <2>2, <3>1, FS_RemoveElement
    <3>3. submitted'[r] <= submitted[r] + 1 /\ submitted'[r] \in Nat
      <4>1. submitted'[r] \in {submitted[r], submitted[r] + 1}
        BY <2>1, <2>3, <2>f
      <4> QED
        BY <2>2, <4>1
    <3> QED
      BY <2>2, <3>2, <3>3
  <2>4. CASE log[i] # r
    <3>1. Work(r)' = Work(r)
      BY <2>0, <2>4 DEF Work
    <3>2. submitted'[r] = submitted[r]
      BY <2>1, <2>4, <2>f
    <3> QED
      BY <2>2, <3>1, <3>2
  <2> QED
    BY <2>3, <2>4
<1>6. ASSUME NEW n \in Expirable, Cleanup(n) PROVE CountInv'
  <2> DEFINE front == SubSeq(cache, 1, n)
  <2>0. /\ UNCHANGED <<log, task, submitted>>
        /\ cache' = SubSeq(cache, n + 1, Len(cache))
        /\ evictions' = [s \in Signatures |-> IF Contains(front, s)
                                              THEN evictions[s] + 1 ELSE evictions[s]]
    BY <1>6 DEF Cleanup
  <2>1. cache \in Seq(Signatures) /\ IsInjective(cache) /\ n \in 0..Len(cache)
    BY <1>t DEF TypeOK, Expirable
  <2>2. /\ front \in Seq(Signatures)
        /\ Range(front) \union Range(cache') = Range(cache)
        /\ Range(front) \cap Range(cache') = {}
    BY <2>0, <2>1, Split
  <2>3. \A s \in Signatures : Contains(front, s) <=> s \in Range(front)
    BY <2>2, Membership
  <2> HIDE DEF front
  <2>4. \A s \in Signatures : Stays(s)' = Stays(s)
    <3> SUFFICES ASSUME NEW s \in Signatures PROVE Stays(s)' = Stays(s)
      OBVIOUS
    <3>1. evictions[s] \in Nat
      BY <1>t DEF TypeOK
    <3>2. evictions'[s] = IF s \in Range(front) THEN evictions[s] + 1 ELSE evictions[s]
      BY <2>0, <2>3
    <3> QED
      BY <2>2, <3>1, <3>2 DEF Stays
  <2> QED
    BY <2>0, <2>4, CountElsewhere DEF Work
<1>7. CASE \/ Connect \/ Disconnect \/ Stop \/ WriterStarts \/ UNCHANGED vars
           \/ Subscribe \/ LoopCheck \/ Timeout \/ Receive \/ Lag
  BY <1>1, <1>7
  DEF Connect, Disconnect, Stop, WriterStarts, vars, Subscribe, LoopCheck, Timeout,
      Receive, Lag
<1> QED
  BY <1>2, <1>3, <1>4, <1>5, <1>6, <1>7 DEF Next, ProcessingLoop, Process

\* However many programs announce a transaction, its events go to the writer
\* at most once more than its signature left the cache.
THEOREM EventsSubmittedOnce == Spec => []SubmittedOnce
<1>1. Init => CountInv
  <2> SUFFICES ASSUME Init, NEW s \in Signatures
               PROVE  submitted[s] + Cardinality(Work(s)) <= Stays(s)
    BY DEF CountInv
  <2>1. Work(s) = {}
    BY DEF Init, Work
  <2>2. Range(cache) = {} /\ evictions[s] = 0 /\ submitted[s] = 0
    BY DEF Init, Range
  <2> QED
    BY <2>1, <2>2, FS_EmptySet DEF Stays
<1>2. IntakeInv /\ CountInv => SubmittedOnce
  <2> SUFFICES ASSUME IntakeInv, CountInv, NEW s \in Signatures
               PROVE  submitted[s] <= 1 + evictions[s]
    BY DEF SubmittedOnce
  <2>1. Cardinality(Work(s)) \in Nat /\ submitted[s] \in Nat /\ evictions[s] \in Nat
    BY WorkFinite, Counts
  <2> QED
    BY <2>1 DEF CountInv, Stays
<1> QED
  BY <1>1, <1>2, IntakeInvInit, IntakeInvStep, CountStep, PTL DEF Spec

-----------------------------------------------------------------------------
(* Nothing is hidden                                                       *)

\* A task took the signature, and its events went on from there.
Handled(s) ==
  \/ s \notin Accepted
  \/ submitted[s] > 0
  \/ s \in refused
  \/ InHand(s)

\* What is in the cache is handled, and so is what the loop passed: it had
\* been in the cache, or was put there.
PassedInv ==
  /\ \A s \in Range(cache) : Handled(s)
  /\ \A i \in 1..(next - 1) : i \in missed \/ Handled(log[i])

\* A signature that is handled stays so, and one whose task is spawned is.
LEMMA HandledStays ==
  ASSUME IntakeInv, [Next]_vars, NEW s \in Signatures, Handled(s)
  PROVE  Handled(s)'
<1> USE SubscriptionAssumption DEF intake, reading, caching, outcome
<1>t. /\ submitted \in [Signatures -> Nat] /\ submitted[s] \in Nat
      /\ log \in Seq(Signatures) /\ Len(log) \in Nat /\ DOMAIN log = 1..Len(log)
  BY DEF IntakeInv, TypeOK
<1>1. ASSUME NEW i \in DOMAIN task, Process(i) PROVE Handled(s)'
  <2>0. /\ log' = log /\ i \in 1..Len(log)
        /\ \A j \in 1..Len(log) : j # i => task'[j] = task[j]
    BY <1>1 DEF Process, Parse, Submit, IntakeInv
  <2>1. s \in refused => s \in refused'
    BY <1>1 DEF Process, Parse, Submit
  <2>2. submitted[s] > 0 => submitted'[s] > 0
    <3>1. submitted' = submitted \/ submitted' = [submitted EXCEPT ![log[i]] = @ + 1]
      BY <1>1 DEF Process, Parse, Submit
    <3>2. log[i] \in Signatures
      BY <1>t, <2>0
    <3>3. submitted'[s] = submitted[s] \/ submitted'[s] = submitted[s] + 1
      BY <1>t, <3>1, <3>2
    <3> QED
      BY <1>t, <3>3
  <2>3. CASE InHand(s) /\ s \in Accepted
    <3>1. PICK j \in 1..Len(log) : log[j] = s /\ task[j] \in {"parse", "submit"}
      BY <1>t, <2>3 DEF InHand
    <3>2. CASE j # i
      BY <1>t, <2>0, <3>1, <3>2 DEF Handled, InHand
    <3>3. CASE j = i /\ Parse(i)
      <4>1. task'[i] = "submit"
        BY <2>3, <3>1, <3>3 DEF Parse, IntakeInv
      <4> QED
        BY <1>t, <2>0, <3>1, <3>3, <4>1 DEF Handled, InHand
    <3>4. CASE j = i /\ Submit(i)
      <4>1. s \in refused' \/ submitted' = [submitted EXCEPT ![s] = @ + 1]
        BY <3>1, <3>4 DEF Submit
      <4>2. s \in refused' \/ submitted'[s] > 0
        BY <1>t, <4>1
      <4> QED
        BY <4>2 DEF Handled
    <3> QED
      BY <1>1, <3>2, <3>3, <3>4 DEF Process
  <2> QED
    BY <2>1, <2>2, <2>3 DEF Handled
<1>2. ASSUME submitted' = submitted, refused' = refused,
             Len(log) <= Len(log'), Len(log') \in Nat, DOMAIN log' = 1..Len(log'),
             \A i \in 1..Len(log) : log'[i] = log[i],
             \A i \in 1..Len(log) : task'[i] \in {task[i], "parse"}
      PROVE  Handled(s)'
  <2>1. InHand(s) => InHand(s)'
    <3> SUFFICES ASSUME InHand(s) PROVE InHand(s)'
      OBVIOUS
    <3>1. PICK j \in 1..Len(log) : log[j] = s /\ task[j] \in {"parse", "submit"}
      BY <1>t DEF InHand
    <3>2. log'[j] = s /\ task'[j] \in {"parse", "submit"}
      BY <1>2, <3>1
    <3>3. j \in DOMAIN log'
      BY <1>2, <1>t
    <3> QED
      BY <3>2, <3>3 DEF InHand
  <2> QED
    BY <1>2, <2>1 DEF Handled
<1>3. CASE UNCHANGED <<submitted, refused, log, task>>
  BY <1>2, <1>3, <1>t
<1>4. ASSUME NEW r \in Signatures, Announce(r) PROVE Handled(s)'
  <2>1. CASE log' = log /\ task' = task
    BY <1>3, <1>4, <2>1 DEF Announce
  <2>2. CASE log' = Append(log, r) /\ task' = Append(task, "none")
    <3>1. /\ Len(log') = Len(log) + 1 /\ \A i \in 1..Len(log) : log'[i] = log[i]
          /\ log' \in Seq(Signatures)
      BY <1>t, <2>2, Appended
    <3>2. \A i \in 1..Len(log) : task'[i] = task[i]
      <4>1. "none" \in Phases /\ task \in Seq(Phases) /\ Len(task) = Len(log)
        BY DEF IntakeInv, Phases
      <4> QED
        BY <2>2, <4>1, Appended
    <3>3. submitted' = submitted /\ refused' = refused
      BY <1>4 DEF Announce
    <3>4. Len(log) <= Len(log') /\ Len(log') \in Nat
      BY <1>t, <3>1
    <3>5. DOMAIN log' = 1..Len(log')
      BY <3>1
    <3>6. \A i \in 1..Len(log) : task'[i] \in {task[i], "parse"}
      BY <3>2
    <3> HIDE DEF Handled
    <3> QED
      BY ONLY <1>2, <3>1, <3>3, <3>4, <3>5, <3>6
  <2> QED
    BY <1>4, <2>1, <2>2 DEF Announce
<1>5. CASE Mark
  <2>1. /\ UNCHANGED <<submitted, refused, log>>
        /\ \A i \in 1..Len(log) : task'[i] \in {task[i], "parse"}
    BY <1>5 DEF Mark, IntakeInv
  <2> QED
    BY <1>2, <1>t, <2>1
<1>6. CASE \/ Connect \/ Disconnect \/ Stop \/ WriterStarts \/ UNCHANGED vars
           \/ Subscribe \/ LoopCheck \/ Timeout \/ Receive \/ Lag
           \/ \E n \in Expirable : Cleanup(n)
  BY <1>3, <1>6
  DEF Connect, Disconnect, Stop, WriterStarts, vars, Subscribe, LoopCheck, Timeout,
      Receive, Lag, Cleanup
<1> QED
  BY <1>1, <1>4, <1>5, <1>6 DEF Next, ProcessingLoop

LEMMA PassedStep == IntakeInv /\ IntakeInv' /\ PassedInv /\ [Next]_vars => PassedInv'
<1> SUFFICES ASSUME IntakeInv, IntakeInv', PassedInv, [Next]_vars PROVE PassedInv'
  OBVIOUS
<1> USE SubscriptionAssumption DEF intake, reading, caching, outcome
<1>t. /\ log \in Seq(Signatures) /\ Len(log) \in Nat /\ DOMAIN log = 1..Len(log)
      /\ cache \in Seq(Signatures) /\ Range(cache) \subseteq Signatures
      /\ next \in 1..(Len(log) + 1)
  BY Membership DEF IntakeInv, TypeOK
<1>h. \A s \in Signatures : Handled(s) => Handled(s)'
  BY HandledStays
<1>p. \A i \in 1..Len(log) : log[i] \in Signatures
  BY <1>t
<1> DEFINE Heard(i) == i \in 1..Len(log) /\ (i < next \/ log[i] \in Range(cache))
           Kept == /\ Range(cache') \subseteq Range(cache)
                   /\ missed \subseteq missed'
                   /\ \A i \in 1..Len(log) : log'[i] = log[i]
<1>1. ASSUME Kept, \A i \in 1..(next' - 1) : i \in missed' \/ Heard(i)
      PROVE  PassedInv'
  <2>1. \A r \in Range(cache') : Handled(r)'
    BY <1>1, <1>t, <1>h DEF PassedInv
  <2>2. ASSUME NEW i \in 1..(next' - 1), i \notin missed'
        PROVE  \E r \in Signatures : r = log'[i] /\ Handled(r)'
    <3>1. Heard(i) /\ i \notin missed
      BY <1>1, <2>2
    <3>2. Handled(log[i]) /\ log[i] \in Signatures
      BY <1>t, <1>p, <3>1 DEF PassedInv
    <3> QED
      BY <1>1, <1>h, <3>1, <3>2
  <2>3. \A i \in 1..(next' - 1) : i \notin missed' => Handled(log[i])'
    BY <2>2 DEF Handled, InHand
  <2> QED
    BY <2>1, <2>3 DEF PassedInv
<1>2. ASSUME UNCHANGED <<log, cache, next, missed>> PROVE PassedInv'
  <2>1. Kept
    BY <1>2
  <2>2. \A i \in 1..(next' - 1) : i \in missed' \/ Heard(i)
    BY <1>t, <1>2
  <2> QED
    BY <1>1, <2>1, <2>2
<1>3. ASSUME NEW s \in Signatures, Announce(s) PROVE PassedInv'
  <2>1. UNCHANGED <<cache, next, missed>> /\ (log' = log \/ log' = Append(log, s))
    BY <1>3 DEF Announce
  <2>2. \A i \in 1..Len(log) : log'[i] = log[i]
    <3>1. CASE log' = log
      BY <3>1
    <3>2. CASE log' = Append(log, s)
      BY <1>t, <3>2, Appended
    <3> QED
      BY <2>1, <3>1, <3>2
  <2>3. Kept
    BY <2>1, <2>2
  <2>4. \A i \in 1..(next' - 1) : i \in missed' \/ Heard(i)
    BY <1>t, <2>1
  <2> QED
    BY <1>1, <2>3, <2>4
<1>4. CASE Subscribe
  <2>1. /\ UNCHANGED <<log, cache>> /\ next' = Len(log) + 1 /\ missed' = 1..Len(log)
    BY <1>4 DEF Subscribe
  <2>2. missed \subseteq missed'
    BY <2>1 DEF IntakeInv, TypeOK
  <2>3. Kept
    BY <2>1, <2>2
  <2>4. \A i \in 1..(next' - 1) : i \in missed' \/ Heard(i)
    BY <1>t, <2>1
  <2> QED
    BY <1>1, <2>3, <2>4
<1>5. CASE Receive
  <2>1. UNCHANGED <<log, cache, missed>> /\ next \in 1..Len(log)
    BY <1>5, <1>t DEF Receive
  <2>2. next' = next \/ (next' = next + 1 /\ log[next] \in Range(cache))
    BY <1>5, <1>t, Membership DEF Receive, Seen
  <2>3. Kept
    BY <2>1
  <2>4. \A i \in 1..(next' - 1) : i \in missed' \/ Heard(i)
    <3> SUFFICES ASSUME NEW i \in 1..(next' - 1) PROVE Heard(i)
      OBVIOUS
    <3>1. i \in 1..Len(log) /\ (i < next \/ (i = next /\ log[next] \in Range(cache)))
      BY <1>t, <2>1, <2>2
    <3> QED
      BY <3>1
  <2> QED
    BY <1>1, <2>3, <2>4
<1>6. CASE Lag
  <2>1. /\ UNCHANGED <<log, cache>> /\ next' = Len(log) + 1
        /\ missed' = missed \union next..Len(log)
    BY <1>6 DEF Lag
  <2>2. Kept
    BY <2>1
  <2>3. \A i \in 1..(next' - 1) : i \in missed' \/ Heard(i)
    BY <1>t, <2>1
  <2> QED
    BY <1>1, <2>2, <2>3
<1>7. ASSUME NEW n \in Expirable, Cleanup(n) PROVE PassedInv'
  <2>1. UNCHANGED <<log, next, missed>> /\ cache' = SubSeq(cache, n + 1, Len(cache))
    BY <1>7 DEF Cleanup
  <2>2. n \in 0..Len(cache)
    BY <1>t DEF Expirable
  <2>3. Range(cache') \subseteq Range(cache)
    BY <1>t, <2>1, <2>2, Split
  <2>4. Kept
    BY <2>1, <2>3
  <2>5. \A i \in 1..(next' - 1) : i \in missed' \/ Heard(i)
    BY <1>t, <2>1
  <2> QED
    BY <1>1, <2>4, <2>5
<1>8. ASSUME NEW i \in DOMAIN task, Process(i) PROVE PassedInv'
  <2>1. UNCHANGED <<log, cache, next, missed>>
    BY <1>8 DEF Process, Parse, Submit
  <2> QED
    BY <1>2, <2>1
<1>10. CASE \/ Connect \/ Disconnect \/ Stop \/ WriterStarts \/ UNCHANGED vars
           \/ LoopCheck \/ Timeout
  <2>1. UNCHANGED <<log, cache, next, missed>>
    BY <1>10 DEF Connect, Disconnect, Stop, WriterStarts, vars, LoopCheck, Timeout
  <2> QED
    BY <1>2, <2>1
<1>9. CASE Mark
  <2>1. /\ next \in 1..Len(log) /\ next' = next + 1
        /\ UNCHANGED <<log, missed, submitted, refused>>
        /\ cache' = Append(cache, log[next]) /\ task' = [task EXCEPT ![next] = "parse"]
    BY <1>9, <1>t DEF Mark, Remember, IntakeInv
  <2>2. PICK s \in Signatures : s = log[next]
    BY <1>p, <2>1
  <2>3. Handled(s)'
    <3>1. task'[next] = "parse"
      BY <2>1 DEF IntakeInv
    <3> QED
      BY <1>t, <2>1, <2>2, <3>1 DEF Handled, InHand
  <2>4. Range(cache') = Range(cache) \union {s}
    BY <1>t, <2>1, <2>2, Appended
  <2>5. \A r \in Range(cache') : Handled(r)'
    BY <1>t, <1>h, <2>3, <2>4 DEF PassedInv
  <2>6. ASSUME NEW i \in 1..(next' - 1), i \notin missed'
        PROVE  \E r \in Signatures : r = log'[i] /\ Handled(r)'
    <3>1. CASE i = next
      BY <2>1, <2>2, <2>3, <3>1
    <3>2. CASE i # next
      <4>1. i \in 1..(next - 1) /\ i \in 1..Len(log) /\ i \notin missed
        BY <1>t, <2>1, <2>6, <3>2
      <4> QED
        BY <1>h, <1>p, <2>1, <4>1 DEF PassedInv
    <3> QED
      BY <3>1, <3>2
  <2>7. \A i \in 1..(next' - 1) : i \notin missed' => Handled(log[i])'
    BY <2>6 DEF Handled, InHand
  <2> QED
    BY <2>5, <2>7 DEF PassedInv
<1> QED
  BY <1>3, <1>4, <1>5, <1>6, <1>7, <1>8, <1>9, <1>10 DEF Next, ProcessingLoop

\* An announcement the loop has passed was submitted, refused or rejected, is
\* still at work, or was missed: however the cache is trimmed and filled, it
\* hides no transaction that no task has taken.
THEOREM NothingHidden == Spec => []PassedIsHandled
<1>1. Init => PassedInv
  BY DEF Init, PassedInv, Range
<1>2. PassedInv => PassedIsHandled
  BY DEF PassedInv, PassedIsHandled, Handled
<1> QED
  BY <1>1, <1>2, IntakeInvInit, IntakeInvStep, PassedStep, PTL DEF Spec

-----------------------------------------------------------------------------
(* The backfill service                                                    *)

USE DEF world, saved, scan

Statuses == {"None", "Running", "Completed", "Failed"}
Points   == {"idle", "fetch", "check", "fill", "update", "complete", "checkpoint"}

-----------------------------------------------------------------------------
(* Least and greatest members, and sequences as queues                     *)

LEMMA LeastOf ==
  ASSUME NEW S \in SUBSET Nat, S # {}
  PROVE  Min(S) \in S
<1> DEFINE R == OpToRel(<, Nat)
<1>1. IsWellFoundedOn(R, Nat)
  BY NatLessThanWellFounded, Zenon
<1>2. \A x, y \in Nat : y < x => <<y, x>> \in R
  BY DEF OpToRel
<1> HIDE DEF R
<1>3. PICK x \in S : \A y \in S : ~ (<<y, x>> \in R)
  BY <1>1, WFMin
<1>4. \A y \in S : x <= y
  <2> SUFFICES ASSUME NEW y \in S PROVE ~ (y < x)
    OBVIOUS
  <2> QED
    BY <1>2, <1>3
<1> QED
  BY <1>3, <1>4 DEF Min

LEMMA GreatestOf ==
  ASSUME NEW n \in Nat, NEW S \in SUBSET (0..n), S # {}
  PROVE  Max(S) \in S
<1> DEFINE Below == {n - x : x \in S}
           R     == OpToRel(<, Nat)
<1>1. IsWellFoundedOn(R, Nat)
  BY NatLessThanWellFounded, Zenon
<1>2. \A x, y \in Nat : y < x => <<y, x>> \in R
  BY DEF OpToRel
<1> HIDE DEF R
<1>3. \A x \in S : x \in 0..n /\ n - x \in Nat
  OBVIOUS
<1>4. Below \subseteq Nat /\ Below # {}
  BY <1>3
<1>5. \E b \in Below : \A c \in Below : ~ (<<c, b>> \in R)
  BY <1>1, <1>4, WFMin
<1>6. PICK x \in S : \A c \in Below : ~ (<<c, n - x>> \in R)
  BY <1>5
<1>7. \A y \in S : y <= x
  <2> SUFFICES ASSUME NEW y \in S PROVE ~ (n - y < n - x)
    BY <1>3
  <2> QED
    BY <1>2, <1>3, <1>6
<1> QED
  BY <1>6, <1>7 DEF Max

\* One more at the end, and the first one gone.
LEMMA Queued ==
  ASSUME NEW T, NEW q \in Seq(T), NEW i \in T
  PROVE  Append(q, i) \in Seq(T) /\ ToSet(Append(q, i)) = ToSet(q) \cup {i}
<1> DEFINE d == Append(q, i)
<1>1. /\ d \in Seq(T) /\ Len(d) = Len(q) + 1
      /\ \A k \in 1..Len(q) : d[k] = q[k]
      /\ d[Len(q) + 1] = i
  BY AppendProperties
<1> HIDE DEF d
<1>2. DOMAIN d = 1..(Len(q) + 1) /\ DOMAIN q = 1..Len(q)
  BY <1>1
<1>3. ToSet(d) = ToSet(q) \cup {i}
  BY <1>1, <1>2 DEF ToSet
<1> QED
  BY <1>1, <1>3 DEF d

LEMMA Dequeued ==
  ASSUME NEW T, NEW q \in Seq(T), q # <<>>
  PROVE  /\ Head(q) \in T /\ Tail(q) \in Seq(T)
         /\ ToSet(q) = ToSet(Tail(q)) \cup {Head(q)}
<1> DEFINE d == Tail(q)
<1>1. /\ d \in Seq(T) /\ Len(d) = Len(q) - 1 /\ Len(q) \in Nat \ {0}
      /\ \A k \in 1..Len(d) : d[k] = q[k + 1]
  OBVIOUS
<1>2. Head(q) = q[1] /\ Head(q) \in T
  OBVIOUS
<1> HIDE DEF d
<1>3. DOMAIN d = 1..Len(d) /\ DOMAIN q = 1..Len(q)
  BY <1>1
<1>4. \A k \in 1..Len(q) : k = 1 \/ (k - 1 \in 1..Len(d) /\ d[k - 1] = q[k])
  BY <1>1
<1>5. ToSet(q) \subseteq ToSet(d) \cup {q[1]}
  BY <1>1, <1>3, <1>4 DEF ToSet
<1>6. 1 \in DOMAIN q /\ \A k \in 1..Len(d) : k + 1 \in DOMAIN q /\ d[k] = q[k + 1]
  BY <1>1, <1>3
<1>7. ToSet(d) \cup {q[1]} \subseteq ToSet(q)
  BY <1>3, <1>6 DEF ToSet
<1> QED
  BY <1>1, <1>2, <1>5, <1>7 DEF d

\* One gone from anywhere.
LEMMA Removed ==
  ASSUME NEW T, NEW q \in Seq(T), NEW k \in DOMAIN q
  PROVE  /\ q[k] \in T /\ RemoveAt(q, k) \in Seq(T)
         /\ ToSet(q) = ToSet(RemoveAt(q, k)) \cup {q[k]}
<1> DEFINE front == SubSeq(q, 1, k - 1)
           back  == SubSeq(q, k + 1, Len(q))
           d     == front \o back
<1>1. Len(q) \in Nat /\ k \in 1..Len(q) /\ DOMAIN q = 1..Len(q) /\ q[k] \in T
  OBVIOUS
<1>2. /\ front \in Seq(T) /\ Len(front) = k - 1
      /\ \A j \in 1..(k - 1) : front[j] = q[j]
  BY <1>1, SubSeqProperties
<1>3. /\ back \in Seq(T) /\ Len(back) = Len(q) - k
      /\ \A j \in 1..(Len(q) - k) : back[j] = q[k + j]
  <2>1. k + 1 \in 1..(Len(q) + 1)
    BY <1>1
  <2>2. \A j \in (k + 1)..Len(q) : q[j] \in T
    BY <1>1
  <2> QED
    BY <1>1, <2>1, <2>2
<1> HIDE DEF front, back
<1>4. /\ d \in Seq(T) /\ Len(d) = Len(q) - 1
      /\ \A j \in 1..(k - 1) : d[j] = q[j]
      /\ \A j \in k..(Len(q) - 1) : d[j] = q[j + 1]
  <2>1. /\ d \in Seq(T) /\ Len(d) = Len(front) + Len(back)
        /\ \A j \in 1..(Len(front) + Len(back)) :
             d[j] = IF j <= Len(front) THEN front[j] ELSE back[j - Len(front)]
    <3>1. front \in Seq(T) /\ back \in Seq(T)
      BY <1>2, <1>3
    <3> QED
      BY <3>1, ConcatProperties
  <2> HIDE DEF d
  <2>2. ASSUME NEW j \in k..(Len(q) - 1) PROVE d[j] = q[j + 1]
    <3>1. /\ j - (k - 1) \in 1..(Len(q) - k) /\ k + (j - (k - 1)) = j + 1
          /\ j \in 1..(Len(front) + Len(back)) /\ ~(j <= Len(front))
      BY <1>1, <1>2, <1>3
    <3>2. d[j] = back[j - (k - 1)]
      BY <1>2, <2>1, <3>1
    <3>3. back[j - (k - 1)] = q[k + (j - (k - 1))]
      BY <1>3, <3>1
    <3> QED
      BY <3>1, <3>2, <3>3
  <2>3. ASSUME NEW j \in 1..(k - 1) PROVE d[j] = q[j]
    <3>1. j \in 1..(Len(front) + Len(back)) /\ j <= Len(front)
      BY <1>1, <1>2, <1>3
    <3> QED
      BY <1>2, <2>1, <3>1
  <2>4. Len(d) = Len(q) - 1
    BY <1>1, <1>2, <1>3, <2>1
  <2> QED
    BY ONLY <2>1, <2>2, <2>3, <2>4
<1> HIDE DEF d
<1>5. DOMAIN d = 1..(Len(q) - 1)
  BY <1>1, <1>4
<1>6. ToSet(d) \cup {q[k]} \subseteq ToSet(q)
  BY <1>1, <1>4, <1>5 DEF ToSet
<1>7. ToSet(q) \subseteq ToSet(d) \cup {q[k]}
  <2> SUFFICES ASSUME NEW j \in 1..Len(q), j # k PROVE q[j] \in ToSet(d)
    BY <1>1 DEF ToSet
  <2>1. CASE j < k
    BY <1>1, <1>4, <1>5, <2>1 DEF ToSet
  <2>2. CASE j > k
    <3>1. j - 1 \in k..(Len(q) - 1) /\ j - 1 \in DOMAIN d /\ d[j - 1] = q[(j - 1) + 1]
      BY <1>1, <1>4, <1>5, <2>2
    <3> QED
      BY <3>1 DEF ToSet
  <2> QED
    BY <1>1, <2>1, <2>2
<1>8. RemoveAt(q, k) = d
  BY DEF RemoveAt, d, front, back
<1> QED
  BY <1>1, <1>4, <1>6, <1>7, <1>8

-----------------------------------------------------------------------------
(* The invariant: the world, and each loop by itself                       *)

WorldOK ==
  /\ tip \in 0..Len(Chain) /\ live \subseteq 1..tip
  /\ queue \in Seq(Transactions) /\ stored \in Seq(Transactions)
  /\ ToSet(queue) \cup ToSet(stored) \subseteq 1..tip
  /\ given_up \subseteq 1..tip /\ lost \subseteq 1..tip
  /\ faults \in 0..MaxFaults /\ crashes \in 0..MaxCrashes

\* The loops' variables are functions of the loops.
Tables ==
  /\ checkpoint = [l \in Loops |-> checkpoint[l]]
  /\ since = [l \in Loops |-> since[l]]
  /\ record = [l \in Loops |-> record[l]]
  /\ pc = [l \in Loops |-> pc[l]]
  /\ until = [l \in Loops |-> until[l]]
  /\ latest = [l \in Loops |-> latest[l]]
  /\ todo = [l \in Loops |-> todo[l]]
  /\ missing = [l \in Loops |-> missing[l]]
  /\ filled = [l \in Loops |-> filled[l]]

\* A loop's state has its types; it processes only while something is missing.
LoopOK(l) ==
  /\ checkpoint[l] \in 0..tip \cup {None} /\ since[l] \in 0..tip \cup {None}
  /\ record[l] \in Statuses /\ pc[l] \in Points
  /\ until[l] \in 0..tip /\ latest[l] \in 1..tip \cup {None}
  /\ filled[l] \in Nat
  /\ todo[l] \subseteq (until[l] + 1)..tip
  /\ missing[l] \subseteq (until[l] + 1)..tip
  /\ todo[l] # {} => pc[l] = "check"
  /\ missing[l] # {} => pc[l] \in {"check", "fill", "update"}
  /\ pc[l] = "fill" => missing[l] # {}

BackfillInv == WorldOK /\ Tables /\ \A l \in Loops : LoopOK(l)

LEMMA BackfillInvTypes == BackfillInv => BackfillTypeOK
  BY DEF BackfillInv, WorldOK, Tables, LoopOK, BackfillTypeOK, Statuses, Points

LEMMA BackfillInvInit == BackfillInit => BackfillInv
<1> SUFFICES ASSUME BackfillInit PROVE BackfillInv
  OBVIOUS
<1> USE BackfillAssumption DEF BackfillInit
<1>1. WorldOK
  <2>1. ToSet(<<>>) = {}
    BY DEF ToSet
  <2>2. <<>> \in Seq(Transactions) /\ Len(Chain) \in Nat
    OBVIOUS
  <2> QED
    BY <2>1, <2>2 DEF WorldOK
<1>2. Tables
  BY DEF Tables
<1>3. \A l \in Loops : LoopOK(l)
  BY DEF LoopOK, Statuses, Points, ZeroSignature
<1> QED
  BY <1>1, <1>2, <1>3 DEF BackfillInv

\* Everything about loop k is left alone.
Quiet(k) ==
  /\ checkpoint'[k] = checkpoint[k] /\ since'[k] = since[k]
  /\ record'[k] = record[k] /\ pc'[k] = pc[k]
  /\ until'[k] = until[k] /\ latest'[k] = latest[k]
  /\ todo'[k] = todo[k] /\ missing'[k] = missing[k] /\ filled'[k] = filled[k]

\* A step of one loop leaves the variables functions of the loops and the
\* other loops alone.
OnlyLoop(l) == Tables' /\ \A k \in Loops \ {l} : Quiet(k)

LEMMA OthersQuiet ==
  ASSUME Tables, NEW l \in Loops, Cycle(l) \/ UpdateFails(l)
  PROVE  OnlyLoop(l)
<1>1. CASE Tick(l)
  BY <1>1 DEF Tick, Tables, OnlyLoop, Quiet
<1>2. CASE Fetch(l)
  BY <1>2 DEF Fetch, Tables, OnlyLoop, Quiet
<1>3. CASE FetchFails(l)
  BY <1>3 DEF FetchFails, GiveUp, Tables, OnlyLoop, Quiet
<1>4. CASE LookUp(l)
  BY <1>4 DEF LookUp, Tables, OnlyLoop, Quiet
<1>5. CASE LookedUp(l)
  BY <1>5 DEF LookedUp, Tables, OnlyLoop, Quiet
<1>6. CASE Fill(l)
  BY <1>6 DEF Fill, Processed, Tables, OnlyLoop, Quiet
<1>7. CASE Update(l)
  BY <1>7 DEF Update, Tables, OnlyLoop, Quiet
<1>8. CASE UpdateFails(l)
  BY <1>8 DEF UpdateFails, GiveUp, Tables, OnlyLoop, Quiet
<1>9. CASE Complete(l)
  BY <1>9 DEF Complete, Tables, OnlyLoop, Quiet
<1>10. CASE UpdateCheckpoint(l)
  BY <1>10 DEF UpdateCheckpoint, Tables, OnlyLoop, Quiet
<1> QED
  BY <1>1, <1>2, <1>3, <1>4, <1>5, <1>6, <1>7, <1>8, <1>9, <1>10 DEF Cycle

\* What is no loop's step touches no loop, but for a crash.
LEMMA AllQuiet ==
  ASSUME Tables, Confirm \/ Write \/ Lose \/ (\E i \in Transactions : Live(i)) \/ UNCHANGED backfillVars
  PROVE  Tables' /\ \A k \in Loops : Quiet(k)
  BY DEF Confirm, Write, Lose, Live, backfillVars, Tables, Quiet

\* The chain only grows, and a loop left alone stays well.
LEMMA LoopStays ==
  ASSUME WorldOK, WorldOK', NEW k \in Loops, LoopOK(k), Quiet(k), tip <= tip'
  PROVE  LoopOK(k)'
<1>1. tip \in Nat /\ tip' \in Nat /\ until[k] \in Nat
  BY BackfillAssumption DEF WorldOK, LoopOK
<1>2. /\ 0..tip \subseteq 0..tip' /\ 1..tip \subseteq 1..tip'
      /\ (until[k] + 1)..tip \subseteq (until[k] + 1)..tip'
  BY <1>1
<1> QED
  BY <1>2 DEF LoopOK, Quiet

\* What a loop holds is on the chain.
LEMMA HeldIsOnChain ==
  ASSUME WorldOK, NEW l \in Loops, LoopOK(l)
  PROVE  /\ todo[l] # {} => Max(todo[l]) \in todo[l]
         /\ missing[l] # {} => Max(missing[l]) \in missing[l]
         /\ todo[l] \cup missing[l] \subseteq 1..tip
         /\ 1..tip \subseteq Transactions
<1>1. tip \in Nat /\ until[l] \in Nat
  BY BackfillAssumption DEF WorldOK, LoopOK
<1>2. todo[l] \in SUBSET (0..tip) /\ missing[l] \in SUBSET (0..tip)
  BY <1>1 DEF LoopOK
<1>3. todo[l] \cup missing[l] \subseteq 1..tip
  BY <1>1 DEF LoopOK
<1>4. 1..tip \subseteq Transactions
  BY <1>1, BackfillAssumption DEF WorldOK, Transactions
<1> QED
  BY <1>1, <1>2, <1>3, <1>4, GreatestOf

\* Handing a position in keeps the queue a queue of positions on the chain.
LEMMA HandedIn ==
  ASSUME WorldOK, NEW i \in 1..tip
  PROVE  /\ Submitted(i) \in Seq(Transactions)
         /\ ToSet(Submitted(i)) \subseteq 1..tip
         /\ ToSet(queue) \subseteq ToSet(Submitted(i))
         /\ i \in ToSet(Submitted(i)) \cup ToSet(stored)
<1>1. i \in Transactions /\ tip \in Nat
  BY BackfillAssumption DEF WorldOK, Transactions
<1>2. /\ Append(queue, i) \in Seq(Transactions)
      /\ ToSet(Append(queue, i)) = ToSet(queue) \cup {i}
  BY <1>1, Queued DEF WorldOK
<1> QED
  BY <1>2 DEF WorldOK, Submitted

\* The scan's lower end is a position on the chain, or before it.
LEMMA RangeIsOnChain ==
  ASSUME WorldOK, NEW l \in Loops, LoopOK(l)
  PROVE  ScanFrom(l) \in 0..tip
<1>1. tip \in Nat /\ stored \in Seq(Transactions) /\ ToSet(stored) \subseteq 1..tip
  BY BackfillAssumption DEF WorldOK
<1>2. DOMAIN stored \in SUBSET Nat /\ \A d \in DOMAIN stored : stored[d] \in 1..tip
  BY <1>1 DEF ToSet
<1>3. OfType(l) # {} => stored[Min(OfType(l))] \in 1..tip
  BY <1>2, LeastOf DEF OfType
<1> QED
  BY <1>1, <1>3 DEF ScanFrom, OldestEvent, ZeroSignature, LoopOK

LEMMA WorldStep == BackfillInv /\ [BackfillNext]_backfillVars => WorldOK'
<1> SUFFICES ASSUME BackfillInv, [BackfillNext]_backfillVars PROVE WorldOK'
  OBVIOUS
<1> USE BackfillAssumption
<1>t. WorldOK /\ Tables /\ (\A l \in Loops : LoopOK(l))
  BY DEF BackfillInv
<1>n. tip \in Nat /\ Len(Chain) \in Nat /\ tip <= Len(Chain)
  BY <1>t DEF WorldOK
<1>1. CASE Confirm
  <2>1. tip' \in 0..Len(Chain) /\ 1..tip \subseteq 1..tip'
    BY <1>1, <1>n DEF Confirm
  <2> QED
    BY <1>1, <1>t, <2>1 DEF Confirm, WorldOK
<1>2. CASE Write
  <2>1. /\ Head(queue) \in Transactions /\ Tail(queue) \in Seq(Transactions)
        /\ ToSet(queue) = ToSet(Tail(queue)) \cup {Head(queue)}
    BY <1>2, <1>t, Dequeued DEF Write, WorldOK
  <2>2. /\ stored' \in Seq(Transactions)
        /\ ToSet(stored') = ToSet(stored) \cup {Head(queue)}
    BY <1>2, <1>t, <2>1, Queued DEF Write, WorldOK
  <2> QED
    BY <1>2, <1>t, <2>1, <2>2 DEF Write, WorldOK
<1>3. ASSUME NEW i \in Transactions, Live(i) PROVE WorldOK'
  <2>1. i \in 1..tip
    BY <1>3, <1>n DEF Live, Transactions
  <2>2. queue' \in Seq(Transactions) /\ ToSet(queue') \subseteq 1..tip
    BY <1>3, <1>t, <2>1, HandedIn DEF Live
  <2> QED
    BY <1>3, <1>t, <2>1, <2>2 DEF Live, WorldOK
<1>4. CASE Crash
  <2>1. queue' \in Seq(Transactions) /\ ToSet(queue') = {}
    BY <1>4 DEF Crash, ToSet
  <2>2. lost' \subseteq 1..tip
    BY <1>4, <1>t DEF Crash, WorldOK
  <2>3. crashes' \in 0..MaxCrashes
    BY <1>4, <1>t DEF Crash, WorldOK
  <2> QED
    BY <1>4, <1>t, <2>1, <2>2, <2>3 DEF Crash, WorldOK
<1>8. CASE Lose
  <2>1. PICK k \in DOMAIN queue : queue' = RemoveAt(queue, k) /\ lost' = lost \cup {queue[k]}
    BY <1>8 DEF Lose
  <2>2. /\ queue[k] \in Transactions /\ RemoveAt(queue, k) \in Seq(Transactions)
        /\ ToSet(queue) = ToSet(RemoveAt(queue, k)) \cup {queue[k]}
    BY <1>t, Removed DEF WorldOK
  <2>3. /\ queue' \in Seq(Transactions) /\ ToSet(queue') \subseteq 1..tip
        /\ lost' \subseteq 1..tip
    BY <1>t, <2>1, <2>2 DEF WorldOK
  <2> QED
    BY <1>8, <1>t, <2>3 DEF Lose, WorldOK
<1>5. ASSUME NEW kind, Fails(kind) PROVE faults' \in 0..MaxFaults
  BY <1>5, <1>t DEF Fails, WorldOK
<1>6. ASSUME NEW l \in Loops, Cycle(l) \/ UpdateFails(l) PROVE WorldOK'
  <2>1. faults' \in 0..MaxFaults
    <3>1. faults' = faults \/ \E kind \in {"rpc", "database", "transaction"} : Fails(kind)
      BY <1>6
      DEF Cycle, Tick, Fetch, FetchFails, LookUp, LookedUp, Fill, Update, UpdateFails,
          Complete, UpdateCheckpoint
    <3> QED
      BY <1>5, <1>t, <3>1 DEF WorldOK
  <2>2. UNCHANGED <<tip, live, stored, crashes>>
    BY <1>6
    DEF Cycle, Tick, Fetch, FetchFails, LookUp, LookedUp, Fill, Update, UpdateFails,
        Complete, UpdateCheckpoint
  <2>l. lost' \subseteq lost
    BY <1>6
    DEF Cycle, Tick, Fetch, FetchFails, LookUp, LookedUp, Fill, Update, UpdateFails,
        Complete, UpdateCheckpoint
  <2>3. CASE Fetch(l)
    <3>1. until[l] \in Nat
      BY <1>t, <1>n DEF LoopOK
    <3>2. (until[l] + 1)..tip \subseteq 1..tip
      BY <1>n, <3>1
    <3>3. given_up' \subseteq 1..tip /\ queue' = queue
      BY <1>t, <2>3, <3>2 DEF Fetch, WorldOK
    <3> QED
      BY <1>t, <2>1, <2>2, <2>l, <3>3 DEF WorldOK
  <2>4. CASE Fill(l)
    <3> DEFINE i == Max(missing[l])
    <3>1. i \in missing[l] /\ i \in 1..tip
      BY <1>t, <2>4, HeldIsOnChain DEF Fill, LoopOK
    <3>2. /\ queue' = queue \/ queue' = Submitted(i)
          /\ given_up' = given_up \/ given_up' = given_up \cup {i}
      BY <2>4 DEF Fill, Processed
    <3> HIDE DEF i
    <3>3. queue' \in Seq(Transactions) /\ ToSet(queue') \subseteq 1..tip
      BY <1>t, <3>1, <3>2, HandedIn DEF WorldOK
    <3> QED
      BY <1>t, <2>1, <2>2, <2>l, <3>1, <3>2, <3>3 DEF WorldOK
  <2>5. CASE ~Fetch(l) /\ ~Fill(l)
    <3>1. UNCHANGED <<queue, given_up>>
      BY <1>6, <2>5
      DEF Cycle, Tick, FetchFails, LookUp, LookedUp, Update, UpdateFails, Complete,
          UpdateCheckpoint
    <3> QED
      BY <1>t, <2>1, <2>2, <2>l, <3>1 DEF WorldOK
  <2> QED
    BY <2>3, <2>4, <2>5
<1>7. CASE UNCHANGED backfillVars
  BY <1>7, <1>t DEF backfillVars, WorldOK
<1> QED
  BY <1>1, <1>2, <1>3, <1>4, <1>6, <1>7, <1>8 DEF BackfillNext

\* One step of a loop keeps it well.
LEMMA LoopStep ==
  ASSUME BackfillInv, WorldOK', NEW l \in Loops, Cycle(l) \/ UpdateFails(l)
  PROVE  LoopOK(l)'
<1> USE BackfillAssumption DEF Statuses, Points
<1>t. WorldOK /\ Tables /\ LoopOK(l)
  BY DEF BackfillInv
<1>n. tip \in Nat /\ until[l] \in 0..tip /\ Tables'
  BY <1>t, OthersQuiet DEF WorldOK, LoopOK, OnlyLoop
<1>1. CASE Tick(l)
  BY <1>1, <1>t, RangeIsOnChain DEF Tick, Tables, LoopOK
<1>2. CASE Fetch(l)
  <2>1. /\ Fetched(l) \subseteq (until[l] + 1)..tip
        /\ Fetched(l) # {} => tip \in 1..tip
    BY <1>n DEF Fetched
  <2> QED
    BY <1>2, <1>t, <2>1 DEF Fetch, Tables, LoopOK
<1>3. CASE FetchFails(l)
  BY <1>3, <1>t DEF FetchFails, GiveUp, Tables, LoopOK
<1>4. CASE LookUp(l)
  <2> DEFINE i == Max(todo[l])
  <2>1. i \in todo[l]
    BY <1>4, <1>t, HeldIsOnChain DEF LookUp
  <2>2. /\ pc[l] = "check"
        /\ todo' = [todo EXCEPT ![l] = @ \ {i}]
        /\ missing' = missing \/ missing' = [missing EXCEPT ![l] = @ \cup {i}]
        /\ UNCHANGED <<tip, checkpoint, since, record, pc, until, latest, filled>>
    BY <1>4 DEF LookUp
  <2> HIDE DEF i
  <2>3. todo'[l] \subseteq todo[l] /\ missing'[l] \subseteq missing[l] \cup {i}
    BY <1>t, <2>2 DEF Tables
  <2> QED
    BY <1>t, <2>1, <2>2, <2>3 DEF LoopOK
<1>5. CASE LookedUp(l)
  BY <1>5, <1>t DEF LookedUp, Tables, LoopOK
<1>6. CASE Fill(l)
  <2>1. /\ pc[l] = "fill" /\ missing'[l] \subseteq missing[l]
        /\ filled'[l] \in Nat
        /\ pc'[l] \in {"fill", "update"} /\ (missing'[l] = {} => pc'[l] = "update")
        /\ UNCHANGED <<tip, checkpoint, since, record, until, latest, todo>>
    BY <1>6, <1>t DEF Fill, Processed, Tables, LoopOK
  <2> QED
    BY <1>t, <2>1 DEF LoopOK
<1>7. CASE Update(l)
  BY <1>7, <1>t DEF Update, Tables, LoopOK
<1>8. CASE UpdateFails(l)
  BY <1>8, <1>t DEF UpdateFails, GiveUp, Tables, LoopOK
<1>9. CASE Complete(l)
  BY <1>9, <1>t DEF Complete, Tables, LoopOK
<1>10. CASE UpdateCheckpoint(l)
  <2>1. ScannedTo(l) \in 0..tip
    BY <1>t, <1>n DEF ScannedTo, LoopOK
  <2> QED
    BY <1>10, <1>t, <2>1 DEF UpdateCheckpoint, Tables, LoopOK
<1> QED
  BY <1>1, <1>2, <1>3, <1>4, <1>5, <1>6, <1>7, <1>8, <1>9, <1>10 DEF Cycle

LEMMA BackfillInvStep == BackfillInv /\ [BackfillNext]_backfillVars => BackfillInv'
<1> SUFFICES ASSUME BackfillInv, [BackfillNext]_backfillVars PROVE BackfillInv'
  OBVIOUS
<1>w. WorldOK /\ Tables /\ (\A k \in Loops : LoopOK(k)) /\ WorldOK' /\ tip \in Nat
  <2>1. WorldOK /\ Tables /\ \A k \in Loops : LoopOK(k)
    BY DEF BackfillInv
  <2>2. WorldOK'
    BY WorldStep
  <2>3. tip \in Nat
    BY <2>1, BackfillAssumption DEF WorldOK
  <2> QED
    BY <2>1, <2>2, <2>3
<1>1. CASE Confirm \/ Write \/ Lose \/ (\E i \in Transactions : Live(i)) \/ UNCHANGED backfillVars
  <2>1. tip <= tip'
    BY <1>1, <1>w DEF Confirm, Write, Lose, Live, backfillVars
  <2> QED
    BY <1>1, <1>w, <2>1, AllQuiet, LoopStays DEF BackfillInv
<1>2. CASE Crash
  <2>1. Tables'
    BY <1>2, <1>w DEF Crash, Tables
  <2>2. \A k \in Loops : LoopOK(k)'
    BY <1>2, <1>w DEF Crash, Tables, LoopOK, Points
  <2> QED
    BY <1>w, <2>1, <2>2 DEF BackfillInv
<1>3. ASSUME NEW l \in Loops, Cycle(l) \/ UpdateFails(l) PROVE BackfillInv'
  <2>1. Tables' /\ \A k \in Loops \ {l} : Quiet(k)
    BY <1>3, <1>w, OthersQuiet DEF OnlyLoop
  <2>2. tip' = tip
    BY <1>3
    DEF Cycle, Tick, Fetch, FetchFails, LookUp, LookedUp, Fill, Update, UpdateFails,
        Complete, UpdateCheckpoint
  <2>3. \A k \in Loops \ {l} : LoopOK(k)'
    BY <1>w, <2>1, <2>2, LoopStays
  <2>4. LoopOK(l)'
    BY <1>3, <1>w, LoopStep
  <2> QED
    BY <1>w, <2>1, <2>3, <2>4 DEF BackfillInv
<1> QED
  BY <1>1, <1>2, <1>3 DEF BackfillNext

\* Every variable of the backfill keeps its type, and a loop holds signatures
\* only while it looks them up or processes them.
THEOREM BackfillTyped == BackfillSpec => []BackfillTypeOK
  BY BackfillInvInit, BackfillInvStep, BackfillInvTypes, PTL DEF BackfillSpec

-----------------------------------------------------------------------------
(* The checkpoint moves forward only                                       *)

\* A scan in progress starts at the checkpoint, if there is one, and ends
\* above it; the first scan is remembered with the first checkpoint.
ForwardOK(l) ==
  /\ checkpoint[l] = None <=> since[l] = None
  /\ checkpoint[l] # None => since[l] <= checkpoint[l]
  /\ pc[l] # "idle" /\ checkpoint[l] # None => until[l] = checkpoint[l]
  /\ pc[l] # "idle" /\ latest[l] # None => until[l] <= latest[l]

ForwardInv == \A l \in Loops : ForwardOK(l)

LEMMA NoneIsNoPosition == \A n \in Nat : n # None
  BY BackfillAssumption

LEMMA ForwardStays ==
  ASSUME NEW k \in Loops, ForwardOK(k), Quiet(k)
  PROVE  ForwardOK(k)'
  BY DEF ForwardOK, Quiet

\* What a step of l does to the variables ForwardOK is about.
LEMMA LoopForward ==
  ASSUME BackfillInv, BackfillInv', NEW l \in Loops, ForwardOK(l), Cycle(l) \/ UpdateFails(l)
  PROVE  /\ ForwardOK(l)'
         /\ checkpoint[l] # None => checkpoint'[l] # None /\ checkpoint'[l] >= checkpoint[l]
<1> USE BackfillAssumption, NoneIsNoPosition
<1>t. Tables /\ LoopOK(l) /\ LoopOK(l)' /\ tip \in Nat
  BY DEF BackfillInv, WorldOK
<1>n. /\ until[l] \in Nat
      /\ checkpoint[l] \in Nat \cup {None} /\ since[l] \in Nat \cup {None}
      /\ latest[l] \in Nat \cup {None}
  BY <1>t DEF LoopOK
<1>1. CASE Tick(l)
  <2>1. /\ checkpoint' = checkpoint /\ since' = since
        /\ latest'[l] = None /\ until'[l] = ScanFrom(l)
    BY <1>1, <1>t DEF Tick, Tables
  <2> QED
    BY <1>n, <2>1 DEF ScanFrom, ForwardOK
<1>2. CASE Fetch(l)
  <2>1. /\ checkpoint' = checkpoint /\ since' = since /\ until' = until
        /\ pc[l] # "idle"
        /\ latest'[l] = IF Fetched(l) = {} THEN None ELSE tip
    BY <1>2, <1>t DEF Fetch, Tables
  <2>2. until[l] <= tip
    BY <1>t DEF LoopOK
  <2>3. latest'[l] # None => until[l] <= latest'[l]
    BY <2>1, <2>2
  <2> QED
    BY <1>n, <2>1, <2>3 DEF ForwardOK
<1>3. CASE UpdateCheckpoint(l)
  <2>1. /\ pc[l] = "checkpoint" /\ pc'[l] = "idle"
        /\ checkpoint'[l] = ScannedTo(l)
        /\ since'[l] = IF since[l] = None THEN until[l] ELSE since[l]
    BY <1>3, <1>t DEF UpdateCheckpoint, Tables
  <2>2. ScannedTo(l) \in Nat /\ ScannedTo(l) >= until[l]
    BY <1>n, <2>1 DEF ScannedTo, ForwardOK
  <2> QED
    BY <1>n, <2>1, <2>2 DEF ForwardOK
<1>4. CASE FetchFails(l) \/ UpdateFails(l)
  <2>1. checkpoint' = checkpoint /\ since' = since /\ pc'[l] = "idle"
    BY <1>4, <1>t DEF FetchFails, UpdateFails, GiveUp, Tables
  <2> QED
    BY <1>n, <2>1 DEF ForwardOK
<1>5. CASE LookUp(l) \/ LookedUp(l) \/ Fill(l) \/ Update(l) \/ Complete(l)
  <2>1. /\ checkpoint' = checkpoint /\ since' = since
        /\ until' = until /\ latest' = latest /\ pc[l] # "idle"
    BY <1>5 DEF LookUp, LookedUp, Fill, Update, Complete
  <2> QED
    BY <1>n, <2>1 DEF ForwardOK
<1> QED
  BY <1>1, <1>2, <1>3, <1>4, <1>5 DEF Cycle

LEMMA ForwardStep ==
  BackfillInv /\ BackfillInv' /\ ForwardInv /\ [BackfillNext]_backfillVars =>
    /\ ForwardInv'
    /\ \A l \in Loops : checkpoint[l] # None =>
         checkpoint'[l] # None /\ checkpoint'[l] >= checkpoint[l]
<1> SUFFICES ASSUME BackfillInv, BackfillInv', ForwardInv, [BackfillNext]_backfillVars,
                    NEW l \in Loops
             PROVE  /\ ForwardOK(l)'
                    /\ checkpoint[l] # None =>
                         checkpoint'[l] # None /\ checkpoint'[l] >= checkpoint[l]
  BY DEF ForwardInv
<1>t. Tables /\ ForwardOK(l) /\ checkpoint[l] \in Nat \cup {None}
  BY BackfillAssumption DEF BackfillInv, WorldOK, LoopOK, ForwardInv
<1>1. CASE Quiet(l)
  BY <1>1, <1>t, ForwardStays DEF Quiet
<1>2. CASE Crash
  <2>1. checkpoint' = checkpoint /\ since' = since /\ pc'[l] = "idle"
    BY <1>2 DEF Crash
  <2> QED
    BY <1>t, <2>1 DEF ForwardOK
<1>3. CASE Cycle(l) \/ UpdateFails(l)
  BY <1>3, <1>t, LoopForward
<1>4. CASE \E k \in Loops \ {l} : Cycle(k) \/ UpdateFails(k)
  BY <1>1, <1>4, <1>t, OthersQuiet DEF OnlyLoop
<1>5. CASE Confirm \/ Write \/ Lose \/ (\E i \in Transactions : Live(i)) \/ UNCHANGED backfillVars
  BY <1>1, <1>5, <1>t, AllQuiet
<1> QED
  BY <1>2, <1>3, <1>4, <1>5 DEF BackfillNext

\* A checkpoint, once set, is never taken back, whatever fails, whenever the
\* process crashes and whatever else is stored meanwhile.
THEOREM NeverTakenBack == BackfillSpec => CheckpointForward
<1>1. BackfillInit => ForwardInv
  BY DEF BackfillInit, ForwardInv, ForwardOK
<1>2. BackfillInv /\ BackfillInv' /\ ForwardInv /\ [BackfillNext]_backfillVars =>
        [\A l \in Loops : checkpoint[l] # None =>
           checkpoint'[l] # None /\ checkpoint'[l] >= checkpoint[l]]_backfillVars
  BY ForwardStep
<1> QED
  BY <1>1, <1>2, BackfillInvInit, BackfillInvStep, ForwardStep, PTL DEF BackfillSpec, CheckpointForward

-----------------------------------------------------------------------------
(* The checkpoint passes nothing that is not taken care of                 *)

Done == ToSet(queue) \cup ToSet(stored) \cup given_up \cup lost

\* Position i is no event of l, or is taken care of.
Settled(l, i) == Chain[i] = l /\ i \notin Reverted => i \in Done

\* Behind the checkpoint everything is settled; in the scan everything is
\* settled or still held by it.
Covered(l) ==
  /\ checkpoint[l] # None => \A i \in (since[l] + 1)..checkpoint[l] : Settled(l, i)
  /\ pc[l] \notin {"idle", "fetch"} /\ latest[l] # None =>
       \A i \in (until[l] + 1)..latest[l] : i \in todo[l] \cup missing[l] \/ Settled(l, i)

CoveredInv == \A l \in Loops \ Blind : Covered(l)

\* Nothing leaves the writer but for the database or the lost, and nothing is
\* forgotten but by a scan that begins.
LEMMA DoneGrows ==
  ASSUME BackfillInv, [BackfillNext]_backfillVars
  PROVE  /\ ToSet(queue) \cup ToSet(stored) \subseteq ToSet(queue') \cup ToSet(stored') \cup lost'
         /\ given_up \subseteq given_up'
         /\ lost \subseteq lost' \/ \E l \in Loops : Tick(l)
<1> USE BackfillAssumption
<1>t. WorldOK /\ \A l \in Loops : LoopOK(l)
  BY DEF BackfillInv
<1> DEFINE Goal == /\ ToSet(queue) \cup ToSet(stored) \subseteq
                        ToSet(queue') \cup ToSet(stored') \cup lost'
                   /\ given_up \subseteq given_up'
                   /\ lost \subseteq lost' \/ \E l \in Loops : Tick(l)
<1>1. CASE Write
  <2>1. Head(queue) \in Transactions /\ ToSet(queue) = ToSet(Tail(queue)) \cup {Head(queue)}
    BY <1>1, <1>t, Dequeued DEF Write, WorldOK
  <2>2. ToSet(stored') = ToSet(stored) \cup {Head(queue)}
    BY <1>1, <1>t, <2>1, Queued DEF Write, WorldOK
  <2> QED
    BY <1>1, <2>1, <2>2 DEF Write
<1>2. ASSUME NEW i \in Transactions, Live(i) PROVE Goal
  <2>1. i \in 1..tip
    BY <1>2, <1>t DEF Live, Transactions, WorldOK
  <2> QED
    BY <1>2, <1>t, <2>1, HandedIn DEF Live
<1>3. ASSUME NEW l \in Loops, Fill(l) PROVE Goal
  <2> DEFINE i == Max(missing[l])
  <2>1. i \in 1..tip
    BY <1>3, <1>t, HeldIsOnChain DEF Fill, LoopOK
  <2>2. /\ queue' = queue \/ queue' = Submitted(i)
        /\ given_up \subseteq given_up' /\ stored' = stored /\ lost' = lost
    BY <1>3 DEF Fill, Processed
  <2> HIDE DEF i
  <2>3. ToSet(queue) \subseteq ToSet(queue')
    BY <1>t, <2>1, <2>2, HandedIn
  <2> QED
    BY <2>2, <2>3
<1>4. CASE Lose
  <2>1. PICK k \in DOMAIN queue : queue' = RemoveAt(queue, k) /\ lost' = lost \cup {queue[k]}
    BY <1>4 DEF Lose
  <2>2. ToSet(queue) = ToSet(RemoveAt(queue, k)) \cup {queue[k]}
    BY <1>t, Removed DEF WorldOK
  <2> QED
    BY <1>4, <2>1, <2>2 DEF Lose
<1>5. ASSUME NEW l \in Loops, Cycle(l) \/ UpdateFails(l), ~Fill(l)
      PROVE  Goal
  <2>1. UNCHANGED <<queue, stored>> /\ given_up \subseteq given_up'
        /\ (lost' = lost \/ Tick(l))
    BY <1>5
    DEF Cycle, Tick, Fetch, FetchFails, LookUp, LookedUp, Update, UpdateFails, Complete,
        UpdateCheckpoint
  <2> QED
    BY <2>1
<1>6. CASE Confirm \/ UNCHANGED backfillVars
  BY <1>6 DEF Confirm, backfillVars
<1>7. CASE Crash
  BY <1>7 DEF Crash
<1> QED
  BY <1>1, <1>2, <1>3, <1>4, <1>5, <1>6, <1>7 DEF BackfillNext

\* So what is settled for l stays so until a scan of l begins, and then too
\* if the scan does not ask for it again.
LEMMA SettledStays ==
  ASSUME BackfillInv, [BackfillNext]_backfillVars, NEW l \in Loops, NEW i, Settled(l, i)
  PROVE  /\ ~Tick(l) => Settled(l, i)'
         /\ i <= ScanFrom(l) => Settled(l, i)'
<1> SUFFICES ASSUME Chain[i] = l, i \in Done, i \notin Done'
             PROVE  Tick(l) /\ ~(i <= ScanFrom(l))
  BY DEF Settled
<1>1. i \in lost /\ i \notin lost'
  BY DoneGrows DEF Done
<1>2. PICK k \in Loops : Tick(k)
  BY <1>1, DoneGrows
<1>3. Chain[i] = k /\ ~(i <= ScanFrom(k))
  BY <1>1, <1>2 DEF Tick
<1> QED
  BY <1>2, <1>3

LEMMA CoveredStays ==
  ASSUME NEW k \in Loops, Covered(k), Quiet(k), \A i : Settled(k, i) => Settled(k, i)'
  PROVE  Covered(k)'
  BY DEF Covered, Quiet

LEMMA LoopCovered ==
  ASSUME BackfillInv, BackfillInv', ForwardInv, NEW l \in Loops \ Blind, Covered(l),
         Cycle(l) \/ UpdateFails(l)
  PROVE  Covered(l)'
<1> USE BackfillAssumption, NoneIsNoPosition
<1>t. WorldOK /\ Tables /\ LoopOK(l) /\ LoopOK(l)' /\ tip \in Nat /\ l \in Loops /\ ForwardOK(l)
  BY DEF BackfillInv, WorldOK, ForwardInv
<1>n. /\ until[l] \in Nat
      /\ checkpoint[l] \in Nat \cup {None} /\ since[l] \in Nat \cup {None}
      /\ latest[l] \in Nat \cup {None}
  BY <1>t DEF LoopOK
<1>x. [BackfillNext]_backfillVars
  BY <1>t DEF BackfillNext
<1>s. \A i : Settled(l, i) /\ pc[l] # "idle" => Settled(l, i)'
  BY <1>t, <1>x, SettledStays DEF Tick
<1>1. CASE Tick(l)
  <2>1. checkpoint' = checkpoint /\ since' = since /\ pc'[l] = "fetch"
    BY <1>1, <1>t DEF Tick, Tables
  <2>2. ASSUME checkpoint[l] # None, NEW i \in (since[l] + 1)..checkpoint[l], Settled(l, i)
        PROVE  Settled(l, i)'
    <3>1. i <= ScanFrom(l)
      BY <1>n, <2>2 DEF ScanFrom, ForwardOK
    <3> QED
      BY <1>t, <1>x, <2>2, <3>1, SettledStays
  <2> QED
    BY <2>1, <2>2 DEF Covered
<1>2. CASE Fetch(l)
  <2>1. /\ checkpoint' = checkpoint /\ since' = since /\ until' = until
        /\ pc[l] = "fetch"
        /\ latest'[l] # None => latest'[l] = tip
        /\ todo'[l] = Fetched(l)
        /\ given_up' = given_up \cup ((until[l] + 1)..tip \ Fetched(l))
    BY <1>2, <1>t DEF Fetch, Tables
  <2>2. \A i \in (until[l] + 1)..tip : i \in todo'[l] \/ Settled(l, i)'
    BY <2>1 DEF Settled, Done
  <2> QED
    BY <1>s, <2>1, <2>2 DEF Covered
<1>3. CASE FetchFails(l) \/ UpdateFails(l)
  <2>1. checkpoint' = checkpoint /\ since' = since /\ pc'[l] = "idle" /\ pc[l] # "idle"
    BY <1>3, <1>t DEF FetchFails, UpdateFails, GiveUp, Tables
  <2> QED
    BY <1>s, <2>1 DEF Covered
<1>4. ASSUME UNCHANGED <<checkpoint, since, until, latest>>,
             pc[l] \notin {"idle", "fetch"},
             \A i \in todo[l] \cup missing[l] :
               i \in todo'[l] \cup missing'[l] \/ Settled(l, i)'
      PROVE  Covered(l)'
  BY <1>4, <1>s DEF Covered
<1>5. CASE LookUp(l)
  <2>0. PICK i : i = Max(todo[l])
    OBVIOUS
  <2>1. /\ UNCHANGED <<checkpoint, since, until, latest, queue, stored, given_up>>
        /\ pc[l] = "check"
        /\ todo' = [todo EXCEPT ![l] = @ \ {i}]
        /\ \/ SignatureExists(l, i) /\ missing' = missing
           \/ missing' = [missing EXCEPT ![l] = @ \cup {i}]
    BY <1>5, <2>0 DEF LookUp
  <2>2. SignatureExists(l, i) => i \in ToSet(stored)
    BY DEF SignatureExists, OfType, ToSet
  <2>3. /\ todo'[l] = todo[l] \ {i}
        /\ \/ i \in ToSet(stored) /\ missing'[l] = missing[l]
           \/ missing'[l] = missing[l] \cup {i}
    BY <1>t, <2>1, <2>2 DEF Tables
  <2>4. i \in ToSet(stored) => Settled(l, i)'
    BY <2>1 DEF Settled, Done
  <2> QED
    BY <1>4, <2>1, <2>3, <2>4
<1>6. CASE Fill(l)
  <2>0. PICK i : i = Max(missing[l])
    OBVIOUS
  <2>1. i \in 1..tip
    BY <1>6, <1>t, <2>0, HeldIsOnChain DEF Fill, LoopOK
  <2>2. /\ UNCHANGED <<checkpoint, since, until, latest, stored, todo>>
        /\ pc[l] = "fill"
        /\ missing'[l] = missing[l] \ {i}
        /\ \/ Chain[i] = None
           \/ queue' = Submitted(i)
           \/ i \in given_up'
    BY <1>6, <1>t, <2>0 DEF Fill, Processed, Tables
  <2>3. Chain[i] = None => Chain[i] # l
    OBVIOUS
  <2>4. Settled(l, i)'
    BY <1>t, <2>1, <2>2, <2>3, HandedIn DEF Settled, Done
  <2> QED
    BY <1>4, <2>2, <2>4
<1>7. CASE LookedUp(l) \/ Update(l) \/ Complete(l)
  <2>1. /\ UNCHANGED <<checkpoint, since, until, latest, todo, missing>>
        /\ pc[l] \notin {"idle", "fetch"}
    BY <1>7 DEF LookedUp, Update, Complete
  <2> QED
    BY <1>4, <2>1
<1>8. CASE UpdateCheckpoint(l)
  <2>1. /\ pc[l] = "checkpoint" /\ pc'[l] = "idle"
        /\ checkpoint'[l] = ScannedTo(l)
        /\ since'[l] = IF since[l] = None THEN until[l] ELSE since[l]
    BY <1>8, <1>t DEF UpdateCheckpoint, Tables
  <2>2. todo[l] = {} /\ missing[l] = {}
    BY <1>t, <2>1 DEF LoopOK
  <2>3. latest[l] # None => \A i \in (until[l] + 1)..latest[l] : Settled(l, i)
    BY <2>1, <2>2 DEF Covered
  <2>4. \A i \in (since'[l] + 1)..until[l] : Settled(l, i)
    BY <1>n, <1>t, <2>1 DEF ForwardOK, Covered
  <2>5. \A i \in (since'[l] + 1)..ScannedTo(l) : Settled(l, i)
    <3>1. CASE latest[l] = None
      BY <2>4, <3>1 DEF ScannedTo
    <3>2. CASE latest[l] # None
      <4>1. since'[l] \in Nat /\ latest[l] \in Nat /\ ScannedTo(l) = latest[l]
        BY <1>n, <2>1, <3>2 DEF ScannedTo
      <4> SUFFICES ASSUME NEW i \in (since'[l] + 1)..latest[l] PROVE Settled(l, i)
        BY <4>1
      <4>2. i \in (since'[l] + 1)..until[l] \/ i \in (until[l] + 1)..latest[l]
        BY <1>n, <4>1
      <4> QED
        BY <2>3, <2>4, <3>2, <4>2
    <3> QED
      BY <3>1, <3>2
  <2> QED
    BY <1>s, <2>1, <2>5 DEF Covered
<1> QED
  BY <1>1, <1>2, <1>3, <1>5, <1>6, <1>7, <1>8 DEF Cycle

LEMMA CoveredStep ==
  BackfillInv /\ BackfillInv' /\ ForwardInv /\ CoveredInv /\ [BackfillNext]_backfillVars => CoveredInv'
<1> SUFFICES ASSUME BackfillInv, BackfillInv', ForwardInv, CoveredInv, [BackfillNext]_backfillVars,
                    NEW l \in Loops \ Blind
             PROVE  Covered(l)'
  BY DEF CoveredInv
<1>t. Tables /\ Covered(l)
  BY DEF BackfillInv, CoveredInv
<1>s. \A i : Settled(l, i) /\ ~Tick(l) => Settled(l, i)'
  BY SettledStays
<1>1. CASE Crash
  <2>1. UNCHANGED <<checkpoint, since>> /\ pc'[l] = "idle" /\ crashes' = crashes + 1
    BY <1>1 DEF Crash
  <2>2. ~Tick(l)
    BY <1>1, BackfillAssumption DEF Crash, Tick, BackfillInv, WorldOK
  <2> QED
    BY <1>t, <1>s, <2>1, <2>2 DEF Covered
<1>2. CASE Cycle(l) \/ UpdateFails(l)
  BY <1>2, <1>t, LoopCovered
<1>3. CASE Quiet(l) /\ ~Tick(l)
  BY <1>3, <1>t, <1>s, CoveredStays
<1>4. CASE \E k \in Loops \ {l} : Cycle(k) \/ UpdateFails(k)
  BY <1>2, <1>3, <1>4, <1>t, OthersQuiet DEF OnlyLoop, Cycle
<1>5. CASE Confirm \/ Write \/ Lose \/ (\E i \in Transactions : Live(i)) \/ UNCHANGED backfillVars
  BY <1>2, <1>3, <1>5, <1>t, AllQuiet DEF Cycle
<1> QED
  BY <1>1, <1>2, <1>4, <1>5 DEF BackfillNext

\* A checkpoint vouches for every event of its type it passed since the first
\* scan: it is stored or with the writer, unless a scan gave it up (a failed
\* transaction, a backlog beyond one request) or it was lost, by the writer or
\* in a crash, after the last scan that asked for it had begun.
THEOREM CheckpointVouches == BackfillSpec => []CheckpointCovers
<1>1. BackfillInit => ForwardInv /\ CoveredInv
  BY DEF BackfillInit, ForwardInv, ForwardOK, CoveredInv, Covered
<1>2. CoveredInv => CheckpointCovers
  BY DEF CoveredInv, Covered, Settled, Done, CheckpointCovers
<1> QED
  BY <1>1, <1>2, BackfillInvInit, BackfillInvStep, ForwardStep, CoveredStep, PTL DEF BackfillSpec
===============================================================================
