------------------------- MODULE ProjectTokenProofs -------------------------
(***************************************************************************)
(* Proofs about a project's token, for any number of callers, deposits,    *)
(* requests, repetitions and failures: types, that a launch is migrated    *)
(* once, that the amount a project shows is backed by a row, and that a    *)
(* deposit finds the document of the token it came with.                   *)
(***************************************************************************)
EXTENDS ProjectToken, TLAPS

\* The steps that leave the launch alone.
LEMMA LaunchElsewhere ==
  ASSUME [Next]_vars
  PROVE  \/ /\ Launch \in stored => Launch \in stored'
            /\ Launch \notin stored => Launch \notin stored'
            /\ migrating' = migrating /\ triggered' = triggered
         \/ \E w \in Writers : Insert(w)
         \/ Migrate
         \/ Crash
<1> USE DEF intake, launching
<1> DEFINE Same == stored' = stored /\ migrating' = migrating
                   /\ triggered' = triggered
<1>1. ASSUME NEW e \in Events, Deliver(e) PROVE Same
  BY <1>1 DEF Deliver
<1>2. ASSUME NEW w \in Writers, Store(w), ~Insert(w) PROVE Same
  BY <1>2 DEF Store, Take, Write, Check, FindToken, PushCreation, WriterFails
<1>3. ASSUME NEW d \in Deposits, Task(d) PROVE Same
  BY <1>3 DEF Task, TaskFind, TaskWrite, TaskFails
<1>4. ASSUME NEW p \in Pushes, Request(p) PROVE Same
  BY <1>4 DEF Request, PushFind, PushWrite, PushFails
<1>5. CASE UNCHANGED vars
  BY <1>5 DEF vars
<1> HIDE DEF Same
<1>6. Same => /\ Launch \in stored => Launch \in stored'
              /\ Launch \notin stored => Launch \notin stored'
              /\ migrating' = migrating /\ triggered' = triggered
  BY DEF Same
<1> QED
  BY <1>1, <1>2, <1>3, <1>4, <1>5, <1>6 DEF Next

-----------------------------------------------------------------------------
(* A launch is migrated once                                               *)

\* A call is under way or has been made only for a launch with a row, and
\* never both.
OneCall ==
  /\ triggered \in {0, 1}
  /\ migrating = "call" => triggered = 0
  /\ Launch \notin stored => triggered = 0 /\ migrating = "idle"

LEMMA OneCallStep == OneCall /\ [Next]_vars => OneCall'
<1> SUFFICES ASSUME OneCall, [Next]_vars PROVE OneCall'
  OBVIOUS
<1> USE DEF intake, launching
<1>1. ASSUME NEW w \in Writers, Insert(w) PROVE OneCall'
  <2>1. CASE writer[w].event \in stored
    BY <1>1, <2>1 DEF Insert, OneCall
  <2>2. CASE writer[w].event \notin stored
    <3>1. /\ stored' = stored \cup {writer[w].event}
          /\ Spawn(writer[w].event, writer[w].withCreation)
          /\ triggered' = triggered
      BY <1>1, <2>2 DEF Insert
    <3>2. CASE writer[w].event = Launch
      BY <2>2, <3>1, <3>2 DEF Spawn, OneCall
    <3>3. CASE writer[w].event # Launch
      BY <3>1, <3>3 DEF Spawn, OneCall
    <3> QED
      BY <3>2, <3>3
  <2> QED
    BY <2>1, <2>2
<1>2. CASE Migrate
  <2>1. CASE Trigger
    BY <2>1 DEF Trigger, OneCall
  <2>2. CASE UpdateStatus \/ UpdateStatusFails
    BY <2>2 DEF UpdateStatus, UpdateStatusFails, OneCall
  <2> QED
    BY <1>2, <2>1, <2>2 DEF Migrate
<1>3. CASE Crash
  BY <1>3 DEF Crash, OneCall
<1>4. ASSUME Launch \in stored => Launch \in stored',
             Launch \notin stored => Launch \notin stored',
             migrating' = migrating, triggered' = triggered
      PROVE  OneCall'
  BY <1>4 DEF OneCall
<1> QED
  BY <1>1, <1>2, <1>3, <1>4, LaunchElsewhere

\* However often a launch is handed in, to however many callers, before or
\* after crashes and failing calls, the migration service is called once.
THEOREM LaunchMigratesOnce == Spec => []MigratedOnce
<1>1. Init => OneCall
  BY DEF Init, OneCall
<1>2. OneCall => MigratedOnce
  BY DEF OneCall, MigratedOnce
<1> QED
  BY <1>1, <1>2, OneCallStep, PTL DEF Spec

-----------------------------------------------------------------------------
(* What a project shows is backed by a row                                 *)

\* A document's amount is that of a deposit with a row.
Backed(t) ==
  t # None /\ t.total \in Totals =>
    [kind |-> "deposit", total |-> t.total] \in stored

\* So are the documents push requests have read, and a deposit's task runs
\* only once its row is there.
AllBacked ==
  /\ token \in Tokens \cup {None} /\ Backed(token)
  /\ push \in [Pushes -> [pc: {"idle", "write", "done"},
                          seen: Tokens \cup {None}]]
  /\ \A p \in Pushes : Backed(push[p].seen)
  /\ DOMAIN task = Deposits
  /\ \A d \in Deposits : task[d] \in {"find", "write"} => d \in stored

\* Rows are only added.
LEMMA RowsStay == [Next]_vars => stored \subseteq stored'
<1> SUFFICES ASSUME [Next]_vars PROVE stored \subseteq stored'
  OBVIOUS
<1> USE DEF intake, launching
<1>1. ASSUME NEW e \in Events, Deliver(e) PROVE stored \subseteq stored'
  BY <1>1 DEF Deliver
<1>2. ASSUME NEW w \in Writers, Store(w) PROVE stored \subseteq stored'
  <2>1. CASE Insert(w)
    BY <2>1 DEF Insert
  <2>2. CASE ~Insert(w)
    BY <1>2, <2>2 DEF Store, Take, Write, Check, FindToken, PushCreation,
                      WriterFails
  <2> QED
    BY <2>1, <2>2
<1>3. ASSUME NEW d \in Deposits, Task(d) PROVE stored \subseteq stored'
  BY <1>3 DEF Task, TaskFind, TaskWrite, TaskFails
<1>4. CASE Migrate
  BY <1>4 DEF Migrate, Trigger, UpdateStatus, UpdateStatusFails
<1>5. ASSUME NEW p \in Pushes, Request(p) PROVE stored \subseteq stored'
  BY <1>5 DEF Request, PushFind, PushWrite, PushFails
<1>6. CASE Crash
  BY <1>6 DEF Crash
<1>7. CASE UNCHANGED vars
  BY <1>7 DEF vars
<1> QED
  BY <1>1, <1>2, <1>3, <1>4, <1>5, <1>6, <1>7 DEF Next

LEMMA AllBackedStep == AllBacked /\ [Next]_vars => AllBacked'
<1> SUFFICES ASSUME AllBacked, [Next]_vars PROVE AllBacked'
  OBVIOUS
<1> USE DEF intake, launching
<1> DEFINE Requests == [Pushes -> [pc: {"idle", "write", "done"},
                                   seen: Tokens \cup {None}]]
<1>r. stored \subseteq stored'
  BY RowsStay
<1>z. Totals \subseteq Nat \ {0} /\ None \notin Nat
  BY ProjectTokenAssumption
<1>k. ASSUME token' = token, push' = push, task' = task PROVE AllBacked'
  BY <1>k, <1>r DEF AllBacked, Backed
<1>1. ASSUME NEW e \in Events, Deliver(e) PROVE AllBacked'
  BY <1>1, <1>k DEF Deliver
<1>2. ASSUME NEW w \in Writers, Take(w) \/ Check(w) \/ FindToken(w)
                                \/ WriterFails(w)
      PROVE  AllBacked'
  BY <1>2, <1>k DEF Take, Check, FindToken, WriterFails
<1>3. ASSUME NEW w \in Writers, Insert(w) PROVE AllBacked'
  <2>1. token' = token /\ push' = push
    BY <1>3 DEF Insert
  <2>2. \/ task' = task
        \/ /\ writer[w].event \in stored'
           /\ task' = [task EXCEPT ![writer[w].event] = "find"]
    BY <1>3 DEF Insert, Spawn
  <2>3. /\ DOMAIN task' = Deposits
        /\ \A d \in Deposits : task'[d] \in {"find", "write"} => d \in stored'
    BY <1>r, <2>2 DEF AllBacked
  <2>4. /\ token' \in Tokens \cup {None} /\ Backed(token)'
        /\ push' \in Requests /\ \A p \in Pushes : Backed(push[p].seen)'
    BY <1>r, <2>1 DEF AllBacked, Backed
  <2> QED
    BY <2>3, <2>4 DEF AllBacked
<1>4. ASSUME NEW w \in Writers, PushCreation(w) PROVE AllBacked'
  <2>1. token' = [total |-> 0] /\ push' = push /\ task' = task
        /\ stored' = stored
    BY <1>4 DEF PushCreation
  <2>2. token' \in Tokens /\ token'.total \notin Totals
    BY <1>z, <2>1 DEF Tokens
  <2>3. Backed(token)'
    BY <2>2 DEF Backed
  <2> QED
    BY <2>1, <2>2, <2>3 DEF AllBacked, Backed
<1>5. ASSUME NEW d \in Deposits, TaskFind(d) \/ TaskFails(d) PROVE AllBacked'
  <2>1. token' = token /\ push' = push /\ stored' = stored
    BY <1>5 DEF TaskFind, TaskFails
  <2>2. /\ DOMAIN task' = Deposits
        /\ \A x \in Deposits : task'[x] \in {"find", "write"} =>
                                 task[x] \in {"find", "write"}
    BY <1>5 DEF TaskFind, TaskFails, AllBacked
  <2> QED
    BY <2>1, <2>2 DEF AllBacked, Backed
<1>6. ASSUME NEW d \in Deposits, TaskWrite(d) PROVE AllBacked'
  <2>1. push' = push /\ stored' = stored /\ d \in stored
        /\ task' = [task EXCEPT ![d] = "done"]
        /\ token' = IF token = None THEN None ELSE Merged(token, d)
    BY <1>6 DEF TaskWrite, AllBacked
  <2>2. d = [kind |-> "deposit", total |-> d.total] /\ d.total \in Totals
    BY DEF Deposits
  <2>3. token # None => token' = [total |-> d.total]
    BY <2>1 DEF Merged, AllBacked, Tokens
  <2>4. token' \in Tokens \cup {None}
    BY <2>1, <2>2, <2>3 DEF Tokens
  <2>5. Backed(token)'
    BY <2>1, <2>2, <2>3 DEF Backed
  <2>6. /\ DOMAIN task' = Deposits
        /\ \A x \in Deposits : task'[x] \in {"find", "write"} => x \in stored'
    BY <2>1 DEF AllBacked
  <2> QED
    BY <2>1, <2>4, <2>5, <2>6 DEF AllBacked, Backed
<1>7. CASE Migrate
  BY <1>7, <1>k DEF Migrate, Trigger, UpdateStatus, UpdateStatusFails
<1>8. ASSUME NEW p \in Pushes, PushFind(p) PROVE AllBacked'
  <2>1. token' = token /\ task' = task /\ stored' = stored
    BY <1>8 DEF PushFind
  <2>2. /\ push' \in Requests
        /\ \A q \in Pushes : push'[q].seen \in {push[q].seen, token}
    BY <1>8 DEF PushFind, AllBacked
  <2>3. \A q \in Pushes : Backed(push[q].seen)'
    BY <2>1, <2>2 DEF AllBacked, Backed
  <2> QED
    BY <2>1, <2>2, <2>3 DEF AllBacked, Backed
<1>9. ASSUME NEW p \in Pushes, PushWrite(p) PROVE AllBacked'
  <2>1. task' = task /\ stored' = stored
        /\ push' = [push EXCEPT ![p] = [pc |-> "done", seen |-> None]]
        /\ token' \in {[total |-> None], push[p].seen}
    BY <1>9 DEF PushWrite
  <2>2. token' \in Tokens \cup {None} /\ Backed(token)'
    BY <1>z, <2>1 DEF AllBacked, Backed, Tokens
  <2>3. /\ push' \in Requests
        /\ \A q \in Pushes : push'[q].seen \in {push[q].seen, None}
    BY <2>1 DEF AllBacked
  <2> QED
    BY <2>1, <2>2, <2>3 DEF AllBacked, Backed
<1>10. ASSUME NEW p \in Pushes, PushFails(p) PROVE AllBacked'
  <2>1. task' = task /\ stored' = stored /\ token' = token
        /\ push' = [push EXCEPT ![p] = [pc |-> "done", seen |-> None]]
    BY <1>10 DEF PushFails
  <2>2. /\ push' \in Requests
        /\ \A q \in Pushes : push'[q].seen \in {push[q].seen, None}
    BY <2>1 DEF AllBacked
  <2> QED
    BY <2>1, <2>2 DEF AllBacked, Backed
<1>11. CASE Crash
  <2>1. token' = token /\ stored' = stored /\ DOMAIN task' = Deposits
        /\ push' \in Requests
    BY <1>11 DEF Crash, AllBacked
  <2>2. \A x \in Deposits : task'[x] \in {"idle", "done"}
    BY <1>11 DEF Crash
  <2>3. \A q \in Pushes : push'[q].seen \in {push[q].seen, None}
    BY <1>11 DEF Crash
  <2> QED
    BY <2>1, <2>2, <2>3 DEF AllBacked, Backed
<1>12. CASE UNCHANGED vars
  BY <1>12, <1>k DEF vars
<1> HIDE DEF AllBacked
<1> QED
  BY <1>1, <1>2, <1>3, <1>4, <1>5, <1>6, <1>7, <1>8, <1>9, <1>10, <1>11, <1>12
     DEF Next, Store, Write, Task, Request

\* The amount raised that a project shows is that of a deposit with a row,
\* however tasks, pushes, failures and crashes interleave.
THEOREM RaisedComesFromRows == Spec => []RaisedIsBacked
<1>1. Init => AllBacked
  BY DEF Init, AllBacked, Backed
<1>2. AllBacked => RaisedIsBacked
  <2> SUFFICES ASSUME AllBacked, token # None, token.total \in Totals
               PROVE  \E d \in stored : d.kind = "deposit"
                                        /\ d.total = token.total
    BY DEF RaisedIsBacked
  <2> DEFINE row == [kind |-> "deposit", total |-> token.total]
  <2>1. row \in stored
    BY DEF AllBacked, Backed
  <2>2. row.kind = "deposit" /\ row.total = token.total
    OBVIOUS
  <2> QED
    BY <2>1, <2>2
<1> QED
  BY <1>1, <1>2, AllBackedStep, PTL DEF Spec

-----------------------------------------------------------------------------
(* Types                                                                   *)

States  == [pc: {"idle", "next", "insert", "token", "push"}, batch: SUBSET Events,
            withCreation: BOOLEAN, event: Events \cup {None}]
AtWork(r) == /\ r.pc = "idle" <=> r.batch = {}
             /\ r.pc \in {"insert", "token", "push"} => r.event \in r.batch
Phases  == {"idle", "find", "write", "missed", "done"}
PushStates == [pc: {"idle", "write", "done"}, seen: Tokens \cup {None}]

\* A caller that is through with an event has the others left, or rests.
LEMMA LeftIsState ==
  ASSUME NEW r \in States, r.batch # {}, NEW e \in Events
  PROVE  Left(r, e) \in States /\ AtWork(Left(r, e))
<1>1. CASE r.batch = {e}
  BY <1>1 DEF Left, Resting, States, AtWork
<1>2. CASE r.batch # {e}
  <2>1. r.batch \ {e} # {}
    BY <1>2
  <2> QED
    BY <1>2, <2>1 DEF Left, States, AtWork
<1> QED
  BY <1>1, <1>2

LEMMA EventsThere == Creation \in Events /\ Launch \in Events /\ Deposits \subseteq Events
BY DEF Events

LEMMA TypeInit == Init => TypeOK
<1> SUFFICES ASSUME Init PROVE TypeOK
  OBVIOUS
<1>1. MaxFaults \in Nat /\ MaxCrashes \in Nat
  BY ProjectTokenAssumption
<1>2. Resting \in States /\ AtWork(Resting)
  BY DEF Resting, States, AtWork
<1>3. handed \in [Events -> Nat] /\ faults \in 0..MaxFaults /\ crashes \in 0..MaxCrashes
  BY <1>1 DEF Init
<1>4. writer \in [Writers -> States] /\ \A w \in Writers : AtWork(writer[w])
  BY <1>2 DEF Init
<1> QED
  BY <1>3, <1>4 DEF Init, TypeOK, States, AtWork

LEMMA TypeStep == TypeOK /\ [Next]_vars => TypeOK'
<1> SUFFICES ASSUME TypeOK, [Next]_vars PROVE TypeOK'
  OBVIOUS
<1> USE DEF intake, launching
<1>t. /\ waiting \subseteq Events /\ handed \in [Events -> Nat]
      /\ writer \in [Writers -> States] /\ \A w \in Writers : AtWork(writer[w])
      /\ stored \subseteq Events /\ token \in Tokens \cup {None}
      /\ task \in [Deposits -> Phases] /\ together \subseteq Deposits
      /\ migration \in {None, "pending", "success", "failed"}
      /\ migrating \in {"idle", "call", "success", "failed"} /\ triggered \in Nat
      /\ push \in [Pushes -> PushStates]
      /\ faults \in 0..MaxFaults /\ crashes \in 0..MaxCrashes
  BY DEF TypeOK, States, AtWork, Phases, PushStates
<1>z. MaxFaults \in Nat /\ MaxCrashes \in Nat
  BY ProjectTokenAssumption
<1>f. ASSUME NEW who, Fails(who) PROVE faults' \in 0..MaxFaults
  BY <1>f, <1>t, <1>z DEF Fails
<1>k. ASSUME /\ waiting' \subseteq Events /\ handed' \in [Events -> Nat]
             /\ writer' \in [Writers -> States] /\ \A w \in Writers : AtWork(writer'[w])
             /\ stored' \subseteq Events /\ token' \in Tokens \cup {None}
             /\ task' \in [Deposits -> Phases] /\ together' \subseteq Deposits
             /\ migration' \in {None, "pending", "success", "failed"}
             /\ migrating' \in {"idle", "call", "success", "failed"}
             /\ triggered' \in Nat
             /\ push' \in [Pushes -> PushStates]
             /\ faults' \in 0..MaxFaults /\ crashes' \in 0..MaxCrashes
      PROVE  TypeOK'
  BY <1>k DEF TypeOK, States, AtWork, Phases, PushStates
<1>d. ASSUME NEW w \in Writers, writer[w].pc # "idle", NEW e \in Events, Done(w, e)
      PROVE  writer' \in [Writers -> States] /\ \A v \in Writers : AtWork(writer'[v])
  <2>1. Left(writer[w], e) \in States /\ AtWork(Left(writer[w], e))
    BY <1>t, <1>d, LeftIsState DEF AtWork
  <2> QED
    BY <1>t, <1>d, <2>1 DEF Done
<1>s. ASSUME NEW w \in Writers, NEW r \in States, AtWork(r),
             writer' = [writer EXCEPT ![w] = r]
      PROVE  writer' \in [Writers -> States] /\ \A v \in Writers : AtWork(writer'[v])
  BY <1>t, <1>s
<1>1. ASSUME NEW e \in Events, Deliver(e) PROVE TypeOK'
  <2>1. waiting' \subseteq Events /\ handed' \in [Events -> Nat]
    BY <1>1, <1>t DEF Deliver
  <2> QED
    BY <1>1, <1>t, <1>k, <2>1 DEF Deliver
<1>2. ASSUME NEW w \in Writers, Take(w) PROVE TypeOK'
  <2>1. PICK batch \in (SUBSET waiting) \ {{}} :
          /\ writer' = [writer EXCEPT ![w] =
               [pc |-> "next", batch |-> batch,
                withCreation |-> Creation \in batch, event |-> None]]
          /\ waiting' = waiting \ batch
    BY <1>2 DEF Take
  <2> DEFINE r == [pc |-> "next", batch |-> batch,
                   withCreation |-> Creation \in batch, event |-> None]
  <2>2. r \in States /\ AtWork(r)
    <3>1. batch \in SUBSET Events /\ batch # {}
      BY <1>t
    <3>2. ASSUME NEW c \in BOOLEAN
          PROVE  LET s == [pc |-> "next", batch |-> batch, withCreation |-> c,
                           event |-> None]
                 IN  s \in States /\ AtWork(s)
      BY <3>1 DEF States, AtWork
    <3>3. (Creation \in batch) \in BOOLEAN
      OBVIOUS
    <3> QED
      BY <3>2, <3>3, Zenon
  <2> HIDE DEF r
  <2>3. writer' \in [Writers -> States] /\ \A v \in Writers : AtWork(writer'[v])
    BY <1>s, <2>1, <2>2 DEF r
  <2>4. waiting' \subseteq Events
    BY <1>t, <2>1
  <2> QED
    BY <1>2, <1>t, <1>k, <2>3, <2>4 DEF Take
<1>3. ASSUME NEW w \in Writers, Check(w) PROVE TypeOK'
  <2>1. PICK e \in Foremost(writer[w].batch) :
          IF e \in stored /\ e # Creation THEN Done(w, e)
          ELSE writer' = [writer EXCEPT ![w].event = e,
                 ![w].pc = IF e \in stored THEN "token" ELSE "insert"]
    BY <1>3 DEF Check
  <2>2. e \in writer[w].batch /\ e \in Events /\ writer[w].pc = "next"
    BY <1>3, <1>t DEF Foremost, Check, States
  <2>3. writer' \in [Writers -> States] /\ \A v \in Writers : AtWork(writer'[v])
    <3>1. CASE e \in stored /\ e # Creation
      BY <1>d, <2>1, <2>2, <3>1
    <3>2. CASE ~(e \in stored /\ e # Creation)
      <4> DEFINE r == [writer[w] EXCEPT !.event = e,
                                        !.pc = IF e \in stored THEN "token" ELSE "insert"]
      <4>1. writer[w] \in States /\ AtWork(writer[w])
        BY <1>t
      <4>2. r \in States /\ AtWork(r)
        BY <2>2, <4>1 DEF States, AtWork
      <4>3. writer' = [writer EXCEPT ![w] = r]
        BY <2>1, <3>2
      <4> HIDE DEF r
      <4> QED
        BY <1>s, <4>2, <4>3
    <3> QED
      BY <3>1, <3>2
  <2> QED
    BY <1>3, <1>t, <1>k, <2>3 DEF Check
<1>4. ASSUME NEW w \in Writers, Insert(w) PROVE TypeOK'
  <2> DEFINE e == writer[w].event
  <2>1. e \in Events /\ e \in writer[w].batch /\ writer[w].pc = "insert"
        /\ writer[w].withCreation \in BOOLEAN
    BY <1>4, <1>t DEF Insert, AtWork, States
  <2>2. Done(w, e) \/ writer' = [writer EXCEPT ![w].pc = "token"]
    BY <1>4 DEF Insert
  <2>3. writer' \in [Writers -> States] /\ \A v \in Writers : AtWork(writer'[v])
    <3>1. CASE Done(w, e)
      BY <1>d, <2>1, <3>1
    <3>2. CASE writer' = [writer EXCEPT ![w].pc = "token"]
      <4> DEFINE r == [writer[w] EXCEPT !.pc = "token"]
      <4>1. writer[w] \in States /\ AtWork(writer[w])
        BY <1>t
      <4>2. r \in States /\ AtWork(r)
        BY <2>1, <4>1 DEF States, AtWork
      <4>3. writer' = [writer EXCEPT ![w] = r]
        BY <3>2
      <4> HIDE DEF r
      <4> QED
        BY <1>s, <4>2, <4>3
    <3> QED
      BY <2>2, <3>1, <3>2
  <2>4. \/ UNCHANGED <<stored, task, together, migration, migrating>>
        \/ stored' = stored \cup {e} /\ Spawn(e, writer[w].withCreation)
    BY <1>4 DEF Insert
  <2>5. stored' \subseteq Events /\ task' \in [Deposits -> Phases]
    BY <1>t, <2>1, <2>4 DEF Spawn, Phases
  <2>6. together' \subseteq Deposits
    BY <1>t, <2>4 DEF Spawn
  <2>7. /\ migration' \in {None, "pending", "success", "failed"}
        /\ migrating' \in {"idle", "call", "success", "failed"}
    BY <1>t, <2>4 DEF Spawn
  <2> QED
    BY <1>4, <1>t, <1>k, <2>3, <2>5, <2>6, <2>7 DEF Insert
<1>5. ASSUME NEW w \in Writers, FindToken(w) PROVE TypeOK'
  <2>1. writer[w].pc = "token"
        /\ (writer' = [writer EXCEPT ![w].pc = "push"] \/ Done(w, Creation))
    BY <1>5 DEF FindToken
  <2>2. writer' \in [Writers -> States] /\ \A v \in Writers : AtWork(writer'[v])
    <3>1. CASE Done(w, Creation)
      BY <1>d, <2>1, <3>1, EventsThere
    <3>2. CASE writer' = [writer EXCEPT ![w].pc = "push"]
      <4> DEFINE r == [writer[w] EXCEPT !.pc = "push"]
      <4>1. writer[w] \in States /\ AtWork(writer[w])
        BY <1>t
      <4>2. r \in States /\ AtWork(r)
        BY <2>1, <4>1 DEF States, AtWork
      <4>3. writer' = [writer EXCEPT ![w] = r]
        BY <3>2
      <4> HIDE DEF r
      <4> QED
        BY <1>s, <4>2, <4>3
    <3> QED
      BY <2>1, <3>1, <3>2
  <2> QED
    BY <1>5, <1>t, <1>k, <2>2 DEF FindToken
<1>6. ASSUME NEW w \in Writers, PushCreation(w) PROVE TypeOK'
  <2>1. writer' \in [Writers -> States] /\ \A v \in Writers : AtWork(writer'[v])
    BY <1>6, <1>d, EventsThere DEF PushCreation
  <2>2. token' \in Tokens \cup {None}
    BY <1>6 DEF PushCreation, Tokens
  <2> QED
    BY <1>6, <1>t, <1>k, <2>1, <2>2 DEF PushCreation
<1>7. ASSUME NEW w \in Writers, WriterFails(w) PROVE TypeOK'
  <2>1. PICK e \in Foremost(writer[w].batch) : Done(w, e)
    BY <1>7 DEF WriterFails
  <2>2. e \in Events
    BY <1>t DEF Foremost, States
  <2>3. writer' \in [Writers -> States] /\ \A v \in Writers : AtWork(writer'[v])
    BY <1>7, <1>d, <2>1, <2>2 DEF WriterFails
  <2>4. faults' \in 0..MaxFaults
    BY <1>7, <1>f DEF WriterFails
  <2> QED
    BY <1>7, <1>t, <1>k, <2>3, <2>4 DEF WriterFails
<1>8. ASSUME NEW d \in Deposits, Task(d) PROVE TypeOK'
  <2>1. task' \in [Deposits -> Phases]
    BY <1>8, <1>t DEF Task, TaskFind, TaskWrite, TaskFails, Phases
  <2>2. token' \in Tokens \cup {None}
    <3>1. d.total \in Totals
      BY DEF Deposits
    <3>2. token \in Tokens => Merged(token, d) \in Tokens
      BY <3>1 DEF Merged, Tokens
    <3> QED
      BY <1>8, <1>t, <3>2 DEF Task, TaskFind, TaskWrite, TaskFails
  <2>3. faults' \in 0..MaxFaults
    BY <1>8, <1>t, <1>f DEF Task, TaskFind, TaskWrite, TaskFails
  <2>4. UNCHANGED <<waiting, handed, writer, stored, together, migration, migrating,
                    triggered, push, crashes>>
    BY <1>8 DEF Task, TaskFind, TaskWrite, TaskFails
  <2> QED
    BY <1>t, <1>k, <2>1, <2>2, <2>3, <2>4
<1>9. CASE Migrate
  <2>1. /\ migration' \in {None, "pending", "success", "failed"}
        /\ migrating' \in {"idle", "call", "success", "failed"} /\ triggered' \in Nat
    BY <1>9, <1>t DEF Migrate, Trigger, UpdateStatus, UpdateStatusFails
  <2>2. faults' \in 0..MaxFaults
    BY <1>9, <1>t, <1>f DEF Migrate, Trigger, UpdateStatus, UpdateStatusFails
  <2>3. UNCHANGED <<waiting, handed, writer, stored, token, task, together, push, crashes>>
    BY <1>9 DEF Migrate, Trigger, UpdateStatus, UpdateStatusFails
  <2> QED
    BY <1>t, <1>k, <2>1, <2>2, <2>3
<1>10. ASSUME NEW p \in Pushes, Request(p) PROVE TypeOK'
  <2>1. push' \in [Pushes -> PushStates]
    BY <1>10, <1>t DEF Request, PushFind, PushWrite, PushFails, PushStates
  <2>2. push[p].seen \in Tokens \cup {None}
    BY <1>t DEF PushStates
  <2>3. token' \in Tokens \cup {None}
    BY <1>10, <1>t, <2>2 DEF Request, PushFind, PushWrite, PushFails, Tokens
  <2>4. faults' \in 0..MaxFaults
    BY <1>10, <1>t, <1>f DEF Request, PushFind, PushWrite, PushFails
  <2>5. UNCHANGED <<waiting, handed, writer, stored, task, together, migration, migrating,
                    triggered, crashes>>
    BY <1>10 DEF Request, PushFind, PushWrite, PushFails
  <2> QED
    BY <1>t, <1>k, <2>1, <2>3, <2>4, <2>5
<1>11. CASE Crash
  <2>1. writer' \in [Writers -> States] /\ \A v \in Writers : AtWork(writer'[v])
    BY <1>11 DEF Crash, Resting, States, AtWork
  <2>2. task' \in [Deposits -> Phases] /\ push' \in [Pushes -> PushStates]
    BY <1>11, <1>t DEF Crash, Phases, PushStates
  <2>3. crashes' \in 0..MaxCrashes
    BY <1>11, <1>t, <1>z DEF Crash
  <2>4. waiting' = {} /\ migrating' = "idle"
        /\ UNCHANGED <<handed, stored, token, together, migration, triggered, faults>>
    BY <1>11 DEF Crash
  <2> QED
    BY <1>t, <1>k, <2>1, <2>2, <2>3, <2>4
<1>12. CASE UNCHANGED vars
  BY <1>12 DEF vars, TypeOK
<1> QED
  BY <1>1, <1>2, <1>3, <1>4, <1>5, <1>6, <1>7, <1>8, <1>9, <1>10, <1>11, <1>12
  DEF Next, Store, Write

\* Every variable keeps to its range, for any number of callers, deposits and
\* requests: a caller has a batch exactly while it is not at rest.
THEOREM ProjectTyped == Spec => []TypeOK
BY TypeInit, TypeStep, PTL DEF Spec

-----------------------------------------------------------------------------
(* Deposits that come with the creation                                    *)

\* A creation handed in at most once, and no failure yet: what
\* SameBatchFindsToken is about.
Clean == faults = 0 /\ handed[Creation] <= 1

\* There is one copy of the creation at most, and none once it is worked off;
\* nobody else stores its row; a caller of whose batch it was the part worked
\* off has seen to the document, and so has the batch of every deposit that
\* came with it, whose task therefore finds the document.
OnlyCopy ==
  /\ handed[Creation] = 0 =>
       /\ Creation \notin waiting /\ together = {}
       /\ \A w \in Writers : ~writer[w].withCreation /\ Creation \notin writer[w].batch
  /\ Creation \in waiting => \A w \in Writers : Creation \notin writer[w].batch
  /\ \A v, w \in Writers :
       Creation \in writer[v].batch /\ Creation \in writer[w].batch => v = w
RowIsNew ==
  \A w \in Writers : writer[w].pc = "insert" =>
    /\ writer[w].event = Creation => Creation \notin stored
    /\ Creation \in writer[w].batch => writer[w].event = Creation
TokenSeenTo ==
  /\ \A w \in Writers : writer[w].withCreation /\ Creation \notin writer[w].batch =>
                          token # None
  /\ together # {} => token # None
  /\ \A d \in together : task[d] # "missed"

InTime == Clean => OnlyCopy /\ RowIsNew /\ TokenSeenTo

\* The document is never taken away.
LEMMA TokenStays ==
  ASSUME TypeOK, [Next]_vars, token # None
  PROVE  token' # None
<1> USE DEF intake, launching
<1>n. None \notin Tokens /\ token \in Tokens
  BY ProjectTokenAssumption DEF TypeOK
<1>1. ASSUME NEW e \in Events, Deliver(e) PROVE token' = token
  BY <1>1 DEF Deliver
<1>2. ASSUME NEW w \in Writers, Store(w) PROVE token' \in Tokens
  <2>1. CASE PushCreation(w)
    BY <2>1 DEF PushCreation, Tokens
  <2>2. CASE ~PushCreation(w)
    BY <1>2, <1>n, <2>2 DEF Store, Take, Write, Check, Insert, FindToken, WriterFails
  <2> QED
    BY <2>1, <2>2
<1>3. ASSUME NEW d \in Deposits, Task(d) PROVE token' \in Tokens
  <2>1. d.total \in Totals
    BY DEF Deposits
  <2>2. Merged(token, d) \in Tokens
    BY <1>n, <2>1 DEF Merged, Tokens
  <2> QED
    BY <1>3, <1>n, <2>2 DEF Task, TaskFind, TaskWrite, TaskFails
<1>4. CASE Migrate
  BY <1>4 DEF Migrate, Trigger, UpdateStatus, UpdateStatusFails
<1>5. ASSUME NEW p \in Pushes, Request(p) PROVE token' \in Tokens
  <2>1. push[p].seen \in Tokens \cup {None} /\ [total |-> None] \in Tokens
    BY DEF TypeOK, Tokens
  <2> QED
    BY <1>5, <1>n, <2>1 DEF Request, PushFind, PushWrite, PushFails
<1>6. CASE Crash \/ UNCHANGED vars
  BY <1>6 DEF Crash, vars
<1> QED
  BY <1>n, <1>1, <1>2, <1>3, <1>4, <1>5, <1>6 DEF Next

LEMMA InTimeStep == TypeOK /\ InTime /\ [Next]_vars => InTime'
<1> SUFFICES ASSUME TypeOK, InTime, [Next]_vars, Clean'
             PROVE  OnlyCopy' /\ RowIsNew' /\ TokenSeenTo'
  BY DEF InTime
<1> USE DEF intake, launching
<1>t. /\ handed \in [Events -> Nat] /\ faults \in Nat /\ Creation \in Events
      /\ writer \in [Writers -> States] /\ \A w \in Writers : AtWork(writer[w])
      /\ task \in [Deposits -> Phases] /\ together \subseteq Deposits
  BY ProjectTokenAssumption, EventsThere DEF TypeOK, States, AtWork, Phases
<1>m. token # None => token' # None
  BY TokenStays
<1>f. ASSUME NEW who PROVE ~Fails(who)
  BY <1>t DEF Fails, Clean
<1>c. Clean
  <2>1. faults <= faults' /\ handed[Creation] <= handed'[Creation]
    <3>1. ASSUME NEW e \in Events, Deliver(e)
          PROVE  faults' = faults /\ handed[Creation] <= handed'[Creation]
      BY <1>t, <3>1 DEF Deliver
    <3>2. ASSUME NEW w \in Writers, Store(w)
          PROVE  handed' = handed /\ faults' = faults
      BY <1>f, <3>2 DEF Store, Take, Write, Check, Insert, FindToken, PushCreation,
                        WriterFails
    <3>3. ASSUME NEW d \in Deposits, Task(d) PROVE handed' = handed /\ faults' = faults
      BY <1>f, <3>3 DEF Task, TaskFind, TaskWrite, TaskFails
    <3>4. ASSUME Migrate PROVE handed' = handed /\ faults' = faults
      BY <1>f, <3>4 DEF Migrate, Trigger, UpdateStatus, UpdateStatusFails
    <3>5. ASSUME NEW p \in Pushes, Request(p) PROVE handed' = handed /\ faults' = faults
      BY <1>f, <3>5 DEF Request, PushFind, PushWrite, PushFails
    <3>6. ASSUME Crash \/ UNCHANGED vars PROVE handed' = handed /\ faults' = faults
      BY <3>6 DEF Crash, vars
    <3>7. handed[Creation] \in Nat
      BY <1>t
    <3>8. (handed' = handed /\ faults' = faults) \/ \E e \in Events : Deliver(e)
      BY <3>2, <3>3, <3>4, <3>5, <3>6 DEF Next
    <3> QED
      BY <1>t, <3>1, <3>7, <3>8
  <2>2. handed[Creation] \in Nat /\ handed'[Creation] <= 1 /\ faults' = 0
        /\ handed'[Creation] \in Nat
    <3>1. TypeOK'
      BY TypeStep
    <3> QED
      BY <1>t, <3>1 DEF Clean, TypeOK
  <2> QED
    BY <1>t, <2>1, <2>2 DEF Clean
<1>i. OnlyCopy /\ RowIsNew /\ TokenSeenTo
  BY <1>c DEF InTime
<1>k. ASSUME UNCHANGED <<waiting, handed, writer, stored, together>>,
             \A d \in together : task'[d] # "missed"
      PROVE  OnlyCopy' /\ RowIsNew' /\ TokenSeenTo'
  BY <1>i, <1>k, <1>m DEF OnlyCopy, RowIsNew, TokenSeenTo
<1>1. ASSUME NEW e \in Events, Deliver(e) PROVE OnlyCopy' /\ RowIsNew' /\ TokenSeenTo'
  <2>1. /\ e \notin waiting /\ waiting' = waiting \cup {e}
        /\ handed' = [handed EXCEPT ![e] = @ + 1]
        /\ UNCHANGED <<writer, stored, token, task, together>>
    BY <1>1 DEF Deliver
  <2>2. RowIsNew' /\ TokenSeenTo'
    BY <1>i, <2>1 DEF RowIsNew, TokenSeenTo
  <2>3. CASE e = Creation
    <3>1. handed'[Creation] = handed[Creation] + 1 /\ handed'[Creation] <= 1
          /\ handed[Creation] \in Nat
      BY <1>t, <2>1, <2>3 DEF Clean
    <3>2. handed[Creation] = 0 /\ handed'[Creation] # 0
      BY <3>1
    <3> QED
      BY <1>i, <2>1, <2>2, <3>2 DEF OnlyCopy
  <2>4. CASE e # Creation
    <3>1. handed'[Creation] = handed[Creation] /\ (Creation \in waiting' => Creation \in waiting)
      BY <1>t, <2>1, <2>4
    <3> QED
      BY <1>i, <2>1, <2>2, <3>1 DEF OnlyCopy
  <2> QED
    BY <2>3, <2>4
<1>2. ASSUME NEW w \in Writers, Take(w) PROVE OnlyCopy' /\ RowIsNew' /\ TokenSeenTo'
  <2>1. PICK batch \in (SUBSET waiting) \ {{}} :
          /\ writer' = [writer EXCEPT ![w] =
               [pc |-> "next", batch |-> batch,
                withCreation |-> Creation \in batch, event |-> None]]
          /\ waiting' = waiting \ batch
    BY <1>2 DEF Take
  <2>2. UNCHANGED <<handed, stored, token, task, together>>
    BY <1>2 DEF Take
  <2>3. /\ writer'[w].pc = "next" /\ writer'[w].batch = batch
        /\ writer'[w].withCreation <=> Creation \in batch
        /\ \A v \in Writers : v # w => writer'[v] = writer[v]
    BY <1>t, <2>1
  <2>4. batch \subseteq waiting
    BY <2>1
  <2>5. OnlyCopy'
    <3>1. handed'[Creation] = 0 =>
            /\ Creation \notin waiting' /\ together' = {}
            /\ \A v \in Writers : ~writer'[v].withCreation /\ Creation \notin writer'[v].batch
      BY <1>i, <2>1, <2>2, <2>3, <2>4 DEF OnlyCopy
    <3>2. Creation \in waiting' => \A v \in Writers : Creation \notin writer'[v].batch
      BY <1>i, <2>1, <2>3 DEF OnlyCopy
    <3>3. \A u, v \in Writers :
            Creation \in writer'[u].batch /\ Creation \in writer'[v].batch => u = v
      BY <1>i, <2>3, <2>4 DEF OnlyCopy
    <3> QED
      BY <3>1, <3>2, <3>3 DEF OnlyCopy
  <2>6. RowIsNew'
    BY <1>i, <2>2, <2>3 DEF RowIsNew
  <2>7. TokenSeenTo'
    BY <1>i, <2>2, <2>3 DEF TokenSeenTo
  <2> QED
    BY <2>5, <2>6, <2>7
\* A caller is through with an event.
<1>d. ASSUME NEW w \in Writers, NEW e \in Events, Done(w, e)
      PROVE  /\ \A v \in Writers : v # w => writer'[v] = writer[v]
             /\ writer'[w].batch \subseteq writer[w].batch
             /\ writer'[w].batch = writer[w].batch \ {e} \/ writer'[w] = Resting
             /\ writer'[w].withCreation => writer[w].withCreation
             /\ writer'[w].pc \in {"idle", "next"}
             /\ writer'[w].withCreation => writer'[w].batch = writer[w].batch \ {e}
  <2>1. writer'[w] = Left(writer[w], e) /\ \A v \in Writers : v # w => writer'[v] = writer[v]
    BY <1>t, <1>d DEF Done
  <2>2. writer[w] \in States
    BY <1>t
  <2> QED
    BY <2>1, <2>2 DEF Left, Resting, States
\* So it keeps to all this if the event is not the creation, or the document
\* is there.
<1>e. ASSUME NEW w \in Writers, NEW e \in Events, Done(w, e),
             e # Creation \/ token' # None,
             UNCHANGED <<waiting, handed>>,
             stored' = stored \/ (writer[w].pc = "insert" /\ stored' = stored \cup {e}
                                 /\ e = writer[w].event /\ e \in writer[w].batch),
             together = {} => together' = {} \/ (writer[w].withCreation /\ token' # None),
             \A d \in together' : task'[d] # "missed"
      PROVE  OnlyCopy' /\ RowIsNew' /\ TokenSeenTo'
  <2>1. OnlyCopy'
    BY <1>d, <1>e, <1>i DEF OnlyCopy, Resting
  <2>2. RowIsNew'
    <3> SUFFICES ASSUME NEW v \in Writers, writer'[v].pc = "insert"
                 PROVE  /\ writer'[v].event = Creation => Creation \notin stored'
                        /\ Creation \in writer'[v].batch => writer'[v].event = Creation
      BY DEF RowIsNew
    <3>1. v # w /\ writer'[v] = writer[v]
      BY <1>d, <1>e
    <3>2. writer[v].event \in writer[v].batch
      BY <1>t, <3>1 DEF AtWork
    <3>3. writer[v].event = Creation => Creation \notin stored'
      BY <1>e, <1>i, <3>1, <3>2 DEF OnlyCopy, RowIsNew
    <3> QED
      BY <1>i, <3>1, <3>3 DEF RowIsNew
  <2>3. TokenSeenTo'
    <3>1. ASSUME NEW v \in Writers, writer'[v].withCreation, Creation \notin writer'[v].batch
          PROVE  token' # None
      BY <1>d, <1>e, <1>i, <1>m, <3>1 DEF TokenSeenTo
    <3>2. together' # {} => token' # None
      BY <1>e, <1>i, <1>m DEF TokenSeenTo
    <3> QED
      BY <1>e, <3>1, <3>2 DEF TokenSeenTo
  <2> QED
    BY <2>1, <2>2, <2>3
<1>3. ASSUME NEW w \in Writers, Check(w) PROVE OnlyCopy' /\ RowIsNew' /\ TokenSeenTo'
  <2>1. PICK e \in Foremost(writer[w].batch) :
          IF e \in stored /\ e # Creation THEN Done(w, e)
          ELSE writer' = [writer EXCEPT ![w].event = e,
                 ![w].pc = IF e \in stored THEN "token" ELSE "insert"]
    BY <1>3 DEF Check
  <2>2. /\ e \in writer[w].batch /\ e \in Events
        /\ UNCHANGED <<waiting, handed, stored, token, task, together>>
    BY <1>3, <1>t DEF Foremost, Check, States
  <2>3. CASE e \in stored /\ e # Creation
    BY <1>e, <1>i, <2>1, <2>2, <2>3 DEF TokenSeenTo
  <2>4. CASE ~(e \in stored /\ e # Creation)
    <3>1. /\ writer'[w].batch = writer[w].batch /\ writer'[w].event = e
          /\ writer'[w].withCreation = writer[w].withCreation
          /\ writer'[w].pc = "insert" => e \notin stored
          /\ \A v \in Writers : v # w => writer'[v] = writer[v]
      BY <1>t, <2>1, <2>4 DEF States
    <3>2. Creation \in writer[w].batch => e = Creation
      <4> SUFFICES ASSUME Creation \in writer[w].batch PROVE e = Creation
        OBVIOUS
      <4>1. Rank(e.kind) <= Rank("creation")
        BY DEF Foremost, Creation
      <4>2. e.kind = "creation"
        BY <2>2, <4>1 DEF Rank, Events, Creation, Launch, Deposits
      <4> QED
        BY <2>2, <4>2 DEF Events, Creation, Launch, Deposits
    <3>3. OnlyCopy'
      <4>1. \A v \in Writers : /\ writer'[v].batch = writer[v].batch
                              /\ writer'[v].withCreation = writer[v].withCreation
        BY <3>1
      <4> QED
        BY <1>i, <2>2, <4>1 DEF OnlyCopy
    <3>4. RowIsNew'
      BY <1>i, <2>2, <3>1, <3>2 DEF RowIsNew
    <3>5. TokenSeenTo'
      BY <1>i, <2>2, <3>1 DEF TokenSeenTo
    <3> QED
      BY <3>3, <3>4, <3>5
  <2> QED
    BY <2>3, <2>4
<1>4. ASSUME NEW w \in Writers, Insert(w) PROVE OnlyCopy' /\ RowIsNew' /\ TokenSeenTo'
  <2> DEFINE e == writer[w].event
  <2>1. /\ writer[w].pc = "insert" /\ e \in writer[w].batch /\ e \in Events
        /\ UNCHANGED <<waiting, handed, token>>
    BY <1>4, <1>t DEF Insert, AtWork, States
  <2>2. /\ e = Creation => e \notin stored
        /\ Creation \in writer[w].batch => e = Creation
    BY <1>i, <2>1 DEF RowIsNew
  <2>3. CASE e \in stored
    <3>1. Done(w, e) /\ UNCHANGED <<stored, task, together>>
      BY <1>4, <2>3 DEF Insert
    <3> QED
      BY <1>e, <1>i, <2>1, <2>2, <2>3, <3>1 DEF TokenSeenTo
  <2>4. CASE e \notin stored
    <3>1. /\ stored' = stored \cup {e} /\ Spawn(e, writer[w].withCreation)
          /\ IF e = Creation THEN writer' = [writer EXCEPT ![w].pc = "token"]
                             ELSE Done(w, e)
      BY <1>4, <2>4 DEF Insert
    <3>2. CASE e = Creation
      <4>1. Creation \notin Deposits
        BY DEF Creation, Deposits
      <4>2. task' = task /\ together' = together
        BY <3>1, <3>2, <4>1 DEF Spawn
      <4>3. /\ writer'[w].batch = writer[w].batch /\ writer'[w].pc = "token"
            /\ writer'[w].withCreation = writer[w].withCreation
            /\ \A v \in Writers : v # w => writer'[v] = writer[v]
        BY <1>t, <3>1, <3>2 DEF States
      <4>4. \A v \in Writers : /\ writer'[v].batch = writer[v].batch
                              /\ writer'[v].withCreation = writer[v].withCreation
        BY <4>3
      <4>5. OnlyCopy'
        BY <1>i, <2>1, <4>2, <4>4 DEF OnlyCopy
      <4>6. RowIsNew'
        <5> SUFFICES ASSUME NEW v \in Writers, writer'[v].pc = "insert"
                     PROVE  /\ writer'[v].event = Creation => Creation \notin stored'
                            /\ Creation \in writer'[v].batch => writer'[v].event = Creation
          BY DEF RowIsNew
        <5>1. v # w /\ writer'[v] = writer[v]
          BY <4>3
        <5>2. Creation \notin writer[v].batch
          BY <1>i, <2>1, <3>2, <5>1 DEF OnlyCopy
        <5>3. writer[v].event \in writer[v].batch
          BY <1>t, <5>1 DEF AtWork
        <5> QED
          BY <5>1, <5>2, <5>3
      <4>7. TokenSeenTo'
        BY <1>i, <2>1, <4>2, <4>4 DEF TokenSeenTo
      <4> QED
        BY <4>5, <4>6, <4>7
    <3>3. CASE e # Creation
      <4>1. Creation \notin writer[w].batch
        BY <2>2, <3>3
      <4>2. writer[w].withCreation => token # None
        BY <1>i, <4>1 DEF TokenSeenTo
      <4>3. together' \in {together, together \cup {e}}
            /\ (together' = together \/ (writer[w].withCreation /\ e \in Deposits))
        BY <3>1 DEF Spawn
      <4>4. \A d \in together' : task'[d] # "missed"
        <5>1. \A d \in Deposits : task'[d] = task[d] \/ task'[d] = "find"
          BY <1>t, <3>1 DEF Spawn
        <5>2. e \in Deposits => task'[e] = "find"
          BY <1>t, <3>1 DEF Spawn
        <5> QED
          BY <1>i, <1>t, <4>3, <5>1, <5>2 DEF TokenSeenTo
      <4>5. together = {} => together' = {} \/ (writer[w].withCreation /\ token' # None)
        BY <2>1, <4>2, <4>3
      <4> HIDE DEF e
      <4>6. Done(w, e) /\ stored' = stored \cup {e}
        BY <3>1, <3>3
      <4> QED
        BY <1>e, <2>1, <3>3, <4>4, <4>5, <4>6 DEF e
    <3> QED
      BY <3>2, <3>3
  <2> QED
    BY <2>3, <2>4
<1>5. ASSUME NEW w \in Writers, FindToken(w) PROVE OnlyCopy' /\ RowIsNew' /\ TokenSeenTo'
  <2>1. UNCHANGED <<waiting, handed, stored, token, task, together>>
    BY <1>5 DEF FindToken
  <2>2. CASE token = None
    <3>1. writer' = [writer EXCEPT ![w].pc = "push"]
      BY <1>5, <2>2 DEF FindToken
    <3>2. /\ \A v \in Writers : /\ writer'[v].batch = writer[v].batch
                                /\ writer'[v].withCreation = writer[v].withCreation
          /\ \A v \in Writers : writer'[v].pc = "insert" => writer'[v] = writer[v]
      BY <1>t, <3>1 DEF States
    <3>3. OnlyCopy'
      BY <1>i, <2>1, <3>2 DEF OnlyCopy
    <3>4. RowIsNew'
      BY <1>i, <2>1, <3>2 DEF RowIsNew
    <3>5. TokenSeenTo'
      BY <1>i, <2>1, <3>2 DEF TokenSeenTo
    <3> QED
      BY <3>3, <3>4, <3>5
  <2>3. CASE token # None
    <3>1. Done(w, Creation)
      BY <1>5, <2>3 DEF FindToken
    <3> QED
      BY <1>e, <1>i, <1>t, <2>1, <2>3, <3>1 DEF TokenSeenTo
  <2> QED
    BY <2>2, <2>3
<1>6. ASSUME NEW w \in Writers, PushCreation(w) PROVE OnlyCopy' /\ RowIsNew' /\ TokenSeenTo'
  <2>1. /\ token' = [total |-> 0] /\ Done(w, Creation)
        /\ UNCHANGED <<waiting, handed, stored, task, together>>
    BY <1>6 DEF PushCreation
  <2>2. token' # None
    BY <2>1, ProjectTokenAssumption DEF Tokens
  <2> QED
    BY <1>e, <1>i, <1>t, <2>1, <2>2 DEF TokenSeenTo
<1>7. ASSUME NEW w \in Writers, WriterFails(w) PROVE FALSE
  BY <1>f, <1>7 DEF WriterFails
<1>8. ASSUME NEW d \in Deposits, Task(d) PROVE OnlyCopy' /\ RowIsNew' /\ TokenSeenTo'
  <2>1. UNCHANGED <<waiting, handed, writer, stored, together>>
    BY <1>8 DEF Task, TaskFind, TaskWrite, TaskFails
  <2>2. ~TaskFails(d)
    BY <1>f DEF TaskFails
  <2>3. \A x \in Deposits : task'[x] = task[x] \/ task'[x] \in {"write", "done"}
                           \/ token = None
    BY <1>8, <1>t, <2>2 DEF Task, TaskFind, TaskWrite
  <2>4. \A x \in together : task'[x] # "missed"
    BY <1>i, <1>t, <2>3 DEF TokenSeenTo
  <2> QED
    BY <1>k, <2>1, <2>4
<1>9. CASE Migrate
  BY <1>9, <1>i, <1>k DEF Migrate, Trigger, UpdateStatus, UpdateStatusFails, TokenSeenTo
<1>10. ASSUME NEW p \in Pushes, Request(p) PROVE OnlyCopy' /\ RowIsNew' /\ TokenSeenTo'
  BY <1>10, <1>i, <1>k DEF Request, PushFind, PushWrite, PushFails, TokenSeenTo
<1>11. CASE Crash
  <2>1. /\ waiting' = {} /\ \A w \in Writers : writer'[w] = Resting
        /\ UNCHANGED <<handed, stored, token, together>>
        /\ \A d \in Deposits : task'[d] \in {"idle", "done"}
    BY <1>11 DEF Crash
  <2>2. OnlyCopy'
    BY <1>i, <2>1 DEF OnlyCopy, Resting
  <2>3. RowIsNew'
    BY <2>1 DEF RowIsNew, Resting
  <2>4. TokenSeenTo'
    BY <1>i, <1>t, <2>1 DEF TokenSeenTo, Resting
  <2> QED
    BY <2>2, <2>3, <2>4
<1>12. CASE UNCHANGED vars
  BY <1>12, <1>i, <1>k DEF vars, TokenSeenTo
<1> QED
  BY <1>1, <1>2, <1>3, <1>4, <1>5, <1>6, <1>7, <1>8, <1>9, <1>10, <1>11, <1>12
  DEF Next, Store, Write

\* A deposit that comes in one batch with its token's creation finds the
\* document, in whatever order the batch holds them, whatever the other
\* callers, pushes and crashes do, unless a call fails.
THEOREM DepositFindsToken == Spec => []SameBatchFindsToken
<1>1. Init => InTime
  BY DEF Init, InTime, OnlyCopy, RowIsNew, TokenSeenTo, Resting
<1>2. TypeOK /\ InTime => SameBatchFindsToken
  <2> SUFFICES ASSUME TypeOK, InTime, NEW d \in together,
                      task[d] = "missed", handed[Creation] = 1
               PROVE  faults > 0
    BY DEF SameBatchFindsToken
  <2>1. ~Clean
    BY DEF InTime, TokenSeenTo
  <2>2. faults \in Nat /\ faults # 0
    BY <2>1, ProjectTokenAssumption DEF TypeOK, Clean
  <2> QED
    BY <2>2
<1> QED
  BY <1>1, <1>2, TypeInit, TypeStep, InTimeStep, PTL DEF Spec
=============================================================================
