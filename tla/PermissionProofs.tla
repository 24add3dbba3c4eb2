-------------------------- MODULE PermissionProofs --------------------------
(***************************************************************************)
(* Proofs about PermissionConfig for any number of administrators,         *)
(* endpoints and requests: what was acknowledged lasts, and a shutdown     *)
(* refuses every request that is checked.                                  *)
(*                                                                         *)
(* AcknowledgedLasts is not inductive.  IInv adds to it: who is alone is   *)
(* the only one under way (AloneIsAlone), so that its copy is the memory   *)
(* and what it has written is what the memory holds (SavedSoFar); and      *)
(* while a promise stands only reloads, and requests whose handlers have   *)
(* not run, are under way; what reloads have read is what was promised     *)
(* (OnlyReloads).                                                          *)
(***************************************************************************)
EXTENDS PermissionConfig, TLAPS

ReloadPCs == {"idle", "admitted", "find_global", "load_global", "find_apis", "load_apis"}

AloneIsAlone ==
  \A p, q \in Admins : pc[p] # "idle" /\ alone[p] /\ q # p => pc[q] = "idle"

SavedSoFar ==
  \A p \in Admins : alone[p] =>
    /\ pc[p] = "write_global" => taken[p] = memory
    /\ pc[p] \in {"read_apis", "write_apis"} => db.on = memory.on
    /\ pc[p] = "write_apis" =>
         /\ taken[p] = memory
         /\ \A e \in Endpoints :
              memory.apis[e] # None /\ e \notin unsaved /\ e \notin left[p]
                => db.apis[e] = memory.apis[e]

(* The endpoints whose configuration the promise is about.                 *)
Kept == {d \in Endpoints : promised.apis[d] # None} \ unsaved

OnlyReloads ==
  promised # None => \A p \in Admins :
    /\ pc[p] \in ReloadPCs
    /\ pc[p] = "load_global" => taken[p].on = promised.on
    /\ pc[p] = "load_apis" => \A e \in Kept : taken[p].apis[e] = promised.apis[e]

(* The endpoint a request to disable has read is one that has a            *)
(* configuration, and a request that loads holds what it found; endpoints  *)
(* are left only to who disables one or saves them.                        *)
TakenIsThere ==
  \A p \in Admins : pc[p] \in {"write_global", "load_global", "load_apis"} => taken[p] # None

LeftInUse ==
  \A p \in Admins : left[p] # {} => pc[p] \in {"disable", "write_apis"}

TInv == TypeOK /\ TakenIsThere /\ LeftInUse
IInv == AloneIsAlone /\ SavedSoFar /\ OnlyReloads /\ AcknowledgedLasts

USE DEF vars, requestVars, boundVars, historyVars

----------------------------------------------------------------------------
(* What the records are made of.                                           *)

LEMMA ConfigType ==
  ASSUME NEW c \in Config
  PROVE  /\ c = [on |-> c.on, apis |-> c.apis]
         /\ c.on \in SUBSET Switches /\ c.apis \in [Endpoints -> Api \cup {None}]
         /\ c # None
  BY PermissionAssumption DEF Config

LEMMA ApiOff ==
  ASSUME NEW a \in Api
  PROVE  [a EXCEPT !.enabled = FALSE] \in Api
  BY DEF Api

LEMMA WithOn ==
  ASSUME NEW c \in Config, NEW on \in SUBSET Switches
  PROVE  /\ [c EXCEPT !.on = on] \in Config
         /\ [c EXCEPT !.on = on].on = on
         /\ [c EXCEPT !.on = on].apis = c.apis
  BY DEF Config

LEMMA WithApis ==
  ASSUME NEW c \in Config, NEW apis \in [Endpoints -> Api \cup {None}]
  PROVE  /\ [c EXCEPT !.apis = apis] \in Config
         /\ [c EXCEPT !.apis = apis].apis = apis
         /\ [c EXCEPT !.apis = apis].on = c.on
  BY DEF Config

LEMMA WithApi ==
  ASSUME NEW c \in Config, NEW e \in Endpoints, NEW a \in Api \cup {None}
  PROVE  /\ [c EXCEPT !.apis[e] = a] \in Config
         /\ [c EXCEPT !.apis[e] = a].apis = [c.apis EXCEPT ![e] = a]
         /\ [c EXCEPT !.apis[e] = a].on = c.on
<1> DEFINE apis == [c.apis EXCEPT ![e] = a]
<1>1. apis \in [Endpoints -> Api \cup {None}]
  BY DEF Config
<1>2. [c EXCEPT !.apis[e] = a] = [c EXCEPT !.apis = apis]
  BY DEF Config
<1> QED BY <1>1, <1>2, WithApis

LEMMA MergedType ==
  ASSUME NEW apis \in [Endpoints -> Api \cup {None}], NEW found \in [Endpoints -> Api \cup {None}]
  PROVE  Merged(apis, found) \in [Endpoints -> Api \cup {None}]
  BY DEF Merged

LEMMA DefaultType == Default \in Config
  BY PermissionAssumption DEF Default, Config, Switches

----------------------------------------------------------------------------
(* Type correctness.                                                       *)

LEMMA InitTyped == Init => TInv
  BY DefaultType DEF Init, TInv, TypeOK, TakenIsThere, LeftInUse, PCs

LEMMA AdmitTyped ==
  ASSUME TInv, NEW p \in Admins, Admit(p)
  PROVE  TInv'
<1>1. alone' \in [Admins -> BOOLEAN] /\ pc' \in [Admins -> PCs]
  BY DEF TInv, TypeOK, Admit, InFlight, PCs
<1> QED BY <1>1 DEF TInv, TypeOK, TakenIsThere, LeftInUse, Admit, PCs

LEMMA ChangeTyped ==
  ASSUME TInv, NEW p \in Admins, NEW config \in Config, Change(p, config)
  PROVE  TInv'
  BY DEF TInv, TypeOK, TakenIsThere, LeftInUse, Change, PCs

LEMMA ToggleConfig ==
  ASSUME TypeOK, NEW switch \in Toggled, NEW enabled \in BOOLEAN
  PROVE  [memory EXCEPT !.on = IF enabled THEN @ \cup {switch} ELSE @ \ {switch}] \in Config
  BY PermissionAssumption DEF TypeOK, Config

LEMMA UpdateConfig ==
  ASSUME TypeOK, NEW some \in SUBSET Endpoints, NEW config \in ApiConfigs
  PROVE  [memory EXCEPT !.apis = [e \in Endpoints |-> IF e \in some THEN config ELSE @[e]]] \in Config
  BY PermissionAssumption DEF TypeOK, Config

LEMMA ReadApiTyped ==
  ASSUME TInv, NEW p \in Admins, NEW e \in Endpoints, ReadApi(p, e)
  PROVE  TInv'
<1>2. taken' \in [Admins -> Config \cup {None}] /\ left' \in [Admins -> SUBSET Endpoints]
  BY DEF TInv, TypeOK, ReadApi
<1>3. \A q \in Admins, d \in Endpoints : d \in left'[q] => taken'[q] # None /\ taken'[q].apis[d] # None
  BY ConfigType DEF TInv, TypeOK, ReadApi
<1> QED BY <1>2, <1>3 DEF TInv, TypeOK, TakenIsThere, LeftInUse, ReadApi, PCs

LEMMA NotFoundTyped ==
  ASSUME TInv, NEW p \in Admins, NEW e \in Endpoints, NotFound(p, e)
  PROVE  TInv'
  BY DEF TInv, TypeOK, TakenIsThere, LeftInUse, NotFound, Over, PCs

LEMMA DisableTyped ==
  ASSUME TInv, NEW p \in Admins, Disable(p)
  PROVE  TInv'
<1>1. PICK e \in left[p] :
        memory' = [memory EXCEPT !.apis[e] = [taken[p].apis[e] EXCEPT !.enabled = FALSE]]
  BY DEF Disable
<1>2. e \in Endpoints /\ taken[p] \in Config /\ taken[p].apis[e] \in Api
  <2>1. e \in Endpoints /\ taken[p] \in Config /\ taken[p].apis[e] # None
    BY DEF TInv, TypeOK
  <2> QED BY <2>1, ConfigType
<1>3. memory' \in Config
  <2>1. [taken[p].apis[e] EXCEPT !.enabled = FALSE] \in Api
    BY <1>2, ApiOff
  <2> QED BY <1>1, <1>2, <2>1, WithApi DEF TInv, TypeOK
<1>4. /\ left' \in [Admins -> SUBSET Endpoints] /\ pc' \in [Admins -> PCs]
      /\ \A q \in Admins : left'[q] \subseteq left[q]
  BY DEF TInv, TypeOK, Disable, PCs
<1> QED BY <1>3, <1>4 DEF TInv, TypeOK, TakenIsThere, LeftInUse, Disable, PCs

LEMMA ReadGlobalTyped ==
  ASSUME TInv, NEW p \in Admins, ReadGlobal(p)
  PROVE  TInv'
<1>1. /\ taken' \in [Admins -> Config \cup {None}] /\ taken'[p] = memory /\ memory # None
      /\ \A q \in Admins \ {p} : taken'[q] = taken[q]
  BY ConfigType DEF TInv, TypeOK, ReadGlobal
<1>2. left[p] = {}
  BY DEF TInv, TypeOK, ReadGlobal, LeftInUse
<1> QED BY <1>1, <1>2 DEF TInv, TypeOK, TakenIsThere, LeftInUse, ReadGlobal, PCs

LEMMA WriteGlobalTyped ==
  ASSUME TInv, NEW p \in Admins, WriteGlobal(p)
  PROVE  TInv'
<1>1. taken[p] \in Config
  BY DEF TInv, TypeOK, TakenIsThere, WriteGlobal
<1>2. db' \in Config
  BY <1>1, ConfigType, WithOn DEF TInv, TypeOK, WriteGlobal
<1> QED BY <1>2 DEF TInv, TypeOK, TakenIsThere, LeftInUse, WriteGlobal, PCs

LEMMA WriteGlobalFailsTyped ==
  ASSUME TInv, NEW p \in Admins, WriteGlobalFails(p)
  PROVE  TInv'
  BY DEF TInv, TypeOK, TakenIsThere, LeftInUse, WriteGlobalFails, Over, PCs

LEMMA ReadApisTyped ==
  ASSUME TInv, NEW p \in Admins, ReadApis(p)
  PROVE  TInv'
<1>1. /\ taken' \in [Admins -> Config \cup {None}] /\ taken'[p] = memory /\ memory # None
      /\ \A q \in Admins \ {p} : taken'[q] = taken[q]
  BY ConfigType DEF TInv, TypeOK, ReadApis
<1>2. /\ left' \in [Admins -> SUBSET Endpoints]
      /\ \A q \in Admins \ {p} : left'[q] = left[q]
      /\ left'[p] = {e \in Endpoints : memory.apis[e] # None}
  BY DEF TInv, TypeOK, ReadApis, ToSave
<1> QED BY <1>1, <1>2 DEF TInv, TypeOK, TakenIsThere, LeftInUse, ReadApis, PCs

LEMMA WriteApiTyped ==
  ASSUME TInv, NEW p \in Admins, WriteApi(p)
  PROVE  TInv'
<1>1. PICK e \in left[p] :
        /\ db' = [db EXCEPT !.apis[e] = taken[p].apis[e]]
        /\ unsaved' = unsaved \ {e}
        /\ left' = [left EXCEPT ![p] = @ \ {e}]
  BY DEF WriteApi
<1>2. e \in Endpoints /\ taken[p] \in Config /\ taken[p].apis[e] \in Api \cup {None}
  <2>1. e \in Endpoints /\ taken[p] \in Config
    BY DEF TInv, TypeOK
  <2> QED BY <2>1, ConfigType
<1>3. db' \in Config
  BY <1>1, <1>2, WithApi DEF TInv, TypeOK
<1>4. left' \in [Admins -> SUBSET Endpoints] /\ \A q \in Admins : left'[q] \subseteq left[q]
  BY <1>1 DEF TInv, TypeOK
<1> QED BY <1>1, <1>3, <1>4 DEF TInv, TypeOK, TakenIsThere, LeftInUse, WriteApi, PCs

LEMMA WriteApiFailsTyped ==
  ASSUME TInv, NEW p \in Admins, WriteApiFails(p)
  PROVE  TInv'
<1>1. left' \in [Admins -> SUBSET Endpoints] /\ \A q \in Admins : left'[q] \subseteq left[q]
  BY DEF TInv, TypeOK, WriteApiFails
<1> QED BY <1>1 DEF TInv, TypeOK, TakenIsThere, LeftInUse, WriteApiFails, PCs

LEMMA ReplyTyped ==
  ASSUME TInv, NEW p \in Admins, Reply(p)
  PROVE  TInv'
  BY DEF TInv, TypeOK, TakenIsThere, LeftInUse, Reply, Over, PCs

LEMMA ReloadTyped ==
  ASSUME TInv, NEW p \in Admins, Reload(p)
  PROVE  TInv'
  BY DEF TInv, TypeOK, TakenIsThere, LeftInUse, Reload, PCs

LEMMA FindTyped ==
  ASSUME TInv, NEW p \in Admins, FindGlobal(p) \/ FindApis(p)
  PROVE  TInv'
<1>1. /\ taken' \in [Admins -> Config \cup {None}] /\ taken'[p] = db /\ db # None
      /\ \A q \in Admins \ {p} : taken'[q] = taken[q]
  BY ConfigType DEF TInv, TypeOK, FindGlobal, FindApis
<1>2. left[p] = {}
  BY DEF TInv, TypeOK, LeftInUse, FindGlobal, FindApis
<1> QED BY <1>1, <1>2 DEF TInv, TypeOK, TakenIsThere, LeftInUse, FindGlobal, FindApis, PCs

LEMMA FindFailsTyped ==
  ASSUME TInv, NEW p \in Admins, FindGlobalFails(p) \/ FindApisFails(p)
  PROVE  TInv'
  BY DEF TInv, TypeOK, TakenIsThere, LeftInUse, FindGlobalFails, FindApisFails, Over, PCs

LEMMA LoadGlobalTyped ==
  ASSUME TInv, NEW p \in Admins, LoadGlobal(p)
  PROVE  TInv'
<1>1. taken[p] \in Config /\ memory \in Config /\ memory' = [memory EXCEPT !.on = taken[p].on]
  BY DEF TInv, TypeOK, TakenIsThere, LoadGlobal
<1>2. memory' \in Config
  BY <1>1, ConfigType, WithOn
<1> QED BY <1>2 DEF TInv, TypeOK, TakenIsThere, LeftInUse, LoadGlobal, PCs

LEMMA LoadApisTyped ==
  ASSUME TInv, NEW p \in Admins, LoadApis(p)
  PROVE  TInv'
<1>1. Merged(memory.apis, taken[p].apis) \in [Endpoints -> Api \cup {None}]
  <2>1. taken[p] \in Config /\ memory \in Config
    BY DEF TInv, TypeOK, TakenIsThere, LoadApis
  <2> QED BY <2>1, ConfigType, MergedType
<1>2. memory' \in Config
  BY <1>1, WithApis DEF TInv, TypeOK, LoadApis
<1> QED BY <1>2 DEF TInv, TypeOK, TakenIsThere, LeftInUse, LoadApis, Over, PCs

LEMMA RestartTyped ==
  ASSUME TInv, NEW reads \in SUBSET {"global", "apis"}, Restart(reads)
  PROVE  TInv'
<1>1. memory' \in Config
  BY DefaultType, ConfigType, MergedType DEF TInv, TypeOK, Restart, Config
<1> QED BY <1>1 DEF TInv, TypeOK, TakenIsThere, LeftInUse, Restart, PCs

(* The state, and the copies requests hold, have the expected shape        *)
(* through every request, save, reload and restart.                        *)
LEMMA StepTyped == TInv /\ [Next]_vars => TInv'
<1> SUFFICES ASSUME TInv, [Next]_vars PROVE TInv'
  OBVIOUS
<1>1. CASE UNCHANGED vars
  BY <1>1 DEF TInv, TypeOK, TakenIsThere, LeftInUse
<1>2. ASSUME NEW p \in Admins, Step(p) PROVE TInv'
  <2> USE <1>2
  <2>0. CASE Admit(p)
    BY <2>0, AdmitTyped
  <2>1. CASE \E switch \in Toggled, enabled \in BOOLEAN : Toggle(p, switch, enabled)
    BY <2>1, ToggleConfig, ChangeTyped DEF Toggle, TInv
  <2>2. CASE \E on \in Settings : UpdateGlobal(p, on)
    BY <2>2, WithOn, ChangeTyped, PermissionAssumption DEF UpdateGlobal, TInv, TypeOK
  <2>3. CASE \E some \in (SUBSET Endpoints) \ {{}}, config \in ApiConfigs : UpdateApis(p, some, config)
    BY <2>3, UpdateConfig, ChangeTyped DEF UpdateApis, TInv
  <2>4. CASE \E e \in Endpoints : ReadApi(p, e) \/ NotFound(p, e)
    BY <2>4, ReadApiTyped, NotFoundTyped
  <2>5. CASE Disable(p) \/ ReadGlobal(p) \/ WriteGlobal(p) \/ WriteGlobalFails(p)
    BY <2>5, DisableTyped, ReadGlobalTyped, WriteGlobalTyped, WriteGlobalFailsTyped
  <2>6. CASE ReadApis(p) \/ WriteApi(p) \/ WriteApiFails(p) \/ Reply(p)
    BY <2>6, ReadApisTyped, WriteApiTyped, WriteApiFailsTyped, ReplyTyped
  <2>7. CASE Reload(p) \/ FindGlobal(p) \/ LoadGlobal(p) \/ FindGlobalFails(p)
    BY <2>7, ReloadTyped, FindTyped, LoadGlobalTyped, FindFailsTyped
  <2>8. CASE FindApis(p) \/ FindApisFails(p) \/ LoadApis(p)
    BY <2>8, FindTyped, FindFailsTyped, LoadApisTyped
  <2> QED BY <2>0, <2>1, <2>2, <2>3, <2>4, <2>5, <2>6, <2>7, <2>8 DEF Step
<1> QED BY <1>1, <1>2, RestartTyped DEF Next

----------------------------------------------------------------------------
(* What was promised lasts.                                                *)

LEMMA InitKept == Init => IInv
  BY DEF Init, IInv, AloneIsAlone, SavedSoFar, OnlyReloads, AcknowledgedLasts

LEMMA AdmitKept ==
  ASSUME TInv, IInv, NEW p \in Admins, Admit(p)
  PROVE  IInv'
<1>1. pc'[p] = "admitted" /\ \A q \in Admins \ {p} : pc'[q] = pc[q]
  BY DEF TInv, TypeOK, Admit
<1>2. /\ AloneIsAlone'
      /\ \A q \in Admins \ {p} : alone'[q] => alone[q] /\ pc[q] = "idle"
  BY <1>1 DEF TInv, TypeOK, IInv, AloneIsAlone, Admit, InFlight
<1>3. SavedSoFar'
  BY <1>1, <1>2 DEF IInv, SavedSoFar, Admit
<1>4. OnlyReloads' /\ AcknowledgedLasts'
  BY <1>1 DEF IInv, OnlyReloads, Kept, ReloadPCs, AcknowledgedLasts, Admit
<1> QED BY <1>2, <1>3, <1>4 DEF IInv

(* The steps of a request under way.  Another that believes itself alone   *)
(* is idle, and while a promise stands the step is one of a reload.        *)
LEMMA Others ==
  ASSUME TInv, IInv, NEW p \in Admins, pc[p] # "idle", alone' = alone,
         NEW to, pc' = [pc EXCEPT ![p] = to], to \in PCs
  PROVE  /\ AloneIsAlone'
         /\ pc'[p] = to /\ \A q \in Admins \ {p} : pc'[q] = pc[q]
         /\ \A q \in Admins \ {p} : alone[q] => pc[q] = "idle"
         /\ pc[p] \notin ReloadPCs => promised = None
  BY DEF TInv, TypeOK, IInv, AloneIsAlone, OnlyReloads

LEMMA ChangeKept ==
  ASSUME TInv, IInv, NEW p \in Admins, NEW config, Change(p, config)
  PROVE  IInv'
<1>1. /\ AloneIsAlone'
      /\ pc'[p] = "read_global" /\ \A q \in Admins \ {p} : pc'[q] = pc[q]
      /\ \A q \in Admins \ {p} : alone[q] => pc[q] = "idle"
  BY Others DEF Change, PCs
<1> QED BY <1>1 DEF IInv, SavedSoFar, OnlyReloads, AcknowledgedLasts, Change

LEMMA ReadApiKept ==
  ASSUME TInv, IInv, NEW p \in Admins, NEW e \in Endpoints, ReadApi(p, e)
  PROVE  IInv'
<1>1. /\ AloneIsAlone'
      /\ pc'[p] = "disable" /\ \A q \in Admins \ {p} : pc'[q] = pc[q]
      /\ \A q \in Admins \ {p} : alone[q] => pc[q] = "idle"
  BY Others DEF ReadApi, PCs
<1> QED BY <1>1 DEF IInv, SavedSoFar, OnlyReloads, AcknowledgedLasts, ReadApi

(* A request that ends, or begins to reload, before it has changed         *)
(* anything takes no promise back.                                         *)
LEMMA NothingChanged ==
  ASSUME TInv, IInv, NEW p \in Admins, pc[p] = "admitted", UNCHANGED <<memory, db, historyVars>>,
         NEW to \in {"idle", "find_global"}, pc' = [pc EXCEPT ![p] = to],
         \A q \in Admins \ {p} : taken'[q] = taken[q] /\ left'[q] = left[q]
  PROVE  IInv'
<1>1. /\ AloneIsAlone'
      /\ pc'[p] = to /\ \A q \in Admins \ {p} : pc'[q] = pc[q]
      /\ \A q \in Admins \ {p} : alone[q] => pc[q] = "idle"
  BY Others DEF PCs
<1>2. SavedSoFar'
  BY <1>1 DEF IInv, SavedSoFar
<1>3. OnlyReloads' /\ AcknowledgedLasts'
  BY <1>1 DEF IInv, OnlyReloads, Kept, ReloadPCs, AcknowledgedLasts
<1> QED BY <1>1, <1>2, <1>3 DEF IInv

LEMMA NotFoundKept ==
  ASSUME TInv, IInv, NEW p \in Admins, NEW e \in Endpoints, NotFound(p, e)
  PROVE  IInv'
<1>1. \A q \in Admins \ {p} : taken'[q] = taken[q] /\ left'[q] = left[q]
  BY DEF TInv, TypeOK, NotFound, Over
<1> QED BY <1>1, NothingChanged DEF NotFound, Over

LEMMA ReloadKept ==
  ASSUME TInv, IInv, NEW p \in Admins, Reload(p)
  PROVE  IInv'
  BY NothingChanged DEF Reload

LEMMA DisableKept ==
  ASSUME TInv, IInv, NEW p \in Admins, Disable(p)
  PROVE  IInv'
<1>1. /\ AloneIsAlone'
      /\ pc'[p] = "read_global" /\ \A q \in Admins \ {p} : pc'[q] = pc[q]
      /\ \A q \in Admins \ {p} : alone[q] => pc[q] = "idle"
      /\ promised = None
  BY Others DEF Disable, PCs, ReloadPCs
<1> QED BY <1>1 DEF IInv, SavedSoFar, OnlyReloads, AcknowledgedLasts, Disable

LEMMA ReadGlobalKept ==
  ASSUME TInv, IInv, NEW p \in Admins, ReadGlobal(p)
  PROVE  IInv'
<1>1. /\ AloneIsAlone'
      /\ pc'[p] = "write_global" /\ \A q \in Admins \ {p} : pc'[q] = pc[q]
      /\ \A q \in Admins \ {p} : alone[q] => pc[q] = "idle"
      /\ promised = None
  BY Others DEF ReadGlobal, PCs, ReloadPCs
<1>2. taken'[p] = memory
  BY DEF TInv, TypeOK, ReadGlobal
<1> QED BY <1>1, <1>2 DEF IInv, SavedSoFar, OnlyReloads, AcknowledgedLasts, ReadGlobal

LEMMA WriteGlobalKept ==
  ASSUME TInv, IInv, NEW p \in Admins, WriteGlobal(p)
  PROVE  IInv'
<1>1. /\ AloneIsAlone'
      /\ pc'[p] = "read_apis" /\ \A q \in Admins \ {p} : pc'[q] = pc[q]
      /\ \A q \in Admins \ {p} : alone[q] => pc[q] = "idle"
      /\ promised = None
  BY Others DEF WriteGlobal, PCs, ReloadPCs
<1>2. db'.on = taken[p].on
  BY WithOn, ConfigType DEF TInv, TypeOK, TakenIsThere, WriteGlobal
<1>3. alone[p] => taken[p] = memory
  BY DEF IInv, SavedSoFar, WriteGlobal
<1> QED BY <1>1, <1>2, <1>3 DEF IInv, SavedSoFar, OnlyReloads, AcknowledgedLasts, WriteGlobal

LEMMA WriteGlobalFailsKept ==
  ASSUME TInv, IInv, NEW p \in Admins, WriteGlobalFails(p)
  PROVE  IInv'
<1>1. /\ AloneIsAlone'
      /\ pc'[p] = "idle" /\ \A q \in Admins \ {p} : pc'[q] = pc[q]
      /\ \A q \in Admins \ {p} : alone[q] => pc[q] = "idle"
      /\ promised = None
  BY Others DEF WriteGlobalFails, Over, PCs, ReloadPCs
<1> QED BY <1>1 DEF IInv, SavedSoFar, OnlyReloads, AcknowledgedLasts, WriteGlobalFails

LEMMA ReadApisKept ==
  ASSUME TInv, IInv, NEW p \in Admins, ReadApis(p)
  PROVE  IInv'
<1>1. /\ AloneIsAlone'
      /\ pc'[p] = "write_apis" /\ \A q \in Admins \ {p} : pc'[q] = pc[q]
      /\ \A q \in Admins \ {p} : alone[q] => pc[q] = "idle"
      /\ promised = None
  BY Others DEF ReadApis, PCs, ReloadPCs
<1>2. taken'[p] = memory /\ left'[p] = {e \in Endpoints : memory.apis[e] # None}
  BY DEF TInv, TypeOK, ReadApis, ToSave
<1>3. alone[p] => db.on = memory.on
  BY DEF IInv, SavedSoFar, ReadApis
<1> QED BY <1>1, <1>2, <1>3 DEF IInv, SavedSoFar, OnlyReloads, AcknowledgedLasts, ReadApis

LEMMA WriteApiKept ==
  ASSUME TInv, IInv, NEW p \in Admins, WriteApi(p)
  PROVE  IInv'
<1>1. AloneIsAlone' /\ (\A q \in Admins \ {p} : alone[q] => pc[q] = "idle") /\ promised = None
  BY DEF TInv, TypeOK, IInv, AloneIsAlone, OnlyReloads, ReloadPCs, WriteApi
<1>2. PICK e \in left[p] :
        /\ db' = [db EXCEPT !.apis[e] = taken[p].apis[e]]
        /\ unsaved' = unsaved \ {e}
        /\ left' = [left EXCEPT ![p] = @ \ {e}]
  BY DEF WriteApi
<1>3. db'.on = db.on /\ db'.apis[e] = taken[p].apis[e]
      /\ \A d \in Endpoints \ {e} : db'.apis[d] = db.apis[d]
  <2>1. e \in Endpoints /\ taken[p] \in Config
    BY DEF TInv, TypeOK
  <2>2. taken[p].apis[e] \in Api \cup {None}
    BY <2>1, ConfigType
  <2>3. db \in Config /\ db.apis \in [Endpoints -> Api \cup {None}]
    BY ConfigType DEF TInv, TypeOK
  <2> QED BY <1>2, <2>1, <2>2, <2>3, WithApi
<1>4. e \in Endpoints /\ left'[p] = left[p] \ {e}
  BY <1>2 DEF TInv, TypeOK
<1>5. SavedSoFar'
  BY <1>1, <1>2, <1>3, <1>4 DEF IInv, SavedSoFar, WriteApi
<1> QED BY <1>1, <1>5 DEF IInv, OnlyReloads, AcknowledgedLasts, WriteApi

LEMMA WriteApiFailsKept ==
  ASSUME TInv, IInv, NEW p \in Admins, WriteApiFails(p)
  PROVE  IInv'
<1>1. AloneIsAlone' /\ (\A q \in Admins \ {p} : alone[q] => pc[q] = "idle") /\ promised = None
  BY DEF TInv, TypeOK, IInv, AloneIsAlone, OnlyReloads, ReloadPCs, WriteApiFails
<1>2. PICK e \in left[p] : unsaved' = unsaved \cup {e} /\ left' = [left EXCEPT ![p] = @ \ {e}]
  BY DEF WriteApiFails
<1>3. left'[p] = left[p] \ {e}
  BY <1>2 DEF TInv, TypeOK
<1>4. SavedSoFar'
  BY <1>1, <1>2, <1>3 DEF IInv, SavedSoFar, WriteApiFails
<1> QED BY <1>1, <1>4 DEF IInv, OnlyReloads, AcknowledgedLasts, WriteApiFails

(* The request that makes the promise: it was alone, so that nobody is     *)
(* under way any more and all that the memory holds is saved.              *)
LEMMA ReplyKept ==
  ASSUME TInv, IInv, NEW p \in Admins, Reply(p)
  PROVE  IInv'
<1>1. /\ AloneIsAlone'
      /\ pc'[p] = "idle" /\ \A q \in Admins \ {p} : pc'[q] = pc[q]
      /\ \A q \in Admins \ {p} : alone[q] => pc[q] = "idle"
      /\ promised = None
  BY Others DEF Reply, Over, PCs, ReloadPCs
<1>2. SavedSoFar'
  BY <1>1 DEF IInv, SavedSoFar, Reply
<1>3. CASE alone[p]
  <2>1. promised' = memory /\ \A q \in Admins : pc'[q] = "idle"
    BY <1>1, <1>3 DEF IInv, AloneIsAlone, Reply
  <2>2. OnlyReloads'
    BY <2>1 DEF OnlyReloads, ReloadPCs
  <2>3. AcknowledgedLasts'
    BY <1>3, <2>1 DEF IInv, SavedSoFar, AcknowledgedLasts, Reply
  <2> QED BY <1>1, <1>2, <2>2, <2>3 DEF IInv
<1>4. CASE ~alone[p]
  BY <1>1, <1>2, <1>4 DEF IInv, OnlyReloads, AcknowledgedLasts, Reply
<1> QED BY <1>3, <1>4

LEMMA FindGlobalKept ==
  ASSUME TInv, IInv, NEW p \in Admins, FindGlobal(p)
  PROVE  IInv'
<1>1. /\ AloneIsAlone'
      /\ pc'[p] = "load_global" /\ \A q \in Admins \ {p} : pc'[q] = pc[q]
      /\ \A q \in Admins \ {p} : alone[q] => pc[q] = "idle"
  BY Others DEF FindGlobal, PCs
<1>2. taken'[p] = db /\ \A q \in Admins \ {p} : taken'[q] = taken[q]
  BY DEF TInv, TypeOK, FindGlobal
<1>3. SavedSoFar'
  BY <1>1 DEF IInv, SavedSoFar, FindGlobal
<1>4. OnlyReloads' /\ AcknowledgedLasts'
  BY <1>1, <1>2 DEF IInv, OnlyReloads, Kept, ReloadPCs, AcknowledgedLasts, FindGlobal
<1> QED BY <1>1, <1>3, <1>4 DEF IInv

LEMMA FindApisKept ==
  ASSUME TInv, IInv, NEW p \in Admins, FindApis(p)
  PROVE  IInv'
<1>1. /\ AloneIsAlone'
      /\ pc'[p] = "load_apis" /\ \A q \in Admins \ {p} : pc'[q] = pc[q]
      /\ \A q \in Admins \ {p} : alone[q] => pc[q] = "idle"
  BY Others DEF FindApis, PCs
<1>2. taken'[p] = db /\ \A q \in Admins \ {p} : taken'[q] = taken[q]
  BY DEF TInv, TypeOK, FindApis
<1>3. SavedSoFar'
  BY <1>1 DEF IInv, SavedSoFar, FindApis
<1>4. OnlyReloads' /\ AcknowledgedLasts'
  BY <1>1, <1>2 DEF IInv, OnlyReloads, Kept, ReloadPCs, AcknowledgedLasts, FindApis
<1> QED BY <1>1, <1>3, <1>4 DEF IInv

LEMMA FindFailsKept ==
  ASSUME TInv, IInv, NEW p \in Admins, FindGlobalFails(p) \/ FindApisFails(p)
  PROVE  IInv'
<1>1. /\ AloneIsAlone'
      /\ pc'[p] \in {"find_apis", "idle"} /\ \A q \in Admins \ {p} : pc'[q] = pc[q]
      /\ \A q \in Admins \ {p} : alone[q] => pc[q] = "idle"
  BY Others DEF FindGlobalFails, FindApisFails, Over, PCs
<1>2. \A q \in Admins \ {p} : taken'[q] = taken[q]
  BY DEF TInv, TypeOK, FindGlobalFails, FindApisFails, Over
<1>3. SavedSoFar'
  BY <1>1 DEF IInv, SavedSoFar, FindGlobalFails, FindApisFails
<1>4. OnlyReloads' /\ AcknowledgedLasts'
  BY <1>1, <1>2 DEF IInv, OnlyReloads, Kept, ReloadPCs, AcknowledgedLasts, FindGlobalFails, FindApisFails
<1> QED BY <1>1, <1>3, <1>4 DEF IInv

(* What a reload puts into the memory is what was promised.                *)
LEMMA LoadGlobalKept ==
  ASSUME TInv, IInv, NEW p \in Admins, LoadGlobal(p)
  PROVE  IInv'
<1>1. /\ AloneIsAlone'
      /\ pc'[p] = "find_apis" /\ \A q \in Admins \ {p} : pc'[q] = pc[q]
      /\ \A q \in Admins \ {p} : alone[q] => pc[q] = "idle"
  BY Others DEF LoadGlobal, PCs
<1>2. memory'.on = taken[p].on /\ memory'.apis = memory.apis
  BY ConfigType, WithOn DEF TInv, TypeOK, TakenIsThere, LoadGlobal
<1>3. SavedSoFar'
  BY <1>1 DEF IInv, SavedSoFar, LoadGlobal
<1>4. OnlyReloads' /\ AcknowledgedLasts'
  BY <1>1, <1>2 DEF IInv, OnlyReloads, Kept, ReloadPCs, AcknowledgedLasts, LoadGlobal
<1> QED BY <1>1, <1>3, <1>4 DEF IInv

LEMMA LoadApisKept ==
  ASSUME TInv, IInv, NEW p \in Admins, LoadApis(p)
  PROVE  IInv'
<1>1. /\ AloneIsAlone'
      /\ pc'[p] = "idle" /\ \A q \in Admins \ {p} : pc'[q] = pc[q]
      /\ \A q \in Admins \ {p} : alone[q] => pc[q] = "idle"
  BY Others DEF LoadApis, Over, PCs
<1>2. /\ memory'.on = memory.on
      /\ \A e \in Endpoints : taken[p].apis[e] # None => memory'.apis[e] = taken[p].apis[e]
      /\ \A q \in Admins \ {p} : taken'[q] = taken[q]
  <2>1. taken[p] \in Config /\ memory \in Config
    BY DEF TInv, TypeOK, TakenIsThere, LoadApis
  <2>2. Merged(memory.apis, taken[p].apis) \in [Endpoints -> Api \cup {None}]
    BY <2>1, ConfigType, MergedType
  <2> QED BY <2>1, <2>2, WithApis DEF LoadApis, Merged, Over, TInv, TypeOK
<1>3. SavedSoFar'
  BY <1>1 DEF IInv, SavedSoFar, LoadApis
<1>4. OnlyReloads' /\ AcknowledgedLasts'
  BY <1>1, <1>2 DEF IInv, OnlyReloads, Kept, ReloadPCs, AcknowledgedLasts, LoadApis
<1> QED BY <1>1, <1>3, <1>4 DEF IInv

LEMMA RestartKept ==
  ASSUME TInv, IInv, NEW reads \in SUBSET {"global", "apis"}, Restart(reads)
  PROVE  IInv'
<1>1. AloneIsAlone' /\ SavedSoFar' /\ OnlyReloads'
  BY DEF AloneIsAlone, SavedSoFar, OnlyReloads, ReloadPCs, Restart
<1>2. AcknowledgedLasts'
  <2>1. CASE reads = {"global", "apis"}
    <3>1. memory'.on = db.on
      BY <2>1 DEF Restart
    <3>2. \A e \in Endpoints : db.apis[e] # None => memory'.apis[e] = db.apis[e]
      BY <2>1 DEF Restart, Merged
    <3> QED BY <2>1, <3>1, <3>2 DEF IInv, AcknowledgedLasts, Restart
  <2>2. CASE reads # {"global", "apis"}
    BY <2>2 DEF AcknowledgedLasts, Restart
  <2> QED BY <2>1, <2>2
<1> QED BY <1>1, <1>2 DEF IInv

LEMMA StepKept == TInv /\ IInv /\ [Next]_vars => IInv'
<1> SUFFICES ASSUME TInv, IInv, [Next]_vars PROVE IInv'
  OBVIOUS
<1>1. CASE UNCHANGED vars
  BY <1>1 DEF IInv, AloneIsAlone, SavedSoFar, OnlyReloads, Kept, AcknowledgedLasts
<1>2. ASSUME NEW p \in Admins, Step(p) PROVE IInv'
  <2> USE <1>2
  <2>1. CASE \E config : Change(p, config)
    BY <2>1, ChangeKept
  <2>2. CASE \/ \E switch \in Toggled, enabled \in BOOLEAN : Toggle(p, switch, enabled)
             \/ \E on \in Settings : UpdateGlobal(p, on)
             \/ \E some \in (SUBSET Endpoints) \ {{}}, config \in ApiConfigs : UpdateApis(p, some, config)
    BY <2>1, <2>2 DEF Toggle, UpdateGlobal, UpdateApis
  <2>3. CASE Admit(p)
    BY <2>3, AdmitKept
  <2>4. CASE \E e \in Endpoints : ReadApi(p, e) \/ NotFound(p, e)
    BY <2>4, ReadApiKept, NotFoundKept
  <2>5. CASE Disable(p) \/ ReadGlobal(p) \/ WriteGlobal(p) \/ WriteGlobalFails(p)
    BY <2>5, DisableKept, ReadGlobalKept, WriteGlobalKept, WriteGlobalFailsKept
  <2>6. CASE ReadApis(p) \/ WriteApi(p) \/ WriteApiFails(p) \/ Reply(p)
    BY <2>6, ReadApisKept, WriteApiKept, WriteApiFailsKept, ReplyKept
  <2>7. CASE Reload(p) \/ FindGlobal(p) \/ LoadGlobal(p) \/ FindGlobalFails(p)
    BY <2>7, ReloadKept, FindGlobalKept, LoadGlobalKept, FindFailsKept
  <2>8. CASE FindApis(p) \/ FindApisFails(p) \/ LoadApis(p)
    BY <2>8, FindApisKept, FindFailsKept, LoadApisKept
  <2> QED BY <2>2, <2>3, <2>4, <2>5, <2>6, <2>7, <2>8 DEF Step
<1> QED BY <1>1, <1>2, RestartKept DEF Next

(* The state has the expected shape through every request of               *)
(* administrators, save, reload and restart, with calls that fail.         *)
THEOREM ConfigTyped == Spec => []TypeOK
<1>1. TInv => TypeOK
  BY DEF TInv
<1> QED BY <1>1, InitTyped, StepTyped, PTL DEF Spec

(* A change answered with success to who was alone is in force and stored  *)
(* until the next change, through reloads, restarts and failing calls      *)
(* (save_to_database, load_from_database).                                 *)
THEOREM PromiseKept == Spec => []AcknowledgedLasts
<1>1. IInv => AcknowledgedLasts
  BY DEF IInv
<1> QED BY <1>1, InitTyped, StepTyped, InitKept, StepKept, PTL DEF Spec

(* With authentication enabled, an acknowledged emergency shutdown refuses *)
(* every request that is checked: the required middleware runs no handler, *)
(* an administrator's neither, and the optional one none that is told of a *)
(* user (check_api_permission, solana_permission_middleware,               *)
(* solana_optional_permission_middleware).                                 *)
THEOREM ShutdownHolds == Spec => []ShutdownStopsAll
<1>1. IInv => ShutdownStopsAll
  <2> SUFFICES ASSUME IInv, ~AuthDisabled, promised # None, "emergency_shutdown" \in promised.on
               PROVE  \A e \in Endpoints, action \in Actions, token \in Tokens, user \in Users :
                        /\ ToldOf(e, action, token, user) = None
                        /\ Passes(e, action, token, user) => e \in Optional /\ token # "none"
    BY DEF ShutdownStopsAll
  <2>1. "emergency_shutdown" \in memory.on
    BY DEF IInv, AcknowledgedLasts
  <2>2. \A e, action, user : ~Permitted(e, action, user)
    BY <2>1 DEF Permitted
  <2> QED BY <2>2 DEF ToldOf, Passes
<1> QED BY <1>1, InitTyped, StepTyped, InitKept, StepKept, PTL DEF Spec

----------------------------------------------------------------------------
(* The check of a request.                                                 *)

(* A policy that lets a user through lets through whoever has a tier as    *)
(* high and every permission the first has (check_permission_policy).      *)
LEMMA PolicyMonotone ==
  ASSUME NEW policy \in Policy, NEW u \in User, NEW v \in User,
         v.tier >= u.tier, u.permitted => v.permitted, PolicyAllows(policy, u)
  PROVE  PolicyAllows(policy, v)
<1>1. policy.tier \in 0..3 /\ u.tier \in 0..3 /\ v.tier \in 0..3
  BY DEF Policy, User, Tiers
<1>2. /\ u.tier = Admin => v.tier = Admin
      /\ u.tier >= policy.tier => v.tier >= policy.tier
  BY <1>1 DEF Admin
<1> QED BY <1>2 DEF PolicyAllows

(* Whoever is let through would be let through with a higher tier and with *)
(* the permission as well: no configuration an administrator can reach     *)
(* shuts out the higher user at an endpoint open to the lower one.         *)
THEOREM TiersOrdered == Spec => []HigherTierNotLess
<1>1. ASSUME TypeOK, NEW e \in Endpoints, NEW action \in Actions, NEW u \in Users, NEW v \in Users,
             Permitted(e, action, u), v.tier >= u.tier, u.permitted => v.permitted
      PROVE  Permitted(e, action, v)
  <2>1. u \in User /\ v \in User /\ DefaultPolicies[action] \in Policy
    BY PermissionAssumption
  <2>2. u.tier = Admin => v.tier = Admin
    BY <1>1, <2>1 DEF User, Tiers, Admin
  <2>3. memory.apis[e] # None => memory.apis[e].read \in Policy /\ memory.apis[e].write \in Policy
    BY <1>1 DEF TypeOK, Config, Api
  <2>4. memory.apis[e] # None => memory.apis[e][action] \in Policy
    BY <2>3 DEF Actions
  <2> QED BY <1>1, <2>1, <2>2, <2>4, PolicyMonotone DEF Permitted
<1>2. TypeOK => HigherTierNotLess
  BY <1>1 DEF HigherTierNotLess
<1> QED BY <1>2, ConfigTyped, PTL
=============================================================================
