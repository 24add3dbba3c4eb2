-------------------------- MODULE PermissionConfig --------------------------
(***************************************************************************)
(* The permission configuration of the server: a copy in memory, behind a  *)
(* read-write lock, that requests are checked against by the middleware in *)
(* front of an endpoint, and a copy in the database.  Administrators       *)
(* change the memory and then save it; a reload, and a restart, replace    *)
(* the memory by the database.  Their own requests pass the same check.    *)
(*                                                                         *)
(* A step is what happens under the lock, or one call to the database.     *)
(* Version numbers, timestamps and authors are left out: nothing reads     *)
(* them to decide.                                                         *)
(***************************************************************************)
EXTENDS Naturals, FiniteSets

CONSTANTS
  Admins,          \* the administrators with a request under way
  Endpoints,       \* the endpoints behind a middleware that checks
  Optional,        \* those behind the optional one, which lets more through
  AdminPath,       \* where administrators change the configuration
  AuthDisabled,    \* AUTH_DISABLED: no request is checked
  ApiConfigs,      \* the configurations administrators give an endpoint
  DefaultApis,     \* what initialize_default_api_configs knows, else None
  DefaultPolicies, \* the policies of an endpoint without a configuration
  Toggled,         \* the switches they toggle one by one
  Settings,        \* the switches that are on after update_global_config
  Users,           \* the users requests come from: tier and permissions
  MaxChanges,      \* bound: requests that change the configuration
  MaxFailures,     \* bound: calls to the database that fail
  MaxCrashes,      \* bound: restarts
  None             \* no configuration, nothing promised

Switches == {"global_read_enabled", "global_write_enabled", "emergency_shutdown",
             "maintenance_mode"}
Actions  == {"read", "write"}
Tiers    == 0..3                 \* Basic, Premium, VIP, Admin
Admin    == 3
Policy   == [kind : {"Allow", "Deny", "Permission", "Tier", "PermissionAndTier"}, tier : Tiers]
Api      == [enabled : BOOLEAN, read : Policy, write : Policy]
User     == [tier : Tiers, permitted : BOOLEAN]  \* permitted: has the permission asked for
Tokens   == {"valid", "invalid", "none"}         \* what a request says of its user
Config   == [on : SUBSET Switches, apis : [Endpoints -> Api \cup {None}]]

ASSUME PermissionAssumption ==
  /\ ApiConfigs \subseteq Api
  /\ DefaultApis \in [Endpoints -> Api \cup {None}]
  /\ DefaultPolicies \in [Actions -> Policy]
  /\ Toggled \subseteq Switches /\ Settings \subseteq SUBSET Switches
  /\ Users \subseteq User /\ None \notin User
  /\ Optional \subseteq Endpoints /\ AdminPath \in Endpoints \ Optional
  /\ AuthDisabled \in BOOLEAN
  /\ MaxChanges \in Nat /\ MaxFailures \in Nat /\ MaxCrashes \in Nat
  /\ None \notin Api /\ None \notin Config

VARIABLES
  memory,     \* SolanaPermissionManager: the switches that are on, the APIs
  db,         \* the documents of both collections
  pc,         \* pc[p]: what the request of p does next
  taken,      \* taken[p]: the copy p read from the memory or the database
  left,       \* left[p]: endpoints whose configuration p still has to save
  changes, failures, crashes,   \* bounds
  alone,      \* history: no other request has been under way with p's
  unsaved,    \* history: endpoints whose last upsert failed
  promised    \* history: what the last request that was alone was told is done

requestVars == <<pc, taken, left>>
boundVars   == <<changes, failures, crashes>>
historyVars == <<alone, unsaved, promised>>
vars        == <<memory, db, requestVars, boundVars, historyVars>>

Default == [on |-> {"global_read_enabled", "global_write_enabled"}, apis |-> DefaultApis]

(* init_default_permission_config has filled the database.                 *)
Init ==
  /\ memory = Default /\ db = Default
  /\ pc = [p \in Admins |-> "idle"]
  /\ taken = [p \in Admins |-> None]
  /\ left = [p \in Admins |-> {}]
  /\ changes = 0 /\ failures = 0 /\ crashes = 0
  /\ alone = [p \in Admins |-> FALSE]
  /\ unsaved = {}
  /\ promised = None

----------------------------------------------------------------------------
(* The check of a request (SolanaPermissionManager::check_api_permission). *)

PolicyAllows(policy, user) ==
  LET permitted == user.permitted \/ user.tier = Admin
      tier      == user.tier >= policy.tier
  IN  \/ policy.kind = "Allow"
      \/ policy.kind = "Permission" /\ permitted
      \/ policy.kind = "Tier" /\ tier
      \/ policy.kind = "PermissionAndTier" /\ (user.tier = Admin \/ (permitted /\ tier))

SwitchOf(action) == IF action = "read" THEN "global_read_enabled" ELSE "global_write_enabled"

(* Variant for mutation: the configuration of an endpoint goes before the  *)
(* switches.                                                               *)
PermittedApiFirst(e, action, user) ==
  LET api == memory.apis[e]
  IN  IF api # None THEN api.enabled /\ PolicyAllows(api[action], user)
      ELSE /\ memory.on \cap {"emergency_shutdown", "maintenance_mode"} = {}
           /\ SwitchOf(action) \in memory.on
           /\ PolicyAllows(DefaultPolicies[action], user)

Permitted(e, action, user) ==
  LET api == memory.apis[e]
  IN  /\ "emergency_shutdown" \notin memory.on
      /\ "maintenance_mode" \in memory.on => user.tier = Admin
      /\ SwitchOf(action) \in memory.on
      /\ IF api = None
         THEN PolicyAllows(DefaultPolicies[action], user)
         ELSE api.enabled /\ PolicyAllows(api[action], user)

Anonymous     == [tier |-> 0, permitted |-> FALSE]
Administrator == [tier |-> Admin, permitted |-> TRUE]

(* The user the handler is told of, if any.  Where the check is disabled,  *)
(* that is an administrator.                                               *)
ToldOf(e, action, token, user) ==
  IF AuthDisabled THEN Administrator
  ELSE IF token = "valid" /\ Permitted(e, action, user) THEN user ELSE None

(* What the middleware lets through to the handler.  The required one only *)
(* whom it can tell the handler of; the optional one stops a request only  *)
(* when it carries no token and anybody would be refused: one whose token  *)
(* is invalid, or whose user is refused, goes on as nobody's.              *)
Passes(e, action, token, user) ==
  \/ AuthDisabled
  \/ e \notin Optional /\ ToldOf(e, action, token, user) # None
  \/ e \in Optional /\ (token = "none" => Permitted(e, action, Anonymous))

----------------------------------------------------------------------------
(* Requests of administrators.                                             *)
InFlight == {p \in Admins : pc[p] # "idle"}

(* A request passes the middleware; its handler will run later.  All these *)
(* requests are writes.  Who is under way already is not alone any more.   *)
Admit(p) ==
  /\ pc[p] = "idle"
  /\ Passes(AdminPath, "write", "valid", Administrator)
  /\ changes < MaxChanges /\ changes' = changes + 1
  /\ pc' = [pc EXCEPT ![p] = "admitted"]
  /\ alone' = [q \in Admins |-> IF q = p THEN InFlight = {}
                                ELSE IF q \in InFlight THEN FALSE ELSE alone[q]]
  /\ UNCHANGED <<memory, db, taken, left, failures, crashes, unsaved, promised>>

(* The memory is changed under the write lock; the save begins.            *)
Change(p, config) ==
  /\ pc[p] = "admitted"
  /\ memory' = config
  /\ pc' = [pc EXCEPT ![p] = "read_global"]
  /\ promised' = None
  /\ UNCHANGED <<db, taken, left, boundVars, alone, unsaved>>

(* toggle_global_read, toggle_global_write, emergency_shutdown,            *)
(* toggle_maintenance_mode.                                                *)
Toggle(p, switch, enabled) ==
  Change(p, [memory EXCEPT !.on = IF enabled THEN @ \cup {switch} ELSE @ \ {switch}])

(* update_global_config sets all four switches.                            *)
UpdateGlobal(p, on) == Change(p, [memory EXCEPT !.on = on])

(* update_api_config and batch_update_api_configs.                         *)
UpdateApis(p, some, config) ==
  Change(p, [memory EXCEPT !.apis = [e \in Endpoints |-> IF e \in some THEN config ELSE @[e]]])

(* The request of p is over.                                               *)
Over(p) ==
  /\ pc' = [pc EXCEPT ![p] = "idle"]
  /\ taken' = [taken EXCEPT ![p] = None]
  /\ left' = [left EXCEPT ![p] = {}]

(* delete_api_config disables: it reads the configuration of the endpoint, *)
(* and puts it back disabled, whatever happened in between.                *)
ReadApi(p, e) ==
  /\ pc[p] = "admitted"
  /\ memory.apis[e] # None
  /\ taken' = [taken EXCEPT ![p] = memory]
  /\ left' = [left EXCEPT ![p] = {e}]
  /\ pc' = [pc EXCEPT ![p] = "disable"]
  /\ promised' = None
  /\ UNCHANGED <<memory, db, boundVars, alone, unsaved>>

NotFound(p, e) ==
  /\ pc[p] = "admitted"
  /\ memory.apis[e] = None
  /\ Over(p)
  /\ UNCHANGED <<memory, db, boundVars, historyVars>>

Disable(p) ==
  /\ pc[p] = "disable"
  /\ \E e \in left[p] :
       memory' = [memory EXCEPT !.apis[e] = [taken[p].apis[e] EXCEPT !.enabled = FALSE]]
  /\ left' = [left EXCEPT ![p] = {}]
  /\ pc' = [pc EXCEPT ![p] = "read_global"]
  /\ UNCHANGED <<db, taken, boundVars, historyVars>>

----------------------------------------------------------------------------
(* save_to_database.                                                       *)
Fail == failures < MaxFailures /\ failures' = failures + 1 /\ UNCHANGED <<changes, crashes>>

ReadGlobal(p) ==
  /\ pc[p] = "read_global"
  /\ taken' = [taken EXCEPT ![p] = memory]
  /\ pc' = [pc EXCEPT ![p] = "write_global"]
  /\ UNCHANGED <<memory, db, left, boundVars, historyVars>>

WriteGlobal(p) ==
  /\ pc[p] = "write_global"
  /\ db' = [db EXCEPT !.on = taken[p].on]
  /\ pc' = [pc EXCEPT ![p] = "read_apis"]
  /\ UNCHANGED <<memory, taken, left, boundVars, historyVars>>

(* The request is answered with an error; its change stays in the memory.  *)
WriteGlobalFails(p) ==
  /\ pc[p] = "write_global"
  /\ Fail
  /\ Over(p)
  /\ UNCHANGED <<memory, db, historyVars>>

(* Variant for mutation: only what is enabled is saved.                    *)
ToSaveEnabled(apis) == {e \in Endpoints : apis[e] # None /\ apis[e].enabled}

ToSave(apis) == {e \in Endpoints : apis[e] # None}

ReadApis(p) ==
  /\ pc[p] = "read_apis"
  /\ taken' = [taken EXCEPT ![p] = memory]
  /\ left' = [left EXCEPT ![p] = ToSave(memory.apis)]
  /\ pc' = [pc EXCEPT ![p] = "write_apis"]
  /\ UNCHANGED <<memory, db, boundVars, historyVars>>

WriteApi(p) ==
  /\ pc[p] = "write_apis"
  /\ \E e \in left[p] :
       /\ db' = [db EXCEPT !.apis[e] = taken[p].apis[e]]
       /\ unsaved' = unsaved \ {e}
       /\ left' = [left EXCEPT ![p] = @ \ {e}]
  /\ UNCHANGED <<memory, pc, taken, boundVars, alone, promised>>

(* A failed upsert is logged; the others are still made.                   *)
WriteApiFails(p) ==
  /\ pc[p] = "write_apis"
  /\ Fail
  /\ \E e \in left[p] :
       /\ unsaved' = unsaved \cup {e}
       /\ left' = [left EXCEPT ![p] = @ \ {e}]
  /\ UNCHANGED <<memory, db, pc, taken, alone, promised>>

(* The administrator is told that the change is made.                      *)
Reply(p) ==
  /\ pc[p] = "write_apis" /\ left[p] = {}
  /\ Over(p)
  /\ promised' = IF alone[p] THEN memory ELSE promised
  /\ UNCHANGED <<memory, db, boundVars, alone, unsaved>>

----------------------------------------------------------------------------
(* load_from_database: a read that fails is passed over.                   *)

(* batch_update_api_configs: what the database does not have stays.        *)
Merged(apis, found) ==
  [e \in Endpoints |-> IF found[e] # None THEN found[e] ELSE apis[e]]

Reload(p) ==
  /\ pc[p] = "admitted"
  /\ pc' = [pc EXCEPT ![p] = "find_global"]
  /\ UNCHANGED <<memory, db, taken, left, boundVars, historyVars>>

FindGlobal(p) ==
  /\ pc[p] = "find_global"
  /\ taken' = [taken EXCEPT ![p] = db]
  /\ pc' = [pc EXCEPT ![p] = "load_global"]
  /\ UNCHANGED <<memory, db, left, boundVars, historyVars>>

FindGlobalFails(p) ==
  /\ pc[p] = "find_global"
  /\ Fail
  /\ pc' = [pc EXCEPT ![p] = "find_apis"]
  /\ UNCHANGED <<memory, db, taken, left, historyVars>>

LoadGlobal(p) ==
  /\ pc[p] = "load_global"
  /\ memory' = [memory EXCEPT !.on = taken[p].on]
  /\ pc' = [pc EXCEPT ![p] = "find_apis"]
  /\ UNCHANGED <<db, taken, left, boundVars, historyVars>>

FindApis(p) ==
  /\ pc[p] = "find_apis"
  /\ taken' = [taken EXCEPT ![p] = db]
  /\ pc' = [pc EXCEPT ![p] = "load_apis"]
  /\ UNCHANGED <<memory, db, left, boundVars, historyVars>>

FindApisFails(p) ==
  /\ pc[p] = "find_apis"
  /\ Fail
  /\ Over(p)
  /\ UNCHANGED <<memory, db, historyVars>>

LoadApis(p) ==
  /\ pc[p] = "load_apis"
  /\ memory' = [memory EXCEPT !.apis = Merged(@, taken[p].apis)]
  /\ Over(p)
  /\ UNCHANGED <<db, boundVars, historyVars>>

(* The process ends and starts again: requests under way are forgotten and *)
(* the memory is the default, with what can be read of the database put    *)
(* over it before the first request is served.  A read that fails leaves   *)
(* the default in force, and no promise with it.                           *)
Restart(reads) ==
  /\ crashes < MaxCrashes /\ crashes' = crashes + 1
  /\ reads # {"global", "apis"} => failures < MaxFailures
  /\ failures' = IF reads # {"global", "apis"} THEN failures + 1 ELSE failures
  /\ memory' = [on   |-> IF "global" \in reads THEN db.on ELSE Default.on,
                apis |-> IF "apis" \in reads THEN Merged(Default.apis, db.apis)
                         ELSE Default.apis]
  /\ pc' = [p \in Admins |-> "idle"]
  /\ taken' = [p \in Admins |-> None]
  /\ left' = [p \in Admins |-> {}]
  /\ promised' = IF reads = {"global", "apis"} THEN promised ELSE None
  /\ UNCHANGED <<db, changes, alone, unsaved>>

Step(p) ==
  \/ Admit(p)
  \/ \E switch \in Toggled, enabled \in BOOLEAN : Toggle(p, switch, enabled)
  \/ \E on \in Settings : UpdateGlobal(p, on)
  \/ \E some \in (SUBSET Endpoints) \ {{}}, config \in ApiConfigs : UpdateApis(p, some, config)
  \/ \E e \in Endpoints : ReadApi(p, e) \/ NotFound(p, e)
  \/ Disable(p)
  \/ ReadGlobal(p) \/ WriteGlobal(p) \/ WriteGlobalFails(p)
  \/ ReadApis(p) \/ WriteApi(p) \/ WriteApiFails(p) \/ Reply(p)
  \/ Reload(p) \/ FindGlobal(p) \/ LoadGlobal(p) \/ FindGlobalFails(p)
  \/ FindApis(p) \/ FindApisFails(p) \/ LoadApis(p)

Next ==
  \/ \E p \in Admins : Step(p)
  \/ \E reads \in SUBSET {"global", "apis"} : Restart(reads)

Spec == Init /\ [][Next]_vars

----------------------------------------------------------------------------
(* Properties.                                                             *)
PCs == {"idle", "admitted", "disable", "read_global", "write_global", "read_apis",
        "write_apis", "find_global", "load_global", "find_apis", "load_apis"}

TypeOK ==
  /\ memory \in Config /\ db \in Config
  /\ pc \in [Admins -> PCs]
  /\ taken \in [Admins -> Config \cup {None}]
  /\ left \in [Admins -> SUBSET Endpoints]
  /\ \A p \in Admins, e \in Endpoints : e \in left[p] => taken[p] # None /\ taken[p].apis[e] # None
  /\ alone \in [Admins -> BOOLEAN]
  /\ unsaved \subseteq Endpoints
  /\ promised \in Config \cup {None}

(* A change that no other request overlapped and that was answered with    *)
(* success is in force, survives reloads and restarts, and is what the     *)
(* database holds, until the next change: but for the endpoints whose      *)
(* upsert failed without a word (solana_permission_service.rs:204), and    *)
(* those the memory had lost in a restart that could not read: the save    *)
(* leaves what is stored of them.  With two requests at a time it is not   *)
(* so: the later may save first, and a reload takes back what is not saved *)
(* yet (:174).                                                             *)
AcknowledgedLasts ==
  promised # None =>
    /\ memory.on = promised.on /\ db.on = promised.on
    /\ \A e \in {d \in Endpoints : promised.apis[d] # None} \ unsaved :
         memory.apis[e] = promised.apis[e] /\ db.apis[e] = promised.apis[e]

(* An emergency shutdown that was acknowledged, with "the highest          *)
(* priority" (solana_permissions.rs:60), is told to every request that the *)
(* middleware checks, whatever the endpoint's own policy, also after a     *)
(* restart: no handler acts for a user, and behind the required middleware *)
(* none runs at all, those that administrate among them.  Behind the       *)
(* optional one (auth/middleware.rs:535) only requests without a token are *)
(* stopped; those with one are still served, as nobody's.                  *)
ShutdownStopsAll ==
  ~AuthDisabled /\ promised # None /\ "emergency_shutdown" \in promised.on =>
    \A e \in Endpoints, action \in Actions, token \in Tokens, user \in Users :
      /\ ToldOf(e, action, token, user) = None
      /\ Passes(e, action, token, user) => e \in Optional /\ token # "none"

(* Whatever the configuration has become, who is let through would be let  *)
(* through with a higher tier and with the permission as well.             *)
HigherTierNotLess ==
  \A e \in Endpoints, action \in Actions, u, v \in Users :
    /\ Permitted(e, action, u)
    /\ v.tier >= u.tier
    /\ u.permitted => v.permitted
    => Permitted(e, action, v)
=============================================================================
