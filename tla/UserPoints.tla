----------------------------- MODULE UserPoints -----------------------------
(***************************************************************************)
(* Reward points of the event listener: the swap and NFT claim writers of  *)
(* persistence/event_storage.rs and the two points repositories they call  *)
(* (database/src/cpmm/points).                                             *)
(*                                                                         *)
(* Storing a swap or a claim spawns a task nobody awaits.  The task reads  *)
(* a document, computes in memory and writes back with $set or insert, one *)
(* database call per step, so tasks of the same wallet interleave.         *)
(* An event is one swap transaction or one claimed NFT; a second delivery  *)
(* of it finds its row (or hits the unique index) and changes nothing.     *)
(***************************************************************************)
EXTENDS Integers, FiniteSets, Functions

CONSTANTS
  Swaps, Claims,    \* events the listener may store
  Wallets,
  Payer,            \* swap -> wallet
  Claimer,          \* claim -> wallet
  Upper,            \* claim -> wallet, or None: the event has no referrer
  None,             \* no wallet; no document, the answer of a find without a match
  MaxRestarts,      \* bound: ends of the process
  CallsMayFail      \* database calls may answer an error

\* The counters of UserPointsSummary that events feed.
Fields == {"transaction", "nftClaimed", "claimNft"}

ASSUME PointsAssumption ==
  /\ Swaps \intersect Claims = {}
  /\ None \notin Wallets \union [Fields -> Nat]
  /\ Payer \in [Swaps -> Wallets]
  /\ Claimer \in [Claims -> Wallets]
  /\ Upper \in [Claims -> Wallets \union {None}]
  /\ MaxRestarts \in Nat
  /\ CallsMayFail \in BOOLEAN

Events == Swaps \union Claims

\* What a wallet gets for the first event of a kind.
First  == [transaction |-> 200, nftClaimed |-> 300, claimNft |-> 200]
Later  == 10                    \* every later swap

Account == [Fields -> Nat]

\* The constructors new_from_first_swap, new_from_claim_nft_upper and
\* new_from_claim_nft_claimer.
NewAccount(f) == [g \in Fields |-> IF g = f THEN First[f] ELSE 0]

\* update_transaction_points, update_nft_claimed_points and
\* update_claim_nft_points, on the value read.
Updated(f, value) ==
  CASE f = "transaction" -> value + Later
    [] f = "nftClaimed"  -> value + First["nftClaimed"]
    [] f = "claimNft"    -> First["claimNft"]

\* The calls of a task: three on the details of a swap, then two on the
\* summary document of the wallet that the task's current field concerns.
Ended == {"done", "failed", "cut"}
DetailCalls == {"findDetail", "countDetails", "insertDetail"}
Steps == {"idle", "find", "write"} \union DetailCalls \union Ended

VARIABLES
  rows,        \* events with a row in swap_event or nft_claim_event
  step,        \* the next call of the task of each event
  field,       \* the counter the task is about
  counted,     \* count_documents answered 0 to the task
  read,        \* the summary document the task has read
  details,     \* swaps with a UserTransactionPointsDetail
  firsts,      \* those of them marked is_first_transaction
  account,     \* the UserPointsSummary document of each wallet, or None
  restarts

pointsVars == <<rows, step, field, counted, read, details, firsts, account, restarts>>

\* The wallet a task's current field belongs to.
Owner(e) ==
  CASE field[e] = "transaction" -> Payer[e]
    [] field[e] = "nftClaimed"  -> Upper[e]
    [] field[e] = "claimNft"    -> Claimer[e]

DetailsOf(w) == {e \in details : Payer[e] = w}

PointsInit ==
  /\ rows = {}
  /\ step = [e \in Events |-> "idle"]
  /\ field = [e \in Events |-> IF e \in Swaps THEN "transaction"
                                              ELSE "nftClaimed"]
  /\ counted = [e \in Swaps |-> FALSE]
  /\ read = [e \in Events |-> None]
  /\ details = {} /\ firsts = {}
  /\ account = [w \in Wallets |-> None]
  /\ restarts = 0

-----------------------------------------------------------------------------
(* Storing an event and spawning its task.  The process may end between    *)
(* the insert and the spawn: that is Restart before the task's first call. *)

\* Variant for mutation: the task is never spawned.
WriteSwapNoTask(e) ==
  /\ e \notin rows
  /\ rows' = rows \union {e}
  /\ step' = [step EXCEPT ![e] = "done"]
  /\ UNCHANGED <<field, counted, read, details, firsts, account, restarts>>

\* write_single_swap
WriteSwap(e) ==
  /\ e \notin rows
  /\ rows' = rows \union {e}
  /\ step' = [step EXCEPT ![e] = "findDetail"]
  /\ UNCHANGED <<field, counted, read, details, firsts, account, restarts>>

\* write_single_nft_claim: without a referrer nobody gets points.
WriteClaim(e) ==
  /\ e \notin rows
  /\ rows' = rows \union {e}
  /\ step' = [step EXCEPT ![e] = IF Upper[e] = None THEN "done" ELSE "find"]
  /\ UNCHANGED <<field, counted, read, details, firsts, account, restarts>>

-----------------------------------------------------------------------------
(* UserTransactionPointsDetailRepository::upsert_from_swap_event, then on  *)
(* to the summary whatever its result.                                     *)

FindDetail(e) ==
  /\ step[e] = "findDetail"
  /\ step' = [step EXCEPT ![e] = IF e \in details THEN "find"
                                                  ELSE "countDetails"]
  /\ UNCHANGED <<rows, field, counted, read, details, firsts, account,
                 restarts>>

CountDetails(e) ==
  /\ step[e] = "countDetails"
  /\ counted' = [counted EXCEPT ![e] = (DetailsOf(Payer[e]) = {})]
  /\ step' = [step EXCEPT ![e] = "insertDetail"]
  /\ UNCHANGED <<rows, field, read, details, firsts, account, restarts>>

InsertDetail(e) ==
  /\ step[e] = "insertDetail"
  /\ details' = details \union {e}
  /\ firsts' = IF counted[e] THEN firsts \union {e} ELSE firsts
  /\ step' = [step EXCEPT ![e] = "find"]
  /\ UNCHANGED <<rows, field, counted, read, account, restarts>>

-----------------------------------------------------------------------------
(* UserPointsRepository::upsert_from_swap_event, update_upper_points and   *)
(* update_claimer_points have the same two calls; a claim task runs the    *)
(* last two in turn, and `?` ends it at the first error.                   *)

\* A claimer who has the points already is left alone.
AlreadyClaimed(f, doc) == f = "claimNft" /\ doc # None /\ doc["claimNft"] > 0

Find(e) ==
  LET doc == account[Owner(e)]
  IN  /\ step[e] = "find"
      /\ read' = [read EXCEPT ![e] = doc]
      /\ step' = [step EXCEPT ![e] = IF AlreadyClaimed(field[e], doc)
                                     THEN "done" ELSE "write"]
      /\ UNCHANGED <<rows, field, counted, details, firsts, account, restarts>>

\* Variant for mutation: the task ends with the upper.
WrittenOnce(e) ==
  \/ step' = [step EXCEPT ![e] = "done"] /\ UNCHANGED field
  \/ CallsMayFail /\ step' = [step EXCEPT ![e] = "failed"] /\ UNCHANGED field

\* The write has taken effect.  A claim task turns from the upper to the
\* claimer; a call that took effect may still answer an error.
Written(e) ==
  \/ /\ field[e] = "nftClaimed"
     /\ field' = [field EXCEPT ![e] = "claimNft"]
     /\ step' = [step EXCEPT ![e] = "find"]
  \/ /\ field[e] # "nftClaimed"
     /\ step' = [step EXCEPT ![e] = "done"]
     /\ UNCHANGED field
  \/ /\ CallsMayFail
     /\ step' = [step EXCEPT ![e] = "failed"]
     /\ UNCHANGED field

\* find returned nothing: insert_one, which fails on the unique userWallet
\* if another task inserted meanwhile.
Insert(e) ==
  /\ step[e] = "write"
  /\ read[e] = None
  /\ account[Owner(e)] = None
  /\ account' = [account EXCEPT ![Owner(e)] = NewAccount(field[e])]
  /\ Written(e)
  /\ UNCHANGED <<rows, counted, read, details, firsts, restarts>>

InsertDuplicate(e) ==
  /\ step[e] = "write"
  /\ read[e] = None
  /\ account[Owner(e)] # None
  /\ step' = [step EXCEPT ![e] = "failed"]
  /\ UNCHANGED <<rows, field, counted, read, details, firsts, account,
                 restarts>>

\* Variant for mutation: every swap earns what the first one earns.
SetFirst(w, f, doc) == [account EXCEPT ![w][f] = doc[f] + First[f]]

\* find returned a document: update_one sets the field from the value read.
Set(w, f, doc) == [account EXCEPT ![w][f] = Updated(f, doc[f])]

Update(e) ==
  /\ step[e] = "write"
  /\ read[e] # None
  /\ account' = Set(Owner(e), field[e], read[e])
  /\ Written(e)
  /\ UNCHANGED <<rows, counted, read, details, firsts, restarts>>

-----------------------------------------------------------------------------

\* A call answers an error: a swap task still turns to the summary after its
\* details, every other error ends the task.
CallFails(e) ==
  /\ CallsMayFail
  /\ step[e] \in DetailCalls \union {"find", "write"}
  /\ step' = [step EXCEPT ![e] = IF @ \in DetailCalls THEN "find" ELSE "failed"]
  /\ UNCHANGED <<rows, field, counted, read, details, firsts, account,
                 restarts>>

\* Variant for mutation: redelivered events are written again.
RestartForgets ==
  /\ restarts < MaxRestarts
  /\ restarts' = restarts + 1
  /\ rows' = {}
  /\ step' = [e \in Events |-> "idle"]
  /\ field' = [e \in Events |-> IF e \in Swaps THEN "transaction"
                                               ELSE "nftClaimed"]
  /\ UNCHANGED <<counted, read, details, firsts, account>>

\* The process ends, by a signal or a crash, and starts again: spawned tasks
\* are gone, and redelivered events are skipped because their rows exist.
Restart ==
  /\ restarts < MaxRestarts
  /\ restarts' = restarts + 1
  /\ step' = [e \in Events |-> IF step[e] \in Ended \union {"idle"}
                               THEN step[e] ELSE "cut"]
  /\ UNCHANGED <<rows, field, counted, read, details, firsts, account>>

Summary(e) == Find(e) \/ Insert(e) \/ InsertDuplicate(e) \/ Update(e)
Task(e) ==
  \/ e \in Swaps /\ (FindDetail(e) \/ CountDetails(e) \/ InsertDetail(e))
  \/ Summary(e)

PointsNext ==
  \/ \E e \in Swaps  : WriteSwap(e)
  \/ \E e \in Claims : WriteClaim(e)
  \/ \E e \in Events : Task(e) \/ CallFails(e)
  \/ Restart

PointsSpec == PointsInit /\ [][PointsNext]_pointsVars

\* The runtime keeps polling a spawned task, and the database answers.
PointsFairness == \A e \in Events : WF_pointsVars(Task(e))

PointsFairSpec == PointsSpec /\ PointsFairness

-----------------------------------------------------------------------------
(* Properties                                                              *)

PointsTypeOK ==
  /\ rows \subseteq Events
  /\ step \in [Events -> Steps]
  /\ field \in [Events -> Fields]
  /\ counted \in [Swaps -> BOOLEAN]
  /\ read \in [Events -> Account \union {None}]
  /\ firsts \subseteq details /\ details \subseteq rows \intersect Swaps
  /\ account \in [Wallets -> Account \union {None}]
  /\ restarts \in 0..MaxRestarts

Holders     == {w \in Wallets : account[w] # None}
SwapsOf(w)  == {e \in rows \intersect Swaps : Payer[e] = w}
ClaimsOf(w) == {e \in rows \intersect Claims : Upper[e] = w}

\* What a wallet earns by n swaps: 200 for the first, 10 for each other.
SwapPoints(n) == IF n = 0 THEN 0 ELSE First["transaction"] + Later * (n - 1)

\* However tasks interleave, fail or are cut off, no wallet shows more points
\* than its stored events are worth, and the one-off claim points only if it
\* claimed.
NeverOverpaid ==
  \A w \in Holders :
    /\ account[w]["transaction"] <= SwapPoints(Cardinality(SwapsOf(w)))
    /\ account[w]["nftClaimed"] <= First["nftClaimed"] * Cardinality(ClaimsOf(w))
    /\ account[w]["claimNft"] <= First["claimNft"]
    /\ account[w]["claimNft"] > 0 =>
         \E e \in rows \intersect Claims : Claimer[e] = w

\* A wallet with transaction details has one that is its first transaction,
\* although the count and the insert are separate calls.
SomeFirst == \A e \in details : \E f \in firsts : Payer[f] = Payer[e]

\* While every task of a wallet that went on to the summary has left its
\* detail, the summary shows no more transaction points than the details of
\* the wallet add up to.
DetailPoints(w) ==
  SumFunctionOnSet([e \in Swaps |-> IF e \in firsts THEN First["transaction"] ELSE Later],
                   DetailsOf(w))
BeforeSummary(e) == step[e] \in DetailCalls \union {"idle"}
SummaryBackedByDetails ==
  \A w \in Holders :
    (\A e \in SwapsOf(w) : e \in details \/ BeforeSummary(e)) =>
      account[w]["transaction"] <= DetailPoints(w)

\* Every payer of a stored swap ends up with a summary document, even when
\* its insert loses against another task, unless the task was cut off or a
\* call failed.
PayerGetsAccount ==
  \A e \in Swaps :
    e \in rows ~> (Payer[e] \in Holders
                    \/ step[e] = "cut"
                    \/ (CallsMayFail /\ step[e] = "failed"))

Quiet == \A e \in rows : step[e] \in Ended

\* Once all tasks have ended, a wallet's transaction points are 200 for the
\* first swap and 10 for each later one.
TransactionPointsExact ==
  Quiet => \A w \in Holders :
             account[w]["transaction"] = SwapPoints(Cardinality(SwapsOf(w)))

\* A claim task that came to its end has rewarded both: the referrer, unless
\* there is none, and the claimer.  Of tasks that lose an insert, fail or are
\* cut off nothing is promised, and nothing retries them.
ClaimRewarded ==
  \A e \in Claims : step[e] = "done" /\ Upper[e] # None =>
    /\ {Upper[e], Claimer[e]} \subseteq Holders
    /\ account[Upper[e]]["nftClaimed"] >= First["nftClaimed"]
    /\ account[Claimer[e]]["claimNft"] = First["claimNft"]
=============================================================================
