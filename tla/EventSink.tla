----------------------------- MODULE EventSink -----------------------------
(***************************************************************************)
(* What the persistence side of the event listener promises about the      *)
(* events handed to it, with no queue, batch or retry in sight.  An event  *)
(* is accepted in submission order, stays pending for some time, and then  *)
(* settles once and for all: it is a row of the database or it is lost.    *)
(* A retried batch may leave a row behind and put the event back in the    *)
(* queue, so a row may appear while its event is still pending; a row      *)
(* never disappears.                                                       *)
(***************************************************************************)
EXTENDS Integers

CONSTANT MaxItems        \* bound: submissions in a behaviour

Items == 1..MaxItems

VARIABLES accepted,      \* the number of events accepted so far
          pending,       \* accepted events the process still holds
          rows           \* accepted events that have a row in the database

vars == <<accepted, pending, rows>>

Init ==
  /\ accepted = 0
  /\ pending = {}
  /\ rows = {}

Accept ==
  /\ accepted < MaxItems
  /\ accepted' = accepted + 1
  /\ pending' = pending \union {accepted + 1}
  /\ UNCHANGED rows

\* A write attempt stores some pending events and lets go of some.
Attempt(S, D) ==
  /\ rows' = rows \union S
  /\ pending' = pending \ D
  /\ UNCHANGED accepted

Next ==
  \/ Accept
  \/ \E S, D \in SUBSET pending : Attempt(S, D)

\* The process lets go of event i.
Settle(i) == \E S, D \in SUBSET pending : i \in D /\ Attempt(S, D)

Spec == Init /\ [][Next]_vars

FairSpec == Spec /\ \A i \in Items : WF_vars(Settle(i))
=============================================================================
