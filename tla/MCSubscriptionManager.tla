----------------------- MODULE MCSubscriptionManager -----------------------
(* Model-checking instances of SubscriptionManager.                        *)
EXTENDS SubscriptionManager

CONSTANTS a, b, c

\* The shard of a holds no other signature.
TwoShards == [s \in Signatures |-> IF s = a THEN 1 ELSE 2]

\* a is announced by two of its programs; every signature by one.
TwiceA == [s \in Signatures |-> IF s = a THEN 2 ELSE 1]
Once   == [s \in Signatures |-> 1]
=============================================================================
