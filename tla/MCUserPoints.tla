---------------------------- MODULE MCUserPoints ----------------------------
(* Model-checking instances of UserPoints: the events and who takes part.  *)
EXTENDS UserPoints, TLC

CONSTANTS s1, s2, s3, c1, c2, alice, bob, carol

\* alice pays both swaps, and claims an NFT of bob; a second claim has no
\* referrer.
MixedPayer   == (s1 :> alice) @@ (s2 :> alice)
MixedClaimer == (c1 :> alice) @@ (c2 :> carol)
MixedUpper   == (c1 :> bob) @@ (c2 :> None)

\* The three swaps are alice's.
SwapsPayer   == (s1 :> alice) @@ (s2 :> alice) @@ (s3 :> alice)
NoClaim      == [c \in {} |-> alice]
=============================================================================
