--------------------------- MODULE MCProjectToken ---------------------------
(* The model-checking instance of ProjectToken: who stores and pushes.     *)
EXTENDS ProjectToken

CONSTANTS loop, flush, p1

LoopAndFlush == {loop, flush}
OnePush      == {p1}
HandIns      == [kind \in {"creation", "launch", "deposit"} |->
                   IF kind = "deposit" THEN 1 ELSE 2]
=============================================================================
