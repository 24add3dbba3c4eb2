---------------------------- MODULE MCPoolRecord ----------------------------
(* Model-checking instances of PoolRecord: the callers and requests.       *)
EXTENDS PoolRecord

CONSTANTS loop, flush, b1, b2

LoopAndFlush == {loop, flush}
LoopOnly     == {loop}
OneBuilder   == {b1}
TwoBuilders  == {b1, b2}
=============================================================================
