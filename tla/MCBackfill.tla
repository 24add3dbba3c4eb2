----------------------------- MODULE MCBackfill -----------------------------
(* A model-checking instance of Backfill: what the chain carries.          *)
EXTENDS Backfill

CONSTANTS swap, deposit

SwapsAndDeposit == <<swap, deposit, swap>>
=============================================================================
