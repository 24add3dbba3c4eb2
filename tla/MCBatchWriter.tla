--------------------------- MODULE MCBatchWriter ---------------------------
(* Model-checking instances of BatchWriter.                                *)
EXTENDS BatchWriter, TLC
=============================================================================
