-------------------------- MODULE MCBlockExecution --------------------------
(* BlockExecution on small instances. *)
EXTENDS BlockExecution
=============================================================================
