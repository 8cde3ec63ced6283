---- MODULE MCMessageDispatch ----
(* Finite instances of MessageDispatch for TLC. *)
EXTENDS MessageDispatch
=============================================================================
