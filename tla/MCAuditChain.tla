---- MODULE MCAuditChain ----
(* Finite instances of AuditChain for TLC. *)
EXTENDS AuditChain

\* Writers are interchangeable; used by the runs with no liveness property.
WriterSymmetry == Permutations(Writers)
=============================================================================
