---- MODULE MCTokenSessions ----
(* Finite instances of TokenSessions for TLC. *)
EXTENDS TokenSessions, TLC

\* Requests are interchangeable, and so are users.
SessionSymmetry == Permutations(Requests) \cup Permutations(Users)
=============================================================================
