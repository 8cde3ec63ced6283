---- MODULE MCTaskBoard ----
(* Finite instances of TaskBoard for TLC. *)
EXTENDS TaskBoard, TLC

BoardSymmetry == Permutations(Users) \cup Permutations(Requests) \cup Permutations(Tasks)
=============================================================================
