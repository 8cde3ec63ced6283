---- MODULE MCPushDelivery ----
(* Finite instances of PushDelivery for TLC. *)
EXTENDS PushDelivery, TLC

PushSymmetry ==
  Permutations(Tokens) \cup Permutations(Users) \cup Permutations(Registers)

\* Calls overlap and devices age as long as there is no job; beside a job there is one call
\* at a time, and no more devices than one user may have.
OneTrouble ==
  (\E j \in Jobs : jobs[j].state # "none") =>
    /\ clock = 0 /\ uncounted = {} /\ Cardinality(devices) <= MaxDevices
    /\ \A q, r \in Registers : q # r => pc[q] = "idle" \/ pc[r] = "idle"
=============================================================================
