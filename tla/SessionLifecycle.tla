--------------------------- MODULE SessionLifecycle ---------------------------
(***************************************************************************)
(* What a login promises: the family of refresh tokens it starts is open   *)
(* from the login until it is closed, by logout, reuse detection, expiry,  *)
(* deletion of the account or a failed rotation, and a closed family never *)
(* opens again.                                                            *)
(***************************************************************************)
CONSTANT Families

VARIABLE phase   \* [Families -> {"new", "open", "closed"}]

LifecycleInit == phase = [f \in Families |-> "new"]

OpenFamily(f) ==
  /\ phase[f] = "new"
  /\ phase' = [phase EXCEPT ![f] = "open"]

CloseFamilies(S) ==
  /\ \A f \in S : phase[f] = "open"
  /\ phase' = [f \in Families |-> IF f \in S THEN "closed" ELSE phase[f]]

LifecycleNext ==
  \/ \E f \in Families : OpenFamily(f)
  \/ \E S \in SUBSET Families : CloseFamilies(S)

LifecycleSpec == LifecycleInit /\ [][LifecycleNext]_phase
=============================================================================
