---- MODULE MCMobileClient ----
(* Finite instances of MobileClient for TLC. *)
EXTENDS MobileClient, TLC

\* The server's request slots are interchangeable.
SlotSymmetry == Permutations(Requests)

\* A hasty sign-out, a kill in the middle of an exchange, a deletion that fails and a
\* sign-in that cannot be stored are each explored as long as nothing else goes wrong:
\* what is claimed after them depends on no clock and on no deleted account.
OneTrouble ==
  /\ ~ (hasty /\ cut)
  /\ hasty \/ cut => kept = {} /\ adrift = {}
  /\ kept = {} \/ adrift = {}
  /\ hasty \/ cut \/ kept # {} \/ adrift # {} => clock = 0 /\ account = Users
=============================================================================
