---- MODULE MCDataSubject ----
(* Finite instances of DataSubject for TLC. *)
EXTENDS DataSubject

\* Bound: a user whose own address begins with erased- gets no notification. Retention does
\* not treat theirs differently.
PlainlyNotified == lookalike => used = {}
=============================================================================
