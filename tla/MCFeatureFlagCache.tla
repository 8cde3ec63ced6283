---- MODULE MCFeatureFlagCache ----
(* Finite instances of FeatureFlagCache for TLC. *)
EXTENDS FeatureFlagCache
=============================================================================
