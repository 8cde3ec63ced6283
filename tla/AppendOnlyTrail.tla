--------------------------- MODULE AppendOnlyTrail ---------------------------
(***************************************************************************)
(* What the audit trail promises while nothing is being expired: one       *)
(* history of events that only ever grows at its end, whatever the number  *)
(* of instances appending to it and whichever of their transactions fail.  *)
(***************************************************************************)
EXTENDS Sequences

CONSTANT Payloads   \* the events that can be recorded

VARIABLE trail      \* the recorded events, oldest first

TrailInit == trail = <<>>

Record(p) == trail' = Append(trail, p)

TrailNext == \E p \in Payloads : Record(p)

TrailSpec == TrailInit /\ [][TrailNext]_trail
=============================================================================
