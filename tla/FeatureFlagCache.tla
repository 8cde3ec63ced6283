-------------------------- MODULE FeatureFlagCache --------------------------
(***************************************************************************)
(* libs/feature-flags with the database provider: each instance of the API *)
(* keeps a copy of the feature_flags table, re-read lazily once it is      *)
(* older than cacheTtlMs, and dropped by the instance an admin wrote to.   *)
(*                                                                         *)
(* The content of the table is the number of the write that produced it.   *)
(* The age of a copy is abstracted: it may pass the TTL at any time.       *)
(***************************************************************************)
EXTENDS Naturals

CONSTANTS
  Instances,    \* processes running the API
  Writes,       \* admin requests (upsertFlag, deleteFlag) that can be in flight
  Lookups,      \* evaluations that can be in flight on a stale copy
  Nowhere,      \* an idle request runs on no instance
  Nobody,       \* refreshInFlight is null
  MaxVersion    \* bound on the writes

ASSUME FlagAssumption ==
  /\ Nowhere \notin Instances
  /\ Nobody \notin Lookups
  /\ MaxVersion \in Nat

VARIABLES
  stored,           \* version of the table
  cache,            \* the map of each provider, as a version; 0 is empty
  fresh,            \* instances whose loadedAt is set and within the TTL
  refreshInFlight,  \* the lookup whose refresh the instance would join
  at,               \* the instance each lookup runs on
  step,             \* progress of each lookup
  snapshot,         \* the rows each refresh was given
  writer,           \* the instance whose write is committed and not yet invalidated
  written,          \* the version that write produced
  acked             \* latest version each instance has acknowledged to an admin

lookupVars == <<refreshInFlight, at, step, snapshot>>
writeVars  == <<writer, written, acked>>
vars == <<stored, cache, fresh, lookupVars, writeVars>>

FlagTypeOK ==
  /\ stored \in Nat \ {0}
  /\ cache \in [Instances -> Nat]
  /\ fresh \subseteq Instances
  /\ refreshInFlight \in [Instances -> Lookups \cup {Nobody}]
  /\ at \in [Lookups -> Instances \cup {Nowhere}]
  /\ step \in [Lookups -> {"idle", "querying", "read", "joined"}]
  /\ snapshot \in [Lookups -> Nat]
  /\ writer \in [Writes -> Instances \cup {Nowhere}]
  /\ written \in [Writes -> Nat]
  /\ acked \in [Instances -> Nat]
  /\ \A i \in Instances, l \in Lookups :
       refreshInFlight[i] = l => at[l] = i /\ step[l] \in {"querying", "read"}

FlagInit ==
  /\ stored = 1
  /\ cache = [i \in Instances |-> 0]
  /\ fresh = {}
  /\ refreshInFlight = [i \in Instances |-> Nobody]
  /\ at = [l \in Lookups |-> Nowhere]
  /\ step = [l \in Lookups |-> "idle"]
  /\ snapshot = [l \in Lookups |-> 0]
  /\ writer = [w \in Writes |-> Nowhere]
  /\ written = [w \in Writes |-> 0]
  /\ acked = [i \in Instances |-> 0]

-----------------------------------------------------------------------------
(* Admin writes *)

\* The write commits; the request still has to get back to its instance.
SaveFlag(w, i) ==
  /\ writer[w] = Nowhere
  /\ stored < MaxVersion
  /\ stored' = stored + 1
  /\ writer' = [writer EXCEPT ![w] = i]
  /\ written' = [written EXCEPT ![w] = stored + 1]
  /\ UNCHANGED <<cache, fresh, lookupVars, acked>>

InvalidateCache(w) ==
  /\ writer[w] # Nowhere
  /\ fresh' = fresh \ {writer[w]}
  /\ acked' = [acked EXCEPT ![writer[w]] = IF written[w] > @ THEN written[w] ELSE @]
  /\ writer' = [writer EXCEPT ![w] = Nowhere]
  /\ written' = [written EXCEPT ![w] = 0]
  /\ UNCHANGED <<stored, cache, lookupVars>>

-----------------------------------------------------------------------------
(* Evaluations.  On a fresh copy one answers at once and changes nothing. *)

\* Mutation: every stale lookup starts a query of its own.
LookupUncoalesced(l, i) ==
  /\ step[l] = "idle"
  /\ i \notin fresh
  /\ at' = [at EXCEPT ![l] = i]
  /\ step' = [step EXCEPT ![l] = "querying"]
  /\ refreshInFlight' = [refreshInFlight EXCEPT ![i] = l]
  /\ UNCHANGED <<stored, cache, fresh, snapshot, writeVars>>
\* refreshIfStale: join the refresh in flight, or start one.
Lookup(l, i) ==
  /\ step[l] = "idle"
  /\ i \notin fresh
  /\ at' = [at EXCEPT ![l] = i]
  /\ \/ /\ refreshInFlight[i] # Nobody
        /\ step' = [step EXCEPT ![l] = "joined"]
        /\ UNCHANGED refreshInFlight
     \/ /\ refreshInFlight[i] = Nobody
        /\ step' = [step EXCEPT ![l] = "querying"]
        /\ refreshInFlight' = [refreshInFlight EXCEPT ![i] = l]
  /\ UNCHANGED <<stored, cache, fresh, snapshot, writeVars>>

\* repo.find() runs in the database.
ReadRows(l) ==
  /\ step[l] = "querying"
  /\ snapshot' = [snapshot EXCEPT ![l] = stored]
  /\ step' = [step EXCEPT ![l] = "read"]
  /\ UNCHANGED <<stored, cache, fresh, refreshInFlight, at, writeVars>>

\* The promise settles: lookup l and those that joined it go on.
Released(l) == {l} \cup {k \in Lookups : step[k] = "joined" /\ at[k] = at[l]}
Settle(l) ==
  /\ at' = [k \in Lookups |-> IF k \in Released(l) THEN Nowhere ELSE at[k]]
  /\ step' = [k \in Lookups |-> IF k \in Released(l) THEN "idle" ELSE step[k]]
  /\ snapshot' = [snapshot EXCEPT ![l] = 0]

InstallCache(l) ==
  /\ step[l] = "read"
  /\ cache' = [cache EXCEPT ![at[l]] = snapshot[l]]
  /\ fresh' = fresh \cup {at[l]}
  /\ refreshInFlight' = [refreshInFlight EXCEPT ![at[l]] = Nobody]
  /\ Settle(l)
  /\ UNCHANGED <<stored, writeVars>>

\* Mutation: the field is cleared on success only.
RefreshFailsStuck(l) ==
  /\ step[l] \in {"querying", "read"}
  /\ Settle(l)
  /\ UNCHANGED <<stored, cache, fresh, refreshInFlight, writeVars>>
\* find() rejects: the evaluations fall back to their defaults.
RefreshFails(l) ==
  /\ step[l] \in {"querying", "read"}
  /\ refreshInFlight' = [refreshInFlight EXCEPT ![at[l]] = Nobody]
  /\ Settle(l)
  /\ UNCHANGED <<stored, cache, fresh, writeVars>>

\* cacheTtlMs has passed since loadedAt.
Expire(i) ==
  /\ i \in fresh
  /\ fresh' = fresh \ {i}
  /\ UNCHANGED <<stored, cache, lookupVars, writeVars>>

-----------------------------------------------------------------------------
FlagNext ==
  \/ \E w \in Writes, i \in Instances : SaveFlag(w, i)
  \/ \E w \in Writes : InvalidateCache(w)
  \/ \E l \in Lookups, i \in Instances : Lookup(l, i)
  \/ \E l \in Lookups : ReadRows(l) \/ InstallCache(l) \/ RefreshFails(l)
  \/ \E i \in Instances : Expire(i)

FlagSpec == FlagInit /\ [][FlagNext]_vars

\* The database answers every query, now and then with success; evaluations keep
\* arriving at every instance; time passes.
FlagFairness ==
  /\ \A w \in Writes : WF_vars(InvalidateCache(w))
  /\ \A l \in Lookups : WF_vars(ReadRows(l) \/ InstallCache(l) \/ RefreshFails(l))
  /\ \A i \in Instances :
       /\ SF_vars(\E l \in Lookups : Lookup(l, i))
       /\ SF_vars(\E l \in Lookups : at[l] = i /\ ReadRows(l))
       /\ SF_vars(\E l \in Lookups : at[l] = i /\ InstallCache(l))
       /\ WF_vars(Expire(i))

FlagFairSpec == FlagSpec /\ FlagFairness

-----------------------------------------------------------------------------
(* Properties *)

\* Refreshes are coalesced, so copies are installed in the order they were read
\* and an instance never goes back to flags older than those it has served
\* (database-flag.provider.ts:17-20, 35-39).
CopiesMoveForward == [][\A i \in Instances : cache'[i] >= cache[i]]_cache

\* Whatever fails meanwhile, every instance ends up serving the last write
\* (database-flag.provider.ts:7-9, "refreshes lazily on the next lookup").
Converges == \A i \in Instances : <>[](cache[i] = stored)

\* "Drop the database provider's cache so an admin write is visible immediately"
\* (feature-flags.service.ts:58): no instance answers from a copy older than a
\* write it has acknowledged.  Not so: a refresh that queried before the write installs
\* after it.  No run checks it.
WriteVisibleAtOnce == \A i \in fresh : cache[i] >= acked[i]
=============================================================================
