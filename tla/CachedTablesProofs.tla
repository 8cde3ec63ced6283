------------------------- MODULE CachedTablesProofs -------------------------
(***************************************************************************)
(* Theorems about the copies of tables that every instance keeps and reads *)
(* again when they are too old: the flags of FeatureFlagCache, for any     *)
(* number of instances, lookups and admin requests, and the routes and     *)
(* credentials of MessageDispatch, for any environment, any number of      *)
(* devices and any writes of the operator.                                 *)
(***************************************************************************)
EXTENDS FeatureFlagCache, MessageDispatch, TLAPS

(* The copies of the flags *)

\* A lookup that queries is the refresh its instance knows of, so an instance has at
\* most one; what it has read is no newer than the table and no older than the copy.
RefreshesOK ==
  \A l \in Lookups : step[l] \in {"querying", "read"} =>
    at[l] \in Instances /\ refreshInFlight[at[l]] = l
CopiesOK ==
  /\ \A i \in Instances : cache[i] <= stored
  /\ \A l \in Lookups : step[l] = "read" =>
       cache[at[l]] <= snapshot[l] /\ snapshot[l] <= stored
FlagInv == FlagTypeOK /\ RefreshesOK /\ CopiesOK

-----------------------------------------------------------------------------
\* What the end of a refresh does to each lookup.
LEMMA SettleEffect ==
  ASSUME FlagInv, NEW l \in Lookups, step[l] \in {"querying", "read"}, Settle(l)
  PROVE  /\ at' \in [Lookups -> Instances \cup {Nowhere}]
         /\ step' \in [Lookups -> {"idle", "querying", "read", "joined"}]
         /\ snapshot' \in [Lookups -> Nat]
         /\ step'[l] = "idle"
         /\ \A k \in Lookups : \/ step'[k] = "idle"
                               \/ step'[k] = step[k] /\ at'[k] = at[k]
         /\ \A k \in Lookups \ {l} :
              /\ snapshot'[k] = snapshot[k]
              /\ step[k] \in {"querying", "read"} => step'[k] = step[k] /\ at'[k] = at[k]
  BY DEF FlagInv, FlagTypeOK, Settle, Released

LEMMA FlagTypeInductive ==
  ASSUME FlagInv, [FlagNext]_vars
  PROVE  FlagTypeOK'
<1> USE FlagAssumption DEF FlagInv, FlagTypeOK, RefreshesOK, lookupVars, writeVars
<1>1. ASSUME NEW w \in Writes, NEW i \in Instances, SaveFlag(w, i)
      PROVE  FlagTypeOK'
  BY <1>1 DEF SaveFlag
<1>2. ASSUME NEW w \in Writes, InvalidateCache(w)
      PROVE  FlagTypeOK'
  BY <1>2 DEF InvalidateCache
<1>3. ASSUME NEW l \in Lookups, NEW i \in Instances, Lookup(l, i)
      PROVE  FlagTypeOK'
  BY <1>3 DEF Lookup
<1>4. ASSUME NEW l \in Lookups, ReadRows(l)
      PROVE  FlagTypeOK'
  BY <1>4 DEF ReadRows
<1>5. ASSUME NEW l \in Lookups, InstallCache(l)
      PROVE  FlagTypeOK'
  <2>1. Settle(l) /\ step[l] \in {"querying", "read"} /\ at[l] \in Instances
    BY <1>5 DEF InstallCache
  <2>2. /\ UNCHANGED <<stored, writer, written, acked>>
        /\ cache' = [cache EXCEPT ![at[l]] = snapshot[l]]
        /\ fresh' = fresh \cup {at[l]}
        /\ refreshInFlight' = [refreshInFlight EXCEPT ![at[l]] = Nobody]
    BY <1>5 DEF InstallCache
  <2>3. QED
    BY <2>1, <2>2, SettleEffect
<1>6. ASSUME NEW l \in Lookups, RefreshFails(l)
      PROVE  FlagTypeOK'
  <2>1. Settle(l) /\ step[l] \in {"querying", "read"} /\ at[l] \in Instances
    BY <1>6 DEF RefreshFails
  <2>2. /\ UNCHANGED <<stored, cache, fresh, writer, written, acked>>
        /\ refreshInFlight' = [refreshInFlight EXCEPT ![at[l]] = Nobody]
    BY <1>6 DEF RefreshFails
  <2>3. QED
    BY <2>1, <2>2, SettleEffect
<1>7. ASSUME NEW i \in Instances, Expire(i)
      PROVE  FlagTypeOK'
  BY <1>7 DEF Expire
<1>8. CASE UNCHANGED vars
  BY <1>8 DEF vars
<1>9. QED
  BY <1>1, <1>2, <1>3, <1>4, <1>5, <1>6, <1>7, <1>8 DEF FlagNext

LEMMA FlagInductive ==
  ASSUME FlagInv, [FlagNext]_vars
  PROVE  FlagInv'
<1> USE FlagAssumption DEF FlagInv, FlagTypeOK, RefreshesOK, CopiesOK, lookupVars, writeVars
<1>1. ASSUME NEW w \in Writes, NEW i \in Instances, SaveFlag(w, i)
      PROVE  (RefreshesOK /\ CopiesOK)'
  BY <1>1 DEF SaveFlag
<1>2. ASSUME NEW w \in Writes, InvalidateCache(w)
      PROVE  (RefreshesOK /\ CopiesOK)'
  BY <1>2 DEF InvalidateCache
<1>3. ASSUME NEW l \in Lookups, NEW i \in Instances, Lookup(l, i)
      PROVE  (RefreshesOK /\ CopiesOK)'
  BY <1>3 DEF Lookup
<1>4. ASSUME NEW l \in Lookups, ReadRows(l)
      PROVE  (RefreshesOK /\ CopiesOK)'
  BY <1>4 DEF ReadRows
<1>5. ASSUME NEW l \in Lookups, InstallCache(l)
      PROVE  (RefreshesOK /\ CopiesOK)'
  <2>1. Settle(l) /\ step[l] = "read" /\ at[l] \in Instances
    BY <1>5 DEF InstallCache
  <2>2. /\ stored' = stored
        /\ cache' = [cache EXCEPT ![at[l]] = snapshot[l]]
        /\ refreshInFlight' = [refreshInFlight EXCEPT ![at[l]] = Nobody]
    BY <1>5 DEF InstallCache
  <2>3. \A k \in Lookups \ {l} : step[k] \in {"querying", "read"} => at[k] # at[l]
    BY <2>1
  <2>4. QED
    BY <2>1, <2>2, <2>3, SettleEffect
<1>6. ASSUME NEW l \in Lookups, RefreshFails(l)
      PROVE  (RefreshesOK /\ CopiesOK)'
  <2>1. Settle(l) /\ step[l] \in {"querying", "read"} /\ at[l] \in Instances
    BY <1>6 DEF RefreshFails
  <2>2. /\ stored' = stored /\ cache' = cache
        /\ refreshInFlight' = [refreshInFlight EXCEPT ![at[l]] = Nobody]
    BY <1>6 DEF RefreshFails
  <2>3. \A k \in Lookups \ {l} : step[k] \in {"querying", "read"} => at[k] # at[l]
    BY <2>1
  <2>4. QED
    BY <2>1, <2>2, <2>3, SettleEffect
<1>7. ASSUME NEW i \in Instances, Expire(i)
      PROVE  (RefreshesOK /\ CopiesOK)'
  BY <1>7 DEF Expire
<1>8. CASE UNCHANGED vars
  BY <1>8 DEF vars
<1>9. (RefreshesOK /\ CopiesOK)'
  BY <1>1, <1>2, <1>3, <1>4, <1>5, <1>6, <1>7, <1>8 DEF FlagNext
<1>10. QED
  BY <1>9, FlagTypeInductive

LEMMA FlagInvariant == FlagSpec => []FlagInv
<1>1. FlagInit => FlagInv
  BY FlagAssumption DEF FlagInit, FlagInv, FlagTypeOK, RefreshesOK, CopiesOK
<1>2. FlagInv /\ [FlagNext]_vars => FlagInv'
  BY FlagInductive
<1>3. QED
  BY <1>1, <1>2, PTL DEF FlagSpec

\* The state of the copies is well typed, and whatever lookup an instance's field names is
\* the one that runs its query (database-flag.provider.ts:33-44).
THEOREM FlagTypeCorrect == FlagSpec => []FlagTypeOK
<1>1. FlagInv => FlagTypeOK
  BY DEF FlagInv
<1>2. QED
  BY <1>1, FlagInvariant, PTL

\* Lookups on a stale copy share one query: an instance never has two of them under
\* way (database-flag.provider.ts:33-44).
THEOREM FlagRefreshesCoalesce ==
  FlagSpec => [](\A k, l \in Lookups :
                   /\ step[k] \in {"querying", "read"} /\ step[l] \in {"querying", "read"}
                   /\ at[k] = at[l]
                   => k = l)
<1>1. FlagInv => \A k, l \in Lookups :
                   /\ step[k] \in {"querying", "read"} /\ step[l] \in {"querying", "read"}
                   /\ at[k] = at[l]
                   => k = l
  BY DEF FlagInv, RefreshesOK
<1>2. QED
  BY <1>1, FlagInvariant, PTL

\* Whatever queries fail and however they overlap with writes, no instance goes back
\* to flags older than those it has served (database-flag.provider.ts:17-20, 35-39).
THEOREM FlagCopiesMoveForward == FlagSpec => CopiesMoveForward
<1>1. ASSUME FlagInv, [FlagNext]_vars
      PROVE  \A i \in Instances : cache'[i] >= cache[i]
  <2>1. ASSUME NEW l \in Lookups, InstallCache(l)
        PROVE  \A i \in Instances : cache'[i] >= cache[i]
    BY <1>1, <2>1 DEF InstallCache, FlagInv, FlagTypeOK, RefreshesOK, CopiesOK
  <2>2. CASE cache' = cache
    BY <1>1, <2>2 DEF FlagInv, FlagTypeOK
  <2>3. QED
    BY <1>1, <2>1, <2>2
       DEF FlagNext, SaveFlag, InvalidateCache, Lookup, ReadRows, RefreshFails, Expire, vars
<1>2. (\A i \in Instances : cache'[i] >= cache[i]) =>
        [\A i \in Instances : cache'[i] >= cache[i]]_cache
  OBVIOUS
<1>3. QED
  BY <1>1, <1>2, FlagInvariant, PTL DEF FlagSpec, CopiesMoveForward
-----------------------------------------------------------------------------
(* The copies of routes and credentials, and the fan-out that uses them *)

ChannelSteps == {"over", "resolving", "rendering", "routing", "enqueuing"}
ReaderSteps  == {"idle", "providers", "gotProviders", "routes", "gotRoutes"}
Shown        == UNION {Rows(c) \cup {SeededRoutes[c]} : c \in Channels}
Fan          == [at : ChannelSteps, pending : Nat, unqueued : Nat, failed : BOOLEAN]
Reading      == [at : ReaderSteps, seen : {None} \cup (SUBSET Keyed) \cup [Channels -> Shown]]

\* Until something fails, the destinations without a job are those whose enqueue has not settled;
\* a channel that has a route still has one of them.  It waits for a route while its refresh runs.
ChannelOK(x, reads) ==
  /\ x.pending <= x.unqueued
  /\ ~ x.failed => x.unqueued = x.pending
  /\ x.at \in {"over", "resolving"} => x.pending = 0
  /\ x.at \in {"rendering", "routing", "enqueuing"} => x.pending > 0
  /\ x.at = "routing" <=> reads # "idle"

TablesOK ==
  /\ routeRows \in [Channels -> Shown]
  /\ secretRows \in [Keyed -> Secrets]
  /\ writes \in 0..MaxWrites
CopiesTyped ==
  /\ routes \in [Channels -> Shown]
  /\ providers \subseteq Keyed
  /\ expired \in BOOLEAN
  /\ reader \in [Callers -> Reading]
  /\ \A k \in Callers : /\ reader[k].at = "gotProviders" => reader[k].seen \subseteq Keyed
                        /\ reader[k].at = "gotRoutes" => reader[k].seen \in [Channels -> Shown]
FanOK ==
  /\ type \in {"WELCOME", "TASK_ASSIGNED", None}
  /\ chan \in [Channels -> Fan]
  /\ \A c \in Channels : ChannelOK(chan[c], reader[c].at)
DispatchInv == TablesOK /\ CopiesTyped /\ FanOK

LEMMA ChannelsAre == Channels = {"EMAIL", "SMS", "IN_APP", "PUSH"}
  BY DEF Channels, ProvidersOf

LEMMA OverIs == /\ Over \in Fan /\ [Over EXCEPT !.failed = TRUE] \in Fan
                /\ Over.at = "over" /\ Over.pending = 0 /\ Over.unqueued = 0
                /\ [Over EXCEPT !.failed = TRUE].at = "over"
                /\ [Over EXCEPT !.failed = TRUE].pending = 0
                /\ [Over EXCEPT !.failed = TRUE].unqueued = 0
  BY DEF Over, Fan, ChannelSteps

\* One channel changes, and its refresh with it or not at all.
LEMMA OneChannel ==
  ASSUME FanOK, reader \in [Callers -> Reading], NEW c \in Channels, NEW x \in Fan, NEW r \in Reading,
         ChannelOK(x, r.at),
         chan' = [chan EXCEPT ![c] = x], reader' = [reader EXCEPT ![c] = r], type' = type
  PROVE  FanOK'
<1>1. c \in Callers /\ Channels \subseteq Callers
  BY DEF Callers
<1>2. ASSUME NEW d \in Channels
      PROVE  chan'[d] \in Fan /\ ChannelOK(chan'[d], reader'[d].at)
  BY <1>1 DEF FanOK
<1>3. QED
  BY <1>2 DEF FanOK

\* A refresh goes on.
LEMMA ReaderMoves ==
  ASSUME FanOK, reader \in [Callers -> Reading], NEW k \in Callers, NEW r \in Reading,
         reader[k].at # "idle", r.at # "idle", reader' = [reader EXCEPT ![k] = r], UNCHANGED <<chan, type>>
  PROVE  FanOK'
<1>1. Channels \subseteq Callers
  BY DEF Callers
<1>2. ASSUME NEW c \in Channels
      PROVE  ChannelOK(chan[c], reader'[c].at)
  <2>1. CASE c = k
    <3>1. ChannelOK(chan[c], reader[c].at) /\ reader'[c] = r
      BY <2>1 DEF FanOK
    <3>2. QED
      BY <2>1, <3>1 DEF ChannelOK
  <2>2. CASE c # k
    BY <1>1, <2>2 DEF FanOK
  <2>3. QED
    BY <2>1, <2>2
<1>3. QED
  BY <1>2 DEF FanOK

\* A refresh ends, and the channel that awaits it has its route.
LEMMA ResumeEffect ==
  ASSUME FanOK, reader \in [Callers -> Reading], NEW k \in Callers, reader[k].at # "idle", Resume(k),
         type' = type
  PROVE  FanOK' /\ reader' \in [Callers -> Reading] /\ reader' = [reader EXCEPT ![k] = NoReading]
<1>1. NoReading \in Reading /\ NoReading.at = "idle"
  BY DEF NoReading, Reading, ReaderSteps
<1>2. reader' = [reader EXCEPT ![k] = NoReading]
  BY DEF Resume
<1>3. CASE k \in Channels
  <2> DEFINE x == [chan[k] EXCEPT !.at = "enqueuing"]
  <2>1. chan[k] \in Fan /\ ChannelOK(chan[k], reader[k].at)
    BY <1>3 DEF FanOK
  <2>2. chan' = [chan EXCEPT ![k] = x]
    BY <1>3 DEF Resume, Routed
  <2>3. /\ x \in Fan /\ x.at = "enqueuing" /\ x.pending = chan[k].pending
        /\ x.unqueued = chan[k].unqueued /\ x.failed = chan[k].failed
    BY <2>1, Zenon DEF Fan, ChannelSteps
  <2> HIDE DEF x
  <2>4. ChannelOK(x, NoReading.at)
    BY <1>1, <2>1, <2>3 DEF ChannelOK
  <2>5. FanOK'
    BY <1>1, <1>2, <1>3, <2>2, <2>3, <2>4, OneChannel
  <2>6. QED
    BY <1>1, <1>2, <2>5
<1>4. CASE k \notin Channels
  <2>1. \A c \in Channels : reader'[c] = reader[c]
    BY <1>2, <1>4
  <2>2. chan' = chan
    BY <1>4 DEF Resume
  <2>3. QED
    BY <1>1, <1>2, <2>1, <2>2 DEF FanOK
<1>5. QED
  BY <1>3, <1>4

LEMMA FailsEffect ==
  ASSUME FanOK, reader \in [Callers -> Reading], NEW c \in Channels, chan[c].at # "routing", Fails(c),
         UNCHANGED <<reader, type>>
  PROVE  FanOK'
<1> DEFINE x == [Over EXCEPT !.failed = TRUE]
<1>1. ChannelOK(chan[c], reader[c].at) /\ c \in Callers
  BY DEF FanOK, Callers
<1>2. x \in Fan /\ x.at = "over" /\ x.pending = 0 /\ x.unqueued = 0 /\ chan' = [chan EXCEPT ![c] = x]
  BY OverIs DEF Fails
<1> HIDE DEF x
<1>3. ChannelOK(x, reader[c].at)
  BY <1>1, <1>2 DEF ChannelOK
<1>4. reader[c] \in Reading /\ reader' = [reader EXCEPT ![c] = reader[c]]
  BY <1>1
<1>5. QED
  BY <1>2, <1>3, <1>4, OneChannel

\* An enqueue has settled; r is what the channel then knows.
LEMMA SettledEffect ==
  ASSUME FanOK, reader \in [Callers -> Reading], NEW c \in Channels, NEW r \in Fan,
         chan[c].at = "enqueuing", r.at = "enqueuing", r.pending <= r.unqueued,
         ~ r.failed => r.unqueued = r.pending, Settled(c, r), UNCHANGED <<reader, type>>
  PROVE  FanOK'
<1> DEFINE x == IF r.pending > 0 THEN r
                ELSE IF r.failed THEN [Over EXCEPT !.failed = TRUE] ELSE [r EXCEPT !.at = "over"]
<1>1. reader[c].at = "idle" /\ c \in Callers
  BY DEF FanOK, ChannelOK, Callers
<1>2. chan' = [chan EXCEPT ![c] = x]
  BY DEF Settled
<1>3. x \in Fan /\ ChannelOK(x, "idle")
  <2>1. CASE r.pending > 0
    BY <2>1 DEF ChannelOK
  <2>2. CASE ~ (r.pending > 0) /\ r.failed
    BY <2>2, OverIs DEF ChannelOK
  <2>3. CASE ~ (r.pending > 0) /\ ~ r.failed
    <3>1. x = [r EXCEPT !.at = "over"] /\ r.pending = 0 /\ r.unqueued = 0
      BY <2>3 DEF Fan
    <3>2. x \in Fan /\ x.at = "over" /\ x.pending = r.pending /\ x.unqueued = r.unqueued
      BY <3>1, Zenon DEF Fan, ChannelSteps
    <3>3. QED
      BY <3>1, <3>2 DEF ChannelOK
  <2>4. QED
    BY <2>1, <2>2, <2>3
<1> HIDE DEF x
<1>4. reader[c] \in Reading /\ reader' = [reader EXCEPT ![c] = reader[c]]
  BY <1>1
<1>5. QED
  BY <1>1, <1>2, <1>3, <1>4, OneChannel

LEMMA FanStep ==
  ASSUME DispatchInv, [DispatchNext]_dispatchVars
  PROVE  FanOK'
<1>0. FanOK /\ reader \in [Callers -> Reading] /\ Channels \subseteq Callers
  BY DEF DispatchInv, CopiesTyped, Callers
<1>1. ASSUME NEW t \in {"WELCOME", "TASK_ASSIGNED"}, Dispatch(t)
      PROVE  FanOK'
  <2> DEFINE begun == [Over EXCEPT !.at = "resolving"]
  <2>1. /\ \A c \in Channels : chan[c].at = "over"
        /\ chan' = [c \in Channels |-> IF c \in ChannelsOf[t] THEN begun ELSE Over]
        /\ reader' = reader /\ type' \in {"WELCOME", "TASK_ASSIGNED", None}
    BY <1>1 DEF Dispatch
  <2>2. begun \in Fan /\ begun.at = "resolving" /\ begun.pending = 0 /\ begun.unqueued = 0
    BY DEF Over, Fan, ChannelSteps
  <2> HIDE DEF begun
  <2>3. ASSUME NEW c \in Channels
        PROVE  chan'[c] \in Fan /\ ChannelOK(chan'[c], reader'[c].at)
    <3>1. reader[c].at = "idle"
      BY <1>0, <2>1 DEF FanOK, ChannelOK
    <3>2. chan'[c] \in {begun, Over}
      BY <2>1
    <3>3. QED
      BY <2>1, <2>2, <3>1, <3>2, OverIs DEF ChannelOK
  <2>4. QED
    BY <2>1, <2>3 DEF FanOK
<1>2. ASSUME NEW c \in Channels, ResolveDestinations(c)
      PROVE  FanOK'
  <2>1. PICK n \in ContactPoints(c) :
          chan' = [chan EXCEPT ![c].at = IF n = 0 THEN "over" ELSE "rendering",
                               ![c].pending = n, ![c].unqueued = n]
    BY <1>2 DEF ResolveDestinations
  <2> DEFINE x == [chan[c] EXCEPT !.at = IF n = 0 THEN "over" ELSE "rendering",
                                  !.pending = n, !.unqueued = n]
  <2>2. n \in Nat
    BY DispatchAssumption DEF ContactPoints
  <2>3. chan[c] \in Fan /\ reader[c].at = "idle" /\ UNCHANGED <<reader, type>>
    BY <1>0, <1>2 DEF FanOK, ChannelOK, ResolveDestinations
  <2>4. chan' = [chan EXCEPT ![c] = x]
    BY <1>0, <2>1 DEF FanOK
  <2>5. x \in Fan /\ x.at = (IF n = 0 THEN "over" ELSE "rendering") /\ x.pending = n /\ x.unqueued = n
    BY <2>2, <2>3, Zenon DEF Fan, ChannelSteps
  <2> HIDE DEF x
  <2>6. ChannelOK(x, reader[c].at)
    BY <2>2, <2>3, <2>5 DEF ChannelOK
  <2>7. reader[c] \in Reading /\ reader' = [reader EXCEPT ![c] = reader[c]]
    BY <1>0, <2>3
  <2>8. QED
    BY <1>0, <2>3, <2>4, <2>5, <2>6, <2>7, OneChannel
<1>3. ASSUME NEW c \in Channels, Render(c)
      PROVE  FanOK'
  <2>1. /\ chan[c].at = "rendering" /\ chan[c] \in Fan /\ ChannelOK(chan[c], reader[c].at)
        /\ type' = type /\ reader[c] \in Reading
    BY <1>0, <1>3 DEF FanOK, Render
  <2>2. CASE expired
    <3> DEFINE x == [chan[c] EXCEPT !.at = "routing"]
               r == [reader[c] EXCEPT !.at = "providers"]
    <3>1. chan' = [chan EXCEPT ![c] = x] /\ reader' = [reader EXCEPT ![c] = r]
      BY <1>0, <1>3, <2>2 DEF Render, FanOK
    <3>2. /\ x \in Fan /\ x.at = "routing" /\ x.pending = chan[c].pending
          /\ x.unqueued = chan[c].unqueued /\ x.failed = chan[c].failed
      BY <2>1, Zenon DEF Fan, ChannelSteps
    <3>3. r \in Reading /\ r.at = "providers"
      BY <2>1, Zenon DEF Reading, ReaderSteps
    <3> HIDE DEF x, r
    <3>4. ChannelOK(x, r.at)
      BY <2>1, <3>2, <3>3 DEF ChannelOK
    <3>5. QED
      BY <1>0, <2>1, <3>1, <3>2, <3>3, <3>4, OneChannel
  <2>3. CASE ~ expired
    <3> DEFINE x == [chan[c] EXCEPT !.at = "enqueuing"]
    <3>1. chan' = [chan EXCEPT ![c] = x] /\ reader' = [reader EXCEPT ![c] = reader[c]]
      BY <1>0, <1>3, <2>3 DEF Render, Routed, FanOK
    <3>2. /\ x \in Fan /\ x.at = "enqueuing" /\ x.pending = chan[c].pending
          /\ x.unqueued = chan[c].unqueued /\ x.failed = chan[c].failed
      BY <2>1, Zenon DEF Fan, ChannelSteps
    <3> HIDE DEF x
    <3>3. ChannelOK(x, reader[c].at)
      BY <2>1, <3>2 DEF ChannelOK
    <3>4. QED
      BY <1>0, <2>1, <3>1, <3>2, <3>3, OneChannel
  <2>4. QED
    BY <2>2, <2>3
<1>4. ASSUME NEW c \in Channels, RenderFails(c)
      PROVE  FanOK'
  BY <1>0, <1>4, FailsEffect DEF RenderFails
<1>5. CASE DevicesUnread
  <2>1. "PUSH" \in Channels
    BY ChannelsAre
  <2>2. QED
    BY <1>0, <1>5, <2>1, FailsEffect DEF DevicesUnread
<1>6. ASSUME NEW c \in Channels, Enqueue(c) \/ EnqueueFails(c)
      PROVE  FanOK'
  <2>1. /\ chan[c].at = "enqueuing" /\ chan[c] \in Fan /\ ChannelOK(chan[c], reader[c].at)
        /\ UNCHANGED <<reader, type>>
    BY <1>0, <1>6 DEF FanOK, Enqueue, EnqueueFails
  <2>2. CASE Enqueue(c)
    <3> DEFINE r == [chan[c] EXCEPT !.pending = chan[c].pending - 1, !.unqueued = chan[c].unqueued - 1]
    <3>1. Settled(c, r)
      BY <2>2 DEF Enqueue
    <3>2. chan[c].pending - 1 \in Nat /\ chan[c].unqueued - 1 \in Nat
      BY <2>1 DEF ChannelOK, Fan
    <3>3. /\ r \in Fan /\ r.at = chan[c].at /\ r.pending = chan[c].pending - 1
          /\ r.unqueued = chan[c].unqueued - 1 /\ r.failed = chan[c].failed
      BY <2>1, <3>2, Zenon DEF Fan
    <3> HIDE DEF r
    <3>4. r.pending <= r.unqueued /\ (~ r.failed => r.unqueued = r.pending)
      BY <2>1, <3>3 DEF ChannelOK, Fan
    <3>5. QED
      BY <1>0, <2>1, <3>1, <3>3, <3>4, SettledEffect
  <2>3. CASE EnqueueFails(c)
    <3> DEFINE r == [chan[c] EXCEPT !.pending = chan[c].pending - 1, !.failed = TRUE]
    <3>1. Settled(c, r)
      BY <2>3 DEF EnqueueFails
    <3>2. chan[c].pending - 1 \in Nat
      BY <2>1 DEF ChannelOK, Fan
    <3>3. /\ r \in Fan /\ r.at = chan[c].at /\ r.pending = chan[c].pending - 1
          /\ r.unqueued = chan[c].unqueued /\ r.failed
      BY <2>1, <3>2, Zenon DEF Fan
    <3> HIDE DEF r
    <3>4. r.pending <= r.unqueued
      BY <2>1, <3>3 DEF ChannelOK, Fan
    <3>5. QED
      BY <1>0, <2>1, <3>1, <3>3, <3>4, SettledEffect
  <2>4. QED
    BY <1>6, <2>2, <2>3
<1>7. CASE SenderAsks
  <2>1. reader' = [reader EXCEPT !["sender"].at = "providers"] /\ UNCHANGED <<chan, type>>
    BY <1>7 DEF SenderAsks
  <2>2. \A c \in Channels : reader'[c] = reader[c]
    BY <1>0, <2>1, ChannelsAre
  <2>3. QED
    BY <1>0, <2>1, <2>2 DEF FanOK
<1>8. ASSUME NEW k \in Callers, RefreshStep(k)
      PROVE  FanOK'
  <2>1. ASSUME NEW a, NEW seen, [at |-> a, seen |-> seen] \in Reading, a # "idle", reader[k].at # "idle",
               reader' = [reader EXCEPT ![k] = [at |-> a, seen |-> seen]], UNCHANGED <<chan, type>>
        PROVE  FanOK'
    <3>1. [at |-> a, seen |-> seen].at # "idle"
      BY <2>1
    <3>2. QED
      BY <1>0, <2>1, <3>1, ReaderMoves
  <2>2. CASE ReadProviders(k)
    <3>1. [at |-> "gotProviders", seen |-> Readable(secretRows)] \in Reading
      BY DEF Reading, ReaderSteps, Readable
    <3>2. QED
      BY <2>1, <2>2, <3>1 DEF ReadProviders
  <2>3. CASE InstallProviders(k)
    <3>1. [at |-> "routes", seen |-> None] \in Reading
      BY DEF Reading, ReaderSteps
    <3>2. /\ reader[k].at = "gotProviders" /\ UNCHANGED <<chan, type>>
          /\ reader' = [reader EXCEPT ![k] = [at |-> "routes", seen |-> None]]
      BY <2>3 DEF InstallProviders
    <3>3. QED
      BY <2>1, <3>1, <3>2
  <2>4. CASE ReadRoutes(k)
    <3>1. [at |-> "gotRoutes", seen |-> routeRows] \in Reading
      BY DEF Reading, ReaderSteps, DispatchInv, TablesOK
    <3>2. QED
      BY <2>1, <2>4, <3>1 DEF ReadRoutes
  <2>5. CASE InstallRoutes(k) \/ RefreshRejected(k)
    <3>1. reader[k].at # "idle" /\ Resume(k) /\ type' = type
      BY <2>5 DEF InstallRoutes, RefreshRejected
    <3>2. QED
      BY <1>0, <3>1, ResumeEffect
  <2>6. QED
    BY <1>8, <2>2, <2>3, <2>4, <2>5 DEF RefreshStep
<1>9. CASE UNCHANGED <<reader, type, chan>>
  BY <1>0, <1>9 DEF FanOK
<1>10. QED
  BY <1>1, <1>2, <1>3, <1>4, <1>5, <1>6, <1>7, <1>8, <1>9
     DEF DispatchNext, ChannelStep, WelcomeUser, NotifyAssignment, ExpireCopies, WriteRoute, WriteSecret,
         dispatchVars

LEMMA TablesStep ==
  ASSUME TablesOK, [DispatchNext]_dispatchVars
  PROVE  TablesOK'
<1>1. CASE UNCHANGED tables
  BY <1>1 DEF TablesOK, tables
<1>2. ASSUME NEW c \in Rerouted, WriteRoute(c)
      PROVE  TablesOK'
  <2>1. PICK row \in Rows(c) : routeRows' = [routeRows EXCEPT ![c] = row]
    BY <1>2 DEF WriteRoute
  <2>2. c \in Channels /\ row \in Shown
    BY DispatchAssumption DEF Shown
  <2>3. writes' \in 0..MaxWrites /\ secretRows' = secretRows
    BY <1>2, DispatchAssumption DEF WriteRoute, TablesOK
  <2>4. QED
    BY <2>1, <2>2, <2>3 DEF TablesOK
<1>3. ASSUME NEW p \in Keyed, WriteSecret(p)
      PROVE  TablesOK'
  BY <1>3, DispatchAssumption DEF WriteSecret, TablesOK
<1>4. DispatchNext => \/ UNCHANGED tables
                      \/ \E c \in Rerouted : WriteRoute(c)
                      \/ \E p \in Keyed : WriteSecret(p)
  BY DEF DispatchNext, WelcomeUser, NotifyAssignment, Dispatch, ChannelStep, ResolveDestinations, Render,
         RenderFails, Enqueue, EnqueueFails, DevicesUnread, SenderAsks, RefreshStep, ReadProviders,
         InstallProviders, ReadRoutes, InstallRoutes, RefreshRejected, ExpireCopies, tables
<1>5. QED
  BY <1>1, <1>2, <1>3, <1>4 DEF dispatchVars

LEMMA CopiesStep ==
  ASSUME DispatchInv, [DispatchNext]_dispatchVars
  PROVE  CopiesTyped'
<1>0. /\ reader \in [Callers -> Reading] /\ Channels \subseteq Callers /\ "sender" \in Callers
      /\ NoReading \in Reading /\ NoReading.at = "idle"
  BY DEF DispatchInv, CopiesTyped, Callers, NoReading, Reading, ReaderSteps
<1>1. CASE UNCHANGED <<copies, reader>>
  BY <1>1 DEF DispatchInv, CopiesTyped, copies
<1>2. ASSUME NEW k \in Callers, NEW r \in Reading, reader' = [reader EXCEPT ![k] = r],
             r.at = "gotProviders" => r.seen \subseteq Keyed,
             r.at = "gotRoutes" => r.seen \in [Channels -> Shown],
             routes' \in [Channels -> Shown], providers' \subseteq Keyed, expired' \in BOOLEAN
      PROVE  CopiesTyped'
  <2>1. ASSUME NEW j \in Callers
        PROVE  /\ reader'[j].at = "gotProviders" => reader'[j].seen \subseteq Keyed
               /\ reader'[j].at = "gotRoutes" => reader'[j].seen \in [Channels -> Shown]
    BY <1>0, <1>2 DEF DispatchInv, CopiesTyped
  <2>2. reader' \in [Callers -> Reading]
    BY <1>0, <1>2
  <2>3. QED
    BY <1>2, <2>1, <2>2 DEF CopiesTyped
<1>3. ASSUME NEW k \in Callers, reader' = [reader EXCEPT ![k].at = "providers"], UNCHANGED copies
      PROVE  CopiesTyped'
  <2> DEFINE r == [reader[k] EXCEPT !.at = "providers"]
  <2>1. reader[k] \in Reading
    BY <1>0
  <2>2. r \in Reading /\ r.at = "providers"
    BY <2>1, Zenon DEF Reading, ReaderSteps
  <2>3. reader' = [reader EXCEPT ![k] = r]
    BY <1>0, <1>3
  <2> HIDE DEF r
  <2>4. QED
    BY <1>2, <1>3, <2>2, <2>3 DEF copies, DispatchInv, CopiesTyped
<1>4. ASSUME NEW c \in Channels, Render(c)
      PROVE  CopiesTyped'
  <2>1. CASE expired
    BY <1>0, <1>3, <1>4, <2>1 DEF Render
  <2>2. CASE ~ expired
    BY <1>1, <1>4, <2>2 DEF Render
  <2>3. QED
    BY <2>1, <2>2
<1>5. CASE SenderAsks
  BY <1>0, <1>3, <1>5 DEF SenderAsks
<1>6. ASSUME NEW k \in Callers, ReadProviders(k)
      PROVE  CopiesTyped'
  <2> DEFINE r == [at |-> "gotProviders", seen |-> Readable(secretRows)]
  <2>1. r \in Reading /\ r.at = "gotProviders" /\ r.seen \subseteq Keyed
    BY DEF Reading, ReaderSteps, Readable
  <2>2. reader' = [reader EXCEPT ![k] = r] /\ UNCHANGED copies
    BY <1>6 DEF ReadProviders
  <2> HIDE DEF r
  <2>3. QED
    BY <1>2, <2>1, <2>2 DEF copies, DispatchInv, CopiesTyped
<1>7. ASSUME NEW k \in Callers, InstallProviders(k)
      PROVE  CopiesTyped'
  <2> DEFINE r == [at |-> "routes", seen |-> None]
  <2>1. r \in Reading /\ r.at = "routes"
    BY DEF Reading, ReaderSteps
  <2>2. /\ reader' = [reader EXCEPT ![k] = r] /\ providers' = reader[k].seen
        /\ reader[k].at = "gotProviders" /\ UNCHANGED <<routes, expired>>
    BY <1>7 DEF InstallProviders
  <2> HIDE DEF r
  <2>3. QED
    BY <1>2, <2>1, <2>2 DEF DispatchInv, CopiesTyped
<1>8. ASSUME NEW k \in Callers, ReadRoutes(k)
      PROVE  CopiesTyped'
  <2> DEFINE r == [at |-> "gotRoutes", seen |-> routeRows]
  <2>1. r \in Reading /\ r.at = "gotRoutes" /\ r.seen \in [Channels -> Shown]
    BY DEF Reading, ReaderSteps, DispatchInv, TablesOK
  <2>2. reader' = [reader EXCEPT ![k] = r] /\ UNCHANGED copies
    BY <1>8 DEF ReadRoutes
  <2> HIDE DEF r
  <2>3. QED
    BY <1>2, <2>1, <2>2 DEF copies, DispatchInv, CopiesTyped
<1>9. ASSUME NEW k \in Callers, InstallRoutes(k) \/ RefreshRejected(k)
      PROVE  CopiesTyped'
  <2>1. /\ reader' = [reader EXCEPT ![k] = NoReading] /\ providers' = providers /\ expired' = FALSE
        /\ \/ reader[k].at = "gotRoutes" /\ routes' = reader[k].seen
           \/ routes' = routes
    BY <1>9 DEF InstallRoutes, RefreshRejected, Resume
  <2>2. QED
    BY <1>0, <1>2, <2>1 DEF DispatchInv, CopiesTyped
<1>10. CASE ExpireCopies
  BY <1>10 DEF ExpireCopies, DispatchInv, CopiesTyped
<1>11. DispatchNext => \/ UNCHANGED <<copies, reader>>
                       \/ \E c \in Channels : Render(c)
                       \/ SenderAsks \/ ExpireCopies
                       \/ \E k \in Callers : \/ ReadProviders(k) \/ InstallProviders(k) \/ ReadRoutes(k)
                                             \/ InstallRoutes(k) \/ RefreshRejected(k)
  BY DEF DispatchNext, WelcomeUser, NotifyAssignment, Dispatch, ChannelStep, ResolveDestinations,
         RenderFails, Enqueue, EnqueueFails, DevicesUnread, RefreshStep, WriteRoute, WriteSecret
<1>12. QED
  BY <1>1, <1>4, <1>5, <1>6, <1>7, <1>8, <1>9, <1>10, <1>11 DEF dispatchVars

LEMMA DispatchInvariance == DispatchSpec => []DispatchInv
<1>1. DispatchInit => DispatchInv
  <2> SUFFICES ASSUME DispatchInit PROVE DispatchInv
    OBVIOUS
  <2>1. SeededRoutes \in [Channels -> Shown] /\ [c \in Channels |-> NoRoute] \in [Channels -> Shown]
    <3>1. \A c \in Channels : SeededRoutes[c] \in Shown /\ NoRoute \in Shown
      BY DEF Shown, Rows
    <3>2. SeededRoutes = [c \in Channels |-> SeededRoutes[c]]
      BY ChannelsAre DEF SeededRoutes
    <3>3. QED
      BY <3>1, <3>2
  <2>2. TablesOK
    BY <2>1, DispatchAssumption DEF DispatchInit, TablesOK, Secrets
  <2>3. NoReading \in Reading /\ NoReading.at = "idle"
    BY DEF NoReading, Reading, ReaderSteps
  <2>4. CopiesTyped
    BY <2>1, <2>3 DEF DispatchInit, CopiesTyped
  <2>5. FanOK
    <3>1. ChannelOK(Over, "idle")
      BY OverIs DEF ChannelOK
    <3>2. QED
      BY <2>3, <3>1, OverIs DEF DispatchInit, FanOK, Callers
  <2>6. QED
    BY <2>2, <2>4, <2>5 DEF DispatchInv
<1>2. DispatchInv /\ [DispatchNext]_dispatchVars => DispatchInv'
  BY TablesStep, CopiesStep, FanStep DEF DispatchInv
<1>3. QED
  BY <1>1, <1>2, PTL DEF DispatchSpec

\* The dispatch and the copies it reads are well typed; a channel waits for a route exactly while the
\* refresh it started is under way (messaging-config.service.ts:100-110).
THEOREM DispatchTypeCorrect == DispatchSpec => []DispatchTypeOK
<1>1. DispatchInv => DispatchTypeOK
  BY DEF DispatchInv, TablesOK, CopiesTyped, FanOK, DispatchTypeOK, Shown, Fan, Reading, ReaderSteps,
         ChannelSteps, ChannelOK
<1>2. QED
  BY <1>1, DispatchInvariance, PTL

\* What HandedOverOrReported says of every moment.
HandedOver ==
  \A c \in Channels : chan[c].at = "over" /\ ~ chan[c].failed => chan[c].unqueued = 0

\* For any number of devices, whichever channels fail, at whatever point, and whatever the copies say: a
\* channel that ends without an error for the caller has a job queued for every destination
\* (messaging.service.ts:62-65, 89-109).
THEOREM DispatchHandsOver == DispatchSpec => []HandedOver
<1>1. DispatchInv => HandedOver
  BY DEF DispatchInv, FanOK, HandedOver, ChannelOK
<1>2. QED
  BY <1>1, DispatchInvariance, PTL

\* Copies and readings under way that agree with the tables.
Agrees ==
  /\ routes = routeRows /\ providers = Readable(secretRows)
  /\ \A k \in Callers : /\ reader[k].at = "gotProviders" => reader[k].seen = Readable(secretRows)
                        /\ reader[k].at = "gotRoutes" => reader[k].seen = routeRows

\* Once no older reading is under way, copies that say what the tables say do so until the tables are
\* written again, however refreshes overlap, fail or find the copies too old
\* (messaging-config.service.ts:61-110).
THEOREM DispatchStaysInStep ==
  DispatchSpec => [][Agrees /\ UNCHANGED tables => Agrees']_dispatchVars
<1>1. ASSUME DispatchInv, [DispatchNext]_dispatchVars, Agrees, UNCHANGED tables
      PROVE  Agrees'
  <2>0. reader \in [Callers -> Reading] /\ Channels \subseteq Callers /\ "sender" \in Callers
    BY <1>1 DEF DispatchInv, CopiesTyped, Callers
  <2>1. CASE UNCHANGED <<routes, providers, reader>>
    BY <1>1, <2>1 DEF Agrees, tables
  <2>2. ASSUME NEW k \in Callers, NEW r, reader' = [reader EXCEPT ![k] = r],
               r.at = "gotProviders" => r.seen = Readable(secretRows),
               r.at = "gotRoutes" => r.seen = routeRows,
               routes' = routes, providers' = providers
        PROVE  Agrees'
    BY <1>1, <2>0, <2>2 DEF Agrees, tables
  <2>3. ASSUME NEW k \in Callers, reader' = [reader EXCEPT ![k].at = "providers"], UNCHANGED copies
        PROVE  Agrees'
    <3> DEFINE r == [reader[k] EXCEPT !.at = "providers"]
    <3>1. reader[k] \in Reading
      BY <2>0
    <3>2. r.at = "providers"
      BY <3>1, Zenon DEF Reading, ReaderSteps
    <3>3. reader' = [reader EXCEPT ![k] = r]
      BY <2>0, <2>3
    <3> HIDE DEF r
    <3>4. QED
      BY <2>2, <2>3, <3>2, <3>3 DEF copies
  <2>4. ASSUME NEW c \in Channels, Render(c)
        PROVE  Agrees'
    <3>1. CASE expired
      BY <2>0, <2>3, <2>4, <3>1 DEF Render
    <3>2. CASE ~ expired
      BY <2>1, <2>4, <3>2 DEF Render, copies
    <3>3. QED
      BY <3>1, <3>2
  <2>5. CASE SenderAsks
    BY <2>0, <2>3, <2>5 DEF SenderAsks
  <2>6. ASSUME NEW k \in Callers, ReadProviders(k)
        PROVE  Agrees'
    BY <2>2, <2>6 DEF ReadProviders, copies
  <2>7. ASSUME NEW k \in Callers, InstallProviders(k)
        PROVE  Agrees'
    <3>1. /\ reader' = [reader EXCEPT ![k] = [at |-> "routes", seen |-> None]]
          /\ providers' = reader[k].seen /\ reader[k].at = "gotProviders" /\ routes' = routes
      BY <2>7 DEF InstallProviders
    <3>2. providers' = providers
      BY <1>1, <3>1 DEF Agrees
    <3>3. QED
      BY <2>2, <3>1, <3>2
  <2>8. ASSUME NEW k \in Callers, ReadRoutes(k)
        PROVE  Agrees'
    BY <2>2, <2>8 DEF ReadRoutes, copies
  <2>9. ASSUME NEW k \in Callers, InstallRoutes(k) \/ RefreshRejected(k)
        PROVE  Agrees'
    <3>1. /\ reader' = [reader EXCEPT ![k] = NoReading] /\ providers' = providers
          /\ \/ reader[k].at = "gotRoutes" /\ routes' = reader[k].seen
             \/ routes' = routes
      BY <2>9 DEF InstallRoutes, RefreshRejected, Resume
    <3>2. routes' = routes /\ NoReading.at = "idle"
      BY <1>1, <3>1 DEF Agrees, NoReading
    <3>3. QED
      BY <2>2, <3>1, <3>2
  <2>10. DispatchNext => \/ UNCHANGED <<routes, providers, reader>>
                         \/ \E c \in Channels : Render(c)
                         \/ SenderAsks
                         \/ \E k \in Callers : \/ ReadProviders(k) \/ InstallProviders(k) \/ ReadRoutes(k)
                                               \/ InstallRoutes(k) \/ RefreshRejected(k)
    BY DEF DispatchNext, WelcomeUser, NotifyAssignment, Dispatch, ChannelStep, ResolveDestinations,
           RenderFails, Enqueue, EnqueueFails, DevicesUnread, RefreshStep, WriteRoute, WriteSecret,
           ExpireCopies, copies
  <2>11. QED
    BY <1>1, <2>1, <2>4, <2>5, <2>6, <2>7, <2>8, <2>9, <2>10 DEF dispatchVars, copies
<1>2. DispatchInv /\ [DispatchNext]_dispatchVars =>
        [Agrees /\ UNCHANGED tables => Agrees']_dispatchVars
  BY <1>1
<1>3. QED
  BY <1>2, DispatchInvariance, PTL DEF DispatchSpec
=============================================================================
