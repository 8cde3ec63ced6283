---------------------------- MODULE DeviceRegistry ----------------------------
(***************************************************************************)
(* DeviceTokenService of libs/messaging: the registry of push tokens.      *)
(* register() is a sequence of statements, outside any transaction, that   *)
(* requests of any instance interleave with; the other operations are one  *)
(* DELETE each.                                                            *)
(*                                                                         *)
(* TypeORM's save(existing) reads the row again by its id: it updates the  *)
(* row if it is still there and inserts the copy if it is not.             *)
(***************************************************************************)
EXTENDS Integers, FiniteSets

CONSTANTS
  Users,
  Tokens,       \* FCM registration tokens: one per device and app install
  Registers,    \* register() calls that can be in flight at once
  NoUser,
  NoDevice,     \* the default of unused fields
  MaxDevices,   \* MAX_DEVICES_PER_USER
  StaleAfter,   \* retention window of a registration, in clock ticks
  MaxId,        \* bound on the rows ever created
  MaxClock      \* bound on the clock

ASSUME DeviceAssumption ==
  /\ NoUser \notin Users
  /\ NoDevice \notin Tokens
  /\ MaxDevices \in Nat \ {0}
  /\ StaleAfter \in Nat
  /\ MaxId \in Nat
  /\ MaxClock \in Nat

VARIABLES
  devices,   \* rows of device_tokens
  nextId,    \* the next primary key
  pc,        \* progress of each register() call
  user,      \* its caller
  token,     \* the token it was given
  rowId,     \* id of the row it has read: `existing`, or `stalest`
  clock,
  uncounted, \* ghost: ids of the rows that came to their user past the count
  blind,     \* ghost: the calls whose insert will be one of these
  renewed    \* ghost: the calls whose chosen row was saved by another since

callVars == <<pc, user, token, rowId>>
ghosts == <<uncounted, blind, renewed>>
vars == <<devices, nextId, callVars, clock, ghosts>>

Device == [id : Nat, token : Tokens, user : Users, lastSeenAt : Nat]

DevicesOf(u)  == {d \in devices : d.user = u}
WithToken(t)  == {d \in devices : d.token = t}
WithId(n)     == {d \in devices : d.id = n}
InTurn(u)     == {d \in DevicesOf(u) : d.id \notin uncounted}
Stalest(D)    == {d \in D : \A e \in D : d.lastSeenAt <= e.lastSeenAt}

\* With the unique index on token and the primary key.
DeviceTypeOK ==
  /\ devices \subseteq Device
  /\ \A d, e \in devices : d.token = e.token \/ d.id = e.id => d = e
  /\ nextId \in Nat /\ \A d \in devices : d.id < nextId
  /\ pc \in [Registers -> {"idle", "find", "saveExisting", "count", "findStalest",
                           "evict", "insert"}]
  /\ user \in [Registers -> Users \cup {NoUser}]
  /\ token \in [Registers -> Tokens \cup {NoDevice}]
  /\ rowId \in [Registers -> Nat]
  /\ clock \in Nat
  /\ uncounted \subseteq Nat
  /\ blind \subseteq Registers
  /\ renewed \subseteq Registers

DeviceInit ==
  /\ devices = {}
  /\ nextId = 1
  /\ pc = [r \in Registers |-> "idle"]
  /\ user = [r \in Registers |-> NoUser]
  /\ token = [r \in Registers |-> NoDevice]
  /\ rowId = [r \in Registers |-> 0]
  /\ clock = 0
  /\ uncounted = {} /\ blind = {} /\ renewed = {}

-----------------------------------------------------------------------------
(* register() *)

\* The call returns or throws.
Return(r) ==
  /\ pc' = [pc EXCEPT ![r] = "idle"]
  /\ user' = [user EXCEPT ![r] = NoUser]
  /\ token' = [token EXCEPT ![r] = NoDevice]
  /\ rowId' = [rowId EXCEPT ![r] = 0]

Goto(r, step) ==
  /\ pc' = [pc EXCEPT ![r] = step]
  /\ UNCHANGED <<user, token>>

Register(r, u, t) ==
  /\ pc[r] = "idle"
  /\ pc' = [pc EXCEPT ![r] = "find"]
  /\ user' = [user EXCEPT ![r] = u]
  /\ token' = [token EXCEPT ![r] = t]
  /\ UNCHANGED <<devices, nextId, rowId, clock, ghosts>>

\* The calls of u whose count is behind them and whose insert is not.
Counted(u) == {r \in Registers : user[r] = u /\ pc[r] \in {"findStalest", "evict", "insert"}}

FindByToken(r) ==
  /\ pc[r] = "find"
  /\ \/ \E d \in WithToken(token[r]) :
          /\ rowId' = [rowId EXCEPT ![r] = d.id]
          /\ Goto(r, "saveExisting")
     \/ /\ WithToken(token[r]) = {}
        /\ Goto(r, "count")
        /\ UNCHANGED rowId
  /\ UNCHANGED <<devices, nextId, clock, ghosts>>

NewRow(r, n) == [id |-> n, token |-> token[r], user |-> user[r], lastSeenAt |-> clock]

\* The unique index refuses a second row with the token.
TokenIsFree(r) == WithToken(token[r]) = {}

\* Nobody counts before a save: a row that is new to its user is past the count where
\* the user is at the cap, or about to insert on an earlier count.
ComesUncounted(r) ==
  /\ \A d \in WithId(rowId[r]) : d.user # user[r]
  /\ Cardinality(DevicesOf(user[r])) >= MaxDevices \/ Counted(user[r]) # {}

\* The row follows its new owner; one deleted meanwhile comes back under its id.
SaveExisting(r) ==
  /\ pc[r] = "saveExisting"
  /\ \/ /\ WithId(rowId[r]) # {}
        /\ devices' = (devices \ WithId(rowId[r])) \cup {NewRow(r, rowId[r])}
     \/ /\ WithId(rowId[r]) = {}
        /\ TokenIsFree(r)
        /\ devices' = devices \cup {NewRow(r, rowId[r])}
  /\ uncounted' = uncounted \cup IF ComesUncounted(r) THEN {rowId[r]} ELSE {}
  /\ renewed' = renewed \cup {q \in Registers : pc[q] = "evict" /\ rowId[q] = rowId[r]}
  /\ Return(r)
  /\ UNCHANGED <<nextId, clock, blind>>

\* Two counts with no insert between them see the same devices.
Overlaps(r) == blind' = blind \cup IF Counted(user[r]) # {} THEN {r} ELSE {}

\* Mutation: one device too many passes.
CountDevicesLax(r) ==
  /\ pc[r] = "count"
  /\ Goto(r, IF Cardinality(DevicesOf(user[r])) > MaxDevices THEN "findStalest" ELSE "insert")
  /\ Overlaps(r)
  /\ UNCHANGED <<devices, nextId, rowId, clock, uncounted, renewed>>
CountDevices(r) ==
  /\ pc[r] = "count"
  /\ Goto(r, IF Cardinality(DevicesOf(user[r])) >= MaxDevices THEN "findStalest" ELSE "insert")
  /\ Overlaps(r)
  /\ UNCHANGED <<devices, nextId, rowId, clock, uncounted, renewed>>

\* Mutation: the order of the query is turned round.
FindNewest(r) ==
  /\ pc[r] = "findStalest"
  /\ \/ \E d \in DevicesOf(user[r]) :
          /\ \A e \in DevicesOf(user[r]) : d.lastSeenAt >= e.lastSeenAt
          /\ rowId' = [rowId EXCEPT ![r] = d.id]
          /\ blind' = blind \cup IF d.id \in uncounted THEN {r} ELSE {}
          /\ Goto(r, "evict")
     \/ /\ DevicesOf(user[r]) = {}
        /\ Goto(r, "insert")
        /\ UNCHANGED <<rowId, blind>>
  /\ UNCHANGED <<devices, nextId, clock, uncounted, renewed>>
\* In the place of an uncounted row comes another.
FindStalest(r) ==
  /\ pc[r] = "findStalest"
  /\ \/ \E d \in Stalest(DevicesOf(user[r])) :
          /\ rowId' = [rowId EXCEPT ![r] = d.id]
          /\ blind' = blind \cup IF d.id \in uncounted THEN {r} ELSE {}
          /\ Goto(r, "evict")
     \/ /\ DevicesOf(user[r]) = {}
        /\ Goto(r, "insert")
        /\ UNCHANGED <<rowId, blind>>
  /\ UNCHANGED <<devices, nextId, clock, uncounted, renewed>>

Evict(r) ==
  /\ pc[r] = "evict"
  /\ devices' = devices \ WithId(rowId[r])
  /\ Goto(r, "insert")
  /\ rowId' = [rowId EXCEPT ![r] = 0]
  /\ renewed' = renewed \ {r}
  /\ UNCHANGED <<nextId, clock, uncounted, blind>>

InsertDevice(r) ==
  /\ pc[r] = "insert"
  /\ nextId <= MaxId
  /\ TokenIsFree(r)
  /\ devices' = devices \cup {NewRow(r, nextId)}
  /\ nextId' = nextId + 1
  /\ uncounted' = uncounted \cup IF r \in blind THEN {nextId} ELSE {}
  /\ blind' = blind \ {r}
  /\ Return(r)
  /\ UNCHANGED <<clock, renewed>>

\* A unique violation, any other failed statement, or the end of the instance.
RegisterFails(r) ==
  /\ pc[r] # "idle"
  /\ blind' = blind \ {r} /\ renewed' = renewed \ {r}
  /\ Return(r)
  /\ UNCHANGED <<devices, nextId, clock, uncounted>>

-----------------------------------------------------------------------------
(* Single statements *)

DeleteDevices(D) ==
  /\ devices' = devices \ D
  /\ UNCHANGED <<nextId, callVars, clock, ghosts>>

Unregister(u, t) == DeleteDevices(DevicesOf(u) \cap WithToken(t))

\* FCM reported the token dead.
RemoveToken(t) == DeleteDevices(WithToken(t))

EraseForUser(u) == DeleteDevices(DevicesOf(u))

PurgeStale == DeleteDevices({d \in devices : d.lastSeenAt + StaleAfter < clock})

Tick ==
  /\ clock < MaxClock
  /\ clock' = clock + 1
  /\ UNCHANGED <<devices, nextId, callVars, ghosts>>

-----------------------------------------------------------------------------
RegisterNext(r) ==
  \/ \E u \in Users, t \in Tokens : Register(r, u, t)
  \/ FindByToken(r)
  \/ SaveExisting(r)
  \/ CountDevices(r)
  \/ FindStalest(r)
  \/ Evict(r)
  \/ InsertDevice(r)
  \/ RegisterFails(r)

ClientNext ==
  \/ \E r \in Registers : RegisterNext(r)
  \/ \E u \in Users, t \in Tokens : Unregister(u, t)
  \/ \E u \in Users : EraseForUser(u)
  \/ PurgeStale
  \/ Tick

\* Pruning is the delivery pipeline's: PushDelivery says when.
DeviceNext == ClientNext \/ \E t \in Tokens : RemoveToken(t)

DeviceSpec == DeviceInit /\ [][DeviceNext]_vars

-----------------------------------------------------------------------------
(* Properties *)

\* "capped at 20 devices/user with stalest-eviction" (docs/PUSH_NOTIFICATIONS.md:20-21,
\* device-token.service.ts:7): however many calls run at once, the devices that came to
\* a user in turn are within the cap.  Over it go only a device that changed hands, or
\* was put back, past the count, one whose call counted while another of the same user
\* was between its count and its insert, and what later takes the place of these.
CapKept == \A u \in Users : Cardinality(InTurn(u)) <= MaxDevices

\* The cap as it is documented.  Not so, for the reasons CapKept excepts.  No run
\* checks it.
CappedPerUser == \A u \in Users : Cardinality(DevicesOf(u)) <= MaxDevices

\* "evict the stalest registration ... the user's newest device is always the one
\* they expect to buzz" (device-token.service.ts:35-36): with any number of calls at
\* once, the row that makes room is, as it goes, the least recently seen of the
\* caller's own, unless another call has saved that very row since it was chosen.
EvictsStalest ==
  [][\A r \in Registers :
       pc[r] = "evict" /\ pc'[r] = "insert" /\ r \notin renewed =>
         devices \ devices' \subseteq Stalest(DevicesOf(user[r]))]_vars

\* The same without the exception.  Not so: the DELETE goes by the id that was read
\* (44), and takes a row that has been refreshed, or given to another user, meanwhile.
\* No run checks it.
EvictsOnlyStalest ==
  [][\A r \in Registers :
       pc[r] = "evict" /\ pc'[r] = "insert" =>
         devices \ devices' \subseteq Stalest(DevicesOf(user[r]))]_vars
=============================================================================
