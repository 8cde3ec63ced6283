# Verification of ClevScaffold

TLA+ specifications of the ClevScaffold monorepo: a NestJS/TypeORM API over
PostgreSQL and Redis, an Expo mobile app and two web apps that talk to it, and the
libraries they share. The modules model what the code does, statement by statement
where statements of different requests can interleave. TLC checks them on small
instances; TLAPS proves the theorems listed below for every value of the constants.

Line references are to files of the repository.

## The system

Any number of instances of the API run against one database. A request is a
sequence of `await`s; almost none of them share a transaction, so requests of one
instance or of several interleave at every statement. Cron jobs run on every
instance. BullMQ workers take jobs at least once.

| component | state it keeps | operations | what is hard | what makes it correct |
| --- | --- | --- | --- | --- |
| sessions and refresh tokens (`libs/auth`) | rows of `user_sessions`: token hash, expiry, `revoked_at` | login, register, refresh (rotation, reuse detection), logout, logout-all, hourly purge | several statements per refresh; crashes between them; account deletion under way | no rotated token stays usable; a closed login never reopens; replays are recognised until the token expires; detected reuse ends everything |
| mobile app (`apps/mobile`) | access token in memory, refresh token in the keychain, one shared refresh promise, the screen | sign in, refresh, request with one retry, registration for push, sign out | sign-out is not awaited; answers are lost; the app can be killed | a token is exchanged once; what is stored is unspent; sign-out leaves nothing; an honest device raises no alarm |
| accounts (`apps/api`, `libs/auth`) | rows of `users`: address, password hash, failed logins, `locked_until`, `deleted_at` | failed and successful login, profile update, deletion, erasure of the profile | a counter read before `bcrypt` and saved after it; stale saves over an erasure | nobody is locked who has not earned it; a lock holds; an erased account stays erased once nobody holds a copy |
| tasks (`apps/api`) | rows of `tasks`: owner, assignee, status, `deleted_at`; statistics cache in Redis | create, update, remove, list, statistics | `save` writes a copy read before other statements | nobody gains a task its owner did not give; what is removed does not come back by itself |
| export and erasure, in-app notifications (`libs/compliance`, `apps/api`) | registry of contributors; rows of `notifications` | `erase`, `exportData`; deliver, mark read, mark all read | one contributor fails after others have run; rows written back meanwhile | the record of an erasure tells the truth; notifications of a user who is gone run dry |
| retention (`libs/compliance`, wired in `apps/api`) | none; windows from the configuration | nightly purge of the trail and of registered targets | deletes under concurrent appends, fails half-way, lists before it writes | only aged data leaves, and it leaves in the end |
| audit trail (`libs/compliance`) | `audit_log`, an HMAC chain ordered by a sequence; a Postgres advisory lock | `record`, `verifyChain` | concurrent appends, failed transactions, rows deleted under a reader | one unforked chain; `verifyChain` reports real gaps only; a failed append blocks nobody |
| message dispatch (`libs/messaging`) | copies of the routes and credentials with their age | `dispatch`, `routeFor`, `getProvider`, refresh | channels fail independently; refreshes are not shared, and read two tables one after the other | every destination gets a job or the caller an error; the copies settle on the tables |
| push delivery (`libs/messaging`) | BullMQ jobs, rows of `message_deliveries` | enqueue, send, fallback, record, prune | at-least-once jobs; partial failures after the send | bounded duplicates; the record tells what happened; only dead tokens are pruned |
| device registry (`libs/messaging`) | rows of `device_tokens`, unique by token | register, unregister, prune, erase, purge | find, count, evict and insert are separate statements | the cap per user; the stalest registration is the one evicted |
| feature flags (`libs/feature-flags`) | a copy of `feature_flags` per instance, with its age | evaluate, upsert, delete | admin writes between a query and its install; failing refreshes | copies move forward and converge |
| generator (`scripts/*.mjs`) | the files of a project and its manifest | init, add, rename-app, new-app | many steps without undo; tools interrupted; names that collide | a recorded capability is complete and wired; nothing dangles; registries match the directories |
| consent, realtime, web apps, guards and filters, configuration, helpers, logger, health, migrations, CI | - | - | - | not modelled, see the end |

How they interact: `TasksService`, `AuthService` and the compliance library call
`UsersService`; an erasure calls the contributors for profile, tasks, notifications
and devices in that order and then `AuditService.record`; retention calls
`DeviceTokenService.purgeStale`, the scrub of deleted users and others; registration
and task assignment dispatch messages; messaging reads the registry at dispatch and
prunes it after the send; the app meets the session store over HTTP. The generator
touches none of this at run time: it decides which of it a project has.

## Modules

| module | models |
| --- | --- |
| `AuditChain` | `AuditService.record`, `verifyChain`, `RetentionService.runOnce` |
| `AppendOnlyTrail` | what the trail promises: a sequence that grows at its end |
| `TokenSessions` | `TokenService`, the session half of `AuthService`, deletion of accounts |
| `SessionLifecycle` | what a login promises: open once, closed for good |
| `MobileClient` | `api.ts`, `push.ts` and the session half of `App.tsx`; EXTENDS `TokenSessions` |
| `Accounts` | `AuthService.login` and the writes of `UsersService` on one account |
| `TaskBoard` | `TasksService`, with deletion and erasure of its users |
| `DataSubject` | `DataSubjectService.erase` over all contributors, `NotificationsService`, the registered retention targets |
| `FeatureFlagCache` | `DatabaseFlagProvider` on several instances, `FeatureFlagsService` writes |
| `MessageDispatch` | `MessagingService.dispatch` and its two callers, `MessagingConfigService`, `TemplateService` |
| `DeviceRegistry` | `DeviceTokenService` |
| `PushDelivery` | the PUSH channel and `DeliveryQueueService`; EXTENDS `DeviceRegistry` |
| `Scaffold` | `init.mjs`, `add.mjs`, `rename-app.mjs`, `new-app.mjs`, `scaffold-manifest.mjs` |
| `AuditChainProofs`, `AccountsProofs`, `TaskBoardProofs`, `DataSubjectProofs`, `ScaffoldProofs` | theorems about the module each is named after |
| `MobileClientProofs` | theorems about `TokenSessions`, and about `MobileClient` |
| `PushDeliveryProofs` | theorems about `DeviceRegistry`, and about `PushDelivery` |
| `CachedTablesProofs` | theorems about `FeatureFlagCache` and `MessageDispatch` |
| `MC*` | symmetry sets, instances and one constraint for TLC |

Operators named `...Unchecked`, `...Eager`, `Skip...` and the like, marked
"Mutation", are plausible bugs of the definition below them. No behaviour uses them:
they are the evidence that a property can fail.

**AuditChain.** One action per statement of the transaction: `Begin` (fixes
`now()`), `AcquireLock` (the advisory lock), `ReadTip` (the row with the greatest
sequence), `Insert`, `Commit`; `Rollback` at any point. `uncommitted` holds what
others cannot see. The sequence has gaps after a rollback. A hash is the sequence of
payloads it commits to, because an HMAC over the previous hash and the payload is
injective in practice; `VerifyChain` recomputes it row by row as the code does.
`RetentionPurge` is a DELETE outside the lock. Canonical JSON is inside
`ComputeChainHash` and not taken apart.

**TokenSessions.** A token, its hash and its row are one number, in the order of the
inserts. `Refresh` is the lookup and the checks on the row; `ResolveUser`,
`RevokePresented` and `SaveRotated` are the three later statements of a rotation,
`DetectReuse` and `RejectUnusable` the other ends, `Abandon` a crash or a failed
statement between any two. `info` records the lineage that the table does not, and
`exposed` what a detected reuse should have ended.

**MobileClient.** Runs inside `TokenSessions`: the server's actions are used as they
are, and an action of the app is what it does between two of its awaits. `access` is
the number of the session an access token names; the server accepts it without a
look at the table. `refresh` is the shared promise with the token it sent and the
server slot that serves it, `enter` and `leave` the sign-in and the sign-out, `call`
the task panel and the push registration, each retried once after a shared refresh.
The app can be killed at any point, any answer can be lost, and each call of the
keychain can fail: `ReadFails` leaves the start screen waiting for ever ("stuck", a
rejected promise nobody handles), a failed write ends a refresh or a sign-in, a failed
deletion (`DeleteItem`) is swallowed. Four ghosts say what went wrong: `cut` (killed
while a token was being exchanged or given up), `hasty` (a sign-out overlapped with
another request of the app), `kept` (the tokens that failed deletions left in the
keychain) and `adrift` (the sign-ins whose refresh token could not be stored). A failed
keychain call is taken to have changed nothing.

**Accounts.** One account; no statement touches two. A failed login reads the row,
compares, and saves the copy; a profile update does the same. The save writes what it
read back, `deleted_at` included, and the password hash only where it was loaded. A
successful login, deletion and erasure are UPDATEs by id. `failures` counts the wrong
passwords that were recorded: it is what locks are measured against.

**TaskBoard.** A request reads a row into `draft`, with its changes applied; it may
look up the assignee; it then saves. TypeORM's `save` reads the row again, writes
every column that differs from the copy and inserts a row that is gone, so the row
ends up as the copy. `named` records whom an owner has asked to assign.
`EraseProfile`, `DetachErased` and `DeleteErased` are the statements of an erasure
that matter here. Access tokens are checked without the database, so a user who is
gone acts until `TokenExpires`.

**DataSubject.** Everything kept about one user: the row (deleted, scrubbed, its age),
notifications with their age, a task and a device. Of these two `held` says whether the
row is there, and since when: "new", "old" (the erasure found it), or "back" (a save
has inserted it again since the erasure began); `revived` says the same of
notifications and `restored` of the user. `EraseStep` runs the contributors in the
order in which `ComplianceWiringService` registers them (profile in two statements,
tasks, notifications, devices) and then the audit record; `EraseFails` stops after any
of them. `ReadNote` and `SaveRead` are the two halves of `markRead`, `ReadOther` and
`SaveOther` those of a task's update, by its owner or its assignee, and of the
registration of a known device: each of these saves inserts a row that is gone.
`lookalike` is a user whose own address begins with "erased-", the prefix by which
retention tells tombstones (`Prefixed`); a window of no days switches its target off.
The nightly run lists stale users, scrubs them, purges notifications and devices, and
can throw at each. `holder` stands for a login or a profile update that holds a copy of
the user row (taken apart in `Accounts`).

**FeatureFlagCache.** The content of the table is the number of the write that
produced it. `Lookup` joins a refresh in flight or starts one, `ReadRows` is the
query, `InstallCache` what follows the await; `SaveFlag` and `InvalidateCache` are
the two halves of an admin write. The age of a copy is abstract: it may expire at any
time.

**MessageDispatch.** A dispatch fans out to the channels of its type; each resolves
its destinations, renders, asks for a route and enqueues once per destination, and
can fail at each point while the others go on. `pending` counts enqueues that have not
settled, `unqueued` destinations without a job. The copies of routes and credentials
are refreshed by whoever finds them too old, the sender of the queue included, with
two queries per caller and no sharing. Nothing in the application writes the two tables:
`WriteRoute` and `WriteSecret` are an operator. One instance and one dispatch at a
time, since instances share no copies and the channels already overlap.

**DeviceRegistry and PushDelivery.** `register()` is split at its awaits (`FindByToken`,
`SaveExisting`, `CountDevices`, `FindStalest`, `Evict`, `InsertDevice`), for any number
of calls at once. Ghosts name the rows that are past the count: `uncounted` (they came
to their user by a save that never counts, their call counted while another of the same
user was under way, or they took the place of such a row), `blind` (the calls that
counted so) and `renewed` (the calls whose chosen row another has saved since). A job goes
from `dispatched` through `waiting`, `sending`, `fallback`, `recording` and `pruning`;
`SaveRecordFails` makes BullMQ run it again, `WorkerDies` makes another worker take it
over. FCM is external: it accepts, fails, or answers UNREGISTERED, and then never
accepts that token again.

**Scaffold.** A kebab-case name is the sequence of its words, a path a pair of the
directory below `apps/` and what stands there. `tree` holds directories, migrations and
samples; `wired` says which shared file holds the blocks of which capability, `marked`
whose markers are still there. Each writing step of a tool is an action, and `Stop` may
end a tool between any two of them; it leaves the files as they are and a mark in
`scars`, by which properties except what an interrupted run may leave. A guide is the
pair of a file and a capability whose lines the user has to insert by hand; inserting
them (`ApplyGuide`) is the only action of the user besides running tools.

## What TLC checks

| run | instance | states | shows |
| --- | --- | --- | --- |
| `AuditChain_keep` | 2 connections, window 0, 3 rows | 14 thousand | appends from any connections form one growing trail that verifies after every commit; every call returns |
| `AuditChain_retention` | 2 connections, window of one tick, 4 rows | 306 thousand | the surviving rows agree on one history, `verifyChain` names exactly the oldest row whose predecessor is gone, nothing leaves early |
| `TokenSessions_concurrent` | 1 user, 2 requests, 3 tokens | 225 thousand | what holds under every race |
| `TokenSessions_reuse_race` | 2 requests, 4 tokens | violation | a rotation in flight survives reuse detection |
| `MobileClient_session` | 1 device, 2 server requests, 3 tokens | 2.0 million | concurrent 401s spend one token; only a failed keychain call leaves a spent token stored, or a credential after an unhurried sign-out, which alarms nobody |
| `Accounts_lockout` | 2 requests, limit of 2 attempts, locks up to 2 | 551 thousand | locks are earned and hold once no older copy is about; what is deleted or erased comes back through an older copy only |
| `TaskBoard_requests` | 2 users, 1 task, 2 requests, 2 statuses | 699 thousand | what stale saves and erasures cannot break |
| `DataSubject_erasure` | 1 notification, 1 task, 1 device, 1 request, windows of 1 day | 614 thousand | a recorded erasure is complete but for rows written back, notifications run dry, retention scrubs only the aged, and in the end does |
| `FeatureFlagCache_converges` | 2 instances, 2 lookups, 1 writer, 3 versions | 11 thousand | copies never go back, and reach the last write |
| `MessageDispatch_fanout` | 4 channels, 2 devices, 1 operator write | 287 thousand | every destination has a job or the caller an error; the copies settle on the tables |
| `PushDelivery_pipeline` | 2 users, 3 tokens, cap 2, 2 registrations at once, 1 job, 2 attempts | 1.2 million | cap and eviction but for what races and handovers bring, duplicates, records and pruning |
| `Scaffold_tools` | 2 clients, projects "shop" and "api", 3 runs of tools | 1.5 million | capabilities complete and wired, nothing dangling, registries in step with directories |

The violation is a disagreement between the code and its own documentation; the
finding in PROJECT.json quotes the line. `TokenSessions` checks the server against any
client; `MobileClient` shows that the app of this repository keeps to one refresh at a
time (`SpentOnce`). A second device of the same user is enough to break the violated
property, and nothing in the code prevents that.

**Bounds.** Two actors are enough for every race above: each is a statement of one
between two of the other, and the properties are about pairs (two rows, two requests,
a token and its successor). Three rows are the least with a middle that can be
missing; retention has four so that a second orphan can exist while appends go on. Two
ticks separate before, at and after a window of one. Three tokens are a login and two
rotations, or two logins and a rotation; four let a reuse and a rotation overlap with
both parents known. The app has two slots at the server because a lost answer leaves
the first one busy while the app goes on. Five failures against a limit of two make
locks of both lengths, and let one follow another; a clock of six minutes lets two of
them end. Three push tokens exceed a cap of two, so evictions happen. One task, one
account and one notification suffice because no code path relates two. A dispatch to
two devices has one enqueue that fails beside one that does not; one operator write is
a change that overlapping refreshes can see in both orders. Three runs of the generator
are an initialisation and two later tools, or an initialisation stopped and repeated.
Constants called `Max...` bound counters and appear as guards of the actions that
would exceed them: a run that reaches a bound stops there, which is why
`CHECK_DEADLOCK FALSE` stands in the AuditChain, TaskBoard, Accounts and Scaffold runs,
whose actors then have nothing left to do.

Some bounds do hide behaviour. The pipeline run has no stalled workers
(`MaxStalls = 0`): `BoundedDuplicates` has a term for them which it does not exercise
and the theorem does. Three runs keep troubles apart by a constraint, of which the
theorems know nothing. In the pipeline, registrations overlap and devices age while
there is no job; beside a job there is one call at a time and no excess over the cap. In
the client (both constraints are called `OneTrouble`), a hasty sign-out, a cut exchange
and a failed keychain call are explored one at a time, without ticks or deletion once
one has happened. In the erasure run a user with a lookalike address gets no
notification (`PlainlyNotified`), and nobody is notified once the ids are used up.

**Fairness.** Safety runs assume none.

- `AuditFairSpec`: Postgres answers the statements of a live connection (weak fairness)
  and grants an advisory lock in the order of the queue (strong fairness of
  `AcquireLock`, which other holders disable and enable again).
- `FlagFairSpec`: a query ends, evaluations keep arriving at every instance, time
  passes, and the database does not fail every query for ever (strong fairness of the
  successful steps). Without the last no cache converges, and the code cannot help it.
- `SubjectFairSpec`: requests end, access tokens expire, days pass, the cron fires every
  night, and its first two statements do not fail every night for ever (strong fairness
  of `ScrubStale`).
- `DispatchFairSpec`: the steps of a dispatch and of a refresh end, one way or the
  other, and time passes; messages keep being sent and the database does not refuse
  every query of the sender for ever (strong fairness of `SenderAsks` and its two
  reads).

Nothing is assumed of clients: nobody has to log in, write, register or erase.

## What is proved

tlapm 1.4.5 checks every proof to its leaves. Assumptions are the named `ASSUME`s of
the modules: sentinels are not members of the sets they stand beside, bounds are
natural numbers, names of projects and apps are not empty. No finiteness is assumed of
users, requests, connections or jobs. Every safety and action property of a passing
run is a theorem of its specification, for every value of the constants and under no
assumption about callers.

*AuditChain.* `AuditTypeCorrect` by induction. `AuditHistoryCommitted` needs more
than itself: an open transaction past `ReadTip` holds a tip, and what it inserts
extends the log only if no other row has been committed since. `HistoryInv` therefore
adds that the lock is held from `AcquireLock` to the end (`LockExclusion`), that a
transaction holds at most one row and that row is built from its tip
(`OneUncommittedRow`), that new sequences are fresh (`SequencesFresh`) and that the
tip extends every committed hash (`TipExtendsLog`); retention only removes rows, and
each conjunct survives that. `AuditOnlyAgedRowsLeave` rests on cutoffs computed from a
clock that does not go back. With a window of 0, `LinkInv` says each row links to the
row before it, whence `AuditChainVerifies` and `AuditImplementsAppendOnlyTrail`.
`AuditVerifyPinpointsDeletion` shows that under retention the mismatches are exactly
the rows whose predecessor is missing.

*TokenSessions* (first part of `MobileClientProofs`; it uses nothing of the app).
`SessionInv` joins types, coherence of the locals of a request with its program
counter, lineage (a token's parent is older, of the same family and user) and that a
request about to issue a successor has already revoked what it was given. From it
`SessionRotatedParentRevoked`, `SessionKnownUntilExpiry`, `SessionDeletedAccountRunsDry`
and the refinement `SessionImplementsLifecycle`, by a case split over the actions. The
two `SingleFlight...` theorems are about what the code leaves to its clients. Where no
two rotations of one token overlap (`[]NoneShared`), a token has at most one successor
(`UsedOnce`) and a login one live token (`LoginsAlone`: a rotation is alone in its
login). No run repeats them. Of what a detected reuse ends there is no theorem: the
violation run shows that it does not end everything.

*MobileClient* (second part). Every step of the app is a step or a stutter of the
server (`MobileImplementsSessions`), so the theorems above hold of the composition.
What the app adds is `MobileInv`, whose parts hold as long as the ghosts allow:

- `ClientOK` always: types, and what belongs together (`LinksOK`: whoever waits on the
  shared refresh has one under way, a form in flight is on the screen).
- `OneHolder` and `ClientFresh` until the app is killed inside an exchange,
  `LoginsAlone` until the keychain fails to delete a token besides. `SpentOnce` alone
  is not inductive: the next token to be sent must not be `Taken`, neither spent nor
  held by a request at the server that has not answered, and that must be known of the
  keychain whenever no refresh is under way. Tokens `kept` are excepted one by one.
  `OneHolder` then implies `NoneShared` for the others, and `LoginsAlone` is preserved
  as above.
- `Calm` until a sign-out overlaps with something: who may refresh at which stage of
  it, and where tokens can be.
- `Unrevoked` while none of the three has happened: nothing the app will present has
  been revoked. It needs the other two, since only a request that holds a token, or a
  sign-out, revokes it.

From these `ClientTypeCorrect`, `ClientSpendsOnce`, `ClientOneLivePerLogin` (the
conclusion of `SingleFlightOneLivePerFamily`, its assumption replaced by what the app
does; no run repeats it), `ClientKeychainUnspent`, `ClientNoFalseAlarm` and
`ClientSignedOutHoldsNothing`.

*Accounts.* `AccountLocksAreEarned` is inductive as stated, because it speaks of the
copies that requests hold as well as of the row: `EarnedBy` is preserved by the save of
a copy and by the addition of one failure to it. `AccountLockHolds` and
`AccountGoneStaysGone` follow from the types, one case per statement.

*DataSubject.* `ErasureInv` says at each position of an erasure what its earlier
statements have achieved and what can since have been written back; `ErasureProofIsTrue`
is its last position. `AgingInv` explains why the listing of stale users and the scrub
of one need no common transaction: days pass for a deleted account only when nobody
can write it. Hence `RetentionScrubsOnlyAged`; `SubjectNotesRunDry` follows from the
types.

*DeviceRegistry and PushDelivery.* `KeysOK`: a primary key stays with its token, so a
call that saves a row it has read cannot overwrite that of another token.
`RegistryKeepsCap` and `RegistryEvictsStalest` hold of any number of overlapping calls.
`CapInv` says that of the calls of a user that have counted all but one know that they
overlap (`OneSighted`), and that what this one has counted bounds the rows that came to
the user in turn, or exceeds them once the row it is to evict is gone. `EvictInv` says
that a chosen row which nobody has saved since is still the stalest of its caller, since
every other row of the user that is written is as fresh as can be.
`DeliveryUsesRegistry` shows that a step of the pipeline is a step of the registry
(pruning is a removal), and `PipelineRegistry` carries both over.
`DuplicatesAreBounded`, `DeliveryRecordsTellTruth` and `DeliveryPrunesOnlyDead` come
from `JobOK`, an invariant of one job: its acceptances against its attempts and stalls,
its records against its outcome, and that what is about to be pruned is dead.

*FeatureFlagCache and MessageDispatch* (`CachedTablesProofs`). `FlagCopiesMoveForward`
needs that a reading under way is not older than the copy it will replace, which holds
because refreshes are shared (`RefreshesOK`, `FlagRefreshesCoalesce`). Those of
messaging are not, and copies there can go back; what remains is
`DispatchStaysInStep`: copies that agree with the tables, together with the readings
under way, stay so until the tables are written. `DispatchHandsOver` counts:
until something fails, the destinations without a job are those whose enqueue has not
settled, and a channel is over only when none is left.

*TaskBoard.* `BoardTypeCorrect` (with the coherence of drafts), `BoardAssignedByOwner`
from `NamedInv` (rows and the drafts that will overwrite them name only people the
owner named), and the action properties `BoardRemovedRunsDry` and `BoardErasedRunsDry`
from the types alone.

*Scaffold.* The properties hold between two runs of the tools, so each proof is an
account of what holds at each step inside a run: `WhereInv` (where the api is, against
what init and rename-app still have to record), `RegInv` (matrices against directories,
with the one app a new-app has copied and not registered), `InstallInv` (`Whole`: the
capabilities that are completely there, and the part of `todo` that completes those
being added), `WiringInv` (`Knows`: the capabilities every shared file has blocks or a
guide for; files copied now know those being added) and `CleanInv` (every block names a
capability that is `Present`, except between markers that are still to be stripped).
A rename moves every path alike, so each of these sets is unchanged by it; that is a
lemma per set. The names are arbitrary sequences of words: that a renamed app does not
collide with another is derived from the guards and from the shape of `Target`.

The type invariants of `TokenSessions`, `TaskBoard`, `Accounts`, `DataSubject`,
`PushDelivery`, `FeatureFlagCache` and `MessageDispatch` are proved and in no run.

*Left to TLC.* What must happen in the end: `RecordReturns`, `Converges`,
`ScrubbedInTheEnd` and the eventual halves of `HandedOverOrReported` and
`SettlesOnTables` need fairness, which the prover does not reach. The violation run
needs a counterexample and not a proof. `ScaffoldTypeOK` speaks of `STRING`, and the
provers do not know that a string literal is a member of it.

## Known departures

What the models show the code to do and a reader might not expect. Where a definition
is named it is stated in its module and marked as not holding; no run checks it.

- An ordinary retention run makes `verifyChain` report tampering: the oldest surviving
  row names a predecessor that is gone (`VerifyPinpointsDeletion` says which).
- A rotation in flight while reuse is detected leaves a live session (the finding).
- The app, killed between the server's rotation and the write to the keychain, comes
  back with a spent token and raises a reuse alarm; a sign-out that overlaps with
  another request can leave a session behind. The ghosts `cut` and `hasty` except
  exactly these.
- A failed deletion in the keychain is swallowed: the spent or revoked token stays, the
  next start presents it, and a sign-out has not forgotten it. A sign-in whose refresh
  token cannot be stored reports an error and keeps its access token (`SignOutForgets`;
  the ghosts `kept` and `adrift` except exactly these). A read that fails at the start
  leaves the app waiting.
- The documented cap of 20 devices per user is exceeded by registrations that overlap,
  and by tokens taken over from another user, which are never counted
  (`CappedPerUser`; `CapKept` excepts exactly these).
- The device that makes room at the cap may have been refreshed, or given to another
  user, after it was chosen (`EvictsOnlyStalest`).
- Concurrent wrong passwords are counted once; a profile save that read the account
  before a lock undoes it, and one that read it before a deletion or an erasure brings
  the account back.
- An assignee's stale save undoes the owner's reassignment
  (`AssigneeChangesStatusOnly`).
- `markRead` can insert a notification that an erasure or a purge has just deleted, a
  task's update the task and a registration the device, also after the erasure is on
  record as complete.
- A deleted user whose own address begins with "erased-" is taken for a tombstone and
  never scrubbed, and nobody is with a grace period of 0 (`EveryoneIsScrubbed`).
- A flag written by an admin can stay invisible for a whole TTL on the instance that took
  the write (`WriteVisibleAtOnce`).
- FCM credentials that are only in the database do not change the default push route:
  without a row in the routes table it stays `console-push` (`FcmWhenConfigured`).
- A failed send is recorded and never retried: `attempts` covers errors around the send
  (`FailedSendIsRetried`).
- A project named "api" records no rename of its api, and a later `rename-app api` is
  not recorded either, so `add` no longer finds it (`EveryRenameFollowed`).
- `init` run again after a failed verification finds no markers and no original names;
  `add` stopped between copy and strip keeps blocks of absent capabilities and passes the
  directory over the next time. `scars` excepts both.

## Limits of the models

- `save` is one step. In the code it is a SELECT and an UPDATE; two of them can mix
  the columns of two writers.
- `TokenSessions`, `MobileClient` and `TaskBoard` take deletion as final. `Accounts` and
  `DataSubject` model the stale saves that undo it.
- `ScaffoldTypeOK` documents the types of its module; no run carries it and no theorem
  states it.
- `MobileClient` has one device: sign-outs from other devices are out, and so are a
  sign-out tapped twice and a keychain call that reports a failure after it took effect.
- `DataSubject` has one task, which the user owns, and one device; their own races, and
  tasks the user is only assigned to, are in `TaskBoard` and `DeviceRegistry`.
- The statistics cache, titles and due dates, the percentages
  of flags and the environment provider, the text of templates, the wire formats of
  providers, the contents of the access JWT and the export of a data subject are left
  out: no property depends on them.

## Not modelled

- *Consent*: append-only rows; each call inserts one or reads the latest, and no two calls
  depend on one another.
- *Realtime gateway*: authenticates the handshake and joins a room; the rest is socket.io.
- *Web apps*: one fetch client without refresh, and presentation.
- *Guards, filters, interceptors, metrics*: pure functions of one request.
- *Configuration and small helpers* (`paginate`, durations, hashing, validation of the
  environment): pure and covered by unit tests.
- *Logging, health, bootstrap, migrations, CI and images*: input and output, or run once.

## Plan

Done: the modules above, and a theorem for every safety and action property of their
runs.

1. What a detected reuse may leave behind: exactly the rotations that were past their
   check when it ran.
2. `ScaffoldTypeOK` as a theorem, over a constant set of words in the place of
   `STRING`.
3. The statistics cache beside `TaskBoard`, and the export beside `DataSubject`.
4. Pure operators against reference definitions: validation of the environment,
   `paginate`, canonical JSON.
