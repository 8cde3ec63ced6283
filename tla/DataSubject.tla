------------------------------ MODULE DataSubject ------------------------------
(***************************************************************************)
(* What the API holds about one user, and the ways it goes: erasure over   *)
(* the registered contributors (DataSubjectService, compliance-wiring) and *)
(* the nightly retention, under requests that hold copies of rows, queued  *)
(* notifications, and failures half-way.                                   *)
(*                                                                         *)
(* The stale saves of the user row are those of Accounts. Tasks and        *)
(* devices have modules of their own; here there is one row of each.       *)
(***************************************************************************)
EXTENDS Naturals, Sequences, FiniteSets

CONSTANTS
  Notes,      \* ids of the notifications ever created: bounds them
  Requests,   \* requests that can hold a copy of such a row at once
  Grace,      \* softDeletedUserGraceDays
  Window,     \* notificationDays
  NoCopy      \* a request that holds no copy

Others == {"tasks", "devices"}

ASSUME SubjectAssumption ==
  /\ Grace \in Nat /\ Window \in Nat
  /\ Notes \cap Others = {} /\ NoCopy \notin Notes \cup Others

VARIABLES
  deleted,    \* users.deleted_at is set
  scrubbed,   \* the address is the tombstone erased-<id>
  lookalike,  \* the user's own address begins with erased- too
  age,        \* days since the deletion, up to the first past the grace
  holder,     \* a login or a profile update has read the user row
  token,      \* an access token is still valid
  notes,      \* rows of notifications
  used,       \* ids handed out
  queued,     \* an in-app delivery to the user waits in the queue
  copy,       \* the row each request has read, to save it: a notification, the task, the device
  held,       \* tasks and devices: "none", "new", "old" if the erasure found it, or "back" if
              \* a save has inserted it again since the erasure began
  at,         \* the statement of the erasure that comes next
  old,        \* notifications the erasure found
  revived,    \* notifications a save has inserted again since the erasure deleted them
  restored,   \* a stale save has overwritten the user row since the erasure
  retention   \* progress of the nightly run

accountVars == <<deleted, scrubbed, lookalike, age>>
noteVars    == <<notes, used, queued, copy, revived>>
eraseVars   == <<at, old>>
vars == <<accountVars, holder, token, noteVars, held, eraseVars, restored, retention>>

\* Contributors in the order of onModuleInit; the profile takes two statements.
Erasure == <<"anonymise", "softDelete", "tasks", "notifications", "devices", "audit">>

None      == [read |-> FALSE, days |-> 0, present |-> FALSE]
Present   == {n \in Notes : notes[n].present}
Without(n) == [notes[n] EXCEPT !.present = FALSE]   \* the rest is what a copy of it says
Prefixed  == scrubbed \/ lookalike   \* u.email.startsWith('erased-')
Marked(mark) == [o \in Others |-> IF held[o] = "none" THEN "none" ELSE mark]
Capped(n, limit) == IF n > limit THEN limit + 1 ELSE n

SubjectTypeOK ==
  /\ deleted \in BOOLEAN /\ scrubbed \in BOOLEAN /\ lookalike \in BOOLEAN
  /\ age \in 0..(Grace + 1)
  /\ holder \in BOOLEAN /\ token \in BOOLEAN
  /\ notes \in [Notes -> [read : BOOLEAN, days : 0..(Window + 1), present : BOOLEAN]]
  /\ used \subseteq Notes
  /\ queued \in BOOLEAN
  /\ copy \in [Requests -> Notes \cup Others \cup {NoCopy}]
  /\ held \in [Others -> {"none", "new", "old", "back"}]
  /\ at \in {"no", "recorded"} \cup {Erasure[i] : i \in 1..Len(Erasure)}
  /\ old \subseteq Notes /\ revived \subseteq Notes
  /\ restored \in BOOLEAN
  /\ retention \in {"idle", "scrub", "nobody", "notifications", "devices"}

\* A registered user with nothing yet.
SubjectInit ==
  /\ deleted = FALSE /\ scrubbed = FALSE /\ age = 0
  /\ lookalike \in BOOLEAN
  /\ holder = FALSE /\ token = TRUE
  /\ notes = [n \in Notes |-> None]
  /\ used = {}
  /\ queued = FALSE
  /\ copy = [r \in Requests |-> NoCopy]
  /\ held = [o \in Others |-> "none"]
  /\ at = "no"
  /\ old = {} /\ revived = {}
  /\ restored = FALSE
  /\ retention = "idle"

-----------------------------------------------------------------------------
(* The user row and the tables of other modules *)

ReadUser ==
  /\ ~ holder
  /\ ~ deleted
  /\ holder' = TRUE
  /\ UNCHANGED <<accountVars, token, noteVars, held, eraseVars, restored, retention>>

\* The copy was read before any deletion, and save writes it back.
SaveUser ==
  /\ holder
  /\ holder' = FALSE
  /\ deleted' = FALSE /\ scrubbed' = FALSE /\ age' = 0
  /\ restored' = (at # "no")
  /\ UNCHANGED <<lookalike, token, noteVars, held, eraseVars, retention>>

DropUser ==
  /\ holder
  /\ holder' = FALSE
  /\ UNCHANGED <<accountVars, token, noteVars, held, eraseVars, restored, retention>>

\* DELETE /users/me
SoftDeleteAccount ==
  /\ token /\ ~ deleted
  /\ deleted' = TRUE /\ age' = 0
  /\ UNCHANGED <<scrubbed, lookalike, holder, token, noteVars, held, eraseVars, restored, retention>>

TokenExpires ==
  /\ token
  /\ token' = FALSE
  /\ UNCHANGED <<accountVars, holder, noteVars, held, eraseVars, restored, retention>>

RefreshToken ==
  /\ ~ token /\ ~ deleted
  /\ token' = TRUE
  /\ UNCHANGED <<accountVars, holder, noteVars, held, eraseVars, restored, retention>>

\* A task is created or a device registered, with the access token.
Produce(o) ==
  /\ token
  /\ held[o] = "none"
  /\ held' = [held EXCEPT ![o] = "new"]
  /\ UNCHANGED <<accountVars, holder, token, noteVars, eraseVars, restored, retention>>

\* The device is unregistered, pruned, or registered by another user.
LoseDevice ==
  /\ held["devices"] # "none"
  /\ held' = [held EXCEPT !["devices"] = "none"]
  /\ UNCHANGED <<accountVars, holder, token, noteVars, eraseVars, restored, retention>>

\* update and register read the row first; an assignee too may update the task.
ReadOther(r, o) ==
  /\ token \/ o = "tasks"
  /\ copy[r] = NoCopy
  /\ held[o] # "none"
  /\ copy' = [copy EXCEPT ![r] = o]
  /\ UNCHANGED <<accountVars, holder, token, notes, used, queued, revived, held, eraseVars, restored, retention>>

\* save: a row that is gone is inserted.
SaveOther(r) ==
  /\ copy[r] \in Others
  /\ copy' = [copy EXCEPT ![r] = NoCopy]
  /\ \/ held[copy[r]] # "none" /\ UNCHANGED held
     \/ /\ held[copy[r]] = "none"
        /\ held' = [held EXCEPT ![copy[r]] = IF at = "no" THEN "new" ELSE "back"]
  /\ UNCHANGED <<accountVars, holder, token, notes, used, queued, revived, eraseVars, restored, retention>>

-----------------------------------------------------------------------------
(* NotificationsService *)

\* Mutation: the user is not looked up.
NotifyAnyone ==
  /\ ~ queued /\ used # Notes
  /\ queued' = TRUE
  /\ UNCHANGED <<accountVars, holder, token, notes, used, copy, revived, held, eraseVars, restored, retention>>
\* A task is assigned to the user, who is looked up (while ids are left: a bound).
Notify ==
  /\ ~ deleted
  /\ ~ queued /\ used # Notes
  /\ queued' = TRUE
  /\ UNCHANGED <<accountVars, holder, token, notes, used, copy, revived, held, eraseVars, restored, retention>>

Deliver(n) ==
  /\ queued
  /\ n \notin used
  /\ queued' = FALSE
  /\ used' = used \cup {n}
  /\ notes' = [notes EXCEPT ![n] = [read |-> FALSE, days |-> 0, present |-> TRUE]]
  /\ UNCHANGED <<accountVars, holder, token, copy, revived, held, eraseVars, restored, retention>>

\* markRead: findOne, and nothing to do if it is read.
ReadNote(r, n) ==
  /\ token
  /\ copy[r] = NoCopy
  /\ notes[n].present /\ ~ notes[n].read
  /\ copy' = [copy EXCEPT ![r] = n]
  /\ UNCHANGED <<accountVars, holder, token, notes, used, queued, revived, held, eraseVars, restored, retention>>

\* save: a row that is gone is inserted, with the created_at of the copy.
SaveRead(r) ==
  /\ copy[r] \in Notes
  /\ copy' = [copy EXCEPT ![r] = NoCopy]
  /\ notes' = [notes EXCEPT ![copy[r]].read = TRUE, ![copy[r]].present = TRUE]
  /\ revived' = IF at = "no" THEN {} ELSE revived \cup ({copy[r]} \ Present)
  /\ UNCHANGED <<accountVars, holder, token, used, queued, held, eraseVars, restored, retention>>

\* A request fails, or finds the row it wants read already.
DropCopy(r) ==
  /\ copy[r] # NoCopy
  /\ copy' = [copy EXCEPT ![r] = NoCopy]
  /\ UNCHANGED <<accountVars, holder, token, notes, used, queued, revived, held, eraseVars, restored, retention>>

MarkAllRead ==
  /\ token
  /\ \E n \in Present : ~ notes[n].read
  /\ notes' = [n \in Notes |-> IF notes[n].present
                 THEN [notes[n] EXCEPT !.read = TRUE] ELSE notes[n]]
  /\ UNCHANGED <<accountVars, holder, token, used, queued, copy, revived, held, eraseVars, restored, retention>>

-----------------------------------------------------------------------------
(* DataSubjectService.erase *)

Follows(step) ==
  LET i == CHOOSE j \in 1..Len(Erasure) : Erasure[j] = step
  IN IF i = Len(Erasure) THEN "recorded" ELSE Erasure[i + 1]

\* A new request starts over, whatever an earlier one has done.
StartErase ==
  /\ token
  /\ at \in {"no", "recorded"}
  /\ at' = Erasure[1]
  /\ old' = Present
  /\ revived' = {}
  /\ restored' = FALSE
  /\ held' = Marked("old")
  /\ UNCHANGED <<accountVars, holder, token, notes, used, queued, copy, retention>>

EraseStep ==
  /\ at \notin {"no", "recorded"}
  /\ at' = Follows(at)
  /\ scrubbed' = (scrubbed \/ at = "anonymise")
  /\ deleted'  = (deleted \/ at = "softDelete")
  /\ age'      = IF at = "softDelete" THEN 0 ELSE age
  /\ held'     = IF at \in Others THEN [held EXCEPT ![at] = "none"] ELSE held
  /\ notes'    = IF at = "notifications" THEN [n \in Notes |-> Without(n)] ELSE notes
  /\ revived'  = IF at = "notifications" THEN {} ELSE revived
  /\ UNCHANGED <<lookalike, holder, token, used, queued, copy, old, restored, retention>>

\* Mutation: a contributor that throws is passed over.
EraseSkips ==
  /\ at \notin {"no", "recorded"}
  /\ at' = Follows(at)
  /\ UNCHANGED <<accountVars, holder, token, noteVars, held, old, restored, retention>>
\* A contributor or the audit record throws: what has run stays done.
EraseFails ==
  /\ at \notin {"no", "recorded"}
  /\ at' = "no"
  /\ old' = {} /\ revived' = {} /\ restored' = FALSE
  /\ held' = Marked("new")
  /\ UNCHANGED <<accountVars, holder, token, notes, used, queued, copy, retention>>

-----------------------------------------------------------------------------
(* RetentionService.runOnce *)

Keep == UNCHANGED <<holder, token, used, queued, copy, revived, eraseVars, restored>>

\* Mutation: everyone who is deleted is listed.
ListAllDeleted ==
  /\ retention = "idle"
  /\ retention' = IF Grace > 0 /\ deleted /\ ~ Prefixed THEN "scrub" ELSE "nobody"
  /\ UNCHANGED <<accountVars, notes, held>>
  /\ Keep
\* Mutation: find() without withDeleted.
ListVisible ==
  /\ retention = "idle"
  /\ retention' = "nobody"
  /\ UNCHANGED <<accountVars, notes, held>>
  /\ Keep
\* The users deleted before the cutoff whose address does not look like a tombstone; a
\* window of no days is skipped.
ListStale ==
  /\ retention = "idle"
  /\ retention' = IF Grace > 0 /\ deleted /\ age > Grace /\ ~ Prefixed THEN "scrub" ELSE "nobody"
  /\ UNCHANGED <<accountVars, notes, held>>
  /\ Keep

ScrubStale ==
  /\ retention \in {"scrub", "nobody"}
  /\ retention' = "notifications"
  /\ scrubbed' = (scrubbed \/ retention = "scrub")
  /\ UNCHANGED <<deleted, lookalike, age, notes, held>>
  /\ Keep

PurgeNotes ==
  /\ retention = "notifications"
  /\ retention' = "devices"
  /\ notes' = [n \in Notes |-> IF Window > 0 /\ notes[n].days > Window THEN Without(n) ELSE notes[n]]
  /\ UNCHANGED <<accountVars, held>>
  /\ Keep

\* purgeStale, and the record of the run.
PurgeDevices ==
  /\ retention = "devices"
  /\ retention' = "idle"
  /\ \/ held' = [held EXCEPT !["devices"] = "none"]
     \/ UNCHANGED held
  /\ UNCHANGED <<accountVars, notes>>
  /\ Keep

\* A statement throws, or the instance dies: the next night starts over.
RetentionFails ==
  /\ retention # "idle"
  /\ retention' = "idle"
  /\ UNCHANGED <<accountVars, notes, held>>
  /\ Keep

\* A day: logins, profile updates and erasures take seconds, and the access token
\* of a deleted account cannot be renewed and lasts minutes.
NextDay ==
  /\ ~ holder
  /\ at \in {"no", "recorded"}
  /\ deleted => ~ token
  /\ age' = IF deleted THEN Capped(age + 1, Grace) ELSE age
  /\ notes' = [n \in Notes |-> IF n \in used
                 THEN [notes[n] EXCEPT !.days = Capped(notes[n].days + 1, Window)] ELSE notes[n]]
  /\ UNCHANGED <<deleted, scrubbed, lookalike, holder, token, used, queued, copy, revived, held,
                 eraseVars, restored, retention>>

-----------------------------------------------------------------------------
SubjectNext ==
  \/ ReadUser \/ SaveUser \/ DropUser
  \/ SoftDeleteAccount \/ TokenExpires \/ RefreshToken
  \/ \E o \in Others : Produce(o)
  \/ LoseDevice
  \/ Notify
  \/ \E n \in Notes : Deliver(n)
  \/ \E r \in Requests : \/ \E n \in Notes : ReadNote(r, n)
                         \/ \E o \in Others : ReadOther(r, o)
                         \/ SaveRead(r) \/ SaveOther(r) \/ DropCopy(r)
  \/ MarkAllRead
  \/ StartErase \/ EraseStep \/ EraseFails
  \/ ListStale \/ ScrubStale \/ PurgeNotes \/ PurgeDevices \/ RetentionFails
  \/ NextDay

SubjectSpec == SubjectInit /\ [][SubjectNext]_vars

\* Requests end, tokens expire, days pass, the cron fires every night and its
\* first two statements do not fail every night for ever.
SubjectFairSpec ==
  /\ SubjectSpec
  /\ WF_vars(SaveUser \/ DropUser)
  /\ WF_vars(EraseStep)
  /\ WF_vars(TokenExpires)
  /\ WF_vars(NextDay)
  /\ WF_vars(ListStale)
  /\ SF_vars(ScrubStale)
  /\ WF_vars(PurgeNotes \/ PurgeDevices \/ RetentionFails)

-----------------------------------------------------------------------------
(* Properties *)

\* "Proof that the request was honoured" (data-subject.service.ts:57-62): when the
\* erasure is on record, nothing is left that it found, except a row that a request
\* under way has written back: markRead a notification (notifications.service.ts:70),
\* update a task (tasks.service.ts:100), register a device (device-token.service.ts:32),
\* a login or a profile update the user.
ProvenErasureComplete ==
  at = "recorded" =>
    /\ restored \/ (deleted /\ scrubbed)
    /\ \A o \in Others : held[o] # "old"
    /\ old \cap Present \subseteq revived

\* Once a user is gone and the access token has expired, notifications come only
\* from a delivery queued or a markRead begun before, and neither is renewed
\* (notifications.service.ts:26-47, 64-72).
Carried == queued \/ \E r \in Requests : copy[r] \in Notes
NotesRunDry ==
  [][deleted /\ ~ token /\ ~ holder /\ ~ Carried => ~ Carried' /\ \A n \in Present' : n \in Present]_vars

\* Retention takes the address of nobody who is not deleted, and of nobody before
\* the grace period is over, whatever happens between its SELECT and its UPDATEs
\* (compliance-wiring.service.ts:82-97).
ScrubsOnlyAged ==
  [][~ scrubbed /\ scrubbed' => at = "anonymise" \/ (deleted /\ age > Grace)]_vars

\* A deleted account is scrubbed in the end, though runs fail and users are restored, if
\* retention is on for it (retention.service.ts:105) and the user's own address is not
\* taken for a tombstone (compliance-wiring.service.ts:80-97).
ScrubbedInTheEnd == Grace > 0 /\ deleted /\ ~ lookalike ~> (scrubbed \/ ~ deleted)

\* The unconditional form, which the code does not keep: an address that begins with
\* erased- is passed over every night (compliance-wiring.service.ts:93).
EveryoneIsScrubbed == deleted ~> (scrubbed \/ ~ deleted)
=============================================================================
