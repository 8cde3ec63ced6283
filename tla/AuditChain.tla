----------------------------- MODULE AuditChain -----------------------------
(***************************************************************************)
(* The hash-chained audit log of libs/compliance: AuditService.record run  *)
(* by several connections at once, RetentionService.runOnce deleting aged  *)
(* rows under them, and AuditService.verifyChain.                          *)
(*                                                                         *)
(* A hash is modelled by what it commits to.  HMAC(secret, prev | payload) *)
(* is injective in practice, so the hash of a row is the sequence of the   *)
(* payloads it was chained over, and the empty string is <<>>.             *)
(***************************************************************************)
EXTENDS Integers, FiniteSets, SequencesExt, FiniteSetsExt

CONSTANTS
  Writers,        \* connections that can run AuditService.record
  Jobs,           \* instances whose scheduler runs the retention job
  Events,         \* payloads recorded by the business operations
  RetentionRun,   \* the payload of the 'retention.run' event
  NoWriter,       \* the advisory lock is free
  AuditLogDays,   \* retention window of the trail, in clock ticks; <= 0 keeps all
  MaxSequence,    \* bound on the rows ever inserted
  MaxClock        \* bound on the clock

Payloads == Events \cup {RetentionRun}

ASSUME AuditAssumption ==
  /\ NoWriter \notin Writers
  /\ AuditLogDays \in Int
  /\ MaxSequence \in Nat
  /\ MaxClock \in Nat

VARIABLES
  auditLog,       \* committed rows of the table audit_log
  nextSequence,   \* BIGSERIAL behind audit_log.sequence; a rollback leaves a gap
  lockHolder,     \* holder of pg_advisory_xact_lock(AUDIT_LOCK_KEY)
  pc,             \* progress of each record() call
  event,          \* the payload each record() call was given
  startedAt,      \* now() of each transaction: the time of its BEGIN
  tip,            \* prevHash read by each record() call
  uncommitted,    \* rows each open transaction has inserted: none or one
  job,            \* progress of each retention run
  cutoff,         \* the age limit each retention run has computed
  clock

writerVars == <<pc, event, startedAt, tip, uncommitted>>
jobVars    == <<job, cutoff>>
vars == <<auditLog, nextSequence, lockHolder, writerVars, jobVars, clock>>

Hash == Seq(Payloads)
Row  == [sequence : Nat, recordedAt : Nat, payload : Payloads,
         prevHash : Hash, hash : Hash]

AuditTypeOK ==
  /\ auditLog \subseteq Row
  /\ nextSequence \in Nat
  /\ lockHolder \in Writers \cup {NoWriter}
  /\ pc \in [Writers -> {"idle", "waiting", "locked", "tipRead", "inserted"}]
  /\ event \in [Writers -> Payloads]
  /\ startedAt \in [Writers -> Nat]
  /\ tip \in [Writers -> Hash]
  /\ uncommitted \in [Writers -> SUBSET Row]
  /\ job \in [Jobs -> {"idle", "purge", "targets"}]
  /\ cutoff \in [Jobs -> Int]
  /\ clock \in Nat

AuditInit ==
  /\ auditLog = {}
  /\ nextSequence = 1
  /\ lockHolder = NoWriter
  /\ pc = [w \in Writers |-> "idle"]
  /\ event = [w \in Writers |-> RetentionRun]
  /\ startedAt = [w \in Writers |-> 0]
  /\ tip = [w \in Writers |-> <<>>]
  /\ uncommitted = [w \in Writers |-> {}]
  /\ job = [j \in Jobs |-> "idle"]
  /\ cutoff = [j \in Jobs |-> 0]
  /\ clock = 0

-----------------------------------------------------------------------------
(* Hashes, the tip of the chain, and its verification *)

\* Mutation: the hash covers the payload only.
ComputeChainHashUnlinked(prevHash, payload) == <<payload>>
ComputeChainHash(prevHash, payload) == Append(prevHash, payload)

IsTip(r, rows) == \A q \in rows : q.sequence <= r.sequence

TipHash(rows) ==
  IF rows = {} THEN <<>> ELSE (CHOOSE r \in rows : IsTip(r, rows)).hash

\* The hash verifyChain carries into row r from the rows it has walked before.
CarriedHash(r, rows) == TipHash({q \in rows : q.sequence < r.sequence})

\* Rows whose stored hashes do not match the recomputed ones.
Mismatches(rows) ==
  {r \in rows : \/ r.prevHash # CarriedHash(r, rows)
                \/ r.hash # ComputeChainHash(CarriedHash(r, rows), r.payload)}

\* Mutation: only the recomputed hash is compared, against the stored prevHash.
VerifyChainTrustingPrev(rows) ==
  LET bad == {r \in rows : r.hash # ComputeChainHash(r.prevHash, r.payload)}
  IN [ok |-> bad = {},
      brokenAtSequence |-> IF bad = {} THEN 0 ELSE Min({r.sequence : r \in bad})]
VerifyChain(rows) ==
  LET bad == Mismatches(rows)
  IN [ok |-> bad = {},
      brokenAtSequence |-> IF bad = {} THEN 0 ELSE Min({r.sequence : r \in bad})]

-----------------------------------------------------------------------------
(* AuditService.record, one action per statement of its transaction *)

\* Transactions that may still insert a row count towards the bound.
RoomToInsert == nextSequence + Cardinality({w \in Writers : pc[w] # "idle"}) <= MaxSequence

Begin(w, e) ==
  /\ pc[w] = "idle"
  /\ RoomToInsert
  /\ pc' = [pc EXCEPT ![w] = "waiting"]
  /\ event' = [event EXCEPT ![w] = e]
  /\ startedAt' = [startedAt EXCEPT ![w] = clock]
  /\ UNCHANGED <<auditLog, nextSequence, lockHolder, tip, uncommitted, clock>>

RecordEvent(w, e) == Begin(w, e) /\ UNCHANGED jobVars

\* Mutation: the lock is shared, so it excludes nobody.
AcquireLockShared(w) ==
  /\ pc[w] = "waiting"
  /\ lockHolder' = w
  /\ pc' = [pc EXCEPT ![w] = "locked"]
  /\ UNCHANGED <<auditLog, nextSequence, event, startedAt, tip, uncommitted, jobVars, clock>>
AcquireLock(w) ==
  /\ pc[w] = "waiting"
  /\ lockHolder = NoWriter
  /\ lockHolder' = w
  /\ pc' = [pc EXCEPT ![w] = "locked"]
  /\ UNCHANGED <<auditLog, nextSequence, event, startedAt, tip, uncommitted, jobVars, clock>>

\* Mutation: the tip is the row with the latest recorded_at.
ReadTipByTime(w) ==
  /\ pc[w] = "locked"
  /\ \/ /\ auditLog = {}
        /\ tip' = [tip EXCEPT ![w] = <<>>]
     \/ \E r \in auditLog :
          /\ \A q \in auditLog : q.recordedAt <= r.recordedAt
          /\ tip' = [tip EXCEPT ![w] = r.hash]
  /\ pc' = [pc EXCEPT ![w] = "tipRead"]
  /\ UNCHANGED <<auditLog, nextSequence, lockHolder, event, startedAt, uncommitted, jobVars, clock>>
\* Mutation: the default for an empty table is lost.
ReadTipNoDefault(w) ==
  /\ pc[w] = "locked"
  /\ \/ /\ auditLog = {}
        /\ tip' = [tip EXCEPT ![w] = NoWriter]
     \/ \E r \in auditLog : IsTip(r, auditLog) /\ tip' = [tip EXCEPT ![w] = r.hash]
  /\ pc' = [pc EXCEPT ![w] = "tipRead"]
  /\ UNCHANGED <<auditLog, nextSequence, lockHolder, event, startedAt, uncommitted, jobVars, clock>>
ReadTip(w) ==
  /\ pc[w] = "locked"
  /\ \/ /\ auditLog = {}
        /\ tip' = [tip EXCEPT ![w] = <<>>]
     \/ \E r \in auditLog : IsTip(r, auditLog) /\ tip' = [tip EXCEPT ![w] = r.hash]
  /\ pc' = [pc EXCEPT ![w] = "tipRead"]
  /\ UNCHANGED <<auditLog, nextSequence, lockHolder, event, startedAt, uncommitted, jobVars, clock>>

NewRow(w) ==
  [sequence |-> nextSequence, recordedAt |-> startedAt[w], payload |-> event[w],
   prevHash |-> tip[w], hash |-> ComputeChainHash(tip[w], event[w])]

Insert(w) ==
  /\ pc[w] = "tipRead"
  /\ uncommitted' = [uncommitted EXCEPT ![w] = {NewRow(w)}]
  /\ nextSequence' = nextSequence + 1
  /\ pc' = [pc EXCEPT ![w] = "inserted"]
  /\ UNCHANGED <<auditLog, lockHolder, event, startedAt, tip, jobVars, clock>>

\* The locals of the call are gone with it.
ClearCall(w) ==
  /\ pc' = [pc EXCEPT ![w] = "idle"]
  /\ event' = [event EXCEPT ![w] = RetentionRun]
  /\ startedAt' = [startedAt EXCEPT ![w] = 0]
  /\ tip' = [tip EXCEPT ![w] = <<>>]
  /\ uncommitted' = [uncommitted EXCEPT ![w] = {}]
  /\ UNCHANGED <<nextSequence, jobVars, clock>>

\* The end of a transaction frees the lock it holds, after its rows are visible.
EndTransaction(w) ==
  /\ lockHolder' = IF lockHolder = w THEN NoWriter ELSE lockHolder
  /\ ClearCall(w)

Commit(w) ==
  /\ pc[w] = "inserted"
  /\ auditLog' = auditLog \cup uncommitted[w]
  /\ EndTransaction(w)

\* Mutation: a session-level lock is not given back when the statement fails.
RollbackKeepingLock(w) ==
  /\ pc[w] # "idle"
  /\ UNCHANGED <<auditLog, lockHolder>>
  /\ ClearCall(w)
\* A statement fails or the instance dies; record() swallows the error.
Rollback(w) ==
  /\ pc[w] # "idle"
  /\ UNCHANGED auditLog
  /\ EndTransaction(w)

-----------------------------------------------------------------------------
(* RetentionService.runOnce *)

\* Mutation: the cutoff is "now" instead of "now - days".
RetentionStartNow(j) ==
  /\ job[j] = "idle"
  /\ cutoff' = [cutoff EXCEPT ![j] = clock]
  /\ job' = [job EXCEPT ![j] = IF AuditLogDays > 0 THEN "purge" ELSE "targets"]
  /\ UNCHANGED <<auditLog, nextSequence, lockHolder, writerVars, clock>>
RetentionStart(j) ==
  /\ job[j] = "idle"
  /\ cutoff' = [cutoff EXCEPT ![j] = clock - AuditLogDays]
  /\ job' = [job EXCEPT ![j] = IF AuditLogDays > 0 THEN "purge" ELSE "targets"]
  /\ UNCHANGED <<auditLog, nextSequence, lockHolder, writerVars, clock>>

\* One DELETE statement; it takes no lock and sees committed rows only.
RetentionPurge(j) ==
  /\ job[j] = "purge"
  /\ auditLog' = {r \in auditLog : ~ (r.recordedAt < cutoff[j])}
  /\ job' = [job EXCEPT ![j] = "targets"]
  /\ UNCHANGED <<nextSequence, lockHolder, writerVars, cutoff, clock>>

EndRun(j) ==
  /\ job' = [job EXCEPT ![j] = "idle"]
  /\ cutoff' = [cutoff EXCEPT ![j] = 0]

\* The DELETE or a registered target throws: the run ends there.
RetentionFail(j) ==
  /\ job[j] # "idle"
  /\ EndRun(j)
  /\ UNCHANGED <<auditLog, nextSequence, lockHolder, writerVars, clock>>

\* Every target has been purged: the run records itself.
RetentionRecord(j, w) ==
  /\ job[j] = "targets"
  /\ Begin(w, RetentionRun)
  /\ EndRun(j)

Tick ==
  /\ clock < MaxClock
  /\ clock' = clock + 1
  /\ UNCHANGED <<auditLog, nextSequence, lockHolder, writerVars, jobVars>>

-----------------------------------------------------------------------------
AuditNext ==
  \/ \E w \in Writers :
       \/ \E e \in Events : RecordEvent(w, e)
       \/ AcquireLock(w)
       \/ ReadTip(w)
       \/ Insert(w)
       \/ Commit(w)
       \/ Rollback(w)
  \/ \E j \in Jobs :
       \/ RetentionStart(j)
       \/ RetentionPurge(j)
       \/ RetentionFail(j)
       \/ \E w \in Writers : RetentionRecord(j, w)
  \/ Tick

AuditSpec == AuditInit /\ [][AuditNext]_vars

\* The database answers every statement, and grants the lock in arrival order.
AuditFairness ==
  \A w \in Writers :
    /\ SF_vars(AcquireLock(w))
    /\ WF_vars(ReadTip(w))
    /\ WF_vars(Insert(w))
    /\ WF_vars(Commit(w))

AuditFairSpec == AuditSpec /\ AuditFairness

-----------------------------------------------------------------------------
(* Properties *)

\* A row commits to the whole content of every surviving row before it: the
\* chain never forks and its order is the order of `sequence`, whatever the
\* interleaving of appends, failed transactions and retention runs
\* (audit.service.ts:40-42, "concurrent requests can't read the same tip").
HistoryCommitted ==
  \A a, b \in auditLog :
    a.sequence < b.sequence => IsStrictPrefix(a.hash, b.hash)

\* Untouched by retention, the trail verifies after every commit: verifyChain
\* raises no false alarm (audit.service.ts:104-115).
ChainVerifies == VerifyChain(auditLog).ok

\* With retention running, verifyChain reports exactly the oldest row whose
\* chain predecessor is no longer in the table, and nothing else.
Orphans == {r \in auditLog : r.prevHash # <<>> /\ \A q \in auditLog : q.hash # r.prevHash}
VerifyPinpointsDeletion ==
  VerifyChain(auditLog).brokenAtSequence =
    IF Orphans = {} THEN 0 ELSE Min({r.sequence : r \in Orphans})

\* A row leaves the table only once it is older than the retention window, and
\* never when the window is 0 or less (retention.service.ts:57, "keep forever").
OnlyAgedRowsLeave ==
  [][\A r \in auditLog \ auditLog' :
       AuditLogDays > 0 /\ r.recordedAt + AuditLogDays < clock]_auditLog

\* Every record() call comes back to its caller (audit.service.ts:54, "Never
\* throws to the caller path"): no failed transaction leaves the lock behind.
RecordReturns == \A w \in Writers : pc[w] = "waiting" ~> pc[w] = "idle"

\* Seen through the hash of its last row, an unexpired log is one growing trail.
Trail == INSTANCE AppendOnlyTrail WITH trail <- TipHash(auditLog)
ImplementsAppendOnlyTrail == Trail!TrailSpec
=============================================================================
