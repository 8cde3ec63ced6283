--------------------------- MODULE AuditChainProofs ---------------------------
(***************************************************************************)
(* Proofs about AuditChain for every number of connections, every set of   *)
(* events, every retention window and every bound.                         *)
(***************************************************************************)
EXTENDS AuditChain, SequenceTheorems, WellFoundedInduction, TLAPS

-----------------------------------------------------------------------------
(* Prefixes *)

\* A sequence is a prefix of another when the other agrees with it as far as it goes.
LEMMA PrefixPointwise ==
  ASSUME NEW S, NEW s \in Seq(S), NEW t \in Seq(S)
  PROVE  IsPrefix(s, t) <=> /\ Len(s) <= Len(t)
                            /\ \A i \in 1..Len(s) : s[i] = t[i]
<1>1. CASE Len(s) <= Len(t)
  <2>1. SubSeq(s, 1, Len(s)) = s
    BY SubSeqFull
  <2>2. /\ SubSeq(t, 1, Len(s)) \in Seq(S)
        /\ Len(SubSeq(t, 1, Len(s))) = Len(s)
        /\ \A i \in 1..Len(s) : SubSeq(t, 1, Len(s))[i] = t[i]
    <3>1. \A i \in 1..Len(s) : t[i] \in S
      BY <1>1, ElementOfSeq
    <3>2. Len(s) \in Nat
      OBVIOUS
    <3>3. /\ SubSeq(t, 1, Len(s)) \in Seq(S)
          /\ Len(SubSeq(t, 1, Len(s))) = IF 1 <= Len(s) THEN Len(s) - 1 + 1 ELSE 0
          /\ \A i \in 1..(Len(s) - 1 + 1) : SubSeq(t, 1, Len(s))[i] = t[1 + i - 1]
      BY <3>1, <3>2, SubSeqProperties
    <3>4. QED
      BY <3>2, <3>3
  <2>3. (\A i \in 1..Len(s) : s[i] = t[i]) => s = SubSeq(t, 1, Len(s))
    BY <2>2, SeqEqual
  <2>4. QED
    BY <1>1, <2>1, <2>2, <2>3 DEF IsPrefix
<1>2. CASE ~ (Len(s) <= Len(t))
  BY <1>2 DEF IsPrefix
<1>3. QED
  BY <1>1, <1>2

\* Appending to an extension of s gives a strict extension of s.
LEMMA PrefixOfAppend ==
  ASSUME NEW S, NEW s \in Seq(S), NEW t \in Seq(S), NEW e \in S, IsPrefix(s, t)
  PROVE  IsStrictPrefix(s, Append(t, e))
<1>1. /\ Len(s) <= Len(t)
      /\ \A i \in 1..Len(s) : s[i] = t[i]
  BY PrefixPointwise
<1>2. /\ Append(t, e) \in Seq(S)
      /\ Len(Append(t, e)) = Len(t) + 1
      /\ \A i \in 1..Len(t) : Append(t, e)[i] = t[i]
  BY AppendProperties
<1>3. IsPrefix(s, Append(t, e))
  <2>1. Len(s) <= Len(Append(t, e))
    BY <1>1, <1>2
  <2>2. \A i \in 1..Len(s) : s[i] = Append(t, e)[i]
    BY <1>1, <1>2
  <2>3. QED
    BY <1>2, <2>1, <2>2, PrefixPointwise
<1>4. s # Append(t, e)
  BY <1>1, <1>2
<1>5. QED
  BY <1>3, <1>4 DEF IsStrictPrefix

LEMMA PrefixReflexive ==
  ASSUME NEW S, NEW s \in Seq(S)
  PROVE  IsPrefix(s, s)
BY PrefixPointwise

-----------------------------------------------------------------------------
(* Type correctness *)

\* Every variable keeps its type, whatever the interleaving.
THEOREM AuditTypeCorrect == AuditSpec => []AuditTypeOK
<1> USE AuditAssumption DEF AuditTypeOK, Payloads, Hash
<1>1. AuditInit => AuditTypeOK
  BY DEF AuditInit
<1>2. AuditTypeOK /\ [AuditNext]_vars => AuditTypeOK'
  <2> SUFFICES ASSUME AuditTypeOK, [AuditNext]_vars
               PROVE  AuditTypeOK'
    OBVIOUS
  <2>1. ASSUME NEW w \in Writers, NEW e \in Payloads, Begin(w, e),
               job' \in [Jobs -> {"idle", "purge", "targets"}], cutoff' \in [Jobs -> Int]
        PROVE  AuditTypeOK'
    BY <2>1 DEF Begin
  <2>2. ASSUME NEW w \in Writers, AcquireLock(w)
        PROVE  AuditTypeOK'
    BY <2>2 DEF AcquireLock, jobVars
  <2>3. ASSUME NEW w \in Writers, ReadTip(w)
        PROVE  AuditTypeOK'
    <3>1. <<>> \in Hash /\ \A r \in auditLog : r.hash \in Hash
      BY DEF Row
    <3>2. tip' \in [Writers -> Hash]
      BY <2>3, <3>1 DEF ReadTip
    <3>3. QED
      BY <2>3, <3>2 DEF ReadTip, jobVars
  <2>4. ASSUME NEW w \in Writers, Insert(w)
        PROVE  AuditTypeOK'
    <3>1. NewRow(w) \in Row
      BY DEF NewRow, Row, ComputeChainHash
    <3>2. uncommitted' \in [Writers -> SUBSET Row]
      BY <2>4, <3>1 DEF Insert
    <3>3. QED
      BY <2>4, <3>2 DEF Insert, jobVars
  <2>5. ASSUME NEW w \in Writers, ClearCall(w), auditLog' \subseteq Row,
               lockHolder' \in Writers \cup {NoWriter}
        PROVE  AuditTypeOK'
    BY <2>5 DEF ClearCall, jobVars
  <2>6. ASSUME NEW w \in Writers, Commit(w)
        PROVE  AuditTypeOK'
    BY <2>5, <2>6 DEF Commit, EndTransaction
  <2>7. ASSUME NEW w \in Writers, Rollback(w)
        PROVE  AuditTypeOK'
    BY <2>5, <2>7 DEF Rollback, EndTransaction
  <2>8. ASSUME NEW j \in Jobs, RetentionStart(j)
        PROVE  AuditTypeOK'
    BY <2>8 DEF RetentionStart, writerVars
  <2>9. ASSUME NEW j \in Jobs, RetentionPurge(j)
        PROVE  AuditTypeOK'
    <3>1. job' \in [Jobs -> {"idle", "purge", "targets"}]
      BY <2>9 DEF RetentionPurge
    <3>2. auditLog' \subseteq Row
      BY <2>9 DEF RetentionPurge
    <3>3. QED
      BY <2>9, <3>1, <3>2 DEF RetentionPurge, writerVars
  <2>10. ASSUME NEW j \in Jobs, RetentionFail(j)
         PROVE  AuditTypeOK'
    BY <2>10 DEF RetentionFail, EndRun, writerVars
  <2>11. CASE Tick
    BY <2>11 DEF Tick, writerVars, jobVars
  <2>12. CASE UNCHANGED vars
    BY <2>12 DEF vars, writerVars, jobVars
  <2>13. ASSUME NEW w \in Writers, NEW e \in Events, RecordEvent(w, e)
         PROVE  AuditTypeOK'
    BY <2>1, <2>13 DEF RecordEvent, jobVars
  <2>14. ASSUME NEW j \in Jobs, NEW w \in Writers, RetentionRecord(j, w)
         PROVE  AuditTypeOK'
    <3>1. Begin(w, RetentionRun) /\ EndRun(j)
      BY <2>14 DEF RetentionRecord
    <3>2. /\ job' \in [Jobs -> {"idle", "purge", "targets"}]
          /\ cutoff' \in [Jobs -> Int]
      BY <3>1 DEF EndRun
    <3>3. QED
      BY <2>1, <3>1, <3>2
  <2>15. QED
    BY <2>2, <2>3, <2>4, <2>6, <2>7, <2>8, <2>9, <2>10, <2>11, <2>12, <2>13, <2>14
    DEF AuditNext
<1>3. QED
  BY <1>1, <1>2, PTL DEF AuditSpec

-----------------------------------------------------------------------------
(* The chain never forks *)

LockExclusion ==
  \A w \in Writers : pc[w] \in {"locked", "tipRead", "inserted"} => lockHolder = w

OneUncommittedRow ==
  \A w \in Writers :
    /\ uncommitted[w] # {} <=> pc[w] = "inserted"
    /\ \A r, s \in uncommitted[w] : r = s

SequencesFresh ==
  /\ \A a, b \in auditLog : a.sequence = b.sequence => a = b
  /\ \A a \in auditLog : a.sequence < nextSequence
  /\ \A w \in Writers : \A r \in uncommitted[w] :
       /\ r.sequence < nextSequence
       /\ \A a \in auditLog : a.sequence < r.sequence

\* What a transaction has read, and what it has inserted, extends every
\* committed row: retention may delete rows meanwhile, but nobody can add one.
TipExtendsLog ==
  \A w \in Writers :
    /\ pc[w] = "tipRead" => \A a \in auditLog : IsPrefix(a.hash, tip[w])
    /\ \A r \in uncommitted[w] : \A a \in auditLog : IsStrictPrefix(a.hash, r.hash)

HistoryInv ==
  AuditTypeOK /\ LockExclusion /\ OneUncommittedRow /\ SequencesFresh
    /\ TipExtendsLog /\ HistoryCommitted

\* The variables HistoryInv speaks of besides the types.
chainVars == <<auditLog, nextSequence, lockHolder, pc, tip, uncommitted>>

LEMMA HistoryInvUnchanged ==
  HistoryInv /\ AuditTypeOK' /\ UNCHANGED chainVars => HistoryInv'
BY DEF HistoryInv, LockExclusion, OneUncommittedRow, SequencesFresh, TipExtendsLog,
       HistoryCommitted, chainVars

LEMMA HistoryInvBegin ==
  ASSUME HistoryInv, AuditTypeOK', NEW w \in Writers, NEW e \in Payloads, Begin(w, e)
  PROVE  HistoryInv'
<1> USE DEF HistoryInv, AuditTypeOK
<1>1. pc' = [pc EXCEPT ![w] = "waiting"] /\ pc[w] = "idle"
  BY DEF Begin
<1>2. UNCHANGED <<auditLog, nextSequence, lockHolder, tip, uncommitted>>
  BY DEF Begin
<1>3. LockExclusion'
  BY <1>1, <1>2 DEF LockExclusion
<1>4. OneUncommittedRow'
  BY <1>1, <1>2 DEF OneUncommittedRow
<1>5. SequencesFresh' /\ HistoryCommitted'
  BY <1>2 DEF SequencesFresh, HistoryCommitted
<1>6. TipExtendsLog'
  BY <1>1, <1>2 DEF TipExtendsLog
<1>7. QED
  BY <1>3, <1>4, <1>5, <1>6

\* A row that is the tip has every committed hash as a prefix of its own.
LEMMA TipRowExtendsLog ==
  ASSUME HistoryInv, NEW r \in auditLog, IsTip(r, auditLog), NEW a \in auditLog
  PROVE  IsPrefix(a.hash, r.hash)
<1> USE DEF HistoryInv, AuditTypeOK
<1>1. a.sequence \in Nat /\ r.sequence \in Nat /\ a.hash \in Seq(Payloads)
  BY DEF Row, Hash
<1>2. CASE a.sequence < r.sequence
  BY <1>2 DEF HistoryCommitted, IsStrictPrefix
<1>3. CASE ~ (a.sequence < r.sequence)
  <2>1. a.sequence = r.sequence
    BY <1>1, <1>3 DEF IsTip
  <2>2. a = r
    BY <2>1 DEF SequencesFresh
  <2>3. QED
    BY <1>1, <2>2, PrefixReflexive
<1>4. QED
  BY <1>2, <1>3

LEMMA AuditHistoryInv == AuditSpec => []HistoryInv
<1>1. AuditInit => HistoryInv
  <2> SUFFICES ASSUME AuditInit PROVE HistoryInv
    OBVIOUS
  <2>1. AuditTypeOK
    BY AuditAssumption DEF AuditInit, AuditTypeOK, Payloads, Hash
  <2>2. QED
    BY <2>1 DEF AuditInit, HistoryInv, LockExclusion, OneUncommittedRow, SequencesFresh,
                TipExtendsLog, HistoryCommitted
<1>2. HistoryInv /\ AuditTypeOK' /\ [AuditNext]_vars => HistoryInv'
  <2> SUFFICES ASSUME HistoryInv, AuditTypeOK', [AuditNext]_vars
               PROVE  HistoryInv'
    OBVIOUS
  <2> USE DEF HistoryInv, AuditTypeOK
  <2>1. ASSUME NEW w \in Writers, NEW e \in Events, RecordEvent(w, e)
        PROVE  HistoryInv'
    BY <2>1, HistoryInvBegin DEF RecordEvent, Payloads
  <2>2. ASSUME NEW j \in Jobs, NEW w \in Writers, RetentionRecord(j, w)
        PROVE  HistoryInv'
    BY <2>2, HistoryInvBegin DEF RetentionRecord, Payloads
  <2>3. ASSUME NEW w \in Writers, AcquireLock(w)
        PROVE  HistoryInv'
    <3>1. /\ pc' = [pc EXCEPT ![w] = "locked"]
          /\ pc[w] = "waiting"
          /\ lockHolder = NoWriter
          /\ lockHolder' = w
          /\ UNCHANGED <<auditLog, nextSequence, tip, uncommitted>>
      BY <2>3 DEF AcquireLock
    <3>2. LockExclusion'
      BY <3>1, AuditAssumption DEF LockExclusion
    <3>3. OneUncommittedRow'
      BY <3>1 DEF OneUncommittedRow
    <3>4. SequencesFresh' /\ HistoryCommitted'
      BY <3>1 DEF SequencesFresh, HistoryCommitted
    <3>5. TipExtendsLog'
      BY <3>1 DEF TipExtendsLog
    <3>6. QED
      BY <3>2, <3>3, <3>4, <3>5
  <2>4. ASSUME NEW w \in Writers, ReadTip(w)
        PROVE  HistoryInv'
    <3>1. /\ pc' = [pc EXCEPT ![w] = "tipRead"]
          /\ pc[w] = "locked"
          /\ UNCHANGED <<auditLog, nextSequence, lockHolder, uncommitted>>
      BY <2>4 DEF ReadTip
    <3>2. LockExclusion'
      BY <3>1 DEF LockExclusion
    <3>3. OneUncommittedRow'
      BY <3>1 DEF OneUncommittedRow
    <3>4. SequencesFresh' /\ HistoryCommitted'
      BY <3>1 DEF SequencesFresh, HistoryCommitted
    <3>5. TipExtendsLog'
      <4>1. \A a \in auditLog : IsPrefix(a.hash, tip'[w])
        BY <2>4, TipRowExtendsLog DEF ReadTip
      <4>2. \A v \in Writers : v # w => tip'[v] = tip[v] /\ pc'[v] = pc[v]
        BY <2>4, <3>1 DEF ReadTip
      <4>3. QED
        BY <3>1, <4>1, <4>2 DEF TipExtendsLog
    <3>6. QED
      BY <3>2, <3>3, <3>4, <3>5
  <2>5. ASSUME NEW w \in Writers, Insert(w)
        PROVE  HistoryInv'
    <3> DEFINE n == NewRow(w)
    <3>1. /\ pc' = [pc EXCEPT ![w] = "inserted"]
          /\ pc[w] = "tipRead"
          /\ uncommitted' = [uncommitted EXCEPT ![w] = {n}]
          /\ nextSequence' = nextSequence + 1
          /\ UNCHANGED <<auditLog, lockHolder, tip>>
      BY <2>5 DEF Insert
    <3>2. /\ n.sequence = nextSequence
          /\ n.hash = Append(tip[w], event[w])
      BY DEF NewRow, ComputeChainHash
    <3>3. LockExclusion'
      BY <3>1 DEF LockExclusion
    <3>4. OneUncommittedRow'
      BY <3>1 DEF OneUncommittedRow
    <3>5. SequencesFresh'
      <4>1. \A r \in auditLog : r.sequence \in Nat
        BY DEF Row
      <4>2. \A v \in Writers : \A r \in uncommitted[v] : r.sequence \in Nat
        BY DEF Row
      <4>3. ASSUME NEW v \in Writers, NEW r \in uncommitted'[v]
            PROVE  r.sequence < nextSequence' /\ \A a \in auditLog : a.sequence < r.sequence
        BY <3>1, <3>2, <4>1, <4>2 DEF SequencesFresh
      <4>4. QED
        BY <3>1, <4>1, <4>3 DEF SequencesFresh
    <3>6. TipExtendsLog'
      <4>1. \A a \in auditLog : IsStrictPrefix(a.hash, n.hash)
        <5> TAKE a \in auditLog
        <5>1. a.hash \in Seq(Payloads) /\ tip[w] \in Seq(Payloads) /\ event[w] \in Payloads
          BY DEF Row, Hash
        <5>2. IsPrefix(a.hash, tip[w])
          BY <3>1 DEF TipExtendsLog
        <5>3. QED
          BY <3>2, <5>1, <5>2, PrefixOfAppend
      <4>2. QED
        BY <3>1, <4>1 DEF TipExtendsLog
    <3>7. HistoryCommitted'
      BY <3>1 DEF HistoryCommitted
    <3>8. QED
      BY <3>3, <3>4, <3>5, <3>6, <3>7
  <2>6. ASSUME NEW w \in Writers, EndTransaction(w),
               auditLog' \subseteq auditLog \cup uncommitted[w],
               auditLog' \subseteq auditLog \/ pc[w] = "inserted"
        PROVE  HistoryInv'
    <3>1. /\ pc' = [pc EXCEPT ![w] = "idle"]
          /\ lockHolder' = IF lockHolder = w THEN NoWriter ELSE lockHolder
          /\ uncommitted' = [uncommitted EXCEPT ![w] = {}]
          /\ nextSequence' = nextSequence
          /\ \A v \in Writers : v # w => tip'[v] = tip[v]
      BY <2>6 DEF EndTransaction, ClearCall
    <3>2. LockExclusion'
      BY <3>1 DEF LockExclusion
    <3>3. OneUncommittedRow'
      BY <3>1 DEF OneUncommittedRow
    <3>4. ASSUME NEW v \in Writers, v # w, pc[w] = "inserted"
          PROVE  pc'[v] # "tipRead" /\ uncommitted'[v] = {}
      BY <3>1, <3>4 DEF LockExclusion, OneUncommittedRow
    <3>5. SequencesFresh'
      <4>1. \A a \in auditLog' : a.sequence < nextSequence'
        BY <2>6, <3>1 DEF SequencesFresh
      <4>2. \A a, b \in auditLog' : a.sequence = b.sequence => a = b
        <5>1. \A r \in auditLog \cup uncommitted[w] : r.sequence \in Nat
          BY DEF Row
        <5>2. QED
          BY <2>6, <5>1 DEF SequencesFresh, OneUncommittedRow
      <4>3. ASSUME NEW v \in Writers, NEW r \in uncommitted'[v]
            PROVE  r.sequence < nextSequence' /\ \A a \in auditLog' : a.sequence < r.sequence
        BY <2>6, <3>1, <3>4 DEF SequencesFresh
      <4>4. QED
        BY <4>1, <4>2, <4>3 DEF SequencesFresh
    <3>6. TipExtendsLog'
      BY <2>6, <3>1, <3>4 DEF TipExtendsLog
    <3>7. HistoryCommitted'
      <4>1. \A r \in auditLog \cup uncommitted[w] : r.sequence \in Nat
        BY DEF Row
      <4>2. QED
        BY <2>6, <4>1 DEF HistoryCommitted, TipExtendsLog, SequencesFresh, OneUncommittedRow
    <3>8. QED
      BY <3>2, <3>3, <3>5, <3>6, <3>7
  <2>7. ASSUME NEW w \in Writers, Commit(w)
        PROVE  HistoryInv'
    BY <2>6, <2>7 DEF Commit
  <2>8. ASSUME NEW w \in Writers, Rollback(w)
        PROVE  HistoryInv'
    BY <2>6, <2>8 DEF Rollback
  <2>9. ASSUME NEW j \in Jobs, RetentionPurge(j)
        PROVE  HistoryInv'
    <3>1. /\ auditLog' \subseteq auditLog
          /\ UNCHANGED <<nextSequence, lockHolder, pc, tip, uncommitted>>
      BY <2>9 DEF RetentionPurge, writerVars
    <3>2. QED
      BY <3>1 DEF LockExclusion, OneUncommittedRow, SequencesFresh, TipExtendsLog,
                  HistoryCommitted
  <2>10. ASSUME NEW j \in Jobs, RetentionStart(j) \/ RetentionFail(j)
         PROVE  HistoryInv'
    BY <2>10, HistoryInvUnchanged DEF RetentionStart, RetentionFail, writerVars, chainVars
  <2>11. CASE Tick \/ UNCHANGED vars
    BY <2>11, HistoryInvUnchanged DEF Tick, vars, writerVars, chainVars
  <2>12. QED
    BY <2>1, <2>2, <2>3, <2>4, <2>5, <2>7, <2>8, <2>9, <2>10, <2>11 DEF AuditNext
<1>3. QED
  BY <1>1, <1>2, AuditTypeCorrect, PTL DEF AuditSpec

\* Every later surviving row commits to the whole of every earlier one, with
\* any number of appenders, failing transactions and retention runs.
THEOREM AuditHistoryCommitted == AuditSpec => []HistoryCommitted
<1>1. HistoryInv => HistoryCommitted
  BY DEF HistoryInv
<1>2. QED
  BY <1>1, AuditHistoryInv, PTL

-----------------------------------------------------------------------------
(* Retention *)

\* A run about to delete has a cutoff at least one whole window in the past.
CutoffInv ==
  \A j \in Jobs : job[j] = "purge" => AuditLogDays > 0 /\ cutoff[j] + AuditLogDays <= clock

\* Only rows older than the window ever leave the table.
THEOREM AuditOnlyAgedRowsLeave == AuditSpec => OnlyAgedRowsLeave
<1> USE AuditAssumption DEF AuditTypeOK
<1>1. AuditInit => CutoffInv
  BY DEF AuditInit, CutoffInv
<1>2. AuditTypeOK /\ CutoffInv /\ [AuditNext]_vars => CutoffInv'
  <2> SUFFICES ASSUME AuditTypeOK, CutoffInv, [AuditNext]_vars
               PROVE  CutoffInv'
    OBVIOUS
  <2>1. ASSUME NEW j \in Jobs, RetentionStart(j)
        PROVE  CutoffInv'
    BY <2>1 DEF RetentionStart, CutoffInv
  <2>2. ASSUME NEW j \in Jobs, RetentionPurge(j)
        PROVE  CutoffInv'
    BY <2>2 DEF RetentionPurge, CutoffInv
  <2>3. ASSUME NEW j \in Jobs, EndRun(j), UNCHANGED clock
        PROVE  CutoffInv'
    BY <2>3 DEF EndRun, CutoffInv
  <2>4. ASSUME NEW j \in Jobs, RetentionFail(j)
        PROVE  CutoffInv'
    BY <2>3, <2>4 DEF RetentionFail
  <2>5. ASSUME NEW j \in Jobs, NEW w \in Writers, RetentionRecord(j, w)
        PROVE  CutoffInv'
    BY <2>3, <2>5 DEF RetentionRecord, Begin
  <2>6. ASSUME UNCHANGED jobVars, clock' \in Nat, clock <= clock'
        PROVE  CutoffInv'
    <3>1. \A j \in Jobs : cutoff[j] \in Int
      OBVIOUS
    <3>2. QED
      BY <2>6, <3>1 DEF CutoffInv, jobVars
  <2>7. ASSUME NEW w \in Writers,
               \/ \E e \in Events : RecordEvent(w, e)
               \/ AcquireLock(w) \/ ReadTip(w) \/ Insert(w) \/ Commit(w) \/ Rollback(w)
        PROVE  CutoffInv'
    BY <2>6, <2>7 DEF RecordEvent, Begin, AcquireLock, ReadTip, Insert, Commit, Rollback,
                      EndTransaction, ClearCall
  <2>8. CASE Tick \/ UNCHANGED vars
    BY <2>6, <2>8 DEF Tick, vars
  <2>9. QED
    BY <2>1, <2>2, <2>4, <2>5, <2>7, <2>8 DEF AuditNext
<1>3. AuditTypeOK /\ CutoffInv /\ [AuditNext]_vars =>
        [\A r \in auditLog \ auditLog' :
           AuditLogDays > 0 /\ r.recordedAt + AuditLogDays < clock]_auditLog
  <2> SUFFICES ASSUME AuditTypeOK, CutoffInv, [AuditNext]_vars,
                      NEW r \in auditLog \ auditLog'
               PROVE  AuditLogDays > 0 /\ r.recordedAt + AuditLogDays < clock
    OBVIOUS
  <2>1. PICK j \in Jobs : RetentionPurge(j)
    BY DEF AuditNext, RecordEvent, Begin, AcquireLock, ReadTip, Insert, Commit, Rollback,
           RetentionStart, RetentionFail, RetentionRecord, Tick, vars
  <2>2. r.recordedAt \in Nat
    BY DEF Row
  <2>3. cutoff[j] \in Int /\ clock \in Nat
    OBVIOUS
  <2>4. QED
    BY <2>1, <2>2, <2>3 DEF RetentionPurge, CutoffInv
<1>4. QED
  BY <1>1, <1>2, <1>3, AuditTypeCorrect, PTL DEF AuditSpec, OnlyAgedRowsLeave

-----------------------------------------------------------------------------
(* The unexpired trail: verification and the implemented abstract log *)

\* h is the hash a row appended to rows must chain to.
IsLastHash(h, rows) ==
  \/ rows = {} /\ h = <<>>
  \/ \E r \in rows : IsTip(r, rows) /\ h = r.hash

Earlier(r, rows) == {q \in rows : q.sequence < r.sequence}

LinkedTo(r, rows) ==
  IsLastHash(r.prevHash, rows) /\ r.hash = ComputeChainHash(r.prevHash, r.payload)

\* Nothing is deleted, every row is linked to the one before it, and an open
\* transaction is about to link to the last one.
LinkInv ==
  /\ \A j \in Jobs : job[j] # "purge"
  /\ \A b \in auditLog : LinkedTo(b, Earlier(b, auditLog))
  /\ \A w \in Writers :
       /\ pc[w] = "tipRead" => IsLastHash(tip[w], auditLog)
       /\ \A r \in uncommitted[w] : LinkedTo(r, auditLog)

\* Sequence numbers are unique, so the last hash is the one TipHash finds.
LEMMA LastHashIsTipHash ==
  ASSUME NEW rows, rows \subseteq Row, \A a, b \in rows : a.sequence = b.sequence => a = b,
         NEW h, IsLastHash(h, rows)
  PROVE  TipHash(rows) = h
<1>1. CASE rows = {}
  BY <1>1 DEF IsLastHash, TipHash
<1>2. CASE rows # {}
  <2>1. PICK r \in rows : IsTip(r, rows) /\ h = r.hash
    BY <1>2 DEF IsLastHash
  <2>2. ASSUME NEW q \in rows, IsTip(q, rows)
        PROVE  q = r
    <3>1. q.sequence \in Nat /\ r.sequence \in Nat
      BY DEF Row
    <3>2. q.sequence = r.sequence
      BY <2>1, <2>2, <3>1 DEF IsTip
    <3>3. QED
      BY <3>2
  <2>3. (CHOOSE q \in rows : IsTip(q, rows)) = r
    BY <2>1, <2>2
  <2>4. QED
    BY <1>2, <2>1, <2>3 DEF TipHash
<1>3. QED
  BY <1>1, <1>2

\* A committed row becomes the tip, and leaves the rows before the others alone.
LEMMA CommitAddsTip ==
  ASSUME HistoryInv, NEW w \in Writers, Commit(w)
  PROVE  \E r \in uncommitted[w] :
           /\ auditLog' = auditLog \cup {r}
           /\ IsTip(r, auditLog')
           /\ Earlier(r, auditLog') = auditLog
           /\ \A b \in auditLog : Earlier(b, auditLog') = Earlier(b, auditLog)
           /\ r \in Row
<1> USE DEF HistoryInv, AuditTypeOK
<1>1. PICK r \in uncommitted[w] : uncommitted[w] = {r}
  BY DEF Commit, OneUncommittedRow
<1>2. auditLog' = auditLog \cup {r}
  BY <1>1 DEF Commit
<1>3. \A a \in auditLog : a.sequence < r.sequence
  BY DEF SequencesFresh
<1>4. r \in Row /\ r.sequence \in Nat /\ \A a \in auditLog : a.sequence \in Nat
  BY DEF Row
<1>5. IsTip(r, auditLog')
  BY <1>2, <1>3, <1>4 DEF IsTip
<1>6. Earlier(r, auditLog') = auditLog
  BY <1>2, <1>3, <1>4 DEF Earlier
<1>7. \A b \in auditLog : Earlier(b, auditLog') = Earlier(b, auditLog)
  BY <1>2, <1>3, <1>4 DEF Earlier
<1>8. QED
  BY <1>2, <1>4, <1>5, <1>6, <1>7

LEMMA LinkInvInductive ==
  ASSUME AuditLogDays <= 0
  PROVE  /\ AuditInit => LinkInv
         /\ HistoryInv /\ LinkInv /\ [AuditNext]_vars => LinkInv'
<1>1. AuditInit => LinkInv
  BY DEF AuditInit, LinkInv
<1>2. ASSUME HistoryInv, LinkInv, [AuditNext]_vars
      PROVE  LinkInv'
  <2> USE DEF HistoryInv, AuditTypeOK
  <2>1. ASSUME NEW w \in Writers, NEW e \in Payloads, Begin(w, e),
               \A j \in Jobs : job'[j] # "purge"
        PROVE  LinkInv'
    BY <1>2, <2>1 DEF Begin, LinkInv
  <2>2. ASSUME NEW w \in Writers, NEW e \in Events, RecordEvent(w, e)
        PROVE  LinkInv'
    BY <1>2, <2>1, <2>2 DEF RecordEvent, jobVars, LinkInv, Payloads
  <2>3. ASSUME NEW j \in Jobs, NEW w \in Writers, RetentionRecord(j, w)
        PROVE  LinkInv'
    <3>1. \A k \in Jobs : job'[k] # "purge"
      BY <1>2, <2>3 DEF RetentionRecord, EndRun, LinkInv
    <3>2. QED
      BY <2>1, <2>3, <3>1 DEF RetentionRecord, Payloads
  <2>4. ASSUME NEW w \in Writers, AcquireLock(w)
        PROVE  LinkInv'
    BY <1>2, <2>4 DEF AcquireLock, jobVars, LinkInv
  <2>5. ASSUME NEW w \in Writers, ReadTip(w)
        PROVE  LinkInv'
    <3>1. IsLastHash(tip'[w], auditLog)
      BY <1>2, <2>5 DEF ReadTip, IsLastHash
    <3>2. \A v \in Writers : v # w => tip'[v] = tip[v] /\ pc'[v] = pc[v]
      BY <1>2, <2>5 DEF ReadTip
    <3>3. UNCHANGED <<auditLog, uncommitted, job>>
      BY <2>5 DEF ReadTip, jobVars
    <3>4. QED
      BY <1>2, <3>1, <3>2, <3>3 DEF LinkInv
  <2>6. ASSUME NEW w \in Writers, Insert(w)
        PROVE  LinkInv'
    <3>1. /\ pc' = [pc EXCEPT ![w] = "inserted"]
          /\ pc[w] = "tipRead"
          /\ uncommitted' = [uncommitted EXCEPT ![w] = {NewRow(w)}]
          /\ UNCHANGED <<auditLog, tip, job>>
      BY <2>6 DEF Insert, jobVars
    <3>2. LinkedTo(NewRow(w), auditLog)
      BY <1>2, <3>1 DEF LinkedTo, NewRow, LinkInv
    <3>3. QED
      BY <1>2, <3>1, <3>2 DEF LinkInv
  <2>7. ASSUME NEW w \in Writers, Commit(w)
        PROVE  LinkInv'
    <3>1. PICK r \in uncommitted[w] :
            /\ auditLog' = auditLog \cup {r}
            /\ Earlier(r, auditLog') = auditLog
            /\ \A b \in auditLog : Earlier(b, auditLog') = Earlier(b, auditLog)
      BY <1>2, <2>7, CommitAddsTip
    <3>2. \A b \in auditLog' : LinkedTo(b, Earlier(b, auditLog'))
      BY <1>2, <3>1 DEF LinkInv
    <3>3. /\ pc' = [pc EXCEPT ![w] = "idle"]
          /\ pc[w] = "inserted"
          /\ uncommitted' = [uncommitted EXCEPT ![w] = {}]
          /\ UNCHANGED job
      BY <2>7 DEF Commit, EndTransaction, ClearCall, jobVars
    <3>4. \A v \in Writers : pc'[v] # "tipRead" /\ uncommitted'[v] = {}
      BY <1>2, <3>3 DEF LockExclusion, OneUncommittedRow
    <3>5. QED
      BY <1>2, <3>2, <3>3, <3>4 DEF LinkInv
  <2>8. ASSUME NEW w \in Writers, Rollback(w)
        PROVE  LinkInv'
    BY <1>2, <2>8 DEF Rollback, EndTransaction, ClearCall, jobVars, LinkInv
  <2>9. ASSUME NEW j \in Jobs, RetentionStart(j) \/ RetentionFail(j)
        PROVE  LinkInv'
    <3>1. \A k \in Jobs : job'[k] # "purge"
      BY <1>2, <2>9, AuditAssumption DEF RetentionStart, RetentionFail, EndRun, LinkInv
    <3>2. UNCHANGED <<auditLog, pc, tip, uncommitted>>
      BY <2>9 DEF RetentionStart, RetentionFail, writerVars
    <3>3. QED
      BY <1>2, <3>1, <3>2 DEF LinkInv
  <2>10. ASSUME NEW j \in Jobs, RetentionPurge(j)
         PROVE  LinkInv'
    BY <1>2, <2>10 DEF RetentionPurge, LinkInv
  <2>11. CASE Tick \/ UNCHANGED vars
    BY <1>2, <2>11 DEF Tick, vars, writerVars, jobVars, LinkInv
  <2>12. QED
    BY <1>2, <2>2, <2>3, <2>4, <2>5, <2>6, <2>7, <2>8, <2>9, <2>10, <2>11 DEF AuditNext
<1>3. QED
  BY <1>1, <1>2

\* With a window of 0 or less the trail verifies after every commit.
THEOREM AuditChainVerifies ==
  ASSUME AuditLogDays <= 0
  PROVE  AuditSpec => []ChainVerifies
<1>1. HistoryInv /\ LinkInv => ChainVerifies
  <2> SUFFICES ASSUME HistoryInv, LinkInv, NEW r \in auditLog
               PROVE  /\ r.prevHash = CarriedHash(r, auditLog)
                      /\ r.hash = ComputeChainHash(CarriedHash(r, auditLog), r.payload)
    BY DEF ChainVerifies, VerifyChain, Mismatches
  <2>1. LinkedTo(r, Earlier(r, auditLog))
    BY DEF LinkInv
  <2>2. TipHash(Earlier(r, auditLog)) = r.prevHash
    <3>1. Earlier(r, auditLog) \subseteq Row
      BY DEF Earlier, HistoryInv, AuditTypeOK
    <3>2. \A a, b \in Earlier(r, auditLog) : a.sequence = b.sequence => a = b
      BY DEF Earlier, HistoryInv, SequencesFresh
    <3>3. QED
      BY <2>1, <3>1, <3>2, LastHashIsTipHash DEF LinkedTo
  <2>3. QED
    BY <2>1, <2>2 DEF LinkedTo, CarriedHash, Earlier
<1>2. QED
  BY <1>1, LinkInvInductive, AuditHistoryInv, PTL DEF AuditSpec

\* With a window of 0 or less the log is one trail that only grows at its end.
THEOREM AuditImplementsAppendOnlyTrail ==
  ASSUME AuditLogDays <= 0
  PROVE  AuditSpec => ImplementsAppendOnlyTrail
<1>1. AuditInit => Trail!TrailInit
  BY DEF AuditInit, Trail!TrailInit, TipHash
<1>2. HistoryInv /\ HistoryInv' /\ LinkInv /\ [AuditNext]_vars
        => [Trail!TrailNext]_(TipHash(auditLog))
  <2>0. TipHash(auditLog)' = TipHash(auditLog')
    BY DEF TipHash, IsTip
  <2> SUFFICES ASSUME HistoryInv, HistoryInv', LinkInv, [AuditNext]_vars,
                      auditLog' # auditLog
               PROVE  Trail!TrailNext
    BY <2>0
  <2>1. PICK w \in Writers : Commit(w)
    BY DEF AuditNext, RecordEvent, Begin, AcquireLock, ReadTip, Insert, Rollback, LinkInv,
           RetentionStart, RetentionPurge, RetentionFail, RetentionRecord, Tick, vars
  <2>2. PICK r \in uncommitted[w] :
          /\ auditLog' = auditLog \cup {r}
          /\ IsTip(r, auditLog')
          /\ r \in Row
    BY <2>1, CommitAddsTip
  <2>3. TipHash(auditLog) = r.prevHash
    <3>1. IsLastHash(r.prevHash, auditLog)
      BY DEF LinkInv, LinkedTo
    <3>2. QED
      BY <3>1, LastHashIsTipHash DEF HistoryInv, AuditTypeOK, SequencesFresh
  <2>4. TipHash(auditLog') = r.hash
    <3>1. IsLastHash(r.hash, auditLog')
      BY <2>2 DEF IsLastHash
    <3>2. QED
      BY <3>1, LastHashIsTipHash DEF HistoryInv, AuditTypeOK, SequencesFresh
  <2>5. TipHash(auditLog') = Append(TipHash(auditLog), r.payload)
    BY <2>3, <2>4 DEF LinkInv, LinkedTo, ComputeChainHash
  <2>6. r.payload \in Payloads
    BY <2>2 DEF Row
  <2>7. QED
    BY <2>0, <2>5, <2>6 DEF Trail!TrailNext, Trail!Record
<1>3. QED
  BY <1>1, <1>2, LinkInvInductive, AuditHistoryInv, PTL
  DEF AuditSpec, ImplementsAppendOnlyTrail, Trail!TrailSpec

-----------------------------------------------------------------------------
(* Verification of an expired trail *)

\* A nonempty set of rows with bounded sequence numbers has a last one.
LEMMA TipExists ==
  ASSUME NEW rows, rows \subseteq Row, rows # {}, NEW n \in Nat,
         \A q \in rows : q.sequence < n
  PROVE  \E r \in rows : IsTip(r, rows)
<1> DEFINE Distances == {n - q.sequence : q \in rows}
<1>1. \A q \in rows : q.sequence \in Nat
  BY DEF Row
<1>2. Distances \subseteq Nat /\ Distances # {}
  BY <1>1
<1> DEFINE less == {ss \in Nat \X Nat : ss[1] < ss[2]}
<1>3. \A x, y \in Nat : x < y => <<x, y>> \in less
  OBVIOUS
<1>4. IsWellFoundedOn(less, Nat)
  BY NatLessThanWellFounded DEF OpToRel
<1> HIDE DEF less, Distances
<1>5. PICK d \in Distances : \A e \in Distances : ~ (<<e, d>> \in less)
  BY <1>2, <1>4, WFMin
<1>6. \A e \in Distances : d <= e
  <2> TAKE e \in Distances
  <2>1. d \in Nat /\ e \in Nat /\ ~ (e < d)
    BY <1>2, <1>5, <1>3
  <2>2. QED
    BY <2>1
<1>7. PICK r \in rows : d = n - r.sequence
  BY DEF Distances
<1>8. ASSUME NEW q \in rows
      PROVE  q.sequence <= r.sequence
  <2>1. n - q.sequence \in Distances
    BY DEF Distances
  <2>2. d <= n - q.sequence
    BY <1>6, <2>1
  <2>3. QED
    BY <1>1, <1>7, <2>2
<1>9. QED
  BY <1>8 DEF IsTip

\* Every row, committed or not, hashes its own payload over its own prevHash.
HashInv ==
  /\ \A r \in auditLog : r.hash = ComputeChainHash(r.prevHash, r.payload)
  /\ \A w \in Writers : \A r \in uncommitted[w] :
       r.hash = ComputeChainHash(r.prevHash, r.payload)

\* Of two surviving rows the later has the longer hash.
LEMMA LaterIsLonger ==
  ASSUME HistoryInv, NEW a \in auditLog, NEW b \in auditLog, a.sequence < b.sequence
  PROVE  Len(a.hash) < Len(b.hash)
<1>1. a.hash \in Seq(Payloads) /\ b.hash \in Seq(Payloads)
  BY DEF HistoryInv, AuditTypeOK, Row, Hash
<1>2. IsPrefix(a.hash, b.hash) /\ a.hash # b.hash
  BY DEF HistoryInv, HistoryCommitted, IsStrictPrefix
<1>3. Len(a.hash) <= Len(b.hash) /\ \A i \in 1..Len(a.hash) : a.hash[i] = b.hash[i]
  BY <1>1, <1>2, PrefixPointwise
<1>4. Len(a.hash) # Len(b.hash)
  BY <1>1, <1>2, <1>3, SeqEqual
<1>5. QED
  BY <1>1, <1>3, <1>4

\* The rows verifyChain rejects are those whose chain predecessor is gone.
LEMMA MismatchesAreOrphans ==
  ASSUME HistoryInv, HashInv
  PROVE  Mismatches(auditLog) = Orphans
<1>0. \A r \in auditLog : /\ r.sequence \in Nat
                          /\ r.payload \in Payloads
                          /\ r.prevHash \in Seq(Payloads)
                          /\ r.hash \in Seq(Payloads)
                          /\ Len(r.hash) = Len(r.prevHash) + 1
  <2> TAKE r \in auditLog
  <2>1. r \in Row
    BY DEF HistoryInv, AuditTypeOK
  <2>2. QED
    BY <2>1, AppendProperties DEF Row, Hash, HashInv, ComputeChainHash
<1>1. \A r \in auditLog : r \in Mismatches(auditLog) <=> r.prevHash # CarriedHash(r, auditLog)
  BY DEF Mismatches, HashInv
<1>2. ASSUME NEW r \in auditLog
      PROVE  r.prevHash # CarriedHash(r, auditLog) <=> r \in Orphans
  <2> DEFINE before == {q \in auditLog : q.sequence < r.sequence}
  <2>1. /\ before \subseteq Row
        /\ \A a, b \in before : a.sequence = b.sequence => a = b
    BY DEF HistoryInv, AuditTypeOK, SequencesFresh
  <2>2. CASE before = {}
    <3>1. CarriedHash(r, auditLog) = <<>>
      BY <2>2 DEF CarriedHash, TipHash
    <3>2. ASSUME NEW q \in auditLog, q.hash = r.prevHash
          PROVE  FALSE
      <4>1. ~ (q.sequence < r.sequence)
        BY <2>2
      <4>2. q = r \/ r.sequence < q.sequence
        BY <1>0, <4>1 DEF HistoryInv, SequencesFresh
      <4>3. QED
        BY <1>0, <3>2, <4>2, LaterIsLonger
    <3>3. QED
      BY <3>1, <3>2 DEF Orphans
  <2>3. CASE before # {}
    <3>1. PICK q \in before : IsTip(q, before)
      BY <1>0, <2>1, <2>3, TipExists
    <3>2. CarriedHash(r, auditLog) = q.hash
      <4>1. IsLastHash(q.hash, before)
        BY <3>1 DEF IsLastHash
      <4>2. TipHash(before) = q.hash
        BY <2>1, <4>1, LastHashIsTipHash
      <4>3. QED
        BY <4>2 DEF CarriedHash
    <3>3. r.prevHash # <<>>
      <4>1. Len(q.hash) < Len(r.hash)
        BY LaterIsLonger
      <4>2. Len(q.hash) >= 1
        BY <1>0
      <4>3. QED
        BY <1>0, <4>1, <4>2
    <3>4. ASSUME NEW s \in auditLog, s.hash = r.prevHash
          PROVE  s = q
      <4>1. s.sequence < r.sequence
        BY <1>0, <3>4, LaterIsLonger DEF HistoryInv, SequencesFresh
      <4>2. s.sequence <= q.sequence
        BY <3>1, <4>1 DEF IsTip
      <4>3. ~ (s.sequence < q.sequence)
        <5>1. Len(q.hash) < Len(r.hash)
          BY LaterIsLonger
        <5>2. QED
          BY <1>0, <3>4, <5>1, LaterIsLonger
      <4>4. QED
        BY <1>0, <4>2, <4>3 DEF HistoryInv, SequencesFresh
    <3>5. QED
      BY <3>2, <3>3, <3>4 DEF Orphans
  <2>4. QED
    BY <2>2, <2>3
<1>3. QED
  BY <1>1, <1>2 DEF Mismatches, Orphans

\* However retention has thinned the trail, verifyChain points at the oldest row
\* whose chain predecessor is no longer there, and accepts the trail otherwise.
THEOREM AuditVerifyPinpointsDeletion == AuditSpec => []VerifyPinpointsDeletion
<1>1. AuditInit => HashInv
  BY DEF AuditInit, HashInv
<1>2. HistoryInv /\ HashInv /\ [AuditNext]_vars => HashInv'
  <2> SUFFICES ASSUME HistoryInv, HashInv, [AuditNext]_vars
               PROVE  HashInv'
    OBVIOUS
  <2> USE DEF HistoryInv, AuditTypeOK
  <2>1. CASE auditLog' \subseteq auditLog /\ UNCHANGED uncommitted
    BY <2>1 DEF HashInv
  <2>2. ASSUME NEW w \in Writers, Insert(w)
        PROVE  HashInv'
    BY <2>2 DEF Insert, HashInv, NewRow
  <2>3. ASSUME NEW w \in Writers, Commit(w) \/ Rollback(w)
        PROVE  HashInv'
    BY <2>3 DEF Commit, Rollback, EndTransaction, ClearCall, HashInv
  <2>4. QED
    BY <2>1, <2>2, <2>3
    DEF AuditNext, RecordEvent, Begin, AcquireLock, ReadTip, RetentionStart, RetentionPurge,
        RetentionFail, RetentionRecord, Tick, vars, writerVars
<1>3. HistoryInv /\ HashInv => VerifyPinpointsDeletion
  BY MismatchesAreOrphans DEF VerifyPinpointsDeletion, VerifyChain
<1>4. QED
  BY <1>1, <1>2, <1>3, AuditHistoryInv, PTL DEF AuditSpec
=============================================================================
