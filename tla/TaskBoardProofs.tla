--------------------------- MODULE TaskBoardProofs ---------------------------
(***************************************************************************)
(* Theorems about TaskBoard for any number of users, tasks and requests.   *)
(***************************************************************************)
EXTENDS TaskBoard, TLAPS

\* What a step of r that starts a request leaves of the others.
LEMMA StartEffect ==
  ASSUME BoardTypeOK, NEW r \in Requests, NEW u \in Users, NEW step, NEW t \in Tasks \cup {NoTask},
         NEW row, Start(r, u, step, t, row)
  PROVE  /\ u \in tokens /\ pc[r] = "idle"
         /\ pc'[r] = step /\ by'[r] = u /\ task'[r] = t /\ draft'[r] = row
         /\ \A q \in Requests \ {r} :
              pc'[q] = pc[q] /\ by'[q] = by[q] /\ task'[q] = task[q] /\ draft'[q] = draft[q]
         /\ UNCHANGED userVars
  BY DEF Start, BoardTypeOK

LEMMA FinishEffect ==
  ASSUME BoardTypeOK, NEW r \in Requests, Finish(r)
  PROVE  /\ pc'[r] = "idle" /\ by'[r] = NoUser /\ task'[r] = NoTask /\ draft'[r] = NoRow
         /\ \A q \in Requests \ {r} :
              pc'[q] = pc[q] /\ by'[q] = by[q] /\ task'[q] = task[q] /\ draft'[q] = draft[q]
         /\ UNCHANGED userVars
  BY DEF Finish, BoardTypeOK

\* A row of the table is a Row or absent, and changing a field keeps it a Row.
LEMMA RowFacts ==
  ASSUME BoardTypeOK
  PROVE  /\ NoRow \notin Row
         /\ \A t \in Tasks : Present(t) => rows[t] \in Row
         /\ \A row \in Row, s \in Status, a \in Users \cup {NoUser} :
              /\ [row EXCEPT !.status = s] \in Row
              /\ [row EXCEPT !.assignee = a] \in Row
              /\ [row EXCEPT !.status = s, !.assignee = a] \in Row
              /\ [row EXCEPT !.deleted = TRUE] \in Row
  BY BoardAssumption DEF Row, NoRow, BoardTypeOK, Present

-----------------------------------------------------------------------------
(* Type correctness *)

\* A request that is past its reads holds a row, and is about a task it has read.
DraftsOK == \A r \in Requests :
  /\ pc[r] \in {"resolve", "save"} => draft[r] \in Row
  /\ pc[r] = "resolve" => draft[r].assignee \in Users

LEMMA StartKeepsTypes ==
  ASSUME BoardTypeOK, DraftsOK, UNCHANGED <<rows, used>>, named' \in [Tasks -> SUBSET Users],
         NEW r \in Requests, NEW u \in Users, NEW step \in {"resolve", "save", "remove"},
         NEW t \in used \cup {NoTask}, NEW row \in Row,
         step = "resolve" => row.assignee \in Users, Start(r, u, step, t, row)
  PROVE  BoardTypeOK' /\ DraftsOK'
<1>1. t \in Tasks \cup {NoTask}
  BY DEF BoardTypeOK
<1>2. DraftsOK'
  BY <1>1, StartEffect DEF DraftsOK
<1>3. BoardTypeOK'
  <2>1. /\ pc' \in [Requests -> {"idle", "resolve", "save", "remove"}]
        /\ by' \in [Requests -> Users \cup {NoUser}]
        /\ task' \in [Requests -> used \cup {NoTask}]
        /\ draft' \in [Requests -> Row \cup {NoRow}]
    BY DEF Start, BoardTypeOK
  <2>2. QED
    BY <2>1 DEF BoardTypeOK, Start, userVars, Present
<1>4. QED
  BY <1>2, <1>3

LEMMA FinishKeepsTypes ==
  ASSUME BoardTypeOK, DraftsOK, NEW r \in Requests, Finish(r),
         rows' \in [Tasks -> Row \cup {NoRow}], used \subseteq used', used' \subseteq Tasks,
         \A t \in Tasks : Present(t)' => t \in used', named' \in [Tasks -> SUBSET Users]
  PROVE  BoardTypeOK' /\ DraftsOK'
<1>1. DraftsOK'
  BY FinishEffect DEF DraftsOK
<1>2. /\ pc' \in [Requests -> {"idle", "resolve", "save", "remove"}]
      /\ by' \in [Requests -> Users \cup {NoUser}]
      /\ task' \in [Requests -> used' \cup {NoTask}]
      /\ draft' \in [Requests -> Row \cup {NoRow}]
  BY DEF Finish, BoardTypeOK
<1>3. QED
  BY <1>1, <1>2 DEF BoardTypeOK, Finish, userVars

LEMMA UserStepKeepsTypes ==
  ASSUME BoardTypeOK, DraftsOK, NEW u \in Users, UserNext(u)
  PROVE  BoardTypeOK' /\ DraftsOK'
<1>1. UNCHANGED <<used, named, requestVars>>
  BY DEF UserNext, DeleteAccount, EraseProfile, DetachErased, DeleteErased, EraseFails,
         TokenExpires, tableVars
<1>2. DraftsOK'
  BY <1>1 DEF DraftsOK, requestVars
<1>3. /\ rows' \in [Tasks -> Row \cup {NoRow}]
      /\ \A t \in Tasks : Present(t)' => t \in used
  <2>1. CASE DetachErased(u)
    <3>1. ASSUME NEW t \in Tasks
          PROVE  /\ rows'[t] \in Row \cup {NoRow}
                 /\ Present(t)' => t \in used
      <4>1. rows'[t] = IF Present(t) /\ rows[t].assignee = u
                       THEN [rows[t] EXCEPT !.assignee = NoUser] ELSE rows[t]
        BY <2>1 DEF DetachErased
      <4>2. CASE Present(t)
        <5>1. rows[t] \in Row /\ t \in used
          BY <4>2, RowFacts DEF BoardTypeOK
        <5>2. [rows[t] EXCEPT !.assignee = NoUser] \in Row
          BY <5>1, RowFacts, BoardAssumption
        <5>3. QED
          BY <4>1, <5>1, <5>2
      <4>3. CASE ~ Present(t)
        BY <4>1, <4>3 DEF Present
      <4>4. QED
        BY <4>2, <4>3
    <3>2. rows' = [t \in Tasks |-> rows'[t]]
      BY <2>1 DEF DetachErased
    <3>3. QED
      BY <3>1, <3>2
  <2>2. CASE DeleteErased(u)
    BY <2>2, RowFacts DEF DeleteErased, BoardTypeOK, Present
  <2>3. CASE UNCHANGED rows
    BY <2>3 DEF BoardTypeOK, Present
  <2>4. QED
    BY <2>1, <2>2, <2>3
       DEF UserNext, DeleteAccount, EraseProfile, EraseFails, TokenExpires, tableVars
<1>4. /\ account' \subseteq Users /\ tokens' \subseteq Users
      /\ erasing' \in [Users -> {"no", "detach", "delete", "done"}]
  BY DEF UserNext, DeleteAccount, EraseProfile, DetachErased, DeleteErased, EraseFails,
         TokenExpires, BoardTypeOK
<1>5. QED
  BY <1>1, <1>2, <1>3, <1>4 DEF BoardTypeOK, requestVars

LEMMA RequestStepKeepsTypes ==
  ASSUME BoardTypeOK, DraftsOK, NEW r \in Requests, RequestNext(r)
  PROVE  BoardTypeOK' /\ DraftsOK'
<1>1. ASSUME NEW u \in Users, NEW a \in Users \cup {NoUser}, Create(r, u, a)
      PROVE  BoardTypeOK' /\ DraftsOK'
  <2> DEFINE row == [owner |-> u, assignee |-> a, status |-> Todo, deleted |-> FALSE]
  <2>1. row \in Row /\ row.assignee = a
    BY BoardAssumption DEF Row
  <2>2. Start(r, u, NextStep(a), NoTask, row) /\ UNCHANGED tableVars
    BY <1>1 DEF Create
  <2>3. NextStep(a) \in {"resolve", "save", "remove"} /\ (NextStep(a) = "resolve" => a \in Users)
    BY DEF NextStep
  <2>4. UNCHANGED <<rows, used>> /\ named' \in [Tasks -> SUBSET Users]
    BY <2>2 DEF tableVars, BoardTypeOK
  <2> HIDE DEF row
  <2>5. QED
    BY <2>1, <2>2, <2>3, <2>4, StartKeepsTypes
<1>2. ASSUME NEW u \in Users, NEW t \in Tasks, NEW s \in Status, UpdateStatus(r, u, t, s)
      PROVE  BoardTypeOK' /\ DraftsOK'
  <2> DEFINE row == [rows[t] EXCEPT !.status = s]
  <2>1. row \in Row /\ t \in used
    BY <1>2, RowFacts DEF UpdateStatus, Visible, BoardTypeOK
  <2>2. Start(r, u, "save", t, row) /\ UNCHANGED <<rows, used>> /\ named' \in [Tasks -> SUBSET Users]
    BY <1>2 DEF UpdateStatus, tableVars, BoardTypeOK
  <2> HIDE DEF row
  <2>3. QED
    BY <2>1, <2>2, StartKeepsTypes
<1>3. ASSUME NEW u \in Users, NEW t \in Tasks, NEW s \in Status, NEW a \in Users \cup {NoUser},
             Reassign(r, u, t, s, a)
      PROVE  BoardTypeOK' /\ DraftsOK'
  <2> DEFINE row == [rows[t] EXCEPT !.status = s, !.assignee = a]
  <2>1. rows[t] \in Row /\ t \in used
    BY <1>3, RowFacts DEF Reassign, Visible, BoardTypeOK
  <2>2. row \in Row /\ row.assignee = a
    BY <2>1, RowFacts DEF Row
  <2>3. Start(r, u, NextStep(a), t, row) /\ UNCHANGED <<rows, used>>
    BY <1>3 DEF Reassign
  <2>4. named' \in [Tasks -> SUBSET Users]
    BY <1>3 DEF Reassign, BoardTypeOK
  <2>5. NextStep(a) \in {"resolve", "save", "remove"} /\ (NextStep(a) = "resolve" => a \in Users)
    BY DEF NextStep
  <2> HIDE DEF row
  <2>6. QED
    BY <2>1, <2>2, <2>3, <2>4, <2>5, StartKeepsTypes
<1>4. ASSUME NEW u \in Users, NEW t \in Tasks, ReadForRemove(r, u, t)
      PROVE  BoardTypeOK' /\ DraftsOK'
  <2>1. rows[t] \in Row /\ t \in used
    BY <1>4, RowFacts DEF ReadForRemove, Visible, BoardTypeOK
  <2>2. /\ Start(r, u, "remove", t, rows[t]) /\ UNCHANGED <<rows, used>>
        /\ named' \in [Tasks -> SUBSET Users]
    BY <1>4 DEF ReadForRemove, tableVars, BoardTypeOK
  <2>3. QED
    BY <2>1, <2>2, StartKeepsTypes
<1>5. CASE ResolveAssignee(r)
  <2>1. CASE Finish(r) /\ UNCHANGED tableVars
    BY <2>1, FinishKeepsTypes DEF tableVars, BoardTypeOK, Present
  <2>2. CASE /\ pc[r] = "resolve" /\ pc' = [pc EXCEPT ![r] = "save"]
             /\ UNCHANGED <<by, task, draft, userVars, tableVars>>
    BY <2>2 DEF BoardTypeOK, DraftsOK, tableVars, userVars, Present
  <2>3. QED
    BY <1>5, <2>1, <2>2 DEF ResolveAssignee
<1>6. ASSUME NEW t \in Tasks, SaveNew(r, t) PROVE BoardTypeOK' /\ DraftsOK'
  <2>1. draft[r] \in Row
    BY <1>6 DEF SaveNew, DraftsOK
  <2>2. draft[r].assignee \in Users \cup {NoUser}
    BY <2>1 DEF Row
  <2>3. rows' \in [Tasks -> Row \cup {NoRow}] /\ named' \in [Tasks -> SUBSET Users]
    BY <1>6, <2>1, <2>2 DEF SaveNew, BoardTypeOK
  <2>4. Finish(r) /\ used' = used \cup {t}
    BY <1>6 DEF SaveNew
  <2>5. \A q \in Tasks : Present(q)' => q \in used'
    BY <1>6, <2>4 DEF SaveNew, BoardTypeOK, Present
  <2>6. used' \subseteq Tasks
    BY <2>4 DEF BoardTypeOK
  <2>7. QED
    BY <2>3, <2>4, <2>5, <2>6, FinishKeepsTypes
<1>7. CASE Save(r)
  <2>1. draft[r] \in Row /\ task[r] \in used
    BY <1>7 DEF Save, DraftsOK, BoardTypeOK
  <2>2. rows' \in [Tasks -> Row \cup {NoRow}] /\ UNCHANGED <<used, named>>
    BY <1>7, <2>1 DEF Save, BoardTypeOK
  <2>3. \A q \in Tasks : Present(q)' => q \in used'
    BY <1>7, <2>1, <2>2 DEF Save, BoardTypeOK, Present
  <2>4. QED
    BY <1>7, <2>2, <2>3, FinishKeepsTypes DEF Save, BoardTypeOK
<1>8. CASE SoftRemove(r)
  <2>1. rows' \in [Tasks -> Row \cup {NoRow}] /\ UNCHANGED <<used, named>>
    <3>1. CASE Present(task[r]) /\ task[r] \in Tasks
      <4>1. [rows[task[r]] EXCEPT !.deleted = TRUE] \in Row
        BY <3>1, RowFacts, BoardAssumption
      <4>2. rows' = [rows EXCEPT ![task[r]] = [rows[task[r]] EXCEPT !.deleted = TRUE]]
        BY <1>8, <3>1 DEF SoftRemove
      <4>3. UNCHANGED <<used, named>> /\ rows \in [Tasks -> Row \cup {NoRow}]
        BY <1>8 DEF SoftRemove, BoardTypeOK
      <4> DEFINE row == [rows[task[r]] EXCEPT !.deleted = TRUE]
      <4>4. rows' = [rows EXCEPT ![task[r]] = row] /\ row \in Row
        BY <4>1, <4>2
      <4> HIDE DEF row
      <4>5. QED
        BY <3>1, <4>3, <4>4
    <3>2. CASE ~ (Present(task[r]) /\ task[r] \in Tasks)
      BY <1>8, <3>2 DEF SoftRemove, BoardTypeOK
    <3>3. QED
      BY <3>1, <3>2
  <2>2. \A q \in Tasks : Present(q)' => q \in used'
    BY <1>8, <2>1 DEF SoftRemove, BoardTypeOK, Present
  <2>3. QED
    BY <1>8, <2>1, <2>2, FinishKeepsTypes DEF SoftRemove, BoardTypeOK
<1>9. CASE Abandon(r)
  BY <1>9, FinishKeepsTypes DEF Abandon, tableVars, BoardTypeOK, Present
<1>10. QED
  BY <1>1, <1>2, <1>3, <1>4, <1>5, <1>6, <1>7, <1>8, <1>9 DEF RequestNext

LEMMA BoardTypes == BoardSpec => [](BoardTypeOK /\ DraftsOK)
<1>1. BoardInit => BoardTypeOK /\ DraftsOK
  BY BoardAssumption DEF BoardInit, BoardTypeOK, DraftsOK, Present
<1>2. BoardTypeOK /\ DraftsOK /\ [BoardNext]_vars => BoardTypeOK' /\ DraftsOK'
  <2>1. CASE UNCHANGED vars
    BY <2>1 DEF vars, tableVars, userVars, requestVars, BoardTypeOK, DraftsOK, Present
  <2>2. QED
    BY <2>1, UserStepKeepsTypes, RequestStepKeepsTypes DEF BoardNext
<1>3. QED
  BY <1>1, <1>2, PTL DEF BoardSpec

\* Every variable keeps its type, whatever interleaves.
THEOREM BoardTypeCorrect == BoardSpec => []BoardTypeOK
  BY BoardTypes, PTL

\* A soft delete sets deleted_at and nothing else.
LEMMA SoftRemoveEffect ==
  ASSUME BoardTypeOK, NEW r \in Requests, SoftRemove(r), NEW t \in Tasks
  PROVE  /\ rows'[t].owner = rows[t].owner
         /\ rows'[t].assignee = rows[t].assignee
         /\ rows'[t].deleted \in {rows[t].deleted, TRUE}
         /\ Present(t)' <=> Present(t)
<1>1. CASE Present(task[r]) /\ task[r] = t
  <2> DEFINE row == [rows[t] EXCEPT !.deleted = TRUE]
  <2>1. rows[t] \in Row /\ row \in Row
    BY <1>1, RowFacts, BoardAssumption
  <2>2. /\ row.owner = rows[t].owner /\ row.assignee = rows[t].assignee
        /\ row.deleted = TRUE
    BY <2>1 DEF Row
  <2>3. rows'[t] = row
    BY <1>1 DEF SoftRemove, BoardTypeOK
  <2>4. row # NoRow
    BY <2>1, RowFacts
  <2> HIDE DEF row
  <2>5. QED
    BY <1>1, <2>2, <2>3, <2>4 DEF Present
<1>2. CASE ~ (Present(task[r]) /\ task[r] = t)
  <2>1. rows'[t] = rows[t]
    BY <1>2 DEF SoftRemove, BoardTypeOK
  <2>2. QED
    BY <2>1 DEF Present
<1>3. QED
  BY <1>1, <1>2

-----------------------------------------------------------------------------
(* Tasks stay in the hands of those their owner named *)

\* What a request is about to save names nobody the owner has not named.
DraftsNamed == \A r \in Requests :
  pc[r] \in {"resolve", "save"} /\ task[r] # NoTask =>
    draft[r].assignee \in named[task[r]] \cup {NoUser}

NamedInv == AssignedByOwner /\ DraftsNamed

LEMMA StartKeepsNamed ==
  ASSUME BoardTypeOK, NamedInv, UNCHANGED rows,
         \A t \in Tasks : named[t] \subseteq named'[t],
         NEW r \in Requests, NEW u \in Users, NEW step, NEW t \in Tasks \cup {NoTask}, NEW row,
         Start(r, u, step, t, row),
         step \in {"resolve", "save"} /\ t # NoTask => row.assignee \in named'[t] \cup {NoUser}
  PROVE  NamedInv'
<1>1. AssignedByOwner'
  BY DEF NamedInv, AssignedByOwner
<1>2. ASSUME NEW q \in Requests, pc'[q] \in {"resolve", "save"}, task'[q] # NoTask
      PROVE  draft'[q].assignee \in named'[task'[q]] \cup {NoUser}
  <2>1. CASE q = r
    BY <1>2, <2>1, StartEffect
  <2>2. CASE q # r
    <3>1. pc'[q] = pc[q] /\ task'[q] = task[q] /\ draft'[q] = draft[q]
      BY <2>2, StartEffect
    <3>2. task[q] \in Tasks
      BY <1>2, <3>1 DEF BoardTypeOK
    <3>3. QED
      BY <1>2, <3>1, <3>2 DEF NamedInv, DraftsNamed
  <2>3. QED
    BY <2>1, <2>2
<1>3. QED
  BY <1>1, <1>2 DEF NamedInv, DraftsNamed

LEMMA FinishKeepsDraftsNamed ==
  ASSUME BoardTypeOK, NamedInv, NEW r \in Requests, Finish(r),
         \A q \in Requests : task[q] # NoTask => named'[task[q]] = named[task[q]]
  PROVE  DraftsNamed'
  BY FinishEffect DEF NamedInv, DraftsNamed

LEMMA NamedStep ==
  ASSUME BoardTypeOK, DraftsOK, NamedInv, [BoardNext]_vars
  PROVE  NamedInv'
<1>1. ASSUME NEW r \in Requests, NEW u \in Users, NEW a \in Users \cup {NoUser}, Create(r, u, a)
      PROVE  NamedInv'
  BY <1>1, StartKeepsNamed DEF Create, tableVars
<1>2. ASSUME NEW r \in Requests, NEW u \in Users, NEW t \in Tasks, NEW s \in Status,
             UpdateStatus(r, u, t, s)
      PROVE  NamedInv'
  <2> DEFINE row == [rows[t] EXCEPT !.status = s]
  <2>1. row.assignee = rows[t].assignee
    BY <1>2, RowFacts DEF UpdateStatus, Visible, Row
  <2>2. row.assignee \in named[t] \cup {NoUser}
    BY <2>1 DEF NamedInv, AssignedByOwner
  <2>3. Start(r, u, "save", t, row) /\ UNCHANGED <<rows, named>>
    BY <1>2 DEF UpdateStatus, tableVars
  <2> HIDE DEF row
  <2>4. QED
    BY <2>2, <2>3, StartKeepsNamed
<1>3. ASSUME NEW r \in Requests, NEW u \in Users, NEW t \in Tasks, NEW s \in Status,
             NEW a \in Users \cup {NoUser}, Reassign(r, u, t, s, a)
      PROVE  NamedInv'
  <2> DEFINE row == [rows[t] EXCEPT !.status = s, !.assignee = a]
  <2>1. row.assignee = a
    BY <1>3, RowFacts DEF Reassign, Visible, Row
  <2>2. /\ a \in named'[t] \cup {NoUser}
        /\ \A q \in Tasks : named[q] \subseteq named'[q]
    BY <1>3 DEF Reassign, BoardTypeOK
  <2>3. Start(r, u, NextStep(a), t, row) /\ UNCHANGED rows
    BY <1>3 DEF Reassign
  <2> HIDE DEF row
  <2>4. QED
    BY <2>1, <2>2, <2>3, StartKeepsNamed
<1>4. ASSUME NEW r \in Requests, NEW u \in Users, NEW t \in Tasks, ReadForRemove(r, u, t)
      PROVE  NamedInv'
  BY <1>4, StartKeepsNamed DEF ReadForRemove, tableVars
<1>5. ASSUME NEW r \in Requests, ResolveAssignee(r) PROVE NamedInv'
  <2>1. UNCHANGED tableVars
    BY <1>5 DEF ResolveAssignee
  <2>2. AssignedByOwner'
    BY <2>1 DEF tableVars, NamedInv, AssignedByOwner
  <2>3. CASE Finish(r)
    BY <2>1, <2>2, <2>3, FinishKeepsDraftsNamed DEF tableVars, NamedInv
  <2>4. CASE /\ pc[r] = "resolve" /\ pc' = [pc EXCEPT ![r] = "save"]
             /\ UNCHANGED <<by, task, draft>>
    BY <2>1, <2>2, <2>4 DEF NamedInv, DraftsNamed, tableVars, BoardTypeOK
  <2>5. QED
    BY <1>5, <2>3, <2>4 DEF ResolveAssignee
<1>6. ASSUME NEW r \in Requests, NEW t \in Tasks, SaveNew(r, t) PROVE NamedInv'
  <2>1. /\ Finish(r) /\ t \notin used
        /\ rows' = [rows EXCEPT ![t] = draft[r]]
        /\ named' = [named EXCEPT ![t] = {draft[r].assignee} \ {NoUser}]
    BY <1>6 DEF SaveNew
  <2>2. \A q \in Requests : task[q] # NoTask => named'[task[q]] = named[task[q]]
    BY <2>1 DEF BoardTypeOK
  <2>3. AssignedByOwner'
    BY <2>1 DEF NamedInv, AssignedByOwner, BoardTypeOK
  <2>4. QED
    BY <2>1, <2>2, <2>3, FinishKeepsDraftsNamed DEF NamedInv
<1>7. ASSUME NEW r \in Requests, Save(r) PROVE NamedInv'
  <2>1. /\ Finish(r) /\ UNCHANGED named
        /\ rows' = [rows EXCEPT ![task[r]] = draft[r]]
        /\ draft[r].assignee \in named[task[r]] \cup {NoUser}
    BY <1>7 DEF Save, NamedInv, DraftsNamed
  <2>2. AssignedByOwner'
    BY <2>1 DEF NamedInv, AssignedByOwner, BoardTypeOK
  <2>3. QED
    BY <2>1, <2>2, FinishKeepsDraftsNamed DEF NamedInv
<1>8. ASSUME NEW r \in Requests, SoftRemove(r) PROVE NamedInv'
  <2>1. \A q \in Tasks : rows'[q].assignee = rows[q].assignee
    BY <1>8, SoftRemoveEffect
  <2>2. AssignedByOwner'
    BY <1>8, <2>1 DEF SoftRemove, NamedInv, AssignedByOwner
  <2>3. QED
    BY <1>8, <2>2, FinishKeepsDraftsNamed DEF SoftRemove, NamedInv
<1>9. ASSUME NEW r \in Requests, Abandon(r) PROVE NamedInv'
  BY <1>9, FinishKeepsDraftsNamed DEF Abandon, tableVars, NamedInv, AssignedByOwner
<1>10. ASSUME NEW u \in Users, UserNext(u) PROVE NamedInv'
  <2>1. UNCHANGED <<named, requestVars>>
    BY <1>10 DEF UserNext, DeleteAccount, EraseProfile, DetachErased, DeleteErased, EraseFails,
                 TokenExpires, tableVars
  <2>2. DraftsNamed'
    BY <2>1 DEF NamedInv, DraftsNamed, requestVars
  <2>3. \A t \in Tasks : rows'[t].assignee \in {rows[t].assignee, NoUser}
    <3>1. CASE DetachErased(u)
      BY <3>1, RowFacts DEF DetachErased, Row
    <3>2. CASE DeleteErased(u)
      BY <3>2 DEF DeleteErased, NoRow
    <3>3. CASE UNCHANGED rows
      BY <3>3
    <3>4. QED
      BY <1>10, <3>1, <3>2, <3>3
         DEF UserNext, DeleteAccount, EraseProfile, EraseFails, TokenExpires, tableVars
  <2>4. QED
    BY <2>1, <2>2, <2>3 DEF NamedInv, AssignedByOwner
<1>11. CASE UNCHANGED vars
  BY <1>11 DEF vars, tableVars, requestVars, NamedInv, AssignedByOwner, DraftsNamed
<1>12. QED
  BY <1>1, <1>2, <1>3, <1>4, <1>5, <1>6, <1>7, <1>8, <1>9, <1>10, <1>11
     DEF BoardNext, RequestNext

\* No interleaving of stale saves, deletions and erasures puts a task into the
\* hands of a user its owner never asked to assign.
THEOREM BoardAssignedByOwner == BoardSpec => []AssignedByOwner
<1>1. BoardInit => NamedInv
  BY DEF BoardInit, NamedInv, AssignedByOwner, DraftsNamed, NoRow
<1>2. (BoardTypeOK /\ DraftsOK) /\ NamedInv /\ [BoardNext]_vars => NamedInv'
  BY NamedStep
<1>3. NamedInv => AssignedByOwner
  BY DEF NamedInv
<1>4. QED
  BY <1>1, <1>2, <1>3, BoardTypes, PTL DEF BoardSpec

-----------------------------------------------------------------------------
(* What is gone runs dry *)

LEMMA RemovedStep ==
  ASSUME BoardTypeOK, DraftsOK, [BoardNext]_vars, NEW t \in Tasks, Gone(t)
  PROVE  /\ Holders(t)' \subseteq Holders(t)
         /\ Holders(t) = {} => Gone(t)'
<1> DEFINE Goal == /\ Holders(t)' \subseteq Holders(t)
                   /\ Holders(t) = {} => Gone(t)'
<1>0. t \in used /\ \A u \in Users : ~ Visible(t, u)
  BY DEF Gone, Visible
<1>1. ASSUME NEW r \in Requests, NEW u \in Users, NEW step, NEW s \in Tasks \cup {NoTask}, NEW row,
             Start(r, u, step, s, row), s # t \/ step = "remove", UNCHANGED <<rows, used>>
      PROVE  Goal
  <2>1. \A q \in Requests : q \in Holders(t)' => q \in Holders(t)
    BY <1>1, StartEffect DEF Holders
  <2>2. Gone(t)'
    BY <1>1 DEF Gone, Present
  <2>3. QED
    BY <2>1, <2>2 DEF Holders
<1>2. ASSUME NEW r \in Requests, Finish(r), Gone(t)' \/ r \in Holders(t)
      PROVE  Goal
  BY <1>2, FinishEffect DEF Holders
<1>3. ASSUME NEW r \in Requests, NEW u \in Users, NEW a \in Users \cup {NoUser}, Create(r, u, a)
      PROVE  Goal
  <2>1. NoTask # t
    BY BoardAssumption
  <2>2. QED
    BY <1>1, <1>3, <2>1 DEF Create, tableVars
<1>4. ASSUME NEW r \in Requests, NEW u \in Users, NEW s \in Tasks,
             \/ \E v \in Status : UpdateStatus(r, u, s, v)
             \/ \E v \in Status, a \in Users \cup {NoUser} : Reassign(r, u, s, v, a)
             \/ ReadForRemove(r, u, s)
      PROVE  Goal
  <2>1. s # t
    BY <1>0, <1>4 DEF UpdateStatus, Reassign, ReadForRemove
  <2>2. UNCHANGED <<rows, used>> /\ \E step, row : Start(r, u, step, s, row)
    BY <1>4 DEF UpdateStatus, Reassign, ReadForRemove, tableVars
  <2>3. QED
    BY <1>1, <2>1, <2>2
<1>5. ASSUME NEW r \in Requests, ResolveAssignee(r) PROVE Goal
  <2>1. Gone(t)'
    BY <1>5 DEF ResolveAssignee, tableVars, Gone, Present
  <2>2. CASE Finish(r)
    BY <1>2, <2>1, <2>2
  <2>3. CASE /\ pc[r] = "resolve" /\ pc' = [pc EXCEPT ![r] = "save"]
             /\ UNCHANGED <<by, task, draft>>
    BY <2>1, <2>3 DEF Holders, BoardTypeOK
  <2>4. QED
    BY <1>5, <2>2, <2>3 DEF ResolveAssignee
<1>6. ASSUME NEW r \in Requests, NEW s \in Tasks, SaveNew(r, s) PROVE Goal
  <2>1. s # t /\ Finish(r)
    BY <1>0, <1>6 DEF SaveNew
  <2>2. Gone(t)'
    BY <1>6, <2>1 DEF SaveNew, Gone, Present, BoardTypeOK
  <2>3. QED
    BY <1>2, <2>1, <2>2
<1>7. ASSUME NEW r \in Requests, Save(r) PROVE Goal
  <2>1. CASE task[r] = t
    BY <1>2, <1>7, <2>1 DEF Save, Holders
  <2>2. CASE task[r] # t
    <3>1. Gone(t)'
      BY <1>7, <2>2 DEF Save, Gone, Present, BoardTypeOK
    <3>2. QED
      BY <1>2, <1>7, <3>1 DEF Save
  <2>3. QED
    BY <2>1, <2>2
<1>8. ASSUME NEW r \in Requests, SoftRemove(r) PROVE Goal
  <2>1. Gone(t)'
    BY <1>8, SoftRemoveEffect DEF SoftRemove, Gone
  <2>2. QED
    BY <1>2, <1>8, <2>1 DEF SoftRemove
<1>9. ASSUME NEW r \in Requests, Abandon(r) PROVE Goal
  BY <1>2, <1>9 DEF Abandon, tableVars, Gone, Present
<1>10. ASSUME NEW u \in Users, UserNext(u) PROVE Goal
  <2>1. UNCHANGED <<used, requestVars>>
    BY <1>10 DEF UserNext, DeleteAccount, EraseProfile, DetachErased, DeleteErased, EraseFails,
                 TokenExpires, tableVars
  <2>2. Gone(t)'
    <3>1. CASE DetachErased(u)
      <4>1. CASE ~ Present(t)
        BY <2>1, <3>1, <4>1 DEF DetachErased, Gone, Present
      <4>2. CASE Present(t)
        <5>1. rows[t] \in Row /\ rows[t].deleted
          BY <4>2, RowFacts DEF Gone
        <5>2. rows'[t].deleted = rows[t].deleted
          BY <3>1, <5>1 DEF DetachErased, Row
        <5>3. QED
          BY <2>1, <5>1, <5>2 DEF Gone
      <4>3. QED
        BY <4>1, <4>2
    <3>2. CASE DeleteErased(u)
      BY <2>1, <3>2 DEF DeleteErased, Gone, Present
    <3>3. CASE UNCHANGED rows
      BY <2>1, <3>3 DEF Gone, Present
    <3>4. QED
      BY <1>10, <3>1, <3>2, <3>3
         DEF UserNext, DeleteAccount, EraseProfile, EraseFails, TokenExpires, tableVars
  <2>3. QED
    BY <2>1, <2>2 DEF Holders, requestVars
<1>11. CASE UNCHANGED vars
  BY <1>11 DEF vars, tableVars, requestVars, Holders, Gone, Present
<1>12. QED
  BY <1>3, <1>4, <1>5, <1>6, <1>7, <1>8, <1>9, <1>10, <1>11 DEF BoardNext, RequestNext

\* A deleted or erased task comes back only through a request that had read it
\* before, and no further request reads it.
THEOREM BoardRemovedRunsDry == BoardSpec => RemovedRunsDry
<1>1. (BoardTypeOK /\ DraftsOK) /\ [BoardNext]_vars
        => [\A t \in Tasks : Gone(t) =>
              /\ Holders(t)' \subseteq Holders(t)
              /\ Holders(t) = {} => Gone(t)']_vars
  BY RemovedStep
<1>2. QED
  BY <1>1, BoardTypes, PTL DEF BoardSpec, RemovedRunsDry

LEMMA ErasedStep ==
  ASSUME BoardTypeOK, DraftsOK, [BoardNext]_vars, NEW u \in Users, u \notin account, u \notin tokens
  PROVE  /\ Carriers(u) = {} => TasksOf(u)' \subseteq TasksOf(u)
         /\ TasksOf(u) = {} => Carriers(u)' \subseteq Carriers(u)
<1> DEFINE Goal == /\ Carriers(u) = {} => TasksOf(u)' \subseteq TasksOf(u)
                   /\ TasksOf(u) = {} => Carriers(u)' \subseteq Carriers(u)
<1>0. u # NoUser
  BY BoardAssumption
<1>1. ASSUME NEW r \in Requests, Finish(r) PROVE Carriers(u)' \subseteq Carriers(u)
  BY <1>1, FinishEffect DEF Carriers
<1>2. ASSUME NEW r \in Requests, NEW v \in Users, NEW step, NEW t \in Tasks \cup {NoTask}, NEW row,
             Start(r, v, step, t, row), UNCHANGED rows,
             TasksOf(u) = {} => \/ step = "save" /\ u \notin {row.owner, row.assignee}
                                \/ step = "resolve" /\ u # row.owner
                                \/ step = "remove"
      PROVE  Goal
  <2>1. TasksOf(u)' = TasksOf(u)
    BY <1>2 DEF TasksOf
  <2>2. ASSUME TasksOf(u) = {}, NEW q \in Requests, q \in Carriers(u)' PROVE q \in Carriers(u)
    BY <1>2, <2>2, StartEffect DEF Carriers
  <2>3. QED
    BY <2>1, <2>2 DEF Carriers
<1>3. ASSUME NEW r \in Requests, NEW v \in Users, NEW a \in Users \cup {NoUser}, Create(r, v, a)
      PROVE  Goal
  <2> DEFINE row == [owner |-> v, assignee |-> a, status |-> Todo, deleted |-> FALSE]
  <2>1. Start(r, v, NextStep(a), NoTask, row) /\ UNCHANGED rows
    BY <1>3 DEF Create, tableVars
  <2>2. v \in tokens
    BY <2>1, StartEffect
  <2>3. row.owner = v /\ row.assignee = a
    OBVIOUS
  <2> HIDE DEF row
  <2>4. \/ NextStep(a) = "save" /\ u \notin {row.owner, row.assignee}
        \/ NextStep(a) = "resolve" /\ u # row.owner
    BY <1>0, <2>2, <2>3 DEF NextStep
  <2>5. QED
    BY <1>2, <2>1, <2>4
<1>4. ASSUME NEW r \in Requests, NEW v \in Users, NEW t \in Tasks, NEW s \in Status,
             UpdateStatus(r, v, t, s)
      PROVE  Goal
  <2> DEFINE row == [rows[t] EXCEPT !.status = s]
  <2>1. Start(r, v, "save", t, row) /\ UNCHANGED rows
    BY <1>4 DEF UpdateStatus, tableVars
  <2>2. row.owner = rows[t].owner /\ row.assignee = rows[t].assignee
    BY <1>4, RowFacts DEF UpdateStatus, Visible, Row
  <2>3. TasksOf(u) = {} => u \notin {row.owner, row.assignee}
    BY <2>2 DEF TasksOf
  <2> HIDE DEF row
  <2>4. QED
    BY <1>2, <2>1, <2>3
<1>5. ASSUME NEW r \in Requests, NEW v \in Users, NEW t \in Tasks, NEW s \in Status,
             NEW a \in Users \cup {NoUser}, Reassign(r, v, t, s, a)
      PROVE  Goal
  <2> DEFINE row == [rows[t] EXCEPT !.status = s, !.assignee = a]
  <2>1. Start(r, v, NextStep(a), t, row) /\ UNCHANGED rows
    BY <1>5 DEF Reassign
  <2>2. row.owner = rows[t].owner /\ row.assignee = a
    BY <1>5, RowFacts DEF Reassign, Visible, Row
  <2>3. TasksOf(u) = {} => u # row.owner
    BY <2>2 DEF TasksOf
  <2> HIDE DEF row
  <2>4. QED
    BY <1>0, <1>2, <2>1, <2>2, <2>3 DEF NextStep
<1>6. ASSUME NEW r \in Requests, NEW v \in Users, NEW t \in Tasks, ReadForRemove(r, v, t)
      PROVE  Goal
  BY <1>2, <1>6 DEF ReadForRemove, tableVars
<1>7. ASSUME NEW r \in Requests, ResolveAssignee(r) PROVE Goal
  <2>1. TasksOf(u)' = TasksOf(u)
    BY <1>7 DEF ResolveAssignee, tableVars, TasksOf
  <2>2. CASE Finish(r)
    BY <1>1, <2>1, <2>2
  <2>3. CASE /\ pc[r] = "resolve" /\ pc' = [pc EXCEPT ![r] = "save"]
             /\ draft[r].assignee \in account /\ UNCHANGED <<by, task, draft>>
    BY <2>1, <2>3 DEF Carriers, BoardTypeOK
  <2>4. QED
    BY <1>7, <2>2, <2>3 DEF ResolveAssignee
<1>8. ASSUME NEW r \in Requests, Finish(r), NEW t, rows' = [rows EXCEPT ![t] = draft[r]],
             pc[r] = "save"
      PROVE  Goal
  <2>1. Carriers(u) = {} => u \notin {draft[r].owner, draft[r].assignee}
    BY <1>8 DEF Carriers
  <2>2. Carriers(u) = {} => TasksOf(u)' \subseteq TasksOf(u)
    BY <1>8, <2>1 DEF TasksOf, BoardTypeOK
  <2>3. QED
    BY <1>1, <1>8, <2>2
<1>9. ASSUME NEW r \in Requests, SoftRemove(r) PROVE Goal
  <2>1. TasksOf(u)' = TasksOf(u)
    BY <1>9, SoftRemoveEffect DEF TasksOf
  <2>2. QED
    BY <1>1, <1>9, <2>1 DEF SoftRemove
<1>10. ASSUME NEW r \in Requests, Abandon(r) PROVE Goal
  BY <1>1, <1>10 DEF Abandon, tableVars, TasksOf
<1>11. ASSUME NEW v \in Users, UserNext(v) PROVE Goal
  <2>1. Carriers(u)' = Carriers(u)
    BY <1>11 DEF UserNext, DeleteAccount, EraseProfile, DetachErased, DeleteErased, EraseFails,
                 TokenExpires, requestVars, Carriers
  <2>2. TasksOf(u)' \subseteq TasksOf(u)
    <3>1. CASE DetachErased(v)
      <4>1. \A t \in Tasks : /\ rows'[t].owner = rows[t].owner
                             /\ rows'[t].assignee \in {rows[t].assignee, NoUser}
        BY <3>1, RowFacts DEF DetachErased, Row
      <4>2. QED
        BY <1>0, <4>1 DEF TasksOf
    <3>2. CASE DeleteErased(v)
      BY <1>0, <3>2 DEF DeleteErased, TasksOf, NoRow
    <3>3. CASE UNCHANGED rows
      BY <3>3 DEF TasksOf
    <3>4. QED
      BY <1>11, <3>1, <3>2, <3>3
         DEF UserNext, DeleteAccount, EraseProfile, EraseFails, TokenExpires, tableVars
  <2>3. QED
    BY <2>1, <2>2
<1>12. CASE UNCHANGED vars
  BY <1>12 DEF vars, tableVars, requestVars, Carriers, TasksOf
<1>13. QED
  BY <1>3, <1>4, <1>5, <1>6, <1>7, <1>8, <1>9, <1>10, <1>11, <1>12
     DEF BoardNext, RequestNext, Save, SaveNew

\* A user who is gone, and whose access token has expired, gains tasks only from
\* requests that carried the user before; once there are neither, there never are.
THEOREM BoardErasedRunsDry == BoardSpec => ErasedRunsDry
<1>1. (BoardTypeOK /\ DraftsOK) /\ [BoardNext]_vars
        => [\A u \in Users \ (account \cup tokens) :
              /\ Carriers(u) = {} => TasksOf(u)' \subseteq TasksOf(u)
              /\ TasksOf(u) = {} => Carriers(u)' \subseteq Carriers(u)]_vars
  BY ErasedStep
<1>2. QED
  BY <1>1, BoardTypes, PTL DEF BoardSpec, ErasedRunsDry
=============================================================================
