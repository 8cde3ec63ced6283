------------------------------ MODULE TaskBoard ------------------------------
(***************************************************************************)
(* TasksService of apps/api: tasks a user owns or is assigned to, changed  *)
(* by requests that read the row, await other statements and save the copy *)
(* they read; and the erasure of a user, which deletes and detaches tasks  *)
(* under them.                                                             *)
(*                                                                         *)
(* TypeORM's save(task) reads the row again and writes every column that   *)
(* differs from the copy, so the row ends up as the copy; a row that is    *)
(* gone is inserted.  Caching of statistics and notifications are left out.*)
(***************************************************************************)
EXTENDS Naturals, FiniteSets

CONSTANTS
  Users,
  Tasks,      \* ids of the tasks ever created: bounds them
  Requests,   \* task requests that can be in flight at once
  Status,
  Todo,       \* the status of a new task
  NoUser,     \* nobody is assigned
  NoTask      \* the request creates its task

ASSUME BoardAssumption ==
  /\ NoUser \notin Users
  /\ NoTask \notin Tasks
  /\ Todo \in Status

VARIABLES
  rows,      \* the table: [Tasks -> row]
  used,      \* ids handed out
  named,     \* users the owner of each task has asked to assign
  account,   \* users findById returns
  tokens,    \* users with an access token that is still valid
  erasing,   \* progress of the erasure of each user
  pc,        \* progress of each request
  by,        \* its user
  task,      \* the task it is about
  draft      \* the copy it saves, with its changes

requestVars == <<pc, by, task, draft>>
tableVars   == <<rows, used, named>>
userVars    == <<account, tokens, erasing>>
vars == <<tableVars, userVars, requestVars>>

NoRow == [owner |-> NoUser, assignee |-> NoUser, status |-> Todo, deleted |-> FALSE]
Row   == [owner : Users, assignee : Users \cup {NoUser}, status : Status, deleted : BOOLEAN]

Present(t)    == rows[t] # NoRow
Visible(t, u) == Present(t) /\ ~ rows[t].deleted /\ u \in {rows[t].owner, rows[t].assignee}

BoardTypeOK ==
  /\ rows \in [Tasks -> Row \cup {NoRow}]
  /\ used \subseteq Tasks /\ \A t \in Tasks : Present(t) => t \in used
  /\ named \in [Tasks -> SUBSET Users]
  /\ account \subseteq Users
  /\ tokens \subseteq Users
  /\ erasing \in [Users -> {"no", "detach", "delete", "done"}]
  /\ pc \in [Requests -> {"idle", "resolve", "save", "remove"}]
  /\ by \in [Requests -> Users \cup {NoUser}]
  /\ task \in [Requests -> used \cup {NoTask}]
  /\ draft \in [Requests -> Row \cup {NoRow}]

BoardInit ==
  /\ rows = [t \in Tasks |-> NoRow]
  /\ used = {}
  /\ named = [t \in Tasks |-> {}]
  /\ account = Users
  /\ tokens = Users
  /\ erasing = [u \in Users |-> "no"]
  /\ pc = [r \in Requests |-> "idle"]
  /\ by = [r \in Requests |-> NoUser]
  /\ task = [r \in Requests |-> NoTask]
  /\ draft = [r \in Requests |-> NoRow]

-----------------------------------------------------------------------------
(* Requests *)

Start(r, u, step, t, row) ==
  /\ pc[r] = "idle"
  /\ u \in tokens
  /\ pc' = [pc EXCEPT ![r] = step]
  /\ by' = [by EXCEPT ![r] = u]
  /\ task' = [task EXCEPT ![r] = t]
  /\ draft' = [draft EXCEPT ![r] = row]
  /\ UNCHANGED userVars

\* The answer or an error: the locals are gone.
Finish(r) ==
  /\ pc' = [pc EXCEPT ![r] = "idle"]
  /\ by' = [by EXCEPT ![r] = NoUser]
  /\ task' = [task EXCEPT ![r] = NoTask]
  /\ draft' = [draft EXCEPT ![r] = NoRow]
  /\ UNCHANGED userVars

\* An assignee is looked up before the task is saved.
NextStep(assignee) == IF assignee = NoUser THEN "save" ELSE "resolve"

Create(r, u, assignee) ==
  /\ Start(r, u, NextStep(assignee), NoTask,
           [owner |-> u, assignee |-> assignee, status |-> Todo, deleted |-> FALSE])
  /\ UNCHANGED tableVars

\* Mutation: deleted rows are read as well.
ReadStatusWithDeleted(r, u, t, status) ==
  /\ Present(t) /\ u \in {rows[t].owner, rows[t].assignee}
  /\ Start(r, u, "save", t, [rows[t] EXCEPT !.status = status, !.deleted = FALSE])
  /\ UNCHANGED tableVars
\* PATCH of the status, by the owner or the assignee.
UpdateStatus(r, u, t, status) ==
  /\ Visible(t, u)
  /\ Start(r, u, "save", t, [rows[t] EXCEPT !.status = status])
  /\ UNCHANGED tableVars

\* Mutation: whoever sees the task may edit it.
ReassignByAnyone(r, u, t, status, assignee) ==
  /\ Visible(t, u)
  /\ Start(r, u, NextStep(assignee), t,
           [rows[t] EXCEPT !.status = status, !.assignee = assignee])
  /\ named' = IF u = rows[t].owner
              THEN [named EXCEPT ![t] = @ \cup ({assignee} \ {NoUser})] ELSE named
  /\ UNCHANGED <<rows, used>>
\* PATCH of the assignee, alone or with the status: the owner's.
Reassign(r, u, t, status, assignee) ==
  /\ Visible(t, u)
  /\ u = rows[t].owner
  /\ Start(r, u, NextStep(assignee), t,
           [rows[t] EXCEPT !.status = status, !.assignee = assignee])
  /\ named' = [named EXCEPT ![t] = @ \cup ({assignee} \ {NoUser})]
  /\ UNCHANGED <<rows, used>>

\* Mutation: the assignee is not looked up.
ResolveAnyone(r) ==
  /\ pc[r] = "resolve"
  /\ pc' = [pc EXCEPT ![r] = "save"]
  /\ UNCHANGED <<by, task, draft, userVars, tableVars>>
\* users.getByIdOrFail(assigneeId)
ResolveAssignee(r) ==
  /\ pc[r] = "resolve"
  /\ \/ /\ draft[r].assignee \in account
        /\ pc' = [pc EXCEPT ![r] = "save"]
        /\ UNCHANGED <<by, task, draft, userVars>>
     \/ /\ draft[r].assignee \notin account
        /\ Finish(r)
  /\ UNCHANGED tableVars

SaveNew(r, t) ==
  /\ pc[r] = "save"
  /\ task[r] = NoTask
  /\ t \notin used
  /\ rows' = [rows EXCEPT ![t] = draft[r]]
  /\ used' = used \cup {t}
  /\ named' = [named EXCEPT ![t] = {draft[r].assignee} \ {NoUser}]
  /\ Finish(r)

\* Whatever became of the row meanwhile.
Save(r) ==
  /\ pc[r] = "save"
  /\ task[r] # NoTask
  /\ rows' = [rows EXCEPT ![task[r]] = draft[r]]
  /\ Finish(r)
  /\ UNCHANGED <<used, named>>

ReadForRemove(r, u, t) ==
  /\ Visible(t, u)
  /\ u = rows[t].owner
  /\ Start(r, u, "remove", t, rows[t])
  /\ UNCHANGED tableVars

SoftRemove(r) ==
  /\ pc[r] = "remove"
  /\ rows' = IF Present(task[r]) THEN [rows EXCEPT ![task[r]].deleted = TRUE] ELSE rows
  /\ Finish(r)
  /\ UNCHANGED <<used, named>>

\* A statement fails, or the instance dies.
Abandon(r) ==
  /\ pc[r] # "idle"
  /\ Finish(r)
  /\ UNCHANGED tableVars

-----------------------------------------------------------------------------
(* Users *)

\* DELETE /users/me
DeleteAccount(u) ==
  /\ u \in account \cap tokens
  /\ account' = account \ {u}
  /\ UNCHANGED <<tokens, erasing, tableVars, requestVars>>

\* POST /privacy/erase: the profile contributor runs first.  It may be sent again.
EraseProfile(u) ==
  /\ u \in tokens
  /\ erasing[u] \in {"no", "done"}
  /\ account' = account \ {u}
  /\ erasing' = [erasing EXCEPT ![u] = "detach"]
  /\ UNCHANGED <<tokens, tableVars, requestVars>>

DetachErased(u) ==
  /\ erasing[u] = "detach"
  /\ erasing' = [erasing EXCEPT ![u] = "delete"]
  /\ rows' = [t \in Tasks |->
       IF Present(t) /\ rows[t].assignee = u THEN [rows[t] EXCEPT !.assignee = NoUser]
       ELSE rows[t]]
  /\ UNCHANGED <<used, named, account, tokens, requestVars>>

DeleteErased(u) ==
  /\ erasing[u] = "delete"
  /\ erasing' = [erasing EXCEPT ![u] = "done"]
  /\ rows' = [t \in Tasks |-> IF rows[t].owner = u THEN NoRow ELSE rows[t]]
  /\ UNCHANGED <<used, named, account, tokens, requestVars>>

\* A contributor throws: those before it have run.
EraseFails(u) ==
  /\ erasing[u] \in {"detach", "delete"}
  /\ erasing' = [erasing EXCEPT ![u] = "no"]
  /\ UNCHANGED <<account, tokens, tableVars, requestVars>>

\* The last access token of a user who cannot refresh it any more.
TokenExpires(u) ==
  /\ u \in tokens \ account
  /\ tokens' = tokens \ {u}
  /\ UNCHANGED <<account, erasing, tableVars, requestVars>>

-----------------------------------------------------------------------------
RequestNext(r) ==
  \/ \E u \in Users, a \in Users \cup {NoUser} : Create(r, u, a)
  \/ \E u \in Users, t \in Tasks, s \in Status :
       \/ UpdateStatus(r, u, t, s)
       \/ \E a \in Users \cup {NoUser} : Reassign(r, u, t, s, a)
  \/ \E u \in Users, t \in Tasks : ReadForRemove(r, u, t)
  \/ ResolveAssignee(r)
  \/ \E t \in Tasks : SaveNew(r, t)
  \/ Save(r)
  \/ SoftRemove(r)
  \/ Abandon(r)

UserNext(u) ==
  \/ DeleteAccount(u)
  \/ EraseProfile(u) \/ DetachErased(u) \/ DeleteErased(u) \/ EraseFails(u)
  \/ TokenExpires(u)

BoardNext == (\E r \in Requests : RequestNext(r)) \/ (\E u \in Users : UserNext(u))

BoardSpec == BoardInit /\ [][BoardNext]_vars

-----------------------------------------------------------------------------
(* Properties *)

\* A task is only ever in the hands of someone its owner asked to assign: no stale
\* save and no erasure gives it to anyone else (tasks.service.ts:82-88).
AssignedByOwner == \A t \in Tasks : rows[t].assignee \in named[t] \cup {NoUser}

\* A deleted or erased task comes back only through a request that had read it
\* before, and none reads it any more (tasks.service.ts:71-78, 100).
Gone(t)    == t \in used /\ (~ Present(t) \/ rows[t].deleted)
Holders(t) == {r \in Requests : pc[r] \in {"resolve", "save"} /\ task[r] = t}
RemovedRunsDry ==
  [][\A t \in Tasks : Gone(t) =>
       /\ Holders(t)' \subseteq Holders(t)
       /\ Holders(t) = {} => Gone(t)']_vars

\* A user who is gone and whose access token has expired gains tasks only from
\* requests that already carry the user, and once there is neither a task nor such
\* a request there never is again (compliance-wiring.service.ts:101-113).
TasksOf(u) == {t \in Tasks : u \in {rows[t].owner, rows[t].assignee}}
Carriers(u) ==
  {r \in Requests : \/ pc[r] = "save" /\ u \in {draft[r].owner, draft[r].assignee}
                    \/ pc[r] = "resolve" /\ u = draft[r].owner}
ErasedRunsDry ==
  [][\A u \in Users \ (account \cup tokens) :
       /\ Carriers(u) = {} => TasksOf(u)' \subseteq TasksOf(u)
       /\ TasksOf(u) = {} => Carriers(u)' \subseteq Carriers(u)]_vars

\* "Assignees may update status only; everything else is owner-only."
\* (tasks.service.ts:83): what a request of someone else than the owner saves
\* differs from the row in nothing but the status.  Not so when the owner has changed
\* the row since it was read.  No run checks it.
AssigneeChangesStatusOnly ==
  [][\A r \in Requests :
       Save(r) /\ by[r] # draft[r].owner =>
         [rows'[task[r]] EXCEPT !.status = rows[task[r]].status] = rows[task[r]]]_vars
=============================================================================
