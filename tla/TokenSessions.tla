---------------------------- MODULE TokenSessions ----------------------------
(***************************************************************************)
(* Refresh-token sessions of libs/auth: TokenService and the session half  *)
(* of AuthService.  Each await of a request is a point where requests of   *)
(* any instance interleave; logout, logout-all, account deletion and the   *)
(* purge cron are single statements.                                       *)
(*                                                                         *)
(* A refresh token, its SHA-256 and its user_sessions row are one: a       *)
(* number, handed out in the order of the inserts.                         *)
(***************************************************************************)
EXTENDS Integers, FiniteSets

CONSTANTS
  Users,
  Requests,     \* login and refresh requests that can be in flight at once
  NoUser,       \* the default of unused fields
  RefreshTtl,   \* lifetime of a session row, in clock ticks
  MaxTokens,    \* bound on the sessions ever created
  MaxClock      \* bound on the clock

ASSUME SessionAssumption ==
  /\ NoUser \notin Users
  /\ RefreshTtl \in Nat
  /\ MaxTokens \in Nat
  /\ MaxClock \in Nat

Tokens  == 1..MaxTokens
NoToken == 0

VARIABLES
  table,       \* tokens whose row is in user_sessions
  revoked,     \* tokens whose revoked_at was set
  info,        \* what a row says, plus its lineage: login token and parent
  nextToken,   \* the next token to be issued
  account,     \* users visible to findById / findByEmail (not soft-deleted)
  pc,          \* progress of each request
  presented,   \* the token a refresh request presented
  subject,     \* the user a request is about
  exposed,     \* every token its user had when a reuse was detected
  clock

requestVars == <<pc, presented, subject>>
storeVars   == <<table, revoked, info, nextToken>>
vars == <<storeVars, account, requestVars, exposed, clock>>

Info   == [user : Users \cup {NoUser}, family : Nat, parent : Nat, expiresAt : Nat]
NoInfo == [user |-> NoUser, family |-> NoToken, parent |-> NoToken, expiresAt |-> 0]

Issued     == {t \in Tokens : t < nextToken}
Live       == table \ revoked
OwnedBy(u) == {t \in table : info[t].user = u}

SessionTypeOK ==
  /\ table \subseteq Issued
  /\ revoked \subseteq Issued
  /\ info \in [Tokens -> Info]
  /\ nextToken \in Nat \ {0}
  /\ account \subseteq Users
  /\ pc \in [Requests -> {"idle", "authenticated", "live", "resolved", "rotating",
                          "reuse", "expired", "orphan"}]
  /\ presented \in [Requests -> Issued \cup {NoToken}]
  /\ subject \in [Requests -> Users \cup {NoUser}]
  /\ exposed \subseteq Issued
  /\ clock \in Nat

SessionInit ==
  /\ table = {}
  /\ revoked = {}
  /\ info = [t \in Tokens |-> NoInfo]
  /\ nextToken = 1
  /\ account = Users
  /\ pc = [r \in Requests |-> "idle"]
  /\ presented = [r \in Requests |-> NoToken]
  /\ subject = [r \in Requests |-> NoUser]
  /\ exposed = {}
  /\ clock = 0

-----------------------------------------------------------------------------
(* Statements on user_sessions *)

InsertSession(user, family, parent) ==
  /\ nextToken \in Tokens
  /\ table' = table \cup {nextToken}
  /\ info' = [info EXCEPT ![nextToken] =
                [user |-> user, family |-> family, parent |-> parent,
                 expiresAt |-> clock + RefreshTtl]]
  /\ nextToken' = nextToken + 1
  /\ UNCHANGED revoked

\* UPDATE ... SET revoked_at: rows that are gone are not brought back.
Revoke(S) ==
  /\ revoked' = revoked \cup (S \cap table)
  /\ UNCHANGED <<table, info, nextToken>>

RevokeAllForUser(u) == Revoke({t \in OwnedBy(u) : t \notin revoked})

-----------------------------------------------------------------------------
(* Requests *)

Goto(r, step) ==
  /\ pc' = [pc EXCEPT ![r] = step]
  /\ UNCHANGED <<presented, subject>>

\* The answer, a 401 or an unexpected error: the locals are gone.
Finish(r) ==
  /\ pc' = [pc EXCEPT ![r] = "idle"]
  /\ presented' = [presented EXCEPT ![r] = NoToken]
  /\ subject' = [subject EXCEPT ![r] = NoUser]

\* login or register, up to the point where the user is known to be genuine.
Authenticate(r, u) ==
  /\ pc[r] = "idle"
  /\ u \in account
  /\ pc' = [pc EXCEPT ![r] = "authenticated"]
  /\ subject' = [subject EXCEPT ![r] = u]
  /\ UNCHANGED <<presented, storeVars, account, exposed, clock>>

IssueForNewSession(r) ==
  /\ pc[r] = "authenticated"
  /\ InsertSession(subject[r], nextToken, NoToken)
  /\ Finish(r)
  /\ UNCHANGED <<account, exposed, clock>>

\* refreshSession: the findOne by hash and the checks made on the row it read.
\* Mutation: an already revoked row is let through.
RefreshTrusting(r, t) ==
  /\ pc[r] = "idle"
  /\ t \in table
  /\ presented' = [presented EXCEPT ![r] = t]
  /\ subject' = [subject EXCEPT ![r] = info[t].user]
  /\ pc' = [pc EXCEPT ![r] = IF info[t].expiresAt < clock THEN "expired" ELSE "live"]
  /\ UNCHANGED <<storeVars, account, exposed, clock>>
Refresh(r, t) ==
  /\ pc[r] = "idle"
  /\ t \in table
  /\ presented' = [presented EXCEPT ![r] = t]
  /\ subject' = [subject EXCEPT ![r] = info[t].user]
  /\ \/ t \in revoked /\ pc' = [pc EXCEPT ![r] = "reuse"]
     \/ /\ t \notin revoked
        /\ info[t].expiresAt < clock
        /\ pc' = [pc EXCEPT ![r] = "expired"]
     \/ /\ t \notin revoked
        /\ info[t].expiresAt >= clock
        /\ pc' = [pc EXCEPT ![r] = "live"]
  /\ UNCHANGED <<storeVars, account, exposed, clock>>

\* users.findById, on its own connection.
\* Mutation: the missing user is not noticed.
ResolveAnyUser(r) ==
  /\ pc[r] = "live"
  /\ Goto(r, "resolved")
  /\ UNCHANGED <<storeVars, account, exposed, clock>>
ResolveUser(r) ==
  /\ pc[r] = "live"
  /\ Goto(r, IF subject[r] \in account THEN "resolved" ELSE "orphan")
  /\ UNCHANGED <<storeVars, account, exposed, clock>>

RejectUnusable(r) ==
  /\ pc[r] \in {"expired", "orphan"}
  /\ Revoke({presented[r]})
  /\ Finish(r)
  /\ UNCHANGED <<account, exposed, clock>>

\* Mutation: the new session is written without revoking the presented one.
SkipRevokePresented(r) ==
  /\ pc[r] = "resolved"
  /\ Goto(r, "rotating")
  /\ UNCHANGED <<storeVars, account, exposed, clock>>
RevokePresented(r) ==
  /\ pc[r] = "resolved"
  /\ Revoke({presented[r]})
  /\ Goto(r, "rotating")
  /\ UNCHANGED <<account, exposed, clock>>

SaveRotated(r) ==
  /\ pc[r] = "rotating"
  /\ InsertSession(subject[r], info[presented[r]].family, presented[r])
  /\ Finish(r)
  /\ UNCHANGED <<account, exposed, clock>>

DetectReuse(r) ==
  /\ pc[r] = "reuse"
  /\ RevokeAllForUser(subject[r])
  /\ exposed' = exposed \cup OwnedBy(subject[r])
  /\ Finish(r)
  /\ UNCHANGED <<account, clock>>

\* A statement fails, or the instance dies, between two awaits.
Abandon(r) ==
  /\ pc[r] # "idle"
  /\ Finish(r)
  /\ UNCHANGED <<storeVars, account, exposed, clock>>

-----------------------------------------------------------------------------
(* Single-statement operations *)

\* The session id comes from an access token, valid whatever became of the row.
Logout(t) ==
  /\ t \in Issued
  /\ Revoke({t})
  /\ UNCHANGED <<account, requestVars, exposed, clock>>

LogoutAll(u) ==
  /\ RevokeAllForUser(u)
  /\ UNCHANGED <<account, requestVars, exposed, clock>>

\* DELETE /users/me and erasure set users.deleted_at and leave the sessions.
DeleteAccount(u) ==
  /\ u \in account
  /\ account' = account \ {u}
  /\ UNCHANGED <<storeVars, requestVars, exposed, clock>>

\* Mutation: rows are purged by the time they have left, off by one.
PurgeEager ==
  /\ table' = {t \in table : info[t].expiresAt > clock}
  /\ UNCHANGED <<revoked, info, nextToken, account, requestVars, exposed, clock>>
PurgeExpired ==
  /\ table' = {t \in table : ~ (info[t].expiresAt < clock)}
  /\ UNCHANGED <<revoked, info, nextToken, account, requestVars, exposed, clock>>

Tick ==
  /\ clock < MaxClock
  /\ clock' = clock + 1
  /\ UNCHANGED <<storeVars, account, requestVars, exposed>>

-----------------------------------------------------------------------------
SessionNext ==
  \/ \E r \in Requests :
       \/ \E u \in Users : Authenticate(r, u)
       \/ IssueForNewSession(r)
       \/ \E t \in Tokens : Refresh(r, t)
       \/ ResolveUser(r)
       \/ RejectUnusable(r)
       \/ RevokePresented(r)
       \/ SaveRotated(r)
       \/ DetectReuse(r)
       \/ Abandon(r)
  \/ \E t \in Tokens : Logout(t)
  \/ \E u \in Users : LogoutAll(u) \/ DeleteAccount(u)
  \/ PurgeExpired
  \/ Tick

SessionSpec == SessionInit /\ [][SessionNext]_vars

-----------------------------------------------------------------------------
(* Properties *)

\* A request that has read one of the tokens of family f as live.
InFlight(f) ==
  \E r \in Requests : /\ pc[r] \in {"live", "resolved", "rotating"}
                      /\ info[presented[r]].family = f

FamilyPhase(f) ==
  IF f \notin Issued \/ info[f].family # f THEN "new"
  ELSE IF InFlight(f) \/ \E t \in Live : info[t].family = f THEN "open"
  ELSE "closed"

\* A family with no live token and no rotation under way stays dead for good,
\* whatever is presented later (token.service.ts:118-123).
Lifecycle ==
  INSTANCE SessionLifecycle
    WITH Families <- Tokens, phase <- [f \in Tokens |-> FamilyPhase(f)]
ImplementsLifecycle == Lifecycle!LifecycleSpec

\* Rotation revokes before it issues: no interleaving and no crash leaves a
\* rotated token usable next to its successor (token.service.ts:162-175).
RotatedParentRevoked ==
  \A t \in Issued :
    info[t].parent # NoToken => info[t].parent \notin Live

\* The row of every token is on record until the token expires, so a replay
\* within its lifetime is recognised (token.service.ts:118-121).
KnownUntilExpiry == \A t \in Issued : info[t].expiresAt >= clock => t \in table

\* A deleted account runs dry: no request loads it any more, and it gains a
\* session only from a request that had loaded it before the deletion
\* (token.service.ts:154-160, users.service.ts:98-101).
LoadedBy(u) ==
  {r \in Requests : pc[r] \in {"authenticated", "resolved", "rotating"} /\ subject[r] = u}
LiveOf(u) == {t \in Live : info[t].user = u}
DeletedAccountRunsDry ==
  [][\A u \in Users \ account :
       /\ LoadedBy(u)' \subseteq LoadedBy(u)
       /\ LoadedBy(u) = {} => LiveOf(u)' \subseteq LiveOf(u)]_vars

\* Every refresh invalidates the token it was given (docs/agents/security.md:35):
\* a token is exchanged for at most one successor.
SingleUse ==
  \A s, t \in Issued : info[s].parent = info[t].parent /\ info[s].parent # NoToken => s = t

\* So a login never has two usable refresh tokens at once.
OneLivePerFamily == \A s, t \in Live : info[s].family = info[t].family => s = t

\* Reuse detection revokes EVERY session (token.service.ts:121-123): nothing
\* descends, still live, from a session that existed when reuse was detected.
NothingSurvivesReuse == \A t \in Live : t \notin exposed /\ info[t].parent \notin exposed
=============================================================================
