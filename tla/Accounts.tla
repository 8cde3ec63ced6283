------------------------------- MODULE Accounts -------------------------------
(***************************************************************************)
(* One account: UsersService of apps/api and AuthService.login.  A failed  *)
(* login saves, after bcrypt, the row it read before; a profile update     *)
(* does the same; a successful login, deletion and erasure are statements  *)
(* by id.  No statement touches two accounts, so one is enough.            *)
(*                                                                         *)
(* TypeORM's save writes every loaded column that differs from the row, so *)
(* the row ends up as the copy, deleted_at included; the password hash is  *)
(* loaded by the login only.                                               *)
(***************************************************************************)
EXTENDS Naturals, FiniteSets

CONSTANTS
  Requests,      \* requests about the account that can be in flight at once
  MaxAttempts,   \* failed logins before the lock
  MaxLock,       \* the longest lock, in minutes
  MaxFailures,   \* bound on the wrong passwords ever tried
  MaxClock       \* bound on the clock, in minutes

ASSUME AccountAssumption ==
  /\ MaxAttempts \in Nat \ {0}
  /\ MaxLock \in Nat \ {0}
  /\ MaxFailures \in Nat
  /\ MaxClock \in Nat

VARIABLES
  row,        \* the row of the account
  pc,         \* progress of each request
  copy,       \* the row as each request has read it
  token,      \* an access token of the account is still valid
  erasing,    \* the profile contributor has anonymised and not yet deleted
  failures,   \* wrong passwords whose attempt was recorded
  clock

vars == <<row, pc, copy, token, erasing, failures, clock>>

\* email and hash: still the user's own; lockedUntil 0: null.
Row == [email : BOOLEAN, hash : BOOLEAN, attempts : Nat, lockedUntil : Nat, deleted : BOOLEAN]
NewRow == [email |-> TRUE, hash |-> TRUE, attempts |-> 0, lockedUntil |-> 0, deleted |-> FALSE]

AccountTypeOK ==
  /\ row \in Row
  /\ pc \in [Requests -> {"idle", "comparing", "profile"}]
  /\ copy \in [Requests -> Row]
  /\ token \in BOOLEAN
  /\ erasing \in BOOLEAN
  /\ failures \in Nat
  /\ clock \in Nat

\* register(): the first session comes with the account.
AccountInit ==
  /\ row = NewRow
  /\ pc = [r \in Requests |-> "idle"]
  /\ copy = [r \in Requests |-> NewRow]
  /\ token = TRUE
  /\ erasing = FALSE
  /\ failures = 0
  /\ clock = 1

-----------------------------------------------------------------------------
IsLocked(user) == user.lockedUntil > clock

Load(r, step) ==
  /\ pc[r] = "idle"
  /\ ~ row.deleted
  /\ pc' = [pc EXCEPT ![r] = step]
  /\ copy' = [copy EXCEPT ![r] = row]
  /\ UNCHANGED <<row, token, erasing, failures, clock>>

\* The answer or an error: the copy is gone.
Finish(r) ==
  /\ pc' = [pc EXCEPT ![r] = "idle"]
  /\ copy' = [copy EXCEPT ![r] = NewRow]

\* login: findByEmail with the hash, and what is refused before bcrypt.
\* Mutation: the lock is not looked at.
LoadIgnoringLock(r) ==
  /\ row.email /\ row.hash
  /\ Load(r, "comparing")
\* Mutation: soft-deleted accounts are found as well.
LoadWithDeleted(r) ==
  /\ pc[r] = "idle"
  /\ row.email /\ row.hash
  /\ ~ IsLocked(row)
  /\ pc' = [pc EXCEPT ![r] = "comparing"]
  /\ copy' = [copy EXCEPT ![r] = row]
  /\ UNCHANGED <<row, token, erasing, failures, clock>>
LoadForLogin(r) ==
  /\ row.email /\ row.hash
  /\ ~ IsLocked(row)
  /\ Load(r, "comparing")

Capped(n) == IF n > MaxLock THEN MaxLock ELSE n

\* Mutation: the attempt is counted again when it is compared with the limit.
LockEarly(user) ==
  LET attempts == user.attempts + 1 IN
  [user EXCEPT !.attempts = attempts,
               !.lockedUntil = IF attempts + 1 >= MaxAttempts
                               THEN clock + Capped(attempts + 1 - MaxAttempts + 1) ELSE @]
Failed(user) ==
  LET attempts == user.attempts + 1 IN
  [user EXCEPT !.attempts = attempts,
               !.lockedUntil = IF attempts >= MaxAttempts
                               THEN clock + Capped(attempts - MaxAttempts + 1) ELSE @]

\* recordFailedLogin: bcrypt said no, and the copy is saved.
RecordFailedLogin(r) ==
  /\ pc[r] = "comparing"
  /\ failures < MaxFailures
  /\ failures' = failures + 1
  /\ row' = Failed(copy[r])
  /\ Finish(r)
  /\ UNCHANGED <<token, erasing, clock>>

\* recordSuccessfulLogin: UPDATE by id, and a session whatever became of the row.
RecordSuccessfulLogin(r) ==
  /\ pc[r] = "comparing"
  /\ row' = [row EXCEPT !.attempts = 0, !.lockedUntil = 0]
  /\ token' = TRUE
  /\ Finish(r)
  /\ UNCHANGED <<erasing, failures, clock>>

\* updateProfile
LoadProfile(r) ==
  /\ token
  /\ Load(r, "profile")

SaveProfile(r) ==
  /\ pc[r] = "profile"
  /\ row' = [copy[r] EXCEPT !.hash = row.hash]
  /\ Finish(r)
  /\ UNCHANGED <<token, erasing, failures, clock>>

\* A statement fails, or the instance dies.
Abandon(r) ==
  /\ pc[r] # "idle"
  /\ Finish(r)
  /\ UNCHANGED <<row, token, erasing, failures, clock>>

-----------------------------------------------------------------------------
\* DELETE /users/me: found, then soft-removed.
SoftDeleteAccount ==
  /\ token
  /\ ~ row.deleted
  /\ row' = [row EXCEPT !.deleted = TRUE]
  /\ UNCHANGED <<pc, copy, token, erasing, failures, clock>>

\* POST /privacy/erase: the profile contributor, deleted or not.
AnonymiseUser ==
  /\ token
  /\ ~ erasing
  /\ row' = [row EXCEPT !.email = FALSE, !.hash = FALSE]
  /\ erasing' = TRUE
  /\ UNCHANGED <<pc, copy, token, failures, clock>>

SoftDeleteErased ==
  /\ erasing
  /\ row' = [row EXCEPT !.deleted = TRUE]
  /\ erasing' = FALSE
  /\ UNCHANGED <<pc, copy, token, failures, clock>>

EraseFails ==
  /\ erasing
  /\ erasing' = FALSE
  /\ UNCHANGED <<row, pc, copy, token, failures, clock>>

TokenExpires ==
  /\ token
  /\ token' = FALSE
  /\ UNCHANGED <<row, pc, copy, erasing, failures, clock>>

\* POST /auth/refresh finds users that are not deleted.
RefreshToken ==
  /\ ~ token
  /\ ~ row.deleted
  /\ token' = TRUE
  /\ UNCHANGED <<row, pc, copy, erasing, failures, clock>>

Tick ==
  /\ clock < MaxClock
  /\ clock' = clock + 1
  /\ UNCHANGED <<row, pc, copy, token, erasing, failures>>

-----------------------------------------------------------------------------
AccountNext ==
  \/ \E r \in Requests :
       \/ LoadForLogin(r) \/ RecordFailedLogin(r) \/ RecordSuccessfulLogin(r)
       \/ LoadProfile(r) \/ SaveProfile(r)
       \/ Abandon(r)
  \/ SoftDeleteAccount
  \/ AnonymiseUser \/ SoftDeleteErased \/ EraseFails
  \/ TokenExpires \/ RefreshToken
  \/ Tick

AccountSpec == AccountInit /\ [][AccountNext]_vars

-----------------------------------------------------------------------------
(* Properties *)

\* A lock holds to its end once the requests that read the account before it are
\* done: until then a stale save may undo it, and from then on no password is
\* compared and no copy that would undo it is held (users.service.ts:111-124).
Openers ==
  {r \in Requests : \/ pc[r] = "comparing"
                    \/ pc[r] = "profile" /\ copy[r].lockedUntil # row.lockedUntil}
LockHoldsToItsEnd ==
  [][IsLocked(row) /\ Openers = {} =>
       Openers' = {} /\ row'.lockedUntil = row.lockedUntil]_vars

\* Nobody is locked out by fewer wrong passwords than the limit, or for longer
\* than they deserve: races lose attempts and never invent one (users.service.ts:112-118).
Earned(user) ==
  /\ user.attempts <= failures
  /\ user.lockedUntil > 0 => failures >= MaxAttempts
  /\ IsLocked(user) => user.lockedUntil - clock <= Capped(failures - MaxAttempts + 1)
LocksAreEarned == Earned(row) /\ \A r \in Requests : Earned(copy[r])

\* A deleted account comes back, and an erased one gets its address or its hash
\* back, only by a request that had read it before: none reads it any more
\* (users.service.ts:66-70, 98-120; compliance-wiring.service.ts:54-77).
Holders == {r \in Requests : pc[r] # "idle"}
GoneStaysGone ==
  [][row.deleted =>
       /\ Holders' \subseteq Holders
       /\ Holders = {} => /\ row'.deleted
                          /\ row'.email => row.email
                          /\ row'.hash => row.hash]_vars
=============================================================================
