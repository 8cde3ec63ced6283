---------------------------- MODULE AccountsProofs ----------------------------
(***************************************************************************)
(* Theorems about Accounts for any number of requests and for every limit, *)
(* lock length and bound.                                                  *)
(***************************************************************************)
EXTENDS Accounts, Integers, TLAPS

\* Assigning to fields of a row leaves a row.
LEMMA RowChanges ==
  ASSUME NEW user \in Row
  PROVE  /\ \A b \in BOOLEAN : [user EXCEPT !.hash = b] \in Row
         /\ \A b \in BOOLEAN : [user EXCEPT !.deleted = b] \in Row
         /\ [user EXCEPT !.email = FALSE, !.hash = FALSE] \in Row
         /\ \A n, l \in Nat : [user EXCEPT !.attempts = n, !.lockedUntil = l] \in Row
  BY Zenon DEF Row

LEMMA NewRowType == NewRow \in Row
  BY DEF NewRow, Row

\* What becomes of a request that starts to hold the row, or ends.
LEMMA LoadEffect ==
  ASSUME AccountTypeOK, NEW r \in Requests, NEW step, Load(r, step)
  PROVE  /\ pc[r] = "idle" /\ pc'[r] = step /\ copy'[r] = row /\ ~ row.deleted
         /\ \A q \in Requests \ {r} : pc'[q] = pc[q] /\ copy'[q] = copy[q]
         /\ copy' \in [Requests -> Row]
         /\ UNCHANGED <<row, token, erasing, failures, clock>>
  BY DEF Load, AccountTypeOK

LEMMA FinishEffect ==
  ASSUME AccountTypeOK, NEW r \in Requests, Finish(r)
  PROVE  /\ pc'[r] = "idle" /\ copy'[r] = NewRow
         /\ \A q \in Requests \ {r} : pc'[q] = pc[q] /\ copy'[q] = copy[q]
         /\ pc' \in [Requests -> {"idle", "comparing", "profile"}]
         /\ copy' \in [Requests -> Row]
  BY DEF Finish, AccountTypeOK, NewRow, Row

LEMMA CappedType ==
  ASSUME NEW n \in Int
  PROVE  /\ Capped(n) \in Int
         /\ n >= 0 => Capped(n) \in Nat
         /\ \A m \in Int : m <= n => Capped(m) <= Capped(n)
  BY AccountAssumption DEF Capped

\* The row a wrong password saves, field by field.
LEMMA FailedEffect ==
  ASSUME NEW user \in Row, clock \in Nat
  PROVE  /\ Failed(user) \in Row
         /\ Failed(user).attempts = user.attempts + 1
         /\ user.attempts + 1 < MaxAttempts => Failed(user).lockedUntil = user.lockedUntil
         /\ user.attempts + 1 >= MaxAttempts =>
              Failed(user).lockedUntil = clock + Capped(user.attempts + 1 - MaxAttempts + 1)
<1> DEFINE now   == user.attempts + 1
           until == IF now >= MaxAttempts THEN clock + Capped(now - MaxAttempts + 1)
                    ELSE user.lockedUntil
<1>1. MaxAttempts \in Nat \ {0}
  BY AccountAssumption
<1>2. user.attempts \in Nat /\ user.lockedUntil \in Nat
  BY DEF Row
<1>3. now \in Nat /\ until \in Nat
  BY <1>1, <1>2, CappedType
<1>4. Failed(user) = [user EXCEPT !.attempts = now, !.lockedUntil = until]
  BY DEF Failed
<1>5. Failed(user).attempts = now /\ Failed(user).lockedUntil = until
  BY <1>4 DEF Row
<1> HIDE DEF now, until
<1>6. Failed(user) \in Row
  <2>1. [user EXCEPT !.attempts = now, !.lockedUntil = until] \in Row
    BY <1>3, Zenon DEF Row
  <2>2. QED
    BY <1>4, <2>1, Zenon
<1>7. QED
  BY <1>1, <1>2, <1>5, <1>6 DEF now, until

-----------------------------------------------------------------------------
(* Type correctness *)

LEMMA AccountTypeInductive ==
  ASSUME AccountTypeOK, [AccountNext]_vars
  PROVE  AccountTypeOK'
<1>1. ASSUME NEW r \in Requests, LoadForLogin(r) \/ LoadProfile(r)
      PROVE  AccountTypeOK'
  <2>1. \E step \in {"comparing", "profile"} : Load(r, step)
    BY <1>1 DEF LoadForLogin, LoadProfile
  <2>2. QED
    BY <2>1 DEF Load, AccountTypeOK
<1>2. ASSUME NEW r \in Requests, RecordFailedLogin(r)
      PROVE  AccountTypeOK'
  <2>1. Failed(copy[r]) \in Row
    BY FailedEffect DEF AccountTypeOK
  <2>2. QED
    BY <1>2, <2>1, FinishEffect DEF RecordFailedLogin, AccountTypeOK
<1>3. ASSUME NEW r \in Requests, RecordSuccessfulLogin(r)
      PROVE  AccountTypeOK'
  BY <1>3, FinishEffect DEF RecordSuccessfulLogin, AccountTypeOK, Row
<1>4. ASSUME NEW r \in Requests, SaveProfile(r)
      PROVE  AccountTypeOK'
  <2>1. [copy[r] EXCEPT !.hash = row.hash] \in Row
    BY DEF AccountTypeOK, Row
  <2>2. QED
    BY <1>4, <2>1, FinishEffect DEF SaveProfile, AccountTypeOK
<1>5. ASSUME NEW r \in Requests, Abandon(r)
      PROVE  AccountTypeOK'
  BY <1>5, FinishEffect DEF Abandon, AccountTypeOK
<1>6. CASE \/ SoftDeleteAccount \/ AnonymiseUser \/ SoftDeleteErased \/ EraseFails
           \/ TokenExpires \/ RefreshToken \/ Tick
  <2>1. row' \in Row
    <3>1. \/ row' = row
          \/ row' = [row EXCEPT !.deleted = TRUE]
          \/ row' = [row EXCEPT !.email = FALSE, !.hash = FALSE]
      BY <1>6, Zenon DEF SoftDeleteAccount, AnonymiseUser, SoftDeleteErased, EraseFails,
                         TokenExpires, RefreshToken, Tick
    <3>2. QED
      BY <3>1, RowChanges, Zenon DEF AccountTypeOK
  <2>2. UNCHANGED <<pc, copy>>
    BY <1>6, Zenon DEF SoftDeleteAccount, AnonymiseUser, SoftDeleteErased, EraseFails,
                       TokenExpires, RefreshToken, Tick
  <2>3. token' \in BOOLEAN /\ erasing' \in BOOLEAN
    BY <1>6, Zenon DEF SoftDeleteAccount, AnonymiseUser, SoftDeleteErased, EraseFails,
                       TokenExpires, RefreshToken, Tick, AccountTypeOK
  <2>4. failures' \in Nat /\ clock' \in Nat
    BY <1>6 DEF SoftDeleteAccount, AnonymiseUser, SoftDeleteErased, EraseFails,
                TokenExpires, RefreshToken, Tick, AccountTypeOK
  <2>5. QED
    BY <2>1, <2>2, <2>3, <2>4 DEF AccountTypeOK
<1>7. CASE UNCHANGED vars
  BY <1>7 DEF vars, AccountTypeOK
<1>8. QED
  BY <1>1, <1>2, <1>3, <1>4, <1>5, <1>6, <1>7 DEF AccountNext

\* Every variable of the account keeps its type (users.service.ts:98-124).
THEOREM AccountTypeCorrect == AccountSpec => []AccountTypeOK
<1>1. AccountInit => AccountTypeOK
  <2> SUFFICES ASSUME AccountInit
               PROVE  AccountTypeOK
    OBVIOUS
  <2>1. row \in Row
    BY NewRowType, Zenon DEF AccountInit
  <2>2. copy \in [Requests -> Row]
    BY NewRowType DEF AccountInit
  <2>3. QED
    BY <2>1, <2>2 DEF AccountInit, AccountTypeOK
<1>2. AccountTypeOK /\ [AccountNext]_vars => AccountTypeOK'
  BY AccountTypeInductive
<1>3. QED
  BY <1>1, <1>2, PTL DEF AccountSpec

-----------------------------------------------------------------------------
(* Locks *)

\* Earned, for a given number of wrong passwords and a given moment.
EarnedBy(user, wrong, now) ==
  /\ user.attempts <= wrong
  /\ user.lockedUntil > 0 => wrong >= MaxAttempts
  /\ user.lockedUntil > now => user.lockedUntil - now <= Capped(wrong - MaxAttempts + 1)

\* What was earned stays earned while passwords fail and time passes.
LEMMA EarnedPersists ==
  ASSUME NEW user \in Row, NEW wrong \in Nat, NEW more \in Nat, NEW now \in Nat, NEW later \in Nat,
         wrong <= more, now <= later, EarnedBy(user, wrong, now)
  PROVE  EarnedBy(user, more, later)
<1>1. MaxAttempts \in Nat \ {0} /\ user.attempts \in Nat /\ user.lockedUntil \in Nat
  BY AccountAssumption DEF Row
<1>2. /\ wrong - MaxAttempts + 1 \in Int /\ more - MaxAttempts + 1 \in Int
      /\ wrong - MaxAttempts + 1 <= more - MaxAttempts + 1
  BY <1>1
<1>3. /\ Capped(wrong - MaxAttempts + 1) <= Capped(more - MaxAttempts + 1)
      /\ Capped(wrong - MaxAttempts + 1) \in Int /\ Capped(more - MaxAttempts + 1) \in Int
  BY <1>2, CappedType
<1>4. QED
  BY <1>1, <1>3 DEF EarnedBy

\* A wrong password more earns what Failed makes of the copy.
LEMMA FailedIsEarned ==
  ASSUME NEW user \in Row, clock \in Nat, NEW wrong \in Nat, EarnedBy(user, wrong, clock)
  PROVE  EarnedBy(Failed(user), wrong + 1, clock)
<1> DEFINE now == user.attempts + 1
<1>1. /\ MaxAttempts \in Nat \ {0} /\ user.attempts \in Nat /\ user.lockedUntil \in Nat
      /\ now <= wrong + 1
  BY AccountAssumption DEF Row, EarnedBy
<1>2. /\ Failed(user).attempts = user.attempts + 1
      /\ user.attempts + 1 < MaxAttempts => Failed(user).lockedUntil = user.lockedUntil
      /\ user.attempts + 1 >= MaxAttempts =>
           Failed(user).lockedUntil = clock + Capped(user.attempts + 1 - MaxAttempts + 1)
  BY FailedEffect, Zenon
<1>3. CASE now < MaxAttempts
  <2>1. EarnedBy(user, wrong + 1, clock)
    BY <1>1, EarnedPersists
  <2>2. QED
    BY <1>1, <1>2, <1>3, <2>1 DEF EarnedBy
<1>4. CASE now >= MaxAttempts
  <2>1. /\ now - MaxAttempts + 1 \in Int /\ wrong + 1 - MaxAttempts + 1 \in Int
        /\ now - MaxAttempts + 1 <= wrong + 1 - MaxAttempts + 1
    BY <1>1
  <2>2. /\ Capped(now - MaxAttempts + 1) \in Int
        /\ Capped(wrong + 1 - MaxAttempts + 1) \in Int
        /\ Capped(now - MaxAttempts + 1) <= Capped(wrong + 1 - MaxAttempts + 1)
    BY <2>1, CappedType
  <2>3. QED
    BY <1>1, <1>2, <1>4, <2>2 DEF EarnedBy
<1>5. QED
  BY <1>1, <1>3, <1>4

LEMMA EarnedInductive ==
  ASSUME AccountTypeOK, LocksAreEarned, [AccountNext]_vars
  PROVE  LocksAreEarned'
<1> DEFINE Before(user) == EarnedBy(user, failures, clock)
           After(user)  == EarnedBy(user, failures', clock')
<1>1. AccountTypeOK'
  BY AccountTypeInductive
<1>2. failures \in Nat /\ failures' \in Nat /\ clock \in Nat /\ clock' \in Nat
      /\ failures <= failures' /\ clock <= clock'
  BY <1>1 DEF AccountTypeOK, AccountNext, LoadForLogin, LoadProfile, Load, RecordFailedLogin,
              RecordSuccessfulLogin, SaveProfile, Abandon, SoftDeleteAccount, AnonymiseUser,
              SoftDeleteErased, EraseFails, TokenExpires, RefreshToken, Tick, vars
<1>3. \A user \in Row : Before(user) => After(user)
  BY <1>2, EarnedPersists
<1>4. After(NewRow)
  BY <1>2, AccountAssumption DEF EarnedBy, NewRow
<1>5. /\ Before(row) /\ row \in Row
      /\ \A q \in Requests : Before(copy[q]) /\ copy[q] \in Row
  BY DEF LocksAreEarned, Earned, IsLocked, EarnedBy, AccountTypeOK
<1>6. SUFFICES After(row') /\ \A q \in Requests : After(copy'[q])
  BY DEF LocksAreEarned, Earned, IsLocked, EarnedBy, Capped
<1> HIDE DEF Before, After
<1>7. ASSUME NEW r \in Requests, LoadForLogin(r) \/ LoadProfile(r)
      PROVE  After(row') /\ \A q \in Requests : After(copy'[q])
  <2>1. \E step \in {"comparing", "profile"} : Load(r, step)
    BY <1>7 DEF LoadForLogin, LoadProfile
  <2>2. row' = row /\ \A q \in Requests : copy'[q] = row \/ copy'[q] = copy[q]
    BY <2>1, LoadEffect
  <2>3. QED
    BY <1>3, <1>5, <2>2
<1>8. ASSUME NEW r \in Requests, Finish(r)
      PROVE  \A q \in Requests : After(copy'[q])
  <2>1. \A q \in Requests : copy'[q] = NewRow \/ copy'[q] = copy[q]
    BY <1>8, FinishEffect
  <2>2. QED
    BY <1>3, <1>4, <1>5, <2>1
<1>9. ASSUME NEW r \in Requests, RecordFailedLogin(r)
      PROVE  After(row') /\ \A q \in Requests : After(copy'[q])
  <2>1. EarnedBy(Failed(copy[r]), failures + 1, clock)
    BY <1>2, <1>5, FailedIsEarned DEF Before
  <2>2. row' = Failed(copy[r]) /\ failures' = failures + 1 /\ clock' = clock /\ Finish(r)
    BY <1>9 DEF RecordFailedLogin
  <2>3. After(row')
    BY <2>1, <2>2 DEF After
  <2>4. QED
    BY <1>8, <2>2, <2>3
<1>10. ASSUME NEW r \in Requests, RecordSuccessfulLogin(r)
       PROVE  After(row') /\ \A q \in Requests : After(copy'[q])
  <2>1. row'.attempts = 0 /\ row'.lockedUntil = 0 /\ Finish(r)
    BY <1>5, <1>10 DEF RecordSuccessfulLogin, Row
  <2>2. After(row')
    BY <1>2, <2>1 DEF After, EarnedBy
  <2>3. QED
    BY <1>8, <2>1, <2>2
<1>11. ASSUME NEW r \in Requests, SaveProfile(r)
       PROVE  After(row') /\ \A q \in Requests : After(copy'[q])
  <2>1. /\ row'.attempts = copy[r].attempts /\ row'.lockedUntil = copy[r].lockedUntil
        /\ Finish(r)
    BY <1>5, <1>11 DEF SaveProfile, Row
  <2>2. After(copy[r])
    BY <1>3, <1>5
  <2>3. After(row')
    BY <2>1, <2>2 DEF After, EarnedBy
  <2>4. QED
    BY <1>8, <2>1, <2>3
<1>12. ASSUME NEW r \in Requests, Abandon(r)
       PROVE  After(row') /\ \A q \in Requests : After(copy'[q])
  BY <1>3, <1>5, <1>8, <1>12 DEF Abandon
<1>13. CASE \/ SoftDeleteAccount \/ AnonymiseUser \/ SoftDeleteErased \/ EraseFails
            \/ TokenExpires \/ RefreshToken \/ Tick \/ UNCHANGED vars
  <2>1. /\ row'.attempts = row.attempts /\ row'.lockedUntil = row.lockedUntil
        /\ copy' = copy
    BY <1>5, <1>13 DEF SoftDeleteAccount, AnonymiseUser, SoftDeleteErased, EraseFails,
                       TokenExpires, RefreshToken, Tick, vars, Row
  <2>2. After(row)
    BY <1>3, <1>5
  <2>3. After(row')
    BY <2>1, <2>2 DEF After, EarnedBy
  <2>4. QED
    BY <1>3, <1>5, <2>1, <2>3
<1>14. QED
  BY <1>7, <1>9, <1>10, <1>11, <1>12, <1>13 DEF AccountNext

\* However logins race and save over each other, nobody is locked out by fewer
\* wrong passwords than the limit, nor for longer than they deserve
\* (users.service.ts:112-118).
THEOREM AccountLocksAreEarned == AccountSpec => []LocksAreEarned
<1>1. AccountInit => LocksAreEarned
  BY AccountAssumption DEF AccountInit, LocksAreEarned, Earned, IsLocked, NewRow
<1>2. AccountTypeOK /\ LocksAreEarned /\ [AccountNext]_vars => LocksAreEarned'
  BY EarnedInductive
<1>3. QED
  BY <1>1, <1>2, AccountTypeCorrect, PTL DEF AccountSpec

\* A lock is neither shortened nor lifted before its end, once no request holds an
\* older copy (users.service.ts:111-124).
THEOREM AccountLockHolds == AccountSpec => LockHoldsToItsEnd
<1>1. ASSUME AccountTypeOK, [AccountNext]_vars, IsLocked(row), Openers = {}
      PROVE  Openers' = {} /\ row'.lockedUntil = row.lockedUntil
  <2>1. \A q \in Requests : /\ pc[q] # "comparing"
                            /\ pc[q] = "profile" => copy[q].lockedUntil = row.lockedUntil
    BY <1>1 DEF Openers
  <2>2. SUFFICES /\ row'.lockedUntil = row.lockedUntil
                 /\ \A q \in Requests :
                      /\ pc'[q] # "comparing"
                      /\ pc'[q] = "profile" => copy'[q].lockedUntil = row.lockedUntil
    BY DEF Openers
  <2>3. ASSUME NEW r \in Requests, LoadProfile(r)
        PROVE  /\ row'.lockedUntil = row.lockedUntil
               /\ \A q \in Requests :
                    /\ pc'[q] # "comparing"
                    /\ pc'[q] = "profile" => copy'[q].lockedUntil = row.lockedUntil
    BY <1>1, <2>1, <2>3, LoadEffect DEF LoadProfile
  <2>4. ASSUME NEW r \in Requests, Finish(r)
        PROVE  \A q \in Requests :
                 /\ pc'[q] # "comparing"
                 /\ pc'[q] = "profile" => copy'[q].lockedUntil = row.lockedUntil
    BY <1>1, <2>1, <2>4, FinishEffect
  <2>5. ASSUME NEW r \in Requests, SaveProfile(r)
        PROVE  row'.lockedUntil = row.lockedUntil
    BY <1>1, <2>1, <2>5 DEF SaveProfile, AccountTypeOK, Row
  <2>6. CASE \/ SoftDeleteAccount \/ AnonymiseUser \/ SoftDeleteErased \/ EraseFails
             \/ TokenExpires \/ RefreshToken \/ Tick \/ UNCHANGED vars
    <3>1. row'.lockedUntil = row.lockedUntil /\ UNCHANGED <<pc, copy>>
      BY <1>1, <2>6 DEF SoftDeleteAccount, AnonymiseUser, SoftDeleteErased, EraseFails,
                        TokenExpires, RefreshToken, Tick, vars, AccountTypeOK, Row
    <3>2. QED
      BY <2>1, <3>1
  <2>7. \A r \in Requests :
          ~ LoadForLogin(r) /\ ~ RecordFailedLogin(r) /\ ~ RecordSuccessfulLogin(r)
    BY <1>1, <2>1 DEF LoadForLogin, RecordFailedLogin, RecordSuccessfulLogin
  <2>8. \A r \in Requests : SaveProfile(r) \/ Abandon(r) => Finish(r)
    BY DEF SaveProfile, Abandon
  <2>9. \A r \in Requests : Abandon(r) => row' = row
    BY DEF Abandon
  <2>10. QED
    BY <1>1, <2>3, <2>4, <2>5, <2>6, <2>7, <2>8, <2>9 DEF AccountNext
<1>2. QED
  BY <1>1, AccountTypeCorrect, PTL DEF AccountSpec, LockHoldsToItsEnd

\* Only a request that had read the account before brings a deleted one back, or
\* returns its address or hash to an erased one (users.service.ts:66-70, 98-120;
\* compliance-wiring.service.ts:54-77).
THEOREM AccountGoneStaysGone == AccountSpec => GoneStaysGone
<1>1. ASSUME AccountTypeOK, [AccountNext]_vars, row.deleted
      PROVE  /\ Holders' \subseteq Holders
             /\ Holders = {} => /\ row'.deleted
                                /\ row'.email => row.email
                                /\ row'.hash => row.hash
  <2>1. \A r \in Requests : ~ LoadForLogin(r) /\ ~ LoadProfile(r)
    BY <1>1 DEF LoadForLogin, LoadProfile, Load
  <2>2. ASSUME NEW r \in Requests,
               RecordFailedLogin(r) \/ RecordSuccessfulLogin(r) \/ SaveProfile(r) \/ Abandon(r)
        PROVE  Holders' \subseteq Holders /\ Holders # {}
    <3>1. pc[r] # "idle" /\ Finish(r)
      BY <2>2 DEF RecordFailedLogin, RecordSuccessfulLogin, SaveProfile, Abandon
    <3>2. QED
      BY <1>1, <3>1, FinishEffect DEF Holders
  <2>3. CASE \/ SoftDeleteAccount \/ AnonymiseUser \/ SoftDeleteErased \/ EraseFails
             \/ TokenExpires \/ RefreshToken \/ Tick \/ UNCHANGED vars
    BY <1>1, <2>3 DEF SoftDeleteAccount, AnonymiseUser, SoftDeleteErased, EraseFails, TokenExpires,
                      RefreshToken, Tick, vars, AccountTypeOK, Row, Holders
  <2>4. QED
    BY <1>1, <2>1, <2>2, <2>3 DEF AccountNext
<1>2. QED
  BY <1>1, AccountTypeCorrect, PTL DEF AccountSpec, GoneStaysGone
=============================================================================
