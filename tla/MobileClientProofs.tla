-------------------------- MODULE MobileClientProofs --------------------------
(***************************************************************************)
(* Theorems about the sessions, and about the mobile app against them.     *)
(* The first part is about TokenSessions alone, for every set of users and *)
(* requests, every lifetime and every bound, and uses nothing of the app.  *)
(* The second composes it with the app, for any number of requests at the  *)
(* server, any lifetimes and any number of sessions.                       *)
(***************************************************************************)
EXTENDS MobileClient, TLAPS

-----------------------------------------------------------------------------
(* The inductive invariant *)

Holding == {"live", "resolved", "rotating", "reuse", "expired", "orphan"}

\* What a request holds belongs together.
RequestsCoherent ==
  \A r \in Requests :
    /\ pc[r] = "authenticated" => subject[r] \in Users
    /\ pc[r] \in Holding => /\ presented[r] \in Issued
                            /\ subject[r] = info[presented[r]].user

\* The lineage of a token: it has its parent's user, and its login is issued.
LineageOK ==
  \A t \in Issued :
    /\ info[t].user \in Users
    /\ info[t].family \in Issued
    /\ info[info[t].family].family = info[t].family
    /\ info[t].parent # NoToken => /\ info[t].parent \in Issued
                                   /\ info[info[t].parent].user = info[t].user

RotatingRevoked == \A r \in Requests : pc[r] = "rotating" => presented[r] \notin Live

SessionInv ==
  /\ SessionTypeOK
  /\ RequestsCoherent
  /\ LineageOK
  /\ RotatingRevoked
  /\ RotatedParentRevoked
  /\ KnownUntilExpiry

-----------------------------------------------------------------------------
(* What the statements do *)

\* An insert adds one fresh, live row and leaves the others alone.
LEMMA InsertEffect ==
  ASSUME SessionTypeOK,
         NEW u \in Users, NEW f \in Nat, NEW p \in Nat, InsertSession(u, f, p)
  PROVE  /\ nextToken \in Tokens /\ nextToken \notin Issued
         /\ nextToken' \in Nat \ {0}
         /\ Issued' = Issued \cup {nextToken}
         /\ table' = table \cup {nextToken} /\ revoked' = revoked
         /\ Live' = Live \cup {nextToken}
         /\ info' \in [Tokens -> Info]
         /\ info'[nextToken].user = u
         /\ info'[nextToken].family = f
         /\ info'[nextToken].parent = p
         /\ info'[nextToken].expiresAt = clock + RefreshTtl
         /\ \A t \in Issued : info'[t] = info[t]
<1> USE SessionAssumption
<1> DEFINE row == [user |-> u, family |-> f, parent |-> p, expiresAt |-> clock + RefreshTtl]
<1>1. row \in Info
  <2>1. clock + RefreshTtl \in Nat
    BY DEF SessionTypeOK
  <2>2. QED
    BY <2>1 DEF Info
<1>2. info' = [info EXCEPT ![nextToken] = row] /\ nextToken \in Tokens
  BY DEF InsertSession
<1>3. nextToken \notin Issued
  BY DEF Issued, SessionTypeOK
<1>4. nextToken' \in Nat \ {0} /\ Issued' = Issued \cup {nextToken}
  BY DEF InsertSession, SessionTypeOK, Issued, Tokens
<1>5. /\ table' = table \cup {nextToken} /\ revoked' = revoked
      /\ Live' = Live \cup {nextToken}
  BY <1>3 DEF InsertSession, SessionTypeOK, Live
<1>6. info' \in [Tokens -> Info] /\ info'[nextToken] = row
  BY <1>1, <1>2 DEF SessionTypeOK
<1>7. \A t \in Issued : info'[t] = info[t]
  BY <1>2, <1>3 DEF SessionTypeOK, Issued
<1>8. /\ info'[nextToken].user = u
      /\ info'[nextToken].family = f
      /\ info'[nextToken].parent = p
      /\ info'[nextToken].expiresAt = clock + RefreshTtl
  BY <1>6
<1>9. QED
  BY <1>2, <1>3, <1>4, <1>5, <1>6, <1>7, <1>8

\* An update only revokes rows that are there.
LEMMA RevokeEffect ==
  ASSUME SessionTypeOK, NEW S, Revoke(S)
  PROVE  /\ Issued' = Issued /\ info' = info /\ table' = table
         /\ nextToken' = nextToken
         /\ revoked \subseteq revoked' /\ revoked' \subseteq Issued
         /\ Live' = Live \ S
  BY DEF Revoke, Issued, Live, SessionTypeOK

\* Steps of a request touch only its own progress.
LEMMA GotoEffect ==
  ASSUME SessionTypeOK, NEW r \in Requests, NEW step, Goto(r, step)
  PROVE  /\ pc'[r] = step /\ presented' = presented /\ subject' = subject
         /\ \A q \in Requests : q # r => pc'[q] = pc[q]
  BY DEF Goto, SessionTypeOK

LEMMA FinishEffect ==
  ASSUME SessionTypeOK, NEW r \in Requests, Finish(r)
  PROVE  /\ pc'[r] = "idle"
         /\ presented' \in [Requests -> Issued \cup {NoToken}]
         /\ subject' \in [Requests -> Users \cup {NoUser}]
         /\ pc' \in [Requests -> {"idle", "authenticated", "live", "resolved", "rotating",
                          "reuse", "expired", "orphan"}]
         /\ \A q \in Requests : q # r => /\ pc'[q] = pc[q]
                                         /\ presented'[q] = presented[q]
                                         /\ subject'[q] = subject[q]
  BY DEF Finish, SessionTypeOK

-----------------------------------------------------------------------------
(* The invariant is inductive *)

\* A login, or the second half of a rotation, writes a session.
LEMMA InsertKeepsInv ==
  ASSUME SessionInv,
         NEW r \in Requests, NEW u \in Users, NEW f \in Nat, NEW p \in Nat,
         InsertSession(u, f, p), Finish(r), UNCHANGED <<account, exposed, clock>>,
         \/ f = nextToken /\ p = NoToken
         \/ p \in Issued \ Live /\ f = info[p].family /\ info[p].user = u
  PROVE  SessionInv'
<1> USE DEF SessionInv
<1> USE InsertEffect, FinishEffect
<1>1. SessionTypeOK'
  <2>1. table' \subseteq Issued' /\ revoked' \subseteq Issued'
    BY DEF SessionTypeOK
  <2>2. presented' \in [Requests -> Issued' \cup {NoToken}]
    BY DEF SessionTypeOK
  <2>3. /\ account' \subseteq Users /\ clock' \in Nat
        /\ exposed' \subseteq Issued'
    BY DEF SessionTypeOK
  <2>4. QED
    BY <2>1, <2>2, <2>3 DEF SessionTypeOK
<1>2. RequestsCoherent'
  BY DEF RequestsCoherent, Holding, SessionTypeOK
<1>3. LineageOK'
  <2>1. ASSUME NEW t \in Issued
        PROVE  /\ info'[t].user \in Users
               /\ info'[t].family \in Issued'
               /\ info'[info'[t].family].family = info'[t].family
               /\ info'[t].parent # NoToken => /\ info'[t].parent \in Issued'
                                               /\ info'[info'[t].parent].user = info'[t].user
    BY <2>1 DEF LineageOK
  <2>2. /\ info'[nextToken].user \in Users
        /\ info'[nextToken].family \in Issued'
        /\ info'[info'[nextToken].family].family = info'[nextToken].family
        /\ info'[nextToken].parent # NoToken =>
             /\ info'[nextToken].parent \in Issued'
             /\ info'[info'[nextToken].parent].user = info'[nextToken].user
    BY DEF LineageOK
  <2>3. QED
    BY <2>1, <2>2 DEF LineageOK
<1>4. RotatingRevoked'
  BY DEF RotatingRevoked, RequestsCoherent, Holding
<1>5. RotatedParentRevoked'
  <2>1. \A t \in Issued : info[t].parent # NoToken => info[t].parent \in Issued \ Live
    BY DEF RotatedParentRevoked, LineageOK
  <2>2. QED
    BY <2>1 DEF RotatedParentRevoked
<1>6. KnownUntilExpiry'
  BY DEF KnownUntilExpiry, SessionTypeOK
<1>7. QED
  BY <1>1, <1>2, <1>3, <1>4, <1>5, <1>6

\* A request that moves on without writing to the store.
LEMMA RequestStepKeepsInv ==
  ASSUME SessionInv, UNCHANGED storeVars,
         SessionTypeOK', RequestsCoherent', RotatingRevoked', clock' >= clock
  PROVE  SessionInv'
<1>1. /\ table' = table /\ revoked' = revoked /\ info' = info /\ nextToken' = nextToken
      /\ Issued' = Issued /\ Live' = Live
  BY DEF storeVars, Issued, Live
<1>2. LineageOK' /\ RotatedParentRevoked'
  BY <1>1 DEF SessionInv, LineageOK, RotatedParentRevoked
<1>3. KnownUntilExpiry'
  <2>1. \A t \in Issued : info[t].expiresAt \in Nat
    BY DEF SessionInv, SessionTypeOK, Issued, Info
  <2>2. clock \in Nat /\ clock' \in Nat
    BY DEF SessionInv, SessionTypeOK
  <2>3. QED
    BY <1>1, <2>1, <2>2 DEF SessionInv, KnownUntilExpiry
<1>4. QED
  BY <1>2, <1>3 DEF SessionInv

\* An update of revoked_at, whatever its where clause.
LEMMA RevokeKeepsInv ==
  ASSUME SessionInv, NEW S, Revoke(S), clock' = clock,
         SessionTypeOK', RequestsCoherent',
         \A r \in Requests : pc'[r] = "rotating" =>
            /\ presented'[r] = presented[r]
            /\ pc[r] = "rotating" \/ presented[r] \in S
  PROVE  SessionInv'
<1>1. /\ Issued' = Issued /\ info' = info /\ table' = table
      /\ Live' = Live \ S
  BY RevokeEffect DEF SessionInv
<1>2. LineageOK' /\ RotatedParentRevoked' /\ KnownUntilExpiry'
  BY <1>1 DEF SessionInv, LineageOK, RotatedParentRevoked, KnownUntilExpiry
<1>3. RotatingRevoked'
  BY <1>1 DEF SessionInv, RotatingRevoked
<1>4. QED
  BY <1>2, <1>3 DEF SessionInv

LEMMA SessionInvInit == SessionInit => SessionInv
<1> SUFFICES ASSUME SessionInit PROVE SessionInv
  OBVIOUS
<1> USE SessionAssumption
<1>1. Issued = {} /\ Live = {}
  BY DEF SessionInit, Issued, Live, Tokens
<1>2. NoInfo \in Info
  BY DEF NoInfo, Info, NoToken
<1>3. SessionTypeOK
  BY <1>1, <1>2 DEF SessionInit, SessionTypeOK
<1>4. QED
  BY <1>1, <1>3 DEF SessionInit, SessionInv, RequestsCoherent, LineageOK, RotatingRevoked,
     RotatedParentRevoked, KnownUntilExpiry, Holding

LEMMA SessionInvInductive == SessionInv /\ [SessionNext]_vars => SessionInv'
<1> SUFFICES ASSUME SessionInv, [SessionNext]_vars PROVE SessionInv'
  OBVIOUS
<1> USE SessionAssumption
<1>0. SessionTypeOK /\ RequestsCoherent
  BY DEF SessionInv
<1>1. ASSUME NEW r \in Requests, NEW u \in Users, Authenticate(r, u) PROVE SessionInv'
  <2>1. /\ SessionTypeOK' /\ RequestsCoherent' /\ RotatingRevoked'
        /\ clock' >= clock /\ UNCHANGED storeVars
    BY <1>1, <1>0 DEF Authenticate, SessionTypeOK, RequestsCoherent, Holding, storeVars, SessionInv, RotatingRevoked, Issued, Live
  <2>2. QED
    BY <2>1, RequestStepKeepsInv
<1>2. ASSUME NEW r \in Requests, IssueForNewSession(r) PROVE SessionInv'
  <2>1. nextToken \in Nat /\ NoToken \in Nat /\ subject[r] \in Users
    BY <1>2, <1>0 DEF SessionTypeOK, NoToken, RequestsCoherent, IssueForNewSession
  <2>2. /\ InsertSession(subject[r], nextToken, NoToken) /\ Finish(r)
        /\ UNCHANGED <<account, exposed, clock>>
    BY <1>2 DEF IssueForNewSession
  <2>3. QED
    BY <2>1, <2>2, InsertKeepsInv
<1>3. ASSUME NEW r \in Requests, NEW t \in Tokens, Refresh(r, t) PROVE SessionInv'
  <2>1. t \in Issued /\ info[t].user \in Users
    BY <1>3, <1>0 DEF SessionInv, Refresh, SessionTypeOK, LineageOK
  <2>2. /\ SessionTypeOK' /\ RequestsCoherent' /\ RotatingRevoked'
        /\ clock' >= clock /\ UNCHANGED storeVars
    BY <1>3, <2>1, <1>0 DEF Refresh, SessionTypeOK, RequestsCoherent, Holding, storeVars, SessionInv, RotatingRevoked, Issued, Live
  <2>3. QED
    BY <2>2, RequestStepKeepsInv
<1>4. ASSUME NEW r \in Requests, ResolveUser(r) PROVE SessionInv'
  <2>1. /\ SessionTypeOK' /\ RequestsCoherent' /\ RotatingRevoked'
        /\ clock' >= clock /\ UNCHANGED storeVars
    BY <1>4, <1>0 DEF ResolveUser, Goto, SessionTypeOK, RequestsCoherent, Holding, storeVars,
       SessionInv, RotatingRevoked, Issued, Live
  <2>2. QED
    BY <2>1, RequestStepKeepsInv
<1>5. ASSUME NEW r \in Requests, RejectUnusable(r) PROVE SessionInv'
  <2>1. Revoke({presented[r]}) /\ Finish(r) /\ UNCHANGED <<account, exposed, clock>>
    BY <1>5 DEF RejectUnusable
  <2>2. /\ SessionTypeOK' /\ RequestsCoherent'
        /\ \A q \in Requests : pc'[q] = "rotating" =>
              presented'[q] = presented[q] /\ pc[q] = "rotating"
    BY <2>1, <1>0, RevokeEffect, FinishEffect
       DEF SessionTypeOK, RequestsCoherent, Holding
  <2>3. QED
    BY <2>1, <2>2, RevokeKeepsInv
<1>6. ASSUME NEW r \in Requests, RevokePresented(r) PROVE SessionInv'
  <2>1. Revoke({presented[r]}) /\ Goto(r, "rotating") /\ UNCHANGED <<account, exposed, clock>>
    BY <1>6 DEF RevokePresented
  <2>2. SessionTypeOK'
    BY <2>1, <1>0, RevokeEffect DEF SessionTypeOK, Goto
  <2>3. RequestsCoherent'
    BY <1>6, <2>1, <1>0, RevokeEffect, GotoEffect
       DEF RequestsCoherent, Holding, RevokePresented
  <2>4. \A q \in Requests : pc'[q] = "rotating" =>
           /\ presented'[q] = presented[q]
           /\ pc[q] = "rotating" \/ presented[q] \in {presented[r]}
    BY <2>1, <1>0, GotoEffect
  <2>5. QED
    BY <2>1, <2>2, <2>3, <2>4, RevokeKeepsInv
<1>7. ASSUME NEW r \in Requests, SaveRotated(r) PROVE SessionInv'
  <2> DEFINE p == presented[r]
  <2>1. p \in Issued /\ p \notin Live /\ info[p].user = subject[r]
    BY <1>7 DEF SaveRotated, SessionInv, RequestsCoherent, Holding, RotatingRevoked
  <2>2. subject[r] \in Users /\ info[p].family \in Nat /\ p \in Nat
    BY <2>1 DEF SessionInv, LineageOK, Issued, Tokens
  <2>3. /\ InsertSession(subject[r], info[p].family, p) /\ Finish(r)
        /\ UNCHANGED <<account, exposed, clock>>
    BY <1>7 DEF SaveRotated
  <2>4. p \in Issued \ Live
    BY <2>1
  <2> HIDE DEF p
  <2>5. QED
    BY <2>1, <2>2, <2>3, <2>4, InsertKeepsInv
<1>8. ASSUME NEW r \in Requests, DetectReuse(r) PROVE SessionInv'
  <2>1. /\ Revoke({t \in OwnedBy(subject[r]) : t \notin revoked}) /\ Finish(r)
        /\ UNCHANGED <<account, clock>>
    BY <1>8 DEF DetectReuse, RevokeAllForUser
  <2>2. exposed' \subseteq Issued
    BY <1>8, <1>0 DEF DetectReuse, SessionTypeOK, RequestsCoherent, Holding, OwnedBy
  <2>3. /\ SessionTypeOK' /\ RequestsCoherent'
        /\ \A q \in Requests : pc'[q] = "rotating" =>
              presented'[q] = presented[q] /\ pc[q] = "rotating"
    BY <2>1, <2>2, <1>0, RevokeEffect, FinishEffect
       DEF SessionTypeOK, RequestsCoherent, Holding
  <2>4. QED
    BY <2>1, <2>3, RevokeKeepsInv
<1>9. ASSUME NEW r \in Requests, Abandon(r) PROVE SessionInv'
  <2>1. Finish(r) /\ UNCHANGED <<storeVars, account, exposed, clock>>
    BY <1>9 DEF Abandon
  <2>2. SessionTypeOK' /\ RequestsCoherent' /\ RotatingRevoked'
    BY <2>1, <1>0, FinishEffect
       DEF SessionTypeOK, RequestsCoherent, Holding, storeVars, SessionInv,
           RotatingRevoked, Issued, Live
  <2>3. clock' >= clock /\ UNCHANGED storeVars
    BY <2>1, <1>0 DEF SessionTypeOK
  <2>4. QED
    BY <2>2, <2>3, RequestStepKeepsInv
<1>10. ASSUME NEW S, Revoke(S), UNCHANGED <<account, requestVars, exposed, clock>>
       PROVE  SessionInv'
  <2>1. /\ SessionTypeOK' /\ RequestsCoherent'
        /\ \A q \in Requests : pc'[q] = "rotating" =>
              presented'[q] = presented[q] /\ pc[q] = "rotating"
    BY <1>10, <1>0, RevokeEffect
       DEF SessionTypeOK, RequestsCoherent, Holding, requestVars
  <2>2. QED
    BY <1>10, <2>1, RevokeKeepsInv
<1>11. ASSUME NEW t \in Tokens, Logout(t) PROVE SessionInv'
  BY <1>11, <1>10 DEF Logout
<1>12. ASSUME NEW u \in Users, LogoutAll(u) PROVE SessionInv'
  BY <1>12, <1>10 DEF LogoutAll, RevokeAllForUser
<1>13. ASSUME NEW u \in Users, DeleteAccount(u) PROVE SessionInv'
  <2>1. /\ SessionTypeOK' /\ RequestsCoherent' /\ RotatingRevoked'
        /\ clock' >= clock /\ UNCHANGED storeVars
    BY <1>13, <1>0 DEF DeleteAccount, SessionTypeOK, RequestsCoherent, Holding, storeVars,
       requestVars, SessionInv, RotatingRevoked, Issued, Live
  <2>2. QED
    BY <2>1, RequestStepKeepsInv
<1>14. CASE PurgeExpired
  <2>1. /\ table' = {t \in table : ~ (info[t].expiresAt < clock)}
        /\ UNCHANGED <<revoked, info, nextToken, account, pc, presented, subject,
                       exposed, clock>>
    BY <1>14 DEF PurgeExpired, requestVars
  <2>2. Issued' = Issued /\ Live' \subseteq Live
    BY <2>1 DEF Issued, Live
  <2>3. SessionTypeOK' /\ RequestsCoherent'
    BY <2>1, <2>2, <1>0 DEF SessionTypeOK, RequestsCoherent, Holding
  <2>4. LineageOK' /\ RotatingRevoked' /\ RotatedParentRevoked'
    BY <2>1, <2>2 DEF SessionInv, LineageOK, RotatingRevoked, RotatedParentRevoked
  <2>5. KnownUntilExpiry'
    <3>1. \A t \in Issued : info[t].expiresAt \in Nat
      BY <1>0 DEF SessionTypeOK, Issued, Info
    <3>2. QED
      BY <2>1, <2>2, <3>1 DEF SessionInv, SessionTypeOK, KnownUntilExpiry
  <2>6. QED
    BY <2>3, <2>4, <2>5 DEF SessionInv
<1>15. CASE Tick
  <2>1. /\ SessionTypeOK' /\ RequestsCoherent' /\ RotatingRevoked'
        /\ clock' >= clock /\ UNCHANGED storeVars
    BY <1>15, <1>0 DEF Tick, SessionTypeOK, RequestsCoherent, Holding, storeVars,
       requestVars, SessionInv, RotatingRevoked, Issued, Live
  <2>2. QED
    BY <2>1, RequestStepKeepsInv
<1>16. CASE UNCHANGED vars
  <2>1. /\ SessionTypeOK' /\ RequestsCoherent' /\ RotatingRevoked'
        /\ clock' >= clock /\ UNCHANGED storeVars
    BY <1>16, <1>0 DEF vars, SessionTypeOK, RequestsCoherent, Holding, storeVars,
       requestVars, SessionInv, RotatingRevoked, Issued, Live
  <2>2. QED
    BY <2>1, RequestStepKeepsInv
<1>17. QED
  BY <1>1, <1>2, <1>3, <1>4, <1>5, <1>6, <1>7, <1>8, <1>9, <1>11, <1>12, <1>13, <1>14,
     <1>15, <1>16 DEF SessionNext

LEMMA SessionInvariance == SessionSpec => []SessionInv
  BY SessionInvInit, SessionInvInductive, PTL DEF SessionSpec

\* The variables keep their types whatever requests, logouts and purges do.
THEOREM SessionTypeCorrect == SessionSpec => []SessionTypeOK
<1>1. SessionInv => SessionTypeOK
  BY DEF SessionInv
<1>2. QED
  BY <1>1, SessionInvariance, PTL

\* Whatever the interleaving and wherever a rotation is cut short, a rotated
\* token is not usable next to its successor (token.service.ts:162-175).
THEOREM SessionRotatedParentRevoked == SessionSpec => []RotatedParentRevoked
<1>1. SessionInv => RotatedParentRevoked
  BY DEF SessionInv
<1>2. QED
  BY <1>1, SessionInvariance, PTL

\* No token leaves the record before it expires (token.service.ts:118-121).
THEOREM SessionKnownUntilExpiry == SessionSpec => []KnownUntilExpiry
<1>1. SessionInv => KnownUntilExpiry
  BY DEF SessionInv
<1>2. QED
  BY <1>1, SessionInvariance, PTL

-----------------------------------------------------------------------------
(* A login implements SessionLifecycle *)

Open(f)   == InFlight(f) \/ \E t \in Live : info[t].family = f
IsLogin(f) == f \in Issued /\ info[f].family = f

\* A step that starts no login and brings no family back only closes families.
LEMMA ClosingStep ==
  ASSUME \A f \in Tokens : IsLogin(f)' <=> IsLogin(f),
         \A f \in Tokens : Open(f)' => Open(f)
  PROVE  [Lifecycle!LifecycleNext]_[f \in Tokens |-> FamilyPhase(f)]
<1> DEFINE ph  == [f \in Tokens |-> FamilyPhase(f)]
           new == [f \in Tokens |-> FamilyPhase(f)']
           S   == {f \in Tokens : ph[f] = "open" /\ new[f] = "closed"}
<1>1. \A f \in Tokens :
        /\ ph[f] = IF ~ IsLogin(f) THEN "new" ELSE IF Open(f) THEN "open" ELSE "closed"
        /\ new[f] = IF ~ IsLogin(f)' THEN "new" ELSE IF Open(f)' THEN "open" ELSE "closed"
  BY DEF FamilyPhase, IsLogin, Open
<1>2. \A f \in Tokens : new[f] = IF f \in S THEN "closed" ELSE ph[f]
  BY <1>1
<1>3. new = [f \in Tokens |-> IF f \in S THEN "closed" ELSE ph[f]]
  BY <1>2
<1>4. ph' = new
  OBVIOUS
<1>5. S \in SUBSET Tokens /\ \A f \in S : ph[f] = "open"
  OBVIOUS
<1>6. Lifecycle!CloseFamilies(S)
  BY <1>3, <1>4, <1>5 DEF Lifecycle!CloseFamilies
<1>7. QED
  BY <1>5, <1>6 DEF Lifecycle!LifecycleNext

LEMMA LifecycleStep ==
  SessionInv /\ [SessionNext]_vars
    => [Lifecycle!LifecycleNext]_[f \in Tokens |-> FamilyPhase(f)]
<1> SUFFICES ASSUME SessionInv, [SessionNext]_vars
             PROVE  [Lifecycle!LifecycleNext]_[f \in Tokens |-> FamilyPhase(f)]
  OBVIOUS
<1> USE SessionAssumption
<1> DEFINE Goal == [Lifecycle!LifecycleNext]_[f \in Tokens |-> FamilyPhase(f)]
<1>0. SessionTypeOK /\ RequestsCoherent /\ LineageOK
  BY DEF SessionInv
\* The store only lost live rows, and no request took up a token that was dead.
<1>1. ASSUME Issued' = Issued, info' = info, Live' \subseteq Live,
             \A r \in Requests : pc'[r] \in {"live", "resolved", "rotating"} =>
               /\ presented'[r] = presented[r] /\ pc[r] \in {"live", "resolved", "rotating"}
               \/ presented'[r] \in Live
      PROVE  Goal
  <2>1. \A f \in Tokens : IsLogin(f)' <=> IsLogin(f)
    BY <1>1 DEF IsLogin
  <2>2. \A f \in Tokens : Open(f)' => Open(f)
    BY <1>1 DEF Open, InFlight
  <2>3. QED
    BY <2>1, <2>2, ClosingStep
<1>2. ASSUME NEW r \in Requests, IssueForNewSession(r) PROVE Goal
  <2> DEFINE ph  == [f \in Tokens |-> FamilyPhase(f)]
             new == [f \in Tokens |-> FamilyPhase(f)']
  <2>1. /\ nextToken \in Nat /\ NoToken \in Nat /\ subject[r] \in Users
        /\ InsertSession(subject[r], nextToken, NoToken) /\ Finish(r)
    BY <1>2, <1>0 DEF SessionTypeOK, NoToken, RequestsCoherent, IssueForNewSession
  <2>2. /\ nextToken \in Tokens /\ nextToken \notin Issued
        /\ Issued' = Issued \cup {nextToken}
        /\ Live' = Live \cup {nextToken}
        /\ info'[nextToken].family = nextToken
        /\ \A t \in Issued : info'[t] = info[t]
    BY <2>1, <1>0, InsertEffect
  <2>3. \A q \in Requests : pc'[q] \in {"live", "resolved", "rotating"} =>
          /\ pc'[q] = pc[q] /\ presented'[q] = presented[q]
          /\ presented[q] \in Issued
    BY <2>1, <1>0, FinishEffect DEF RequestsCoherent, Holding
  <2>4. \A q \in Requests : pc[q] \in {"live", "resolved", "rotating"} =>
          /\ pc'[q] = pc[q] /\ presented'[q] = presented[q]
          /\ presented[q] \in Issued
    BY <1>2, <2>1, <1>0, FinishEffect DEF RequestsCoherent, Holding, IssueForNewSession
  <2>5. Live \subseteq Issued
    BY <1>0 DEF SessionTypeOK, Live
  <2>6. ASSUME NEW f \in Tokens, f # nextToken
        PROVE  (IsLogin(f)' <=> IsLogin(f)) /\ (Open(f)' <=> Open(f))
    <3>1. IsLogin(f)' <=> IsLogin(f)
      BY <2>2, <2>6 DEF IsLogin
    <3>2. InFlight(f)' <=> InFlight(f)
      BY <2>2, <2>3, <2>4 DEF InFlight
    <3>3. (\E t \in Live' : info'[t].family = f) <=> (\E t \in Live : info[t].family = f)
      BY <2>2, <2>5, <2>6
    <3>4. QED
      BY <3>1, <3>2, <3>3 DEF Open
  <2>7. \A f \in Tokens : f # nextToken => new[f] = ph[f]
    BY <2>6 DEF FamilyPhase, IsLogin, Open
  <2>8. ph[nextToken] = "new" /\ new[nextToken] = "open"
    BY <2>2 DEF FamilyPhase
  <2>9. new = [ph EXCEPT ![nextToken] = "open"]
    BY <2>2, <2>7, <2>8
  <2>10. ph' = new
    OBVIOUS
  <2>11. Lifecycle!OpenFamily(nextToken)
    BY <2>8, <2>9, <2>10 DEF Lifecycle!OpenFamily
  <2>12. QED
    BY <2>2, <2>11 DEF Lifecycle!LifecycleNext
<1>3. ASSUME NEW r \in Requests, SaveRotated(r) PROVE Goal
  <2> DEFINE p == presented[r]
  <2>1. pc[r] = "rotating" /\ p \in Issued /\ info[p].user = subject[r]
    BY <1>3, <1>0 DEF SaveRotated, RequestsCoherent, Holding
  <2>2. /\ subject[r] \in Users /\ info[p].family \in Nat /\ p \in Nat
        /\ info[p].family \in Issued
    BY <2>1, <1>0 DEF LineageOK, Issued, Tokens
  <2>3. InsertSession(subject[r], info[p].family, p) /\ Finish(r)
    BY <1>3 DEF SaveRotated
  <2> HIDE DEF p
  <2>4. /\ nextToken \in Tokens /\ nextToken \notin Issued
        /\ Issued' = Issued \cup {nextToken}
        /\ Live' = Live \cup {nextToken}
        /\ info'[nextToken].family = info[p].family
        /\ \A t \in Issued : info'[t] = info[t]
    BY <2>2, <2>3, <1>0, InsertEffect
  <2>5. Live \subseteq Issued
    BY <1>0 DEF SessionTypeOK, Live
  <2>6. \A f \in Tokens : IsLogin(f)' <=> IsLogin(f)
    BY <2>2, <2>4 DEF IsLogin
  <2>7. \A q \in Requests : pc'[q] \in {"live", "resolved", "rotating"} =>
          pc'[q] = pc[q] /\ presented'[q] = presented[q] /\ presented[q] \in Issued
    BY <2>3, <1>0, FinishEffect DEF RequestsCoherent, Holding
  <2>8. ASSUME NEW f \in Tokens, Open(f)' PROVE Open(f)
    <3>1. CASE f = info[p].family
      BY <3>1, <2>1 DEF Open, InFlight, p
    <3>2. CASE f # info[p].family /\ InFlight(f)'
      BY <3>2, <2>4, <2>7 DEF Open, InFlight
    <3>3. CASE f # info[p].family /\ \E t \in Live' : info'[t].family = f
      BY <3>3, <2>4, <2>5 DEF Open
    <3>4. QED
      BY <2>8, <3>1, <3>2, <3>3 DEF Open
  <2>9. QED
    BY <2>6, <2>8, ClosingStep
\* Everything else only revokes, purges or moves a request.
<1>4. ASSUME NEW r \in Requests, NEW t \in Tokens, Refresh(r, t) PROVE Goal
  <2>1. /\ Issued' = Issued /\ info' = info /\ Live' \subseteq Live
        /\ t \in Live \/ t \in revoked
    BY <1>4 DEF Refresh, storeVars, Issued, Live
  <2>2. \A q \in Requests : pc'[q] \in {"live", "resolved", "rotating"} =>
               \/ /\ presented'[q] = presented[q] /\ pc[q] \in {"live", "resolved", "rotating"}
               \/ presented'[q] \in Live
    BY <1>4, <1>0 DEF Refresh, SessionTypeOK, Live
  <2>3. QED
    BY <2>1, <2>2, <1>1
<1>5. ASSUME \/ \E r \in Requests : \/ \E u \in Users : Authenticate(r, u)
                                    \/ ResolveUser(r) \/ Abandon(r)
             \/ \E u \in Users : DeleteAccount(u)
             \/ Tick \/ UNCHANGED vars
      PROVE  Goal
  <2>1. UNCHANGED storeVars
    BY <1>5 DEF Authenticate, ResolveUser, Abandon, DeleteAccount, Tick, vars
  <2>2. Issued' = Issued /\ info' = info /\ Live' \subseteq Live
    BY <2>1 DEF storeVars, Issued, Live
  <2>3. \A q \in Requests : pc'[q] \in {"live", "resolved", "rotating"} =>
          presented'[q] = presented[q] /\ pc[q] \in {"live", "resolved", "rotating"}
    BY <1>5, <1>0 DEF Authenticate, ResolveUser, Abandon, DeleteAccount, Tick, vars, Goto, Finish,
       requestVars, SessionTypeOK
  <2>4. QED
    BY <2>2, <2>3, <1>1
<1>6. ASSUME \/ \E r \in Requests : RejectUnusable(r) \/ DetectReuse(r) \/ RevokePresented(r)
             \/ \E t \in Tokens : Logout(t)
             \/ \E u \in Users : LogoutAll(u)
      PROVE  Goal
  <2>1. \E S : Revoke(S)
    BY <1>6 DEF RejectUnusable, DetectReuse, RevokePresented, Logout, LogoutAll, RevokeAllForUser
  <2>2. Issued' = Issued /\ info' = info /\ Live' \subseteq Live
    BY <2>1, <1>0, RevokeEffect
  <2>3. \A q \in Requests : pc'[q] \in {"live", "resolved", "rotating"} =>
          presented'[q] = presented[q] /\ pc[q] \in {"live", "resolved", "rotating"}
    BY <1>6, <1>0 DEF RejectUnusable, DetectReuse, RevokePresented, Logout, LogoutAll, Goto, Finish,
       requestVars, SessionTypeOK
  <2>4. QED
    BY <2>2, <2>3, <1>1
<1>7. CASE PurgeExpired
  <2>1. Issued' = Issued /\ info' = info /\ Live' \subseteq Live
    BY <1>7 DEF PurgeExpired, Issued, Live
  <2>2. pc' = pc /\ presented' = presented
    BY <1>7 DEF PurgeExpired, requestVars
  <2>3. QED
    BY <2>1, <2>2, <1>1
<1>8. QED
  BY <1>2, <1>3, <1>4, <1>5, <1>6, <1>7 DEF SessionNext

\* A login's family of tokens, once closed, never opens again: no replay, race
\* or crash brings it back (token.service.ts:118-182).
THEOREM SessionImplementsLifecycle == SessionSpec => ImplementsLifecycle
<1>1. SessionInit => Lifecycle!LifecycleInit
  BY SessionAssumption DEF SessionInit, Lifecycle!LifecycleInit, FamilyPhase, Issued, Tokens
<1>2. QED
  BY <1>1, LifecycleStep, SessionInvariance, PTL
     DEF SessionSpec, ImplementsLifecycle, Lifecycle!LifecycleSpec

-----------------------------------------------------------------------------
(* A deleted account *)

LEMMA DeletedAccountStep ==
  SessionInv /\ [SessionNext]_vars =>
    \A u \in Users \ account :
       /\ LoadedBy(u)' \subseteq LoadedBy(u)
       /\ LoadedBy(u) = {} => LiveOf(u)' \subseteq LiveOf(u)
<1> SUFFICES ASSUME SessionInv, [SessionNext]_vars, NEW u \in Users, u \notin account
             PROVE  /\ LoadedBy(u)' \subseteq LoadedBy(u)
                    /\ LoadedBy(u) = {} => LiveOf(u)' \subseteq LiveOf(u)
  OBVIOUS
<1> USE SessionAssumption
<1> DEFINE Goal == /\ LoadedBy(u)' \subseteq LoadedBy(u)
                   /\ LoadedBy(u) = {} => LiveOf(u)' \subseteq LiveOf(u)
<1>0. SessionTypeOK /\ RequestsCoherent /\ LineageOK
  BY DEF SessionInv
<1>1. ASSUME NEW r \in Requests, IssueForNewSession(r) \/ SaveRotated(r) PROVE Goal
  <2>1. Finish(r) /\ pc[r] \in {"authenticated", "rotating"}
    BY <1>1 DEF IssueForNewSession, SaveRotated
  <2>2. LoadedBy(u)' \subseteq LoadedBy(u)
    BY <2>1, <1>0, FinishEffect DEF LoadedBy
  <2>3. PICK f \in Nat, p \in Nat : InsertSession(subject[r], f, p)
    BY <1>1, <1>0 DEF IssueForNewSession, SaveRotated, SessionTypeOK, NoToken, Issued, Tokens,
       RequestsCoherent, LineageOK, Holding
  <2>4. subject[r] \in Users
    BY <2>1, <1>0 DEF RequestsCoherent, LineageOK, Holding
  <2>5. /\ Live' = Live \cup {nextToken} /\ info'[nextToken].user = subject[r]
        /\ \A t \in Issued : info'[t] = info[t]
    BY <2>3, <2>4, <1>0, InsertEffect
  <2>6. LoadedBy(u) = {} => subject[r] # u
    BY <2>1 DEF LoadedBy
  <2>7. Live \subseteq Issued
    BY <1>0 DEF Live, SessionTypeOK
  <2>8. LoadedBy(u) = {} => LiveOf(u)' \subseteq LiveOf(u)
    BY <2>5, <2>6, <2>7 DEF LiveOf
  <2>9. QED
    BY <2>2, <2>8
<1>2. ASSUME Live' \subseteq Live, info' = info, LoadedBy(u)' \subseteq LoadedBy(u) PROVE Goal
  BY <1>2 DEF LiveOf
<1>3. ASSUME \/ \E r \in Requests : \/ \E w \in Users : Authenticate(r, w)
                                    \/ \E t \in Tokens : Refresh(r, t)
                                    \/ ResolveUser(r) \/ Abandon(r)
             \/ \E w \in Users : DeleteAccount(w)
             \/ Tick \/ UNCHANGED vars
      PROVE  Goal
  <2>1. UNCHANGED storeVars
    BY <1>3 DEF Authenticate, Refresh, ResolveUser, Abandon, DeleteAccount, Tick, vars
  <2>2. LoadedBy(u)' \subseteq LoadedBy(u)
    BY <1>3, <1>0 DEF Authenticate, Refresh, ResolveUser, Abandon, DeleteAccount, Tick, vars, Goto,
       Finish, requestVars, SessionTypeOK, LoadedBy
  <2>3. QED
    BY <2>1, <2>2, <1>2 DEF storeVars, Live
<1>4. ASSUME \/ \E r \in Requests : RejectUnusable(r) \/ DetectReuse(r) \/ RevokePresented(r)
             \/ \E t \in Tokens : Logout(t)
             \/ \E w \in Users : LogoutAll(w)
             \/ PurgeExpired
      PROVE  Goal
  <2>1. (\E S : Revoke(S)) \/ PurgeExpired
    BY <1>4 DEF RejectUnusable, DetectReuse, RevokePresented, Logout, LogoutAll, RevokeAllForUser
  <2>2. info' = info /\ Live' \subseteq Live
    BY <2>1, <1>0, RevokeEffect DEF PurgeExpired, Live
  <2>3. LoadedBy(u)' \subseteq LoadedBy(u)
    BY <1>4, <1>0 DEF RejectUnusable, DetectReuse, RevokePresented, Logout, LogoutAll, PurgeExpired,
       Goto, Finish, requestVars, SessionTypeOK, LoadedBy
  <2>4. QED
    BY <2>2, <2>3, <1>2
<1>5. QED
  BY <1>1, <1>3, <1>4 DEF SessionNext

\* After a deletion only the requests that had already loaded the user can add
\* a session, and no request joins them (token.service.ts:154-160).
THEOREM SessionDeletedAccountRunsDry == SessionSpec => DeletedAccountRunsDry
<1>1. SessionInv /\ [SessionNext]_vars =>
        [\A u \in Users \ account :
           /\ LoadedBy(u)' \subseteq LoadedBy(u)
           /\ LoadedBy(u) = {} => LiveOf(u)' \subseteq LiveOf(u)]_vars
  BY DeletedAccountStep
<1>2. QED
  BY <1>1, SessionInvariance, PTL DEF SessionSpec, DeletedAccountRunsDry

-----------------------------------------------------------------------------
(* Clients that do not present a token twice at once *)

Rotation == {"live", "resolved", "rotating"}

\* No two rotations of one token overlap, whatever else clients do.
NoneShared ==
  \A q, r \in Requests :
    pc[q] \in Rotation /\ pc[r] \in Rotation /\ presented[q] = presented[r] => q = r

\* A rotation is alone in its login: no other rotation, no other live token.
LoginsAlone ==
  /\ OneLivePerFamily
  /\ \A r \in Requests : pc[r] \in Rotation =>
       /\ \A t \in Live : info[t].family = info[presented[r]].family => t = presented[r]
       /\ \A q \in Requests :
            /\ pc[q] \in Rotation
            /\ info[presented[q]].family = info[presented[r]].family
            => q = r

\* Without an insert, fewer live tokens and no new rotation keep it.
LEMMA LoginsShrink ==
  ASSUME SessionInv, LoginsAlone, info' = info, Live' \subseteq Live,
         \A r \in Requests : pc'[r] \in Rotation =>
            pc[r] \in Rotation /\ presented'[r] = presented[r]
  PROVE  LoginsAlone'
<1>1. OneLivePerFamily'
  BY DEF LoginsAlone, OneLivePerFamily
<1>2. QED
  BY <1>1 DEF LoginsAlone

\* A new session: of a login of its own, or of one in which nothing is live or under way.
LEMMA LoginsInsert ==
  ASSUME SessionInv, LoginsAlone, NEW r \in Requests, NEW u \in Users, NEW f \in Nat, NEW p \in Nat,
         InsertSession(u, f, p), Finish(r),
         \A t \in Live : info[t].family # f,
         \A q \in Requests \ {r} : pc[q] \in Rotation => info[presented[q]].family # f
  PROVE  LoginsAlone'
<1>1. SessionTypeOK
  BY DEF SessionInv
<1>2. /\ nextToken \notin Issued /\ Live' = Live \cup {nextToken}
      /\ info'[nextToken].family = f /\ \A t \in Issued : info'[t] = info[t]
  BY <1>1, InsertEffect
<1>3. /\ pc'[r] = "idle"
      /\ \A q \in Requests \ {r} : pc'[q] = pc[q] /\ presented'[q] = presented[q]
  BY <1>1, FinishEffect
<1>4. /\ Live \subseteq Issued
      /\ \A q \in Requests : pc[q] \in Rotation => presented[q] \in Issued
  BY DEF SessionInv, SessionTypeOK, Live, RequestsCoherent, Rotation, Holding
<1>5. OneLivePerFamily'
  BY <1>2, <1>4 DEF LoginsAlone, OneLivePerFamily
<1>6. \A q \in Requests : pc'[q] \in Rotation =>
        /\ q # r /\ pc[q] \in Rotation /\ presented'[q] = presented[q]
        /\ info'[presented'[q]] = info[presented[q]]
  BY <1>2, <1>3, <1>4 DEF Rotation
<1>7. ASSUME NEW q \in Requests, pc'[q] \in Rotation
      PROVE  /\ \A t \in Live' : info'[t].family = info'[presented'[q]].family => t = presented'[q]
             /\ \A k \in Requests :
                  /\ pc'[k] \in Rotation
                  /\ info'[presented'[k]].family = info'[presented'[q]].family
                  => k = q
  BY <1>2, <1>4, <1>6, <1>7 DEF LoginsAlone
<1>8. QED
  BY <1>5, <1>7 DEF LoginsAlone

LEMMA LoginsStep ==
  ASSUME SessionInv, LoginsAlone, NoneShared', [SessionNext]_vars
  PROVE  LoginsAlone'
<1>0. /\ SessionTypeOK /\ RequestsCoherent /\ LineageOK
      /\ Live \subseteq Issued /\ Issued \subseteq Nat
  BY DEF SessionInv, SessionTypeOK, Live, Issued, Tokens
<1>1. ASSUME NEW r \in Requests, IssueForNewSession(r) PROVE LoginsAlone'
  <2>1. /\ nextToken \in Nat /\ subject[r] \in Users /\ NoToken \in Nat
        /\ InsertSession(subject[r], nextToken, NoToken) /\ Finish(r)
    BY <1>1, <1>0 DEF SessionTypeOK, RequestsCoherent, IssueForNewSession, NoToken
  <2>2. \A t \in Issued : info[t].family # nextToken
    BY <1>0 DEF LineageOK, Issued, SessionTypeOK
  <2>3. \A q \in Requests : pc[q] \in Rotation => presented[q] \in Issued
    BY <1>0 DEF RequestsCoherent, Rotation, Holding
  <2>4. QED
    BY <1>0, <2>1, <2>2, <2>3, LoginsInsert
<1>2. ASSUME NEW r \in Requests, SaveRotated(r) PROVE LoginsAlone'
  <2> DEFINE p == presented[r]
  <2>1. pc[r] = "rotating" /\ p \in Issued /\ info[p].user = subject[r] /\ p \notin Live
    BY <1>2, <1>0 DEF SaveRotated, SessionInv, RequestsCoherent, Holding, RotatingRevoked
  <2>2. /\ \A t \in Live : info[t].family # info[p].family
        /\ \A q \in Requests \ {r} : pc[q] \in Rotation => info[presented[q]].family # info[p].family
    BY <2>1 DEF LoginsAlone, Rotation
  <2>3. /\ subject[r] \in Users /\ info[p].family \in Nat /\ p \in Nat
        /\ InsertSession(subject[r], info[p].family, p) /\ Finish(r)
    BY <1>2, <2>1, <1>0 DEF LineageOK, SaveRotated
  <2> HIDE DEF p
  <2>4. QED
    BY <2>2, <2>3, LoginsInsert
<1>3. ASSUME NEW r \in Requests, NEW t \in Tokens, Refresh(r, t) PROVE LoginsAlone'
  <2>1. /\ info' = info /\ Live' = Live
        /\ pc'[r] = "live" => t \in Live
        /\ pc'[r] \in {"reuse", "expired", "live"} /\ presented'[r] = t
        /\ \A q \in Requests \ {r} : pc'[q] = pc[q] /\ presented'[q] = presented[q]
    BY <1>3, <1>0 DEF Refresh, SessionTypeOK, storeVars, Live
  <2>2. CASE pc'[r] # "live"
    <3>1. \A q \in Requests : pc'[q] \in Rotation => pc[q] \in Rotation /\ presented'[q] = presented[q]
      BY <2>1, <2>2 DEF Rotation
    <3>2. QED
      BY <2>1, <3>1, LoginsShrink
  <2>3. CASE pc'[r] = "live"
    <3>1. t \in Live
      BY <2>1, <2>3
    <3>2. \A q \in Requests \ {r} : pc[q] \in Rotation => presented[q] # t
      BY <2>1, <2>3 DEF NoneShared, Rotation
    <3>3. \A q \in Requests \ {r} : pc[q] \in Rotation => info[presented[q]].family # info[t].family
      BY <3>1, <3>2 DEF LoginsAlone
    <3>4. OneLivePerFamily'
      BY <2>1 DEF LoginsAlone, OneLivePerFamily
    <3>5. ASSUME NEW q \in Requests, pc'[q] \in Rotation
          PROVE  /\ \A s \in Live' : info'[s].family = info'[presented'[q]].family => s = presented'[q]
                 /\ \A k \in Requests :
                      /\ pc'[k] \in Rotation
                      /\ info'[presented'[k]].family = info'[presented'[q]].family
                      => k = q
      BY <2>1, <3>1, <3>3, <3>5 DEF LoginsAlone, OneLivePerFamily
    <3>6. QED
      BY <3>4, <3>5 DEF LoginsAlone
  <2>4. QED
    BY <2>2, <2>3
<1>4. ASSUME NEW r \in Requests,
             \/ \E w \in Users : Authenticate(r, w)
             \/ ResolveUser(r) \/ Abandon(r) \/ RevokePresented(r) \/ RejectUnusable(r) \/ DetectReuse(r)
      PROVE  LoginsAlone'
  <2>1. info' = info /\ Live' \subseteq Live
    BY <1>4, <1>0, RevokeEffect
       DEF Authenticate, ResolveUser, Abandon, RevokePresented, RejectUnusable, DetectReuse,
           RevokeAllForUser, storeVars, Live
  <2>2. \A q \in Requests : pc'[q] \in Rotation => pc[q] \in Rotation /\ presented'[q] = presented[q]
    BY <1>4, <1>0 DEF Authenticate, ResolveUser, Abandon, RevokePresented, RejectUnusable, DetectReuse,
       Goto, Finish, SessionTypeOK, Rotation
  <2>3. QED
    BY <2>1, <2>2, LoginsShrink
<1>5. ASSUME \/ \E t \in Tokens : Logout(t)
             \/ \E w \in Users : LogoutAll(w) \/ DeleteAccount(w)
             \/ PurgeExpired \/ Tick \/ UNCHANGED vars
      PROVE  LoginsAlone'
  <2>1. info' = info /\ Live' \subseteq Live
    BY <1>5, <1>0, RevokeEffect
       DEF Logout, LogoutAll, RevokeAllForUser, DeleteAccount, PurgeExpired, Tick, vars, storeVars, Live
  <2>2. UNCHANGED <<pc, presented>>
    BY <1>5 DEF Logout, LogoutAll, DeleteAccount, PurgeExpired, Tick, vars, requestVars
  <2>3. QED
    BY <2>1, <2>2, LoginsShrink
<1>6. QED
  BY <1>1, <1>2, <1>3, <1>4, <1>5 DEF SessionNext

\* Nothing descends from a token while it is being exchanged.
UsedOnce ==
  /\ SingleUse
  /\ \A r \in Requests : pc[r] \in Rotation => \A s \in Issued : info[s].parent # presented[r]

LEMMA UsedOnceStep ==
  ASSUME SessionInv, UsedOnce, NoneShared, [SessionNext]_vars
  PROVE  UsedOnce'
<1>0. /\ SessionTypeOK /\ RequestsCoherent /\ LineageOK /\ RotatedParentRevoked
      /\ Live \subseteq Issued /\ Issued \subseteq Nat /\ NoToken \notin Issued
      /\ \A q \in Requests : pc[q] \in Rotation => presented[q] \in Issued
  BY DEF SessionInv, SessionTypeOK, RequestsCoherent, Live, Issued, Tokens, NoToken, Rotation, Holding
\* A request gives the new session p as its parent, and nobody else is exchanging p.
<1>1. ASSUME NEW r \in Requests, NEW u \in Users, NEW f \in Nat, NEW p \in Nat,
             InsertSession(u, f, p), Finish(r),
             p # NoToken => \A s \in Issued : info[s].parent # p,
             \A q \in Requests \ {r} : pc[q] \in Rotation => presented[q] # p
      PROVE  UsedOnce'
  <2>1. /\ nextToken \notin Issued /\ Issued' = Issued \cup {nextToken}
        /\ info'[nextToken].parent = p /\ \A t \in Issued : info'[t] = info[t]
    BY <1>0, <1>1, InsertEffect
  <2>2. \A q \in Requests : pc'[q] \in Rotation =>
          q # r /\ pc[q] \in Rotation /\ presented'[q] = presented[q]
    BY <1>0, <1>1, FinishEffect DEF Rotation
  <2>3. SingleUse'
    BY <1>1, <2>1 DEF UsedOnce, SingleUse
  <2>4. QED
    BY <1>1, <2>1, <2>2, <2>3 DEF UsedOnce
<1>2. ASSUME NEW r \in Requests, IssueForNewSession(r) PROVE UsedOnce'
  <2>1. /\ nextToken \in Nat /\ subject[r] \in Users /\ NoToken \in Nat
        /\ InsertSession(subject[r], nextToken, NoToken) /\ Finish(r)
    BY <1>2, <1>0 DEF SessionTypeOK, RequestsCoherent, IssueForNewSession, NoToken
  <2>2. QED
    BY <1>0, <1>1, <2>1
<1>3. ASSUME NEW r \in Requests, SaveRotated(r) PROVE UsedOnce'
  <2> DEFINE p == presented[r]
  <2>1. pc[r] = "rotating" /\ p \in Issued /\ info[p].user = subject[r]
    BY <1>3, <1>0 DEF SaveRotated, RequestsCoherent, Holding
  <2>2. /\ \A s \in Issued : info[s].parent # p
        /\ \A q \in Requests \ {r} : pc[q] \in Rotation => presented[q] # p
    BY <2>1 DEF UsedOnce, NoneShared, Rotation
  <2>3. /\ subject[r] \in Users /\ info[p].family \in Nat /\ p \in Nat
        /\ InsertSession(subject[r], info[p].family, p) /\ Finish(r)
    BY <1>3, <2>1, <1>0 DEF LineageOK, SaveRotated
  <2> HIDE DEF p
  <2>4. QED
    BY <1>1, <2>2, <2>3
<1>4. ASSUME NEW r \in Requests, NEW t \in Tokens, Refresh(r, t) PROVE UsedOnce'
  <2>1. /\ Issued' = Issued /\ info' = info
        /\ pc'[r] \in Rotation => t \in Live
        /\ presented'[r] = t
        /\ \A q \in Requests \ {r} : pc'[q] = pc[q] /\ presented'[q] = presented[q]
    BY <1>4, <1>0 DEF Refresh, SessionTypeOK, storeVars, Issued, Live, Rotation
  <2>2. t \in Live => \A s \in Issued : info[s].parent # t
    BY <1>0 DEF RotatedParentRevoked
  <2>3. QED
    BY <2>1, <2>2 DEF UsedOnce, SingleUse
<1>5. ASSUME /\ Issued' = Issued /\ info' = info
             /\ \A q \in Requests : pc'[q] \in Rotation =>
                  pc[q] \in Rotation /\ presented'[q] = presented[q]
      PROVE  UsedOnce'
  BY <1>5 DEF UsedOnce, SingleUse
<1>6. ASSUME \/ \E r \in Requests :
                  \/ \E w \in Users : Authenticate(r, w)
                  \/ ResolveUser(r) \/ Abandon(r) \/ RevokePresented(r) \/ RejectUnusable(r) \/ DetectReuse(r)
             \/ \E t \in Tokens : Logout(t)
             \/ \E w \in Users : LogoutAll(w) \/ DeleteAccount(w)
             \/ PurgeExpired \/ Tick \/ UNCHANGED vars
      PROVE  UsedOnce'
  <2>1. Issued' = Issued /\ info' = info
    BY <1>6 DEF Authenticate, ResolveUser, Abandon, RevokePresented, RejectUnusable, DetectReuse,
       Logout, LogoutAll, RevokeAllForUser, Revoke, DeleteAccount, PurgeExpired, Tick, vars,
       storeVars, Issued
  <2>2. \A q \in Requests : pc'[q] \in Rotation => pc[q] \in Rotation /\ presented'[q] = presented[q]
    BY <1>6, <1>0 DEF Authenticate, ResolveUser, Abandon, RevokePresented, RejectUnusable, DetectReuse,
       Logout, LogoutAll, DeleteAccount, PurgeExpired, Tick, vars, requestVars, Goto, Finish,
       SessionTypeOK, Rotation
  <2>3. QED
    BY <1>5, <2>1, <2>2
<1>7. QED
  BY <1>2, <1>3, <1>4, <1>6 DEF SessionNext

LEMMA FirstLogins == SessionInit => LoginsAlone /\ UsedOnce
<1>1. SessionInit => Issued = {} /\ Live = {} /\ \A r \in Requests : pc[r] = "idle"
  BY SessionAssumption DEF SessionInit, Issued, Live, Tokens
<1>2. QED
  BY <1>1 DEF LoginsAlone, OneLivePerFamily, UsedOnce, SingleUse, Rotation

\* Two exchanges of one token are only possible if it is presented again before the first
\* answer: for clients that do not, every token has at most one successor, with any number of
\* users, devices and requests (docs/agents/security.md:35-36).
THEOREM SingleFlightSingleUse == SessionSpec /\ []NoneShared => []SingleUse
<1>1. SessionInit => UsedOnce
  BY FirstLogins
<1>2. SessionInv /\ UsedOnce /\ NoneShared /\ [SessionNext]_vars => UsedOnce'
  BY UsedOnceStep
<1>3. UsedOnce => SingleUse
  BY DEF UsedOnce
<1>4. QED
  BY <1>1, <1>2, <1>3, SessionInvariance, PTL DEF SessionSpec

\* ... and a login never has two usable refresh tokens (token.service.ts:162-175).
THEOREM SingleFlightOneLivePerFamily == SessionSpec /\ []NoneShared => []OneLivePerFamily
<1>1. SessionInit => LoginsAlone
  BY FirstLogins
<1>2. SessionInv /\ LoginsAlone /\ NoneShared' /\ [SessionNext]_vars => LoginsAlone'
  BY LoginsStep
<1>3. LoginsAlone => OneLivePerFamily
  BY DEF LoginsAlone
<1>4. QED
  BY <1>1, <1>2, <1>3, SessionInvariance, PTL DEF SessionSpec

-----------------------------------------------------------------------------
(* The server under the app *)

\* What the app makes the server do is what any client may: it adds nothing to SessionNext.
LEMMA MobileStepIsSessionStep ==
  ASSUME SessionInv, [MobileNext]_mobileVars
  PROVE  [SessionNext]_vars
<1>1. ASSUME NEW r \in Requests, RefreshArrives(r) \/ RefreshAnswered(r) \/ RefreshRefused(r)
      PROVE  SessionNext
  <2>1. RefreshArrives(r) => refresh.token \in Tokens /\ Refresh(r, refresh.token)
    BY DEF RefreshArrives, Refresh, SessionInv, SessionTypeOK, Issued
  <2>2. QED
    BY <1>1, <2>1 DEF RefreshAnswered, RefreshRefused, SessionNext
<1>2. ASSUME NEW r \in Requests, LoginArrives(r) \/ LoginAnswered(r)
      PROVE  SessionNext
  BY <1>2, ClientAssumption DEF LoginArrives, LoginAnswered, SessionNext
<1>3. CASE LogoutServed
  <2>1. leave.token \in Tokens /\ Logout(leave.token)
    BY <1>3 DEF LogoutServed, Logout, Issued
  <2>2. QED
    BY <2>1 DEF SessionNext
<1>4. CASE ServerStep
  BY <1>4, ClientAssumption DEF ServerStep, SessionNext
<1>5. CASE UNCHANGED vars
  BY <1>5
<1>6. CASE ReadKeychain \/ ReadFails \/ RefreshUnknown \/ RefreshLost \/ StoreRotated \/ DeleteStored
  BY <1>6 DEF ReadKeychain, ReadFails, RefreshUnknown, RefreshLost, StoreRotated, DeleteStored
<1>7. CASE StartCall \/ Submit \/ LoginFails \/ StoreLogin \/ PressSignOut \/ PushUnregistered
  BY <1>7 DEF StartCall, Submit, LoginFails, StoreLogin, PressSignOut, PushUnregistered
<1>8. CASE PushUnauthorised \/ LogoutUnauthorised \/ LogoutFails \/ LogoutClears \/ Kill
  BY <1>8 DEF PushUnauthorised, LogoutUnauthorised, LogoutFails, LogoutClears, Kill
<1>9. ASSUME NEW c \in Calls, CallSucceeds(c) \/ CallUnauthorised(c) \/ CallFails(c)
      PROVE  UNCHANGED vars
  BY <1>9 DEF CallSucceeds, CallUnauthorised, CallFails
<1>10. QED
  BY <1>1, <1>2, <1>3, <1>4, <1>5, <1>6, <1>7, <1>8, <1>9 DEF MobileNext, mobileVars

\* Tokens a request at the server holds, and tokens that have been exchanged.
HeldTokens  == {presented[r] : r \in {q \in Requests : pc[q] \in Holding}}
SpentTokens == {info[s].parent : s \in Issued}
Taken == (HeldTokens \cup SpentTokens) \ kept

SpentSingly ==
  \A s, t \in Issued :
    info[s].parent = info[t].parent /\ info[s].parent \notin kept \cup {NoToken} => s = t

\* No two requests hold a token, none is held after it was exchanged, or exchanged twice: but
\* for those the keychain would not let go.
OneHolder ==
  /\ \A q, r \in Requests :
       pc[q] \in Holding /\ pc[r] \in Holding /\ presented[q] = presented[r] =>
         q = r \/ presented[q] \in kept
  /\ HeldTokens \cap SpentTokens \subseteq kept
  /\ SpentSingly

LEMMA TakenIsIssued == SessionInv => Taken \subseteq Issued \cup {NoToken}
  BY DEF SessionInv, RequestsCoherent, LineageOK, Taken, HeldTokens, SpentTokens

\* A step that writes no session and after which requests hold nothing new.
KeepsHolders ==
  /\ \A q \in Requests : pc'[q] \in Holding =>
       /\ pc[q] \in Holding /\ presented'[q] = presented[q]
       /\ pc'[q] = "reuse" => pc[q] = "reuse"
  /\ UNCHANGED <<info, nextToken>>

LEMMA HoldersKept ==
  ASSUME KeepsHolders, kept \subseteq kept'
  PROVE  /\ Issued' = Issued /\ Taken' \subseteq Taken
         /\ OneHolder => OneHolder'
<1>1. Issued' = Issued
  BY DEF KeepsHolders, Issued
<1>2. HeldTokens' \subseteq HeldTokens
  BY DEF KeepsHolders, HeldTokens
<1>3. SpentTokens' = SpentTokens /\ (SpentSingly => SpentSingly')
  BY <1>1 DEF KeepsHolders, SpentTokens, SpentSingly
<1>4. OneHolder => OneHolder'
  BY <1>2, <1>3 DEF KeepsHolders, OneHolder, HeldTokens
<1>5. QED
  BY <1>1, <1>2, <1>3, <1>4 DEF Taken

\* The steps of the server, as far as the app can tell.
LEMMA ServerEffect ==
  ASSUME SessionInv, NEW r \in Requests
  PROVE  /\ ResolveUser(r) => KeepsHolders /\ UNCHANGED <<revoked, exposed>>
         /\ RevokePresented(r) \/ RejectUnusable(r) =>
              KeepsHolders /\ revoked' \subseteq revoked \cup HeldTokens /\ exposed' = exposed
         /\ DetectReuse(r) => KeepsHolders /\ pc[r] = "reuse"
         /\ Abandon(r) => KeepsHolders /\ UNCHANGED <<revoked, exposed>>
         /\ Authenticate(r, Owner) => KeepsHolders /\ UNCHANGED <<revoked, exposed>>
<1>0. SessionTypeOK
  BY DEF SessionInv
<1>1. ASSUME ResolveUser(r) PROVE KeepsHolders /\ UNCHANGED <<revoked, exposed>>
  BY <1>0, <1>1 DEF ResolveUser, Goto, KeepsHolders, Holding, SessionTypeOK, storeVars
<1>2. ASSUME RevokePresented(r)
      PROVE  KeepsHolders /\ revoked' \subseteq revoked \cup HeldTokens /\ exposed' = exposed
  <2>1. pc[r] = "resolved" /\ Revoke({presented[r]}) /\ Goto(r, "rotating") /\ exposed' = exposed
    BY <1>2 DEF RevokePresented
  <2>2. revoked' \subseteq revoked \cup HeldTokens /\ UNCHANGED <<info, nextToken>>
    BY <2>1 DEF Revoke, HeldTokens, Holding
  <2>3. QED
    BY <1>0, <2>1, <2>2, GotoEffect DEF KeepsHolders, Holding
<1>3. ASSUME RejectUnusable(r)
      PROVE  KeepsHolders /\ revoked' \subseteq revoked \cup HeldTokens /\ exposed' = exposed
  <2>1. /\ pc[r] \in {"expired", "orphan"} /\ Revoke({presented[r]}) /\ Finish(r)
        /\ exposed' = exposed
    BY <1>3 DEF RejectUnusable
  <2>2. revoked' \subseteq revoked \cup HeldTokens /\ UNCHANGED <<info, nextToken>>
    BY <2>1 DEF Revoke, HeldTokens, Holding
  <2>3. QED
    BY <1>0, <2>1, <2>2, FinishEffect DEF KeepsHolders, Holding
<1>4. ASSUME DetectReuse(r) PROVE KeepsHolders /\ pc[r] = "reuse"
  BY <1>0, <1>4, FinishEffect DEF DetectReuse, RevokeAllForUser, Revoke, KeepsHolders, Holding
<1>5. ASSUME Abandon(r) PROVE KeepsHolders /\ UNCHANGED <<revoked, exposed>>
  BY <1>0, <1>5, FinishEffect DEF Abandon, KeepsHolders, Holding, storeVars
<1>6. ASSUME Authenticate(r, Owner) PROVE KeepsHolders /\ UNCHANGED <<revoked, exposed>>
  BY <1>0, <1>6 DEF Authenticate, KeepsHolders, Holding, SessionTypeOK, storeVars
<1>7. QED
  BY <1>1, <1>2, <1>3, <1>4, <1>5, <1>6

\* A refresh takes its token.
LEMMA RefreshEffect ==
  ASSUME SessionInv, NEW r \in Requests, NEW t, Refresh(r, t), kept' = kept
  PROVE  /\ Issued' = Issued /\ Taken' \subseteq Taken \cup {t} /\ UNCHANGED <<revoked, exposed>>
         /\ OneHolder /\ t \notin Taken => OneHolder'
         /\ t \notin revoked => \A q \in Requests : pc'[q] = "reuse" => pc[q] = "reuse"
<1>0. SessionTypeOK
  BY DEF SessionInv
<1>1. /\ pc[r] = "idle" /\ pc'[r] \in {"reuse", "expired", "live"} /\ presented'[r] = t
      /\ \A q \in Requests \ {r} : pc'[q] = pc[q] /\ presented'[q] = presented[q]
      /\ UNCHANGED <<table, revoked, info, nextToken, exposed>>
      /\ t \notin revoked => pc'[r] # "reuse"
  BY <1>0 DEF Refresh, SessionTypeOK, storeVars
<1>2. Issued' = Issued /\ SpentTokens' = SpentTokens /\ (SpentSingly => SpentSingly')
  BY <1>1 DEF Issued, SpentTokens, SpentSingly
<1>3. HeldTokens' = HeldTokens \cup {t}
  BY <1>1 DEF HeldTokens, Holding
<1>4. OneHolder /\ t \notin Taken => OneHolder'
  BY <1>1, <1>2, <1>3 DEF OneHolder, Taken, HeldTokens, Holding
<1>5. QED
  BY <1>1, <1>2, <1>3, <1>4 DEF Taken

\* A new session is fresh, and what it replaces was held.
LEMMA IssueEffect ==
  ASSUME SessionInv, NEW r \in Requests, SaveRotated(r) \/ IssueForNewSession(r),
         kept' = kept, kept \subseteq Issued
  PROVE  /\ nextToken \in Tokens /\ nextToken \notin Issued /\ nextToken # NoToken
         /\ nextToken \notin Taken'
         /\ Issued' = Issued \cup {nextToken} /\ Taken' \subseteq Taken \cup {NoToken}
         /\ revoked \subseteq Issued /\ UNCHANGED <<revoked, exposed>>
         /\ OneHolder => OneHolder'
         /\ \A q \in Requests : pc'[q] = "reuse" => pc[q] = "reuse"
<1>0. SessionTypeOK
  BY DEF SessionInv
<1>1. PICK u \in Users, f \in Nat, p \in Nat :
        /\ InsertSession(u, f, p) /\ Finish(r) /\ exposed' = exposed
        /\ p = NoToken \/ (p = presented[r] /\ pc[r] = "rotating" /\ p \in Issued)
  <2>1. CASE IssueForNewSession(r)
    BY <2>1 DEF IssueForNewSession, SessionInv, SessionTypeOK, RequestsCoherent, NoToken
  <2>2. CASE SaveRotated(r)
    <3>1. pc[r] = "rotating" /\ presented[r] \in Issued /\ subject[r] = info[presented[r]].user
      BY <2>2 DEF SaveRotated, SessionInv, RequestsCoherent, Holding
    <3>2. presented[r] \in Nat /\ subject[r] \in Users /\ info[presented[r]].family \in Nat
      BY <3>1 DEF SessionInv, LineageOK, Issued, Tokens
    <3>3. QED
      BY <2>2, <3>1, <3>2 DEF SaveRotated
  <2>3. QED
    BY <2>1, <2>2
<1>2. /\ nextToken \in Tokens /\ nextToken \notin Issued
      /\ Issued' = Issued \cup {nextToken} /\ revoked' = revoked
      /\ info'[nextToken].parent = p /\ \A t \in Issued : info'[t] = info[t]
  BY <1>0, <1>1, InsertEffect
<1>3. /\ pc'[r] = "idle"
      /\ \A q \in Requests \ {r} : pc'[q] = pc[q] /\ presented'[q] = presented[q]
  BY <1>0, <1>1, FinishEffect
<1>4. nextToken # NoToken
  BY <1>2 DEF Tokens, NoToken
<1>5. SpentTokens' = SpentTokens \cup {p}
  BY <1>2 DEF SpentTokens
<1>6. HeldTokens' \subseteq HeldTokens
  BY <1>3 DEF HeldTokens, Holding
<1>7. p = NoToken \/ p \in HeldTokens
  BY <1>1 DEF HeldTokens, Holding
<1>8. Taken' \subseteq Taken \cup {NoToken} /\ nextToken \notin Taken'
  BY <1>2, <1>4, <1>5, <1>6, <1>7, TakenIsIssued DEF Taken
<1>9. OneHolder => OneHolder'
  <2> SUFFICES ASSUME OneHolder PROVE OneHolder'
    OBVIOUS
  <2>1. NoToken \notin HeldTokens'
    BY <1>6 DEF HeldTokens, SessionInv, RequestsCoherent, Issued, Tokens, NoToken
  <2>2. p \notin kept \cup {NoToken} => p \notin HeldTokens'
    BY <1>1, <1>3 DEF OneHolder, HeldTokens, Holding
  <2>3. HeldTokens' \cap SpentTokens' \subseteq kept
    BY <1>5, <1>6, <2>1, <2>2 DEF OneHolder
  <2>4. p \notin kept \cup {NoToken} => p \notin SpentTokens
    BY <1>7 DEF OneHolder
  <2>5. SpentSingly'
    BY <1>2, <2>4 DEF OneHolder, SpentSingly, SpentTokens
  <2>6. QED
    BY <1>3, <2>3, <2>5 DEF OneHolder, Holding
<1>10. \A q \in Requests : pc'[q] = "reuse" => pc[q] = "reuse"
  BY <1>3
<1>11. QED
  BY <1>0, <1>1, <1>2, <1>4, <1>8, <1>9, <1>10 DEF SessionTypeOK

-----------------------------------------------------------------------------
(* Types of the client *)

CallsIdle == \A c \in Calls : call[c] = "idle"

\* The promise, the form and sign-out in step with what is on the screen.
LinksOK ==
  /\ refresh.at # "sent" => refresh.req = NoRequest
  /\ refresh.at \in {"sent", "storing"} => refresh.token # NoToken
  /\ enter.at # "sent" => enter.req = NoRequest
  /\ enter.at = "storing" => enter.token # NoToken
  /\ enter.at # "idle" => screen = "auth"
  /\ screen = "restoring" => CallsIdle /\ leave.at = "idle"
  /\ leave.at \in {"push", "pushWaiting", "pushRetrying"} => screen = "tasks"

Refreshes == [at : {"idle", "reading", "sent", "storing", "clearing"},
              token : Issued \cup {NoToken}, req : Requests \cup {NoRequest}]
Entries == [at : {"idle", "sent", "storing"},
            token : Issued \cup {NoToken}, req : Requests \cup {NoRequest}]
Departures == [at : {"idle", "push", "pushWaiting", "pushRetrying",
                     "sent", "waiting", "retrying", "clearing"},
               token : Issued \cup {NoToken}]
CallSteps == {"idle", "sent", "bare", "waiting", "retrying"}

\* The promise settles and nobody waits for it any longer.
LEMMA SettleEffect ==
  ASSUME ClientTypeOK, LinksOK, NEW ok \in BOOLEAN, NEW start, Settle(ok, start)
  PROVE  /\ refresh' = Nothing
         /\ call' \in [Calls -> CallSteps] /\ \A c \in Calls : call'[c] # "waiting"
         /\ CallsIdle /\ ~ (screen = "restoring" /\ ok) => CallsIdle'
         /\ leave' \in Departures
         /\ leave'.at = CASE leave.at = "waiting" /\ ok       -> "retrying"
                          [] leave.at = "waiting" /\ ~ ok     -> "clearing"
                          [] leave.at = "pushWaiting" /\ ok   -> "pushRetrying"
                          [] leave.at = "pushWaiting" /\ ~ ok -> "sent"
                          [] OTHER -> leave.at
         /\ screen' = IF screen = "restoring" THEN start
                      ELSE IF leave.at = "pushWaiting" /\ ~ ok THEN "auth" ELSE screen
         /\ registered' \in BOOLEAN
         /\ access' = IF leave.at = "waiting" /\ ~ ok THEN NoToken ELSE access
<1> DEFINE again == [c \in Calls |-> Retried(call[c], ok)]
<1>0. /\ call \in [Calls -> CallSteps] /\ leave \in Departures /\ registered \in BOOLEAN
      /\ "push" \in Calls /\ access \in Issued \cup {NoToken}
  BY DEF ClientTypeOK, CallSteps, Departures, Calls
<1>1. /\ again \in [Calls -> CallSteps] /\ \A c \in Calls : again[c] # "waiting"
      /\ CallsIdle => \A c \in Calls : again[c] = "idle"
  BY <1>0 DEF Retried, Again, CallSteps, CallsIdle
<1>2. call' = IF screen = "restoring" /\ ok THEN [again EXCEPT !["push"] = "sent"] ELSE again
  BY DEF Settle
<1> HIDE DEF again
<1>3. /\ call' \in [Calls -> CallSteps] /\ \A c \in Calls : call'[c] # "waiting"
      /\ CallsIdle /\ ~ (screen = "restoring" /\ ok) => CallsIdle'
  BY <1>0, <1>1, <1>2 DEF CallSteps, CallsIdle
<1>4. leave' \in Departures
  BY <1>0 DEF Settle, Leaving, Departures
<1>5. leave'.at = CASE leave.at = "waiting" /\ ok       -> "retrying"
                   [] leave.at = "waiting" /\ ~ ok     -> "clearing"
                   [] leave.at = "pushWaiting" /\ ok   -> "pushRetrying"
                   [] leave.at = "pushWaiting" /\ ~ ok -> "sent"
                   [] OTHER -> leave.at
  BY DEF Settle, Leaving
<1>6. registered' \in BOOLEAN
  BY DEF Settle
<1>7. /\ refresh' = Nothing
      /\ screen' = IF screen = "restoring" THEN start
                   ELSE IF leave.at = "pushWaiting" /\ ~ ok THEN "auth" ELSE screen
  BY DEF Settle
<1>8. access' = IF leave.at = "waiting" /\ ~ ok THEN NoToken ELSE access
  BY DEF Settle
<1>9. QED
  BY <1>3, <1>4, <1>5, <1>6, <1>7, <1>8

ClientOK == ClientTypeOK /\ LinksOK

LEMMA MoreIssued ==
  ASSUME Issued \subseteq Issued'
  PROVE  Refreshes \subseteq Refreshes' /\ Entries \subseteq Entries' /\ Departures \subseteq Departures'
  BY DEF Refreshes, Entries, Departures

\* What the steps of the app write.
LEMMA ClientRecords ==
  /\ Nothing \in Refreshes /\ Nothing \in Entries /\ Reading \in Refreshes
  /\ Nothing.at = "idle" /\ Nothing.req = NoRequest /\ Nothing.token = NoToken
  /\ Reading.at = "reading" /\ Reading.req = NoRequest /\ Reading.token = NoToken
  /\ \A t : \A q : \A a : /\ Exchange(a, t, q).at = a /\ Exchange(a, t, q).token = t
                        /\ Exchange(a, t, q).req = q
  /\ \A t : \A a : Leaving(a, t).at = a /\ Leaving(a, t).token = t
  BY DEF Nothing, Reading, Exchange, Leaving, Refreshes, Entries

LEMMA SettleKeepsClient ==
  ASSUME ClientOK, NEW ok \in BOOLEAN, NEW start \in {"tasks", "auth", "stuck"}, Settle(ok, start),
         Issued' = Issued, keychain' \in Issued \cup {NoToken}, enter' = enter,
         kept' \subseteq Issued, adrift' = adrift
  PROVE  ClientOK'
<1>1. ClientTypeOK /\ LinksOK
  BY DEF ClientOK
<1>2. /\ access' \in Issued' \cup {NoToken} /\ keychain' \in Issued' \cup {NoToken}
      /\ Refreshes' = Refreshes /\ Entries' = Entries /\ Departures' = Departures
  BY <1>1, SettleEffect DEF ClientTypeOK, Refreshes, Entries, Departures
<1>3. screen' \in {"restoring", "tasks", "auth", "stuck"} /\ screen' # "restoring"
  BY <1>1, SettleEffect DEF ClientTypeOK
<1>4. leave'.at \notin {"waiting", "pushWaiting"} /\ refresh' = Nothing
  BY <1>1, SettleEffect
<1>5. ClientTypeOK'
  BY <1>1, <1>2, <1>3, <1>4, SettleEffect, ClientRecords DEF ClientTypeOK, Refreshes, Entries, Departures, CallSteps
<1>6. LinksOK'
  <2>1. enter'.at # "idle" => screen' = "auth"
    BY <1>1, SettleEffect DEF LinksOK
  <2>2. leave'.at \in {"push", "pushRetrying"} => screen' = "tasks"
    BY <1>1, SettleEffect DEF LinksOK
  <2>3. QED
    BY <1>1, <1>3, <1>4, <2>1, <2>2, ClientRecords DEF LinksOK
<1>7. QED
  BY <1>5, <1>6 DEF ClientOK

LEMMA ClientStep ==
  ASSUME SessionInv, ClientOK, [MobileNext]_mobileVars
  PROVE  ClientOK'
<1> USE ClientRecords, ClientAssumption
<1>0. ClientTypeOK /\ LinksOK /\ SessionTypeOK /\ "push" \in Calls /\ "tasks" \in Calls
      /\ keychain \in Issued \cup {NoToken} /\ kept \subseteq Issued /\ adrift \subseteq Issued
  BY DEF ClientOK, SessionInv, Calls, ClientTypeOK
<1>1. ASSUME UNCHANGED vars
      PROVE  /\ Issued' = Issued /\ Refreshes' = Refreshes /\ Entries' = Entries
             /\ Departures' = Departures
  BY <1>1 DEF vars, storeVars, Issued, Refreshes, Entries, Departures
<1>2. CASE ReadKeychain
  <2>1. CASE keychain = NoToken
    <3>1. Settle(FALSE, "auth") /\ UNCHANGED <<vars, keychain, enter, faults>>
      BY <1>2, <2>1 DEF ReadKeychain
    <3>2. QED
      BY <1>0, <1>1, <3>1, SettleKeepsClient DEF faults
  <2>2. CASE keychain # NoToken
    <3>1. /\ refresh' = Exchange("sent", keychain, NoRequest)
          /\ UNCHANGED <<vars, access, keychain, enter, screen, registered, leave, call, kept, adrift>>
      BY <1>2, <2>2 DEF ReadKeychain, faults
    <3>2. refresh' \in Refreshes
      BY <1>0, <3>1 DEF Exchange, Refreshes, ClientTypeOK
    <3>3. ClientTypeOK'
      BY <1>0, <1>1, <3>1, <3>2 DEF ClientTypeOK, Refreshes, Entries, Departures, CallSteps
    <3>4. LinksOK'
      BY <1>0, <2>2, <3>1 DEF LinksOK, CallsIdle
    <3>5. QED
      BY <3>3, <3>4 DEF ClientOK
  <2>3. QED
    BY <2>1, <2>2
<1>3. ASSUME GiveUp \/ UNCHANGED <<refresh, access>>,
             UNCHANGED <<vars, keychain, screen, registered, leave, call, kept, adrift>>,
             enter' = enter \/ enter' = Nothing
      PROVE  ClientOK'
  <2>1. /\ refresh' \in Refreshes /\ access' \in Issued \cup {NoToken}
        /\ (refresh.at # "idle" => refresh'.at # "idle")
    BY <1>0, <1>3 DEF GiveUp, Exchange, Refreshes, ClientTypeOK
  <2>2. enter' \in Entries
    BY <1>0, <1>3 DEF ClientTypeOK, Refreshes, Entries, Departures, CallSteps
  <2>3. ClientTypeOK'
    BY <1>0, <1>1, <1>3, <2>1, <2>2 DEF ClientTypeOK, Refreshes, Entries, Departures, CallSteps
  <2>4. LinksOK'
    BY <1>0, <1>3 DEF LinksOK, CallsIdle, GiveUp
  <2>5. QED
    BY <2>3, <2>4 DEF ClientOK
<1>4. CASE RefreshUnknown \/ RefreshLost
  BY <1>3, <1>4 DEF RefreshUnknown, RefreshLost, faults
<1>5. CASE StoreRotated
  <2>1. refresh.token \in Issued \cup {NoToken}
    BY <1>0 DEF ClientTypeOK
  <2>2. CASE Settle(TRUE, "tasks") /\ keychain' = refresh.token
    BY <1>0, <1>1, <1>5, <2>1, <2>2, SettleKeepsClient DEF StoreRotated, faults
  <2>3. CASE GiveUp /\ UNCHANGED <<keychain, screen, registered, leave, call>>
    BY <1>3, <1>5, <2>3 DEF StoreRotated, faults
  <2>4. QED
    BY <1>5, <2>2, <2>3 DEF StoreRotated
<1>6. ASSUME DeleteItem
      PROVE  keychain' \in Issued \cup {NoToken} /\ kept' \subseteq Issued
  BY <1>0, <1>6 DEF DeleteItem
<1>7. CASE DeleteStored
  BY <1>0, <1>1, <1>6, <1>7, SettleKeepsClient DEF DeleteStored
<1>8. CASE ReadFails
  BY <1>0, <1>1, <1>8, SettleKeepsClient DEF ReadFails, faults
\* A call moves: the server and the credentials stay.
<1>9. ASSUME UNCHANGED <<vars, access, keychain, screen, enter, leave, kept, adrift>>, registered' \in BOOLEAN,
             refresh' = refresh \/ JoinRefresh,
             call' \in [Calls -> CallSteps],
             screen # "restoring" \/ call' = call,
             \A c \in Calls : call'[c] = "waiting" => call[c] = "waiting" \/ JoinRefresh
      PROVE  ClientOK'
  <2>1. /\ refresh' \in Refreshes /\ (refresh.at # "idle" \/ JoinRefresh => refresh'.at # "idle")
        /\ (refresh'.at # "sent" => refresh'.req = NoRequest)
        /\ (refresh'.at \in {"sent", "storing"} => refresh'.token # NoToken)
    BY <1>0, <1>9 DEF JoinRefresh, ClientTypeOK, Refreshes, LinksOK
  <2>2. ClientTypeOK'
    BY <1>0, <1>1, <1>9, <2>1 DEF ClientTypeOK, Refreshes, Entries, Departures, CallSteps
  <2>3. LinksOK'
    BY <1>0, <1>9, <2>1 DEF LinksOK, CallsIdle
  <2>4. QED
    BY <2>2, <2>3 DEF ClientOK
<1>10. CASE StartCall
  BY <1>0, <1>9, <1>10 DEF StartCall, Sent, faults, ClientTypeOK, Refreshes, Entries, Departures, CallSteps
<1>11. ASSUME NEW c \in Calls, CallSucceeds(c) \/ CallUnauthorised(c) \/ CallFails(c)
      PROVE  ClientOK'
  <2>1. call[c] # "idle" /\ screen # "restoring"
    BY <1>0, <1>11 DEF CallSucceeds, CallUnauthorised, CallFails, LinksOK, CallsIdle
  <2>2. registered \in BOOLEAN /\ call \in [Calls -> CallSteps]
    BY <1>0 DEF ClientTypeOK, CallSteps
  <2>3. QED
    BY <1>9, <1>11, <2>1, <2>2 DEF CallSucceeds, CallUnauthorised, CallFails, CallSteps, faults
\* The form, the calls it makes and where it leads.
<1>12. ASSUME UNCHANGED <<vars, access, registered, refresh, leave, kept>>, adrift' \subseteq Issued,
              enter' \in Entries, enter'.at # "sent" => enter'.req = NoRequest,
              enter'.at # "storing", enter'.at # "idle" => screen' = "auth",
              keychain' \in Issued \cup {NoToken},
              screen' \in {"tasks", "auth"}, screen' = screen \/ screen' = "tasks",
              call' \in [Calls -> CallSteps], \A c \in Calls : call'[c] = "waiting" => call[c] = "waiting"
       PROVE  ClientOK'
  <2>1. ClientTypeOK'
    BY <1>0, <1>1, <1>12 DEF ClientTypeOK, Refreshes, Entries, Departures, CallSteps
  <2>2. LinksOK'
    BY <1>0, <1>12 DEF LinksOK
  <2>3. QED
    BY <2>1, <2>2 DEF ClientOK
<1>13. CASE Submit
  <2>1. Exchange("sent", NoToken, NoRequest) \in Entries
    BY DEF Exchange, Entries
  <2>2. QED
    BY <1>0, <1>12, <1>13, <2>1 DEF Submit, faults, ClientTypeOK, Refreshes, Entries, Departures, CallSteps
<1>14. CASE LoginFails \/ StoreLogin
  <2>1. /\ screen = "auth" /\ enter.token \in Issued \cup {NoToken}
        /\ enter.at = "storing" => enter.token \in Issued
    BY <1>0, <1>14 DEF LoginFails, StoreLogin, LinksOK, ClientTypeOK
  <2>2. CASE LoginFails
    BY <1>0, <1>12, <2>1, <2>2 DEF LoginFails, faults, ClientTypeOK, CallSteps
  <2>3. CASE StoreLogin
    BY <1>0, <1>12, <2>1, <2>3 DEF StoreLogin, Sent, ClientTypeOK, CallSteps
  <2>4. QED
    BY <1>14, <2>2, <2>3
\* Sign-out.
<1>15. ASSUME UNCHANGED <<vars, enter, call, adrift>>, registered' \in BOOLEAN,
              kept' \subseteq Issued,
              keychain' \in Issued \cup {NoToken}, access' \in Issued \cup {NoToken},
              refresh' = refresh \/ JoinRefresh,
              leave' \in Departures, leave'.at \in {"waiting", "pushWaiting"} => JoinRefresh,
              screen' = screen \/ screen' = "auth",
              leave'.at \in {"push", "pushWaiting", "pushRetrying"} => screen' = "tasks",
              leave.at # "idle" \/ screen # "restoring"
       PROVE  ClientOK'
  <2>1. /\ refresh' \in Refreshes /\ (refresh.at # "idle" \/ JoinRefresh => refresh'.at # "idle")
        /\ (refresh'.at # "sent" => refresh'.req = NoRequest)
        /\ (refresh'.at \in {"sent", "storing"} => refresh'.token # NoToken)
    BY <1>0, <1>15 DEF JoinRefresh, ClientTypeOK, Refreshes, LinksOK
  <2>2. ClientTypeOK'
    BY <1>0, <1>1, <1>15, <2>1 DEF ClientTypeOK, Refreshes, Entries, Departures, CallSteps
  <2>3. LinksOK'
    BY <1>0, <1>15, <2>1 DEF LinksOK, CallsIdle
  <2>4. QED
    BY <2>2, <2>3 DEF ClientOK
<1>16. /\ \A t \in Issued \cup {NoToken} :
            \A a \in {"idle", "push", "pushWaiting", "pushRetrying", "sent", "waiting", "retrying", "clearing"} :
              Leaving(a, t) \in Departures
       /\ NoToken \in Issued \cup {NoToken}
       /\ access \in Issued \cup {NoToken} /\ keychain \in Issued \cup {NoToken} /\ registered \in BOOLEAN
  BY <1>0 DEF Leaving, Departures, ClientTypeOK
<1>17. CASE PressSignOut \/ PushUnregistered \/ PushUnauthorised
  <2>1. CASE PressSignOut
    BY <1>0, <1>15, <1>16, <2>1 DEF PressSignOut, faults
  <2>2. CASE PushUnregistered
    <3>1. /\ leave.at # "idle" /\ leave' = Leaving("sent", access) /\ registered' = FALSE
          /\ screen' = "auth" /\ UNCHANGED <<vars, access, keychain, refresh, enter, call, kept, adrift>>
      BY <2>2 DEF PushUnregistered, faults
    <3>2. leave' \in Departures /\ leave'.at = "sent"
      BY <1>16, <3>1
    <3>3. QED
      BY <1>0, <1>15, <1>16, <3>1, <3>2
  <2>3. CASE PushUnauthorised
    <3>1. screen = "tasks"
      BY <1>0, <2>3 DEF PushUnauthorised, LinksOK
    <3>2. QED
      BY <1>0, <1>15, <1>16, <2>3, <3>1 DEF PushUnauthorised, faults
  <2>4. QED
    BY <1>17, <2>1, <2>2, <2>3
<1>18. CASE LogoutUnauthorised \/ LogoutFails \/ LogoutClears
  BY <1>0, <1>6, <1>15, <1>16, <1>18 DEF LogoutUnauthorised, LogoutFails, LogoutClears, faults
<1>19. CASE Kill
  <2>1. ClientTypeOK'
    BY <1>0, <1>1, <1>16, <1>19 DEF Kill, faults, ClientTypeOK, Refreshes, Entries, Departures, CallSteps
  <2>2. LinksOK'
    BY <1>19 DEF Kill, LinksOK, CallsIdle
  <2>3. QED
    BY <2>1, <2>2 DEF ClientOK
\* The server answers, or goes on by itself.
<1>20. ASSUME Issued \subseteq Issued', UNCHANGED <<keychain, screen, registered, call, kept, adrift>>,
              access' \in Issued' \cup {NoToken},
              refresh' \in Refreshes', refresh.at # "idle" => refresh'.at # "idle",
              refresh'.at # "sent" => refresh'.req = NoRequest,
              refresh'.at \in {"sent", "storing"} => refresh'.token # NoToken,
              enter' \in Entries', enter'.at # "sent" => enter'.req = NoRequest,
              enter'.at = "storing" => enter'.token # NoToken,
              enter'.at # "idle" => enter.at # "idle",
              leave' = leave \/ (leave' \in Departures' /\ leave'.at = "clearing" /\ leave.at # "idle")
       PROVE  ClientOK'
  <2>1. ClientTypeOK'
    BY <1>0, <1>20, MoreIssued DEF ClientTypeOK, Refreshes, Entries, Departures, CallSteps
  <2>2. LinksOK'
    BY <1>0, <1>20 DEF LinksOK, CallsIdle
  <2>3. QED
    BY <2>1, <2>2 DEF ClientOK
<1>21. /\ access \in Issued \cup {NoToken} /\ refresh \in Refreshes /\ enter \in Entries
       /\ refresh.at # "sent" => refresh.req = NoRequest
       /\ refresh.at \in {"sent", "storing"} => refresh.token # NoToken
       /\ enter.at # "sent" => enter.req = NoRequest
       /\ enter.at = "storing" => enter.token # NoToken
  BY <1>0 DEF ClientTypeOK, Refreshes, Entries, Departures, CallSteps, LinksOK
<1>22. ASSUME Issued' = Issued
       PROVE  Refreshes' = Refreshes /\ Entries' = Entries /\ Departures' = Departures
  BY <1>22 DEF Refreshes, Entries, Departures
<1>23. ASSUME NEW r \in Requests, RefreshArrives(r)
       PROVE  ClientOK'
  <2>1. Issued' = Issued
    BY <1>23, RefreshEffect DEF RefreshArrives, faults
  <2>2. refresh' = [refresh EXCEPT !.req = r] /\ refresh.at = "sent"
    BY <1>23 DEF RefreshArrives
  <2>3. refresh' \in Refreshes /\ refresh'.at = "sent" /\ refresh'.token = refresh.token
    BY <1>21, <2>2 DEF Refreshes
  <2>4. QED
    BY <1>20, <1>21, <1>22, <1>23, <2>1, <2>2, <2>3 DEF RefreshArrives, faults
<1>24. ASSUME NEW r \in Requests, LoginArrives(r)
       PROVE  ClientOK'
  <2>1. Issued' = Issued
    BY <1>24, ServerEffect DEF LoginArrives, KeepsHolders, Issued
  <2>2. enter' = [enter EXCEPT !.req = r] /\ enter.at = "sent"
    BY <1>24 DEF LoginArrives
  <2>3. enter' \in Entries /\ enter'.at = "sent" /\ enter'.token = enter.token
    BY <1>21, <2>2 DEF Entries
  <2>4. QED
    BY <1>20, <1>21, <1>22, <1>24, <2>1, <2>2, <2>3 DEF LoginArrives, faults
<1>25. ASSUME NEW r \in Requests, RefreshAnswered(r)
       PROVE  ClientOK'
  <2>1. Issued' = Issued \cup {nextToken} /\ nextToken # NoToken
    BY <1>0, <1>25, IssueEffect DEF RefreshAnswered, faults
  <2>2. /\ \/ refresh' = Exchange("storing", nextToken, NoRequest) /\ access' = nextToken
           \/ UNCHANGED <<refresh, access>>
        /\ UNCHANGED <<keychain, screen, registered, enter, leave, call, kept, adrift>>
        /\ refresh'.at = "idle" => UNCHANGED refresh
    BY <1>25 DEF RefreshAnswered, faults
  <2>3. Exchange("storing", nextToken, NoRequest) \in Refreshes'
    BY <2>1 DEF Exchange, Refreshes
  <2>4. QED
    BY <1>20, <1>21, <2>1, <2>2, <2>3, MoreIssued
<1>26. ASSUME NEW r \in Requests, LoginAnswered(r)
       PROVE  ClientOK'
  <2>1. Issued' = Issued \cup {nextToken} /\ nextToken # NoToken
    BY <1>0, <1>26, IssueEffect DEF LoginAnswered, faults
  <2>2. /\ \/ enter' = Exchange("storing", nextToken, NoRequest) /\ access' = nextToken /\ enter.req = r
           \/ UNCHANGED <<enter, access>>
        /\ UNCHANGED <<keychain, screen, registered, refresh, leave, call, kept, adrift>>
    BY <1>26 DEF LoginAnswered, faults
  <2>3. Exchange("storing", nextToken, NoRequest) \in Entries'
    BY <2>1 DEF Exchange, Entries
  <2>4. enter.req = r => enter.at # "idle"
    BY <1>21
  <2>5. QED
    BY <1>20, <1>21, <2>1, <2>2, <2>3, <2>4, MoreIssued
\* The client gives up on a refresh the server ended.
<1>27. ASSUME NEW r \in Requests, Issued' = Issued,
              IF refresh.req = r THEN GiveUp ELSE UNCHANGED <<refresh, access>>,
              enter' = enter \/ enter' = Nothing,
              UNCHANGED <<keychain, screen, registered, leave, call, kept, adrift>>
       PROVE  ClientOK'
  <2>1. /\ refresh' \in Refreshes /\ access' \in Issued \cup {NoToken}
        /\ (refresh.at # "idle" => refresh'.at # "idle")
        /\ refresh'.at # "sent" => refresh'.req = NoRequest
        /\ refresh'.at \in {"sent", "storing"} => refresh'.token # NoToken
    BY <1>21, <1>27 DEF GiveUp, Exchange, Refreshes
  <2>2. QED
    BY <1>20, <1>21, <1>22, <1>27, <2>1
<1>28. ASSUME NEW r \in Requests, RefreshRefused(r)
       PROVE  ClientOK'
  <2>1. Issued' = Issued
    BY <1>28, ServerEffect DEF RefreshRefused, KeepsHolders, Issued
  <2>2. QED
    BY <1>27, <1>28, <2>1 DEF RefreshRefused, faults
<1>29. CASE LogoutServed
  <2>1. Issued' = Issued
    BY <1>29 DEF LogoutServed, Logout, Revoke, Issued
  <2>2. /\ leave.at # "idle" /\ leave' = Leaving("clearing", NoToken) /\ access' = NoToken
        /\ UNCHANGED <<keychain, screen, registered, refresh, enter, call, kept, adrift>>
    BY <1>29 DEF LogoutServed, faults
  <2>3. leave' \in Departures
    BY <1>16, <2>2
  <2>4. QED
    BY <1>20, <1>21, <1>22, <2>1, <2>2, <2>3
<1>30. CASE ServerStep
  <2>1. CASE \E r \in Requests :
               /\ Abandon(r)
               /\ IF refresh.req = r THEN GiveUp ELSE UNCHANGED <<refresh, access>>
               /\ enter' = IF enter.req = r THEN Nothing ELSE enter
               /\ UNCHANGED <<keychain, screen, registered, leave, call, cut, hasty, faults>>
    <3>1. PICK r \in Requests :
               /\ Abandon(r)
               /\ IF refresh.req = r THEN GiveUp ELSE UNCHANGED <<refresh, access>>
               /\ enter' = IF enter.req = r THEN Nothing ELSE enter
               /\ UNCHANGED <<keychain, screen, registered, leave, call, cut, hasty, faults>>
      BY <2>1
    <3>2. Issued' = Issued
      BY <3>1, ServerEffect DEF KeepsHolders, Issued
    <3>3. QED
      BY <1>27, <3>1, <3>2 DEF faults
  <2>2. CASE UNCHANGED clientVars
    <3>1. Issued' = Issued
      BY <1>30, ServerEffect
         DEF ServerStep, KeepsHolders, DeleteAccount, PurgeExpired, Tick, storeVars, Abandon, Issued
    <3>2. QED
      BY <1>0, <1>20, <1>21, <1>22, <2>2, <3>1 DEF clientVars, faults
  <2>3. QED
    BY <1>30, <2>1, <2>2 DEF ServerStep
<1>31. CASE UNCHANGED mobileVars
  <2>1. Issued' = Issued
    BY <1>1, <1>31 DEF mobileVars
  <2>2. QED
    BY <1>20, <1>21, <1>22, <1>31, <2>1 DEF mobileVars, clientVars, faults
<1>32. QED
  BY <1>2, <1>4, <1>5, <1>10, <1>11, <1>13, <1>14, <1>17, <1>18, <1>19, <1>23, <1>24, <1>25,
     <1>26, <1>28, <1>29, <1>30, <1>31, <1>7, <1>8 DEF MobileNext

-----------------------------------------------------------------------------
(* Every token is spent once *)

\* What the app will present, or store to present later, nobody has presented yet.  What is
\* in the keychain while a refresh is under way may be spent: the end of it overwrites or
\* deletes it.
ClientFresh ==
  /\ refresh.at = "sent" /\ refresh.req = NoRequest => refresh.token \notin Taken
  /\ refresh.at = "storing" => refresh.token \notin Taken
  /\ enter.at = "storing" => enter.token \notin Taken \cup {keychain, refresh.token}
  /\ refresh.at \in {"idle", "reading"} /\ keychain # NoToken => keychain \notin Taken

\* The server moves and takes nothing: so does whatever else leaves the credentials alone.
LEMMA SameCredentials ==
  ASSUME ClientOK, ClientFresh, Taken' \subseteq Taken \cup {NoToken},
         refresh' = refresh \/ JoinRefresh \/ refresh' = Exchange("clearing", NoToken, NoRequest),
         enter'.at = "storing" => enter' = enter,
         keychain' = keychain
  PROVE  ClientFresh'
  BY ClientRecords DEF ClientOK, LinksOK, ClientFresh, JoinRefresh

\* What has gone wrong cannot be undone.
LEMMA NeverUndone ==
  ASSUME [MobileNext]_mobileVars
  PROVE  (~ cut' => ~ cut) /\ (~ hasty' => ~ hasty) /\ kept \subseteq kept'
<1> DEFINE Goal == (~ cut' => ~ cut) /\ (~ hasty' => ~ hasty) /\ kept \subseteq kept'
<1>1. ASSUME \/ ReadKeychain \/ ReadFails \/ RefreshUnknown \/ RefreshLost \/ StoreRotated
             \/ LoginFails \/ StoreLogin \/ PushUnregistered \/ PushUnauthorised
             \/ LogoutServed \/ LogoutUnauthorised \/ LogoutFails
      PROVE  UNCHANGED <<cut, hasty, kept>>
  BY <1>1 DEF ReadKeychain, ReadFails, RefreshUnknown, RefreshLost, StoreRotated,
     LoginFails, StoreLogin, PushUnregistered, PushUnauthorised,
     LogoutServed, LogoutUnauthorised, LogoutFails, faults
<1>2. ASSUME NEW r \in Requests,
             RefreshArrives(r) \/ RefreshAnswered(r) \/ RefreshRefused(r)
             \/ LoginArrives(r) \/ LoginAnswered(r)
      PROVE  UNCHANGED <<cut, hasty, kept>>
  BY <1>2 DEF RefreshArrives, RefreshAnswered, RefreshRefused, LoginArrives, LoginAnswered, faults
<1>3. ASSUME NEW c \in Calls, CallSucceeds(c) \/ CallUnauthorised(c) \/ CallFails(c)
      PROVE  UNCHANGED <<cut, hasty, kept>>
  BY <1>3 DEF CallSucceeds, CallUnauthorised, CallFails, faults
<1>4. CASE StartCall
  BY <1>4, Zenon DEF StartCall, faults
<1>5. CASE Submit
  BY <1>5, Zenon DEF Submit, faults
<1>6. CASE PressSignOut
  BY <1>6, Zenon DEF PressSignOut, faults
<1>7. CASE Kill
  BY <1>7, Zenon DEF Kill, faults
<1>8. ASSUME ServerStep \/ UNCHANGED mobileVars
      PROVE  UNCHANGED <<cut, hasty, kept>>
  BY <1>8 DEF ServerStep, clientVars, mobileVars, faults
<1>9. ASSUME UNCHANGED <<cut, hasty, kept>>
      PROVE  Goal
  BY <1>9, Zenon
<1>10. ASSUME DeleteStored \/ LogoutClears
       PROVE  Goal
  <2>1. UNCHANGED <<cut, hasty>> /\ kept \subseteq kept'
    BY <1>10 DEF DeleteStored, LogoutClears, DeleteItem
  <2>2. QED
    BY <2>1, Zenon
<1>11. StartCall \/ Submit \/ PressSignOut \/ Kill => Goal
  BY <1>4, <1>5, <1>6, <1>7, Zenon
<1> HIDE DEF Goal
<1>12. Goal
  BY <1>1, <1>2, <1>3, <1>8, <1>9, <1>10, <1>11 DEF MobileNext
<1>13. QED
  BY <1>12 DEF Goal

LEMMA FreshStep ==
  ASSUME SessionInv, ClientOK, OneHolder, ClientFresh, [MobileNext]_mobileVars, ~ cut'
  PROVE  OneHolder' /\ ClientFresh'
<1> USE ClientRecords, ClientAssumption
<1>0. /\ LinksOK /\ Taken \subseteq Issued \cup {NoToken}
      /\ refresh.token \in Issued \cup {NoToken} /\ keychain \in Issued \cup {NoToken}
      /\ enter.token \in Issued \cup {NoToken} /\ refresh \in Refreshes /\ enter \in Entries
      /\ kept \subseteq kept' /\ kept \subseteq Issued
  BY TakenIsIssued, NeverUndone DEF ClientOK, ClientTypeOK, Refreshes, Entries
<1>1. ASSUME UNCHANGED vars
      PROVE  OneHolder' /\ Taken' \subseteq Taken
  <2>1. KeepsHolders
    BY <1>1 DEF vars, storeVars, requestVars, KeepsHolders
  <2>2. QED
    BY <1>0, <2>1, HoldersKept
<1>2. CASE ReadKeychain
  <2>1. UNCHANGED <<vars, keychain, enter>> /\ refresh.at = "reading"
    BY <1>2 DEF ReadKeychain
  <2>2. CASE keychain = NoToken
    <3>1. refresh' = Nothing
      BY <1>2, <2>2 DEF ReadKeychain, Settle
    <3>2. QED
      BY <1>0, <1>1, <2>1, <2>2, <3>1 DEF ClientFresh, LinksOK
  <2>3. CASE keychain # NoToken
    <3>1. refresh' = Exchange("sent", keychain, NoRequest)
      BY <1>2, <2>3 DEF ReadKeychain
    <3>2. QED
      BY <1>1, <2>1, <2>3, <3>1 DEF ClientFresh
  <2>4. QED
    BY <2>2, <2>3
<1>3. CASE RefreshUnknown \/ RefreshLost
  BY <1>1, <1>3, SameCredentials DEF RefreshUnknown, RefreshLost, GiveUp
<1>4. CASE ReadFails
  <2>1. UNCHANGED <<vars, keychain, enter>> /\ refresh.at = "reading" /\ refresh' = Nothing
    BY <1>4 DEF ReadFails, Settle
  <2>2. QED
    BY <1>0, <1>1, <2>1 DEF ClientFresh, LinksOK
<1>5. CASE StoreRotated
  <2>1. UNCHANGED <<vars, enter>> /\ refresh.at = "storing"
    BY <1>5 DEF StoreRotated
  <2>2. CASE keychain' = refresh.token /\ refresh' = Nothing
    BY <1>0, <1>1, <2>1, <2>2 DEF ClientFresh, LinksOK
  <2>3. CASE GiveUp /\ UNCHANGED keychain
    BY <1>1, <2>1, <2>3, SameCredentials DEF GiveUp
  <2>4. QED
    BY <1>5, <2>2, <2>3 DEF StoreRotated, Settle
\* What could not be deleted is excepted from now on.
<1>6. CASE DeleteStored
  <2>1. /\ keychain' = NoToken \/ (keychain' = keychain /\ {keychain} \ {NoToken} \subseteq kept')
        /\ refresh' = Nothing /\ UNCHANGED <<vars, enter>>
    BY <1>6 DEF DeleteStored, DeleteItem, Settle
  <2>2. keychain' \in Taken' => keychain' = NoToken
    BY <2>1 DEF Taken
  <2>3. QED
    BY <1>0, <1>1, <2>1, <2>2 DEF ClientFresh, LinksOK
<1>7. CASE StartCall
  BY <1>1, <1>7, SameCredentials DEF StartCall
<1>8. ASSUME NEW c \in Calls, CallSucceeds(c) \/ CallUnauthorised(c) \/ CallFails(c)
      PROVE  OneHolder' /\ ClientFresh'
  BY <1>1, <1>8, SameCredentials DEF CallSucceeds, CallUnauthorised, CallFails
<1>9. CASE PressSignOut \/ PushUnregistered \/ PushUnauthorised \/ LogoutUnauthorised \/ LogoutFails
  BY <1>1, <1>9, SameCredentials
     DEF PressSignOut, PushUnregistered, PushUnauthorised, LogoutUnauthorised, LogoutFails
<1>10. CASE Submit \/ LoginFails
  BY <1>1, <1>10, SameCredentials DEF Submit, LoginFails
<1>11. CASE StoreLogin
  <2>1. /\ enter.at = "storing" /\ keychain' \in {enter.token, keychain} /\ enter' = Nothing
        /\ UNCHANGED <<vars, refresh>>
    BY <1>11 DEF StoreLogin
  <2>2. QED
    BY <1>0, <1>1, <2>1 DEF ClientFresh, LinksOK
<1>12. CASE LogoutClears
  <2>1. keychain' \in {NoToken, keychain} /\ UNCHANGED <<vars, refresh, enter>>
    BY <1>12 DEF LogoutClears, DeleteItem
  <2>2. QED
    BY <1>0, <1>1, <2>1 DEF ClientFresh, LinksOK
<1>13. CASE Kill
  <2>1. /\ refresh.at \in {"idle", "reading"} /\ refresh' = Reading /\ enter' = Nothing
        /\ UNCHANGED <<vars, keychain>>
    BY <1>0, <1>13 DEF Kill, Refreshes
  <2>2. QED
    BY <1>0, <1>1, <2>1 DEF ClientFresh
<1>14. ASSUME NEW r \in Requests, RefreshArrives(r)
       PROVE  OneHolder' /\ ClientFresh'
  <2>1. /\ refresh.at = "sent" /\ refresh.req = NoRequest /\ Refresh(r, refresh.token)
        /\ refresh' = [refresh EXCEPT !.req = r] /\ UNCHANGED <<keychain, enter, kept>>
    BY <1>14 DEF RefreshArrives, faults
  <2>2. refresh'.at = "sent" /\ refresh'.req = r /\ refresh'.token = refresh.token /\ r # NoRequest
    BY <1>0, <2>1 DEF Refreshes
  <2>3. refresh.token \notin Taken
    BY <2>1 DEF ClientFresh
  <2>4. OneHolder' /\ Taken' \subseteq Taken \cup {refresh.token}
    BY <2>1, <2>3, RefreshEffect
  <2>5. QED
    BY <2>1, <2>2, <2>4 DEF ClientFresh
<1>15. ASSUME NEW r \in Requests, RefreshAnswered(r)
       PROVE  OneHolder' /\ ClientFresh'
  <2>1. /\ nextToken \notin Issued /\ nextToken # NoToken /\ nextToken \notin Taken'
        /\ Taken' \subseteq Taken \cup {NoToken} /\ OneHolder'
    BY <1>0, <1>15, IssueEffect DEF RefreshAnswered, faults
  <2>2. UNCHANGED <<keychain, enter>>
    BY <1>15 DEF RefreshAnswered
  <2>3. CASE refresh' = Exchange("storing", nextToken, NoRequest)
    BY <1>0, <2>1, <2>2, <2>3 DEF ClientFresh, LinksOK
  <2>4. CASE refresh' = refresh
    BY <2>1, <2>2, <2>4, SameCredentials
  <2>5. QED
    BY <1>15, <2>3, <2>4 DEF RefreshAnswered
<1>16. ASSUME NEW r \in Requests, RefreshRefused(r)
       PROVE  OneHolder' /\ ClientFresh'
  BY <1>0, <1>16, ServerEffect, HoldersKept, SameCredentials DEF RefreshRefused, GiveUp
<1>17. ASSUME NEW r \in Requests, LoginArrives(r)
       PROVE  OneHolder' /\ ClientFresh'
  <2>1. enter'.at # "storing" /\ UNCHANGED <<refresh, keychain>>
    BY <1>0, <1>17 DEF LoginArrives, Entries
  <2>2. QED
    BY <1>0, <1>17, <2>1, ServerEffect, HoldersKept, SameCredentials DEF LoginArrives
<1>18. ASSUME NEW r \in Requests, LoginAnswered(r)
       PROVE  OneHolder' /\ ClientFresh'
  <2>1. /\ nextToken \notin Issued /\ nextToken # NoToken /\ nextToken \notin Taken'
        /\ Taken' \subseteq Taken \cup {NoToken} /\ OneHolder'
    BY <1>0, <1>18, IssueEffect DEF LoginAnswered, faults
  <2>2. UNCHANGED <<keychain, refresh>>
    BY <1>18 DEF LoginAnswered
  <2>3. CASE enter' = Exchange("storing", nextToken, NoRequest)
    BY <1>0, <2>1, <2>2, <2>3 DEF ClientFresh, LinksOK
  <2>4. CASE enter' = enter
    BY <2>1, <2>2, <2>4, SameCredentials
  <2>5. QED
    BY <1>18, <2>3, <2>4 DEF LoginAnswered
<1>19. CASE LogoutServed
  <2>1. KeepsHolders
    BY <1>19 DEF LogoutServed, Logout, Revoke, KeepsHolders, requestVars
  <2>2. QED
    BY <1>0, <1>19, <2>1, HoldersKept, SameCredentials DEF LogoutServed
<1>20. CASE ServerStep
  <2>1. KeepsHolders
    BY <1>20, ServerEffect
       DEF ServerStep, DeleteAccount, PurgeExpired, Tick, KeepsHolders, requestVars, storeVars
  <2>2. /\ refresh' = refresh \/ refresh' = Exchange("clearing", NoToken, NoRequest)
        /\ enter' = enter \/ enter' = Nothing
        /\ keychain' = keychain
    BY <1>20 DEF ServerStep, clientVars, GiveUp
  <2>3. QED
    BY <1>0, <2>1, <2>2, HoldersKept, SameCredentials
<1>21. CASE UNCHANGED mobileVars
  BY <1>1, <1>21, SameCredentials DEF mobileVars, clientVars
<1>22. QED
  BY <1>2, <1>3, <1>5, <1>6, <1>7, <1>8, <1>9, <1>10, <1>11, <1>12, <1>13, <1>14, <1>15, <1>16, <1>17,
     <1>18, <1>19, <1>20, <1>21, <1>4 DEF MobileNext

-----------------------------------------------------------------------------
(* A sign-out with nothing else in flight *)

\* Until a sign-out has overlapped with something: while one is under way only it can refresh,
\* the start screen and whoever gives up have no access token, and at the form there is no
\* credential but what the keychain has failed to delete or to store.
Calm ==
  /\ leave.at # "idle" => CallsIdle /\ enter.at = "idle"
  /\ leave.at \notin {"idle", "waiting", "pushWaiting"} => refresh.at = "idle"
  /\ screen = "auth" /\ leave.at = "idle" =>
       refresh.at = "idle" /\ CallsIdle /\ keychain \in kept \cup {NoToken}
  /\ screen = "auth" /\ leave.at = "idle" /\ enter.at # "storing" =>
       access \in adrift \cup {NoToken}
  /\ enter.at = "storing" => access = enter.token
  /\ screen = "restoring" /\ refresh.at # "storing" => access = NoToken
  /\ refresh.at = "clearing" \/ leave.at = "clearing" => access = NoToken

\* The client gives up on a refresh.
LEMMA GiveUpIsCalm ==
  ASSUME ClientOK, Calm, refresh.at \in {"sent", "storing"}, GiveUp, enter' = enter \/ enter' = Nothing,
         UNCHANGED <<keychain, screen, leave, call, kept, adrift>>
  PROVE  Calm'
  BY ClientRecords DEF GiveUp, Calm, ClientOK, LinksOK, CallsIdle

LEMMA CalmStep ==
  ASSUME SessionInv, ClientOK, Calm, [MobileNext]_mobileVars, ~ hasty'
  PROVE  Calm'
<1> USE ClientRecords
<1>0. /\ LinksOK /\ ClientTypeOK /\ access \in Issued \cup {NoToken}
      /\ refresh \in Refreshes /\ enter \in Entries /\ leave \in Departures
      /\ call \in [Calls -> CallSteps] /\ kept \subseteq kept'
  BY NeverUndone DEF ClientOK, ClientTypeOK, Refreshes, Entries, Departures, CallSteps
\* The promise ends in failure.
<1>1. ASSUME NEW start \in {"auth", "stuck"}, Settle(FALSE, start),
              UNCHANGED <<enter, adrift>>, refresh.at \in {"reading", "clearing"},
              keychain' = keychain \/ keychain' = NoToken,
              start = "auth" => keychain' \in kept' \cup {NoToken}
       PROVE  Calm'
  <2>1. /\ refresh' = Nothing /\ (CallsIdle => CallsIdle')
        /\ leave'.at = CASE leave.at = "waiting" -> "clearing"
                         [] leave.at = "pushWaiting" -> "sent"
                         [] OTHER -> leave.at
        /\ screen' = IF screen = "restoring" THEN start
                     ELSE IF leave.at = "pushWaiting" THEN "auth" ELSE screen
        /\ access' = IF leave.at = "waiting" THEN NoToken ELSE access
    BY <1>0, <1>1, SettleEffect
  <2>2. screen = "auth" /\ leave.at = "idle" => FALSE
    BY <1>1 DEF Calm
  <2>3. screen = "restoring" => access = NoToken /\ leave.at = "idle" /\ CallsIdle
    BY <1>0, <1>1 DEF Calm, LinksOK
  <2>4. enter.at = "storing" => FALSE
    BY <1>0, <1>1 DEF Calm, LinksOK
  <2>5. QED
    BY <1>0, <1>1, <2>1, <2>2, <2>3, <2>4 DEF Calm, LinksOK
<1>2. CASE ReadKeychain
  <2>1. CASE keychain = NoToken
    BY <1>2, <1>1, <2>1 DEF ReadKeychain, faults
  <2>2. CASE keychain # NoToken
    <3>1. /\ refresh' = Exchange("sent", keychain, NoRequest) /\ refresh.at = "reading"
          /\ UNCHANGED <<access, keychain, enter, screen, leave, call, kept, adrift>>
      BY <1>2, <2>2 DEF ReadKeychain, faults
    <3>2. QED
      BY <3>1 DEF Calm, CallsIdle
  <2>3. QED
    BY <2>1, <2>2
<1>3. CASE ReadFails
  BY <1>1, <1>3 DEF ReadFails, faults
<1>4. CASE RefreshUnknown \/ RefreshLost
  BY <1>4, GiveUpIsCalm DEF RefreshUnknown, RefreshLost, faults
<1>5. CASE StoreRotated
  <2>1. ASSUME NEW start \in {"tasks"}, Settle(TRUE, start), keychain' = refresh.token
        PROVE  Calm'
    <3>1. UNCHANGED enter /\ refresh.at = "storing"
      BY <1>5 DEF StoreRotated
    <3>2. /\ refresh' = Nothing
          /\ screen' = IF screen = "restoring" THEN start ELSE screen
          /\ leave'.at = CASE leave.at = "waiting" -> "retrying"
                           [] leave.at = "pushWaiting" -> "pushRetrying"
                           [] OTHER -> leave.at
      BY <2>1 DEF Settle
    <3>3. CallsIdle /\ screen # "restoring" => CallsIdle'
      BY <1>0, <2>1, SettleEffect
    <3>4. screen = "auth" /\ leave.at = "idle" => FALSE
      BY <3>1 DEF Calm
    <3>5. enter.at = "storing" => FALSE
      BY <1>0, <3>1 DEF Calm, LinksOK
    <3>6. QED
      BY <1>0, <2>1, <3>1, <3>2, <3>4, <3>5, <3>3 DEF Calm, LinksOK
  <2>2. CASE GiveUp /\ UNCHANGED <<keychain, screen, registered, leave, call>>
    BY <1>5, <2>2, GiveUpIsCalm DEF StoreRotated, faults
  <2>3. QED
    BY <1>5, <2>1, <2>2 DEF StoreRotated
<1>6. CASE DeleteStored
  BY <1>6, <1>1 DEF DeleteStored, DeleteItem
<1>7. CASE StartCall
  <2>1. /\ screen = "tasks" /\ leave.at = "idle"
        /\ UNCHANGED <<access, keychain, screen, refresh, enter, leave, adrift>>
    BY <1>7 DEF StartCall, faults
  <2>2. QED
    BY <2>1 DEF Calm
<1>8. ASSUME NEW c \in Calls, CallSucceeds(c) \/ CallUnauthorised(c) \/ CallFails(c)
      PROVE  Calm'
  <2>1. /\ call[c] # "idle" /\ UNCHANGED <<access, keychain, screen, enter, leave, adrift>>
        /\ refresh' = refresh \/ JoinRefresh
    BY <1>8 DEF CallSucceeds, CallUnauthorised, CallFails, faults
  <2>2. leave.at = "idle" /\ screen # "auth"
    BY <1>0, <2>1 DEF Calm, CallsIdle
  <2>3. refresh'.at = "clearing" => refresh.at = "clearing"
    BY <2>1 DEF JoinRefresh
  <2>4. screen = "restoring" => FALSE
    BY <1>0, <2>1 DEF LinksOK, CallsIdle
  <2>5. refresh.at # "storing" \/ refresh' = refresh
    BY <2>1 DEF JoinRefresh
  <2>6. QED
    BY <2>1, <2>2, <2>3, <2>4, <2>5 DEF Calm
<1>9. CASE Submit
  <2>1. /\ screen = "auth" /\ enter.at = "idle" /\ leave.at = "idle"
        /\ enter' = Exchange("sent", NoToken, NoRequest)
        /\ UNCHANGED <<access, keychain, screen, refresh, leave, call, adrift>>
    BY <1>9 DEF Submit, faults
  <2>2. QED
    BY <1>0, <2>1 DEF Calm, CallsIdle
<1>10. CASE LoginFails
  <2>1. /\ enter.at = "sent" /\ enter' = Nothing
        /\ UNCHANGED <<access, keychain, screen, refresh, leave, call, adrift>>
    BY <1>10 DEF LoginFails, faults
  <2>2. QED
    BY <1>0, <2>1 DEF Calm, CallsIdle
<1>11. CASE StoreLogin
  <2>1. enter.at = "storing" /\ enter' = Nothing /\ UNCHANGED <<access, refresh, leave, kept>>
    BY <1>11 DEF StoreLogin
  <2>2. leave.at = "idle" /\ refresh.at = "idle" /\ screen = "auth" /\ access = enter.token
    BY <1>0, <2>1 DEF Calm, LinksOK
  <2>3. CASE screen' = "tasks"
    BY <2>1, <2>2, <2>3 DEF Calm
  \* The access token is adrift.
  <2>4. CASE adrift' = adrift \cup {enter.token} /\ UNCHANGED <<keychain, screen, call>>
    <3>1. keychain \in kept \cup {NoToken} /\ CallsIdle
      BY <2>1, <2>2 DEF Calm
    <3>2. QED
      BY <2>1, <2>2, <2>4, <3>1 DEF Calm, CallsIdle
  <2>5. QED
    BY <1>11, <2>3, <2>4 DEF StoreLogin
<1>12. CASE PressSignOut
  <2>1. /\ screen = "tasks" /\ leave.at = "idle" /\ refresh = Nothing
        /\ \A c \in Calls : call[c] = "idle"
        /\ leave'.at \in {"push", "sent"}
        /\ UNCHANGED <<access, keychain, refresh, enter, call, adrift>>
        /\ screen' \in {"tasks", "auth"}
    <3>1. refresh = Nothing /\ \A c \in Calls : call[c] = "idle"
      BY <1>12, Zenon DEF PressSignOut
    <3>2. QED
      BY <1>12, <3>1 DEF PressSignOut, faults
  <2>2. enter.at = "idle"
    BY <1>0, <2>1 DEF LinksOK
  <2>3. QED
    BY <1>0, <2>1, <2>2 DEF Calm, CallsIdle
<1>13. CASE PushUnregistered
  <2>1. /\ leave.at \in {"push", "pushRetrying"} /\ leave'.at = "sent"
        /\ screen' = "auth" /\ UNCHANGED <<access, keychain, refresh, enter, call, adrift>>
    BY <1>13 DEF PushUnregistered, faults
  <2>2. QED
    BY <1>0, <2>1 DEF Calm, CallsIdle
<1>14. CASE PushUnauthorised \/ LogoutUnauthorised
  <2>1. /\ leave.at \in {"push", "sent"} /\ leave'.at \in {"pushWaiting", "waiting"} /\ JoinRefresh
        /\ UNCHANGED <<access, keychain, screen, enter, call, adrift>>
    BY <1>14 DEF PushUnauthorised, LogoutUnauthorised, faults
  <2>2. refresh.at = "idle" /\ refresh' = Reading
    BY <2>1 DEF Calm, JoinRefresh
  <2>3. QED
    BY <1>0, <2>1, <2>2 DEF Calm, CallsIdle
<1>15. CASE LogoutServed \/ LogoutFails
  <2>1. /\ leave.at \in {"sent", "retrying"} /\ leave'.at = "clearing" /\ access' = NoToken
        /\ UNCHANGED <<keychain, screen, refresh, enter, call, adrift>>
    BY <1>15 DEF LogoutServed, LogoutFails, faults
  <2>2. QED
    BY <1>0, <2>1 DEF Calm, CallsIdle
<1>16. CASE LogoutClears
  <2>1. /\ leave.at = "clearing" /\ leave'.at = "idle" /\ keychain' \in kept' \cup {NoToken}
        /\ UNCHANGED <<access, screen, refresh, enter, call, adrift>>
    BY <1>16 DEF LogoutClears, DeleteItem
  <2>2. QED
    BY <1>0, <2>1 DEF Calm, CallsIdle
<1>17. CASE Kill
  <2>1. /\ access' = NoToken /\ screen' = "restoring" /\ refresh' = Reading /\ leave'.at = "idle"
        /\ enter' = Nothing
    BY <1>17 DEF Kill
  <2>2. QED
    BY <2>1 DEF Calm
\* The server's answers.
<1>18. ASSUME NEW r \in Requests, RefreshAnswered(r) \/ RefreshRefused(r)
       PROVE  Calm'
  <2>1. UNCHANGED <<keychain, screen, enter, leave, call, kept, adrift>> /\ r # NoRequest
    BY <1>18, ClientAssumption DEF RefreshAnswered, RefreshRefused, faults
  <2>2. CASE refresh.req = r
    <3>1. refresh.at = "sent"
      BY <1>0, <2>1, <2>2 DEF LinksOK
    <3>2. CASE RefreshRefused(r)
      BY <2>1, <2>2, <3>1, <3>2, GiveUpIsCalm DEF RefreshRefused
    <3>3. CASE RefreshAnswered(r)
      <4>1. refresh'.at = "storing"
        BY <2>2, <3>3 DEF RefreshAnswered
      <4>2. enter.at = "storing" => FALSE
        BY <1>0, <3>1 DEF Calm, LinksOK
      <4>3. QED
        BY <2>1, <3>1, <4>1, <4>2 DEF Calm, CallsIdle
    <3>4. QED
      BY <1>18, <3>2, <3>3
  <2>3. CASE refresh.req # r
    <3>1. UNCHANGED <<refresh, access>>
      BY <1>18, <2>3 DEF RefreshAnswered, RefreshRefused
    <3>2. QED
      BY <2>1, <3>1 DEF Calm, CallsIdle
  <2>4. QED
    BY <2>2, <2>3
<1>19. ASSUME NEW r \in Requests, RefreshArrives(r)
       PROVE  Calm'
  <2>1. /\ refresh' = [refresh EXCEPT !.req = r]
        /\ UNCHANGED <<access, keychain, screen, enter, leave, call, kept, adrift>>
    BY <1>19 DEF RefreshArrives, faults
  <2>2. refresh'.at = refresh.at
    BY <1>0, <2>1 DEF Refreshes
  <2>3. QED
    BY <1>0, <2>1, <2>2 DEF Calm, CallsIdle
<1>20. ASSUME NEW r \in Requests, LoginArrives(r)
       PROVE  Calm'
  <2>1. /\ enter' = [enter EXCEPT !.req = r]
        /\ UNCHANGED <<access, keychain, screen, refresh, leave, call, kept, adrift>>
    BY <1>20 DEF LoginArrives, faults
  <2>2. enter'.at = enter.at /\ enter'.token = enter.token
    BY <1>0, <2>1 DEF Entries
  <2>3. QED
    BY <1>0, <2>1, <2>2 DEF Calm, CallsIdle
<1>21. ASSUME NEW r \in Requests, LoginAnswered(r)
       PROVE  Calm'
  <2>1. UNCHANGED <<keychain, screen, refresh, leave, call, kept, adrift>> /\ r # NoRequest
    BY <1>21, ClientAssumption DEF LoginAnswered, faults
  <2>2. CASE enter.req = r
    <3>1. enter.at = "sent" /\ enter'.at = "storing" /\ access' = enter'.token
      BY <1>0, <1>21, <2>1, <2>2 DEF LinksOK, LoginAnswered
    <3>2. screen = "auth" /\ leave.at = "idle" /\ refresh.at = "idle"
      BY <1>0, <3>1 DEF LinksOK, Calm
    <3>3. QED
      BY <2>1, <3>1, <3>2 DEF Calm, CallsIdle
  <2>3. CASE enter.req # r
    <3>1. UNCHANGED <<enter, access>>
      BY <1>21, <2>3 DEF LoginAnswered
    <3>2. QED
      BY <2>1, <3>1 DEF Calm, CallsIdle
  <2>4. QED
    BY <2>2, <2>3
<1>22. CASE ServerStep
  <2>1. CASE UNCHANGED clientVars
    BY <2>1 DEF clientVars, faults, Calm, CallsIdle
  <2>2. ASSUME NEW r \in Requests,
               IF refresh.req = r THEN GiveUp ELSE UNCHANGED <<refresh, access>>,
               enter' = IF enter.req = r THEN Nothing ELSE enter,
               UNCHANGED <<keychain, screen, registered, leave, call, cut, hasty, faults>>
        PROVE  Calm'
    <3>1. r # NoRequest /\ (enter' = enter \/ enter' = Nothing)
      BY <2>2, ClientAssumption
    <3>2. CASE refresh.req = r
      <4>1. refresh.at = "sent"
        BY <1>0, <3>1, <3>2 DEF LinksOK
      <4>2. QED
        BY <2>2, <3>1, <3>2, <4>1, GiveUpIsCalm DEF faults
    <3>3. CASE refresh.req # r
      <4>1. UNCHANGED <<refresh, access, keychain, screen, leave, call, kept, adrift>>
        BY <2>2, <3>3 DEF faults
      <4>2. enter.at = "storing" => enter' = enter
        BY <1>0, <2>2, <3>1 DEF LinksOK
      <4>3. QED
        BY <3>1, <4>1, <4>2 DEF Calm, CallsIdle
    <3>4. QED
      BY <3>2, <3>3
  <2>3. QED
    BY <1>22, <2>1, <2>2 DEF ServerStep
<1>23. CASE UNCHANGED mobileVars
  BY <1>23 DEF mobileVars, clientVars, faults, Calm, CallsIdle
<1>24. QED
  BY <1>2, <1>4, <1>5, <1>6, <1>7, <1>8, <1>9, <1>10, <1>11, <1>12, <1>13, <1>14, <1>15, <1>16, <1>17,
     <1>18, <1>19, <1>20, <1>21, <1>22, <1>23, <1>3 DEF MobileNext

-----------------------------------------------------------------------------
(* No false alarm *)

\* Nobody has been taken for a thief, and what the app will present, or store to present
\* later, is not revoked.  While sign-out waits to delete it, the stored token may be.
Unrevoked ==
  /\ exposed = {} /\ \A r \in Requests : pc[r] # "reuse"
  /\ refresh.at \in {"idle", "reading"} /\ leave.at # "clearing" => keychain \notin revoked
  /\ refresh.at = "sent" /\ refresh.req = NoRequest => refresh.token \notin revoked
  /\ refresh.at = "storing" => refresh.token \notin revoked
  /\ enter.at = "storing" => enter.token \notin revoked

LEMMA NoTokenIsNone == SessionInv => NoToken \notin revoked \cup HeldTokens
  BY DEF SessionInv, SessionTypeOK, RequestsCoherent, HeldTokens, Issued, Tokens, NoToken

\* A step that revokes only what requests hold, and after which the app has no token it had not.
LEMMA StillUnrevoked ==
  ASSUME SessionInv, ClientOK, ClientFresh, Unrevoked, kept = {},
         exposed' = exposed, revoked' \subseteq revoked \cup HeldTokens,
         \A r \in Requests : pc'[r] = "reuse" => pc[r] = "reuse",
         refresh' = refresh \/ JoinRefresh \/ refresh' = Exchange("clearing", NoToken, NoRequest),
         enter'.at = "storing" => enter' = enter,
         leave.at = "clearing" => leave'.at = "clearing",
         keychain' = keychain
  PROVE  Unrevoked'
<1> USE ClientRecords
<1>1. refresh'.at \in {"idle", "reading"} => refresh.at \in {"idle", "reading"}
  BY DEF JoinRefresh
<1>2. refresh.at \in {"idle", "reading"} => keychain \notin HeldTokens
  BY NoTokenIsNone DEF ClientFresh, Taken
<1>3. refresh'.at \in {"idle", "reading"} /\ leave'.at # "clearing" => keychain \notin revoked'
  BY <1>1, <1>2 DEF Unrevoked
<1>4. /\ refresh'.at \in {"sent", "storing"} => refresh' = refresh
  BY DEF JoinRefresh
<1>5. /\ refresh'.at = "sent" /\ refresh'.req = NoRequest => refresh'.token \notin revoked'
      /\ refresh'.at = "storing" => refresh'.token \notin revoked'
  BY <1>4 DEF Unrevoked, ClientFresh, Taken
<1>6. enter'.at = "storing" => enter'.token \notin revoked'
  BY DEF Unrevoked, ClientFresh, Taken
<1>7. QED
  BY <1>3, <1>5, <1>6 DEF Unrevoked

\* What the server does of itself revokes only what requests hold.
LEMMA ServerStepEffect ==
  ASSUME SessionInv, ServerStep
  PROVE  KeepsHolders /\ revoked' \subseteq revoked \cup HeldTokens /\ exposed' = exposed
<1>1. CASE \E r \in Requests : ResolveUser(r) \/ RevokePresented(r) \/ Abandon(r)
  BY <1>1, ServerEffect
<1>2. CASE DeleteAccount(Owner) \/ PurgeExpired \/ Tick
  BY <1>2 DEF DeleteAccount, PurgeExpired, Tick, KeepsHolders, requestVars, storeVars
<1>3. QED
  BY <1>1, <1>2 DEF ServerStep

LEMMA UnrevokedStep ==
  ASSUME SessionInv, ClientOK, OneHolder, ClientFresh, Calm, Unrevoked,
         [MobileNext]_mobileVars, ~ cut', kept' = {}
  PROVE  Unrevoked'
<1> USE ClientRecords, ClientAssumption
<1>0. /\ LinksOK /\ refresh \in Refreshes /\ enter \in Entries
      /\ NoToken \notin revoked /\ Nothing.at # "sent" /\ kept = {}
  BY NoTokenIsNone, NeverUndone DEF ClientOK, ClientTypeOK, Refreshes, Entries
\* The server stands still.
<1>1. ASSUME UNCHANGED vars
      PROVE  UNCHANGED <<revoked, exposed, pc>>
  BY <1>1 DEF vars, storeVars, requestVars
<1>2. CASE ReadKeychain
  <2>1. /\ UNCHANGED <<vars, keychain, enter>> /\ refresh.at = "reading" /\ leave.at # "clearing"
        /\ \/ keychain = NoToken /\ refresh' = Nothing
           \/ refresh' = Exchange("sent", keychain, NoRequest)
    BY <1>2 DEF ReadKeychain, Settle, Calm
  <2>2. QED
    BY <1>0, <1>1, <2>1 DEF Unrevoked
<1>3. CASE RefreshUnknown \/ RefreshLost
  BY <1>0, <1>1, <1>3, StillUnrevoked DEF RefreshUnknown, RefreshLost, GiveUp
<1>4. CASE StoreRotated \/ DeleteStored \/ ReadFails
  <2>1. UNCHANGED <<vars, enter>>
    BY <1>4 DEF StoreRotated, DeleteStored, ReadFails
  <2>2. CASE refresh' = Nothing /\ keychain' \in {NoToken, refresh.token} /\ refresh.at = "storing"
    BY <1>0, <1>1, <2>1, <2>2 DEF Unrevoked
  <2>3. CASE refresh' = Nothing /\ keychain' = NoToken
    BY <1>0, <1>1, <2>1, <2>3 DEF Unrevoked
  <2>4. CASE refresh' = Nothing /\ keychain' = keychain /\ refresh.at = "reading"
    <3>1. leave.at # "clearing"
      BY <2>4 DEF Calm
    <3>2. QED
      BY <1>0, <1>1, <2>1, <2>4, <3>1 DEF Unrevoked
  <2>5. CASE StoreRotated /\ GiveUp /\ UNCHANGED <<keychain, leave>>
    BY <1>0, <1>1, <2>1, <2>5, StillUnrevoked DEF GiveUp
  <2>6. DeleteStored => refresh' = Nothing /\ keychain' = NoToken
    BY <1>0 DEF DeleteStored, DeleteItem, Settle
  <2>7. QED
    BY <1>4, <2>2, <2>3, <2>4, <2>5, <2>6 DEF StoreRotated, ReadFails, Settle
<1>5. CASE StartCall \/ Submit \/ LoginFails
  BY <1>0, <1>1, <1>5, StillUnrevoked DEF StartCall, Submit, LoginFails
<1>6. ASSUME NEW c \in Calls, CallSucceeds(c) \/ CallUnauthorised(c) \/ CallFails(c)
      PROVE  Unrevoked'
  BY <1>0, <1>1, <1>6, StillUnrevoked DEF CallSucceeds, CallUnauthorised, CallFails
<1>7. CASE StoreLogin
  <2>1. /\ UNCHANGED <<vars, refresh, leave>> /\ enter.at = "storing" /\ keychain' \in {enter.token, keychain}
        /\ enter' = Nothing
    BY <1>7 DEF StoreLogin
  <2>2. QED
    BY <1>1, <2>1 DEF Unrevoked
<1>8. CASE PressSignOut \/ PushUnregistered \/ PushUnauthorised \/ LogoutUnauthorised
  <2>1. /\ UNCHANGED <<vars, keychain, enter>> /\ leave.at # "clearing"
        /\ refresh' = refresh \/ JoinRefresh
    BY <1>8 DEF PressSignOut, PushUnregistered, PushUnauthorised, LogoutUnauthorised
  <2>2. QED
    BY <1>0, <1>1, <2>1, StillUnrevoked
\* The session is revoked only when nothing but the sign-out is under way.
<1>9. CASE LogoutServed \/ LogoutFails
  <2>1. /\ leave.at \in {"sent", "retrying"} /\ leave'.at = "clearing"
        /\ UNCHANGED <<exposed, pc, refresh, enter>>
    BY <1>1, <1>9 DEF LogoutServed, LogoutFails, Logout, requestVars
  <2>2. refresh.at = "idle" /\ enter.at = "idle"
    BY <2>1 DEF Calm
  <2>3. QED
    BY <2>1, <2>2 DEF Unrevoked
<1>10. CASE LogoutClears
  <2>1. /\ leave.at = "clearing" /\ keychain' = NoToken /\ UNCHANGED <<vars, refresh, enter>>
    BY <1>0, <1>10 DEF LogoutClears, DeleteItem
  <2>2. refresh.at = "idle" /\ enter.at = "idle"
    BY <2>1 DEF Calm
  <2>3. QED
    BY <1>0, <1>1, <2>1, <2>2 DEF Unrevoked
<1>11. CASE Kill
  <2>1. refresh.at \in {"idle", "reading"} /\ leave.at # "clearing"
    <3>1. ~ (\/ refresh.at \in {"sent", "storing", "clearing"}
             \/ leave.at \in {"sent", "waiting", "retrying", "clearing"})
      BY <1>11, Zenon DEF Kill
    <3>2. QED
      BY <1>0, <3>1 DEF Refreshes
  <2>2. UNCHANGED <<vars, keychain>> /\ refresh' = Reading /\ enter' = Nothing
    BY <1>11 DEF Kill
  <2>3. QED
    BY <1>1, <2>1, <2>2 DEF Unrevoked
\* The server's answers.
<1>12. ASSUME NEW r \in Requests, RefreshArrives(r)
       PROVE  Unrevoked'
  <2>1. /\ refresh.at = "sent" /\ refresh.req = NoRequest /\ Refresh(r, refresh.token)
        /\ refresh' = [refresh EXCEPT !.req = r] /\ UNCHANGED <<keychain, enter, leave, kept>>
    BY <1>12 DEF RefreshArrives, faults
  <2>2. refresh'.at = "sent" /\ refresh'.req # NoRequest
    BY <1>0, <2>1 DEF Refreshes
  <2>3. UNCHANGED <<revoked, exposed>> /\ \A q \in Requests : pc'[q] = "reuse" => pc[q] = "reuse"
    BY <2>1, RefreshEffect DEF Unrevoked
  <2>4. QED
    BY <2>1, <2>2, <2>3 DEF Unrevoked
<1>13. ASSUME NEW r \in Requests, RefreshAnswered(r) \/ LoginAnswered(r)
       PROVE  Unrevoked'
  <2>1. /\ nextToken \notin revoked /\ UNCHANGED <<revoked, exposed>>
        /\ \A q \in Requests : pc'[q] = "reuse" => pc[q] = "reuse"
    BY <1>0, <1>13, IssueEffect DEF RefreshAnswered, LoginAnswered, faults
  <2>2. /\ UNCHANGED <<keychain, leave>>
        /\ refresh' = refresh \/ refresh' = Exchange("storing", nextToken, NoRequest)
        /\ enter' = enter \/ enter' = Exchange("storing", nextToken, NoRequest)
    BY <1>13 DEF RefreshAnswered, LoginAnswered
  <2>3. QED
    BY <2>1, <2>2 DEF Unrevoked
<1>14. ASSUME NEW r \in Requests, RefreshRefused(r)
       PROVE  Unrevoked'
  <2>1. KeepsHolders /\ revoked' \subseteq revoked \cup HeldTokens /\ exposed' = exposed
    BY <1>14, ServerEffect DEF RefreshRefused, Unrevoked
  <2>2. QED
    BY <1>0, <1>14, <2>1, StillUnrevoked DEF RefreshRefused, GiveUp, KeepsHolders, Holding
<1>15. ASSUME NEW r \in Requests, LoginArrives(r)
       PROVE  Unrevoked'
  <2>1. KeepsHolders /\ UNCHANGED <<revoked, exposed, refresh, keychain, leave>>
    BY <1>15, ServerEffect DEF LoginArrives
  <2>2. enter'.at # "storing"
    BY <1>0, <1>15 DEF LoginArrives, Entries
  <2>3. QED
    BY <1>0, <2>1, <2>2, StillUnrevoked DEF KeepsHolders, Holding
<1>16. CASE ServerStep
  <2>1. /\ refresh' = refresh \/ refresh' = Exchange("clearing", NoToken, NoRequest)
        /\ enter' = enter \/ enter' = Nothing
        /\ UNCHANGED <<keychain, leave>>
    BY <1>16 DEF ServerStep, clientVars, GiveUp
  <2>2. QED
    BY <1>0, <1>16, <2>1, ServerStepEffect, StillUnrevoked DEF KeepsHolders, Holding
<1>17. CASE UNCHANGED mobileVars
  BY <1>0, <1>1, <1>17, StillUnrevoked DEF mobileVars, clientVars
<1>18. QED
  BY <1>2, <1>3, <1>4, <1>5, <1>6, <1>7, <1>8, <1>9, <1>10, <1>11, <1>12, <1>13, <1>14, <1>15, <1>16,
     <1>17 DEF MobileNext

-----------------------------------------------------------------------------
(* The invariant *)

MobileInv ==
  /\ SessionInv
  /\ ClientOK
  /\ ~ cut => OneHolder /\ ClientFresh
  /\ ~ cut /\ kept = {} => LoginsAlone
  /\ ~ hasty => Calm
  /\ ~ cut /\ ~ hasty /\ kept = {} => Unrevoked

LEMMA MobileInvInit == MobileInit => MobileInv
<1> SUFFICES ASSUME MobileInit PROVE MobileInv
  OBVIOUS
<1> USE ClientRecords, ClientAssumption
<1>1. SessionInv
  BY SessionInvInit DEF MobileInit
<1>2. Issued = {} /\ HeldTokens = {} /\ Taken = {} /\ revoked = {} /\ exposed = {}
  BY DEF MobileInit, SessionInit, Issued, Tokens, Taken, HeldTokens, SpentTokens, Holding
<1>3. leave \in Departures /\ leave.at = "idle"
  BY DEF MobileInit, Leaving, Departures
<1>4. CallsIdle /\ call \in [Calls -> CallSteps]
  BY DEF MobileInit, CallsIdle, CallSteps
<1>5. ClientTypeOK
  BY <1>3, <1>4 DEF MobileInit, ClientTypeOK, Refreshes, Entries, Departures, CallSteps, CallsIdle
<1>6. LinksOK
  BY <1>3, <1>4 DEF MobileInit, LinksOK
<1>7. OneHolder /\ ClientFresh
  BY <1>2 DEF MobileInit, SessionInit, OneHolder, ClientFresh, HeldTokens, Holding, SpentSingly
<1>8. Calm
  BY <1>3, <1>4 DEF MobileInit, Calm
<1>9. Unrevoked
  BY <1>2 DEF MobileInit, SessionInit, Unrevoked
<1>10. LoginsAlone
  BY DEF MobileInit, SessionInit, LoginsAlone, OneLivePerFamily, Live, Rotation
<1>11. QED
  BY <1>1, <1>5, <1>6, <1>7, <1>8, <1>9, <1>10 DEF MobileInv, ClientOK

LEMMA MobileInvInductive == MobileInv /\ [MobileNext]_mobileVars => MobileInv'
<1> SUFFICES ASSUME MobileInv, [MobileNext]_mobileVars PROVE MobileInv'
  OBVIOUS
<1>1. SessionInv /\ ClientOK
  BY DEF MobileInv
<1>2. SessionInv'
  BY <1>1, MobileStepIsSessionStep, SessionInvInductive
<1>3. ClientOK'
  BY <1>1, ClientStep
<1>4. ~ cut' => OneHolder' /\ ClientFresh'
  BY <1>1, FreshStep, NeverUndone DEF MobileInv
<1>5. ~ cut' /\ kept' = {} => LoginsAlone'
  <2> SUFFICES ASSUME ~ cut', kept' = {} PROVE LoginsAlone'
    OBVIOUS
  <2>1. ~ cut /\ kept = {} /\ OneHolder'
    BY <1>4, NeverUndone
  <2>2. NoneShared'
    BY <2>1 DEF OneHolder, NoneShared, Rotation, Holding
  <2>3. QED
    BY <1>1, <2>1, <2>2, MobileStepIsSessionStep, LoginsStep DEF MobileInv
<1>6. ~ hasty' => Calm'
  BY <1>1, CalmStep, NeverUndone DEF MobileInv
<1>7. ~ cut' /\ ~ hasty' /\ kept' = {} => Unrevoked'
  <2>1. kept' = {} => kept = {}
    BY NeverUndone
  <2>2. QED
    BY <1>1, <2>1, UnrevokedStep, NeverUndone DEF MobileInv
<1>8. QED
  BY <1>2, <1>3, <1>4, <1>5, <1>6, <1>7 DEF MobileInv

LEMMA MobileInvariance == MobileSpec => []MobileInv
  BY MobileInvInit, MobileInvInductive, PTL DEF MobileSpec

\* Whatever the app does, the server goes through a history of SessionSpec: the theorems of
\* the first part hold of the composition (api.ts sends what any client may).
THEOREM MobileImplementsSessions == MobileSpec => SessionSpec
<1>1. MobileInit => SessionInit
  BY DEF MobileInit
<1>2. MobileInv /\ [MobileNext]_mobileVars => [SessionNext]_vars
  BY MobileStepIsSessionStep DEF MobileInv
<1>3. QED
  BY <1>1, <1>2, MobileInvariance, PTL DEF MobileSpec, SessionSpec

\* The start screen, a call that waits and a sign-out that waits always have a refresh under
\* way that will end them, whatever the app is killed or disconnected in and whatever the
\* keychain fails to store or delete (api.ts:75-105, App.tsx:26-29); a keychain that cannot be
\* read leaves the start screen "stuck".
THEOREM ClientTypeCorrect == MobileSpec => []ClientTypeOK
<1>1. MobileInv => ClientTypeOK
  BY DEF MobileInv, ClientOK
<1>2. QED
  BY <1>1, MobileInvariance, PTL

\* The shared refresh keeps the rotating token from being spent twice although the server
\* would allow it, with any number of requests at the server (api.ts:69-72): every token but
\* those whose deletion failed.
THEOREM ClientSpendsOnce == MobileSpec => []SpentOnce
<1>1. MobileInv => SpentOnce
  BY DEF MobileInv, OneHolder, SpentSingly, SpentOnce
<1>2. QED
  BY <1>1, MobileInvariance, PTL

\* So a login of the app never has two usable refresh tokens at once, whatever logins, sign-outs,
\* purges and lost answers race with its refreshes, as long as the keychain deletes what it is
\* told to (token.service.ts:162-175).
THEOREM ClientOneLivePerLogin == MobileSpec => [](~ cut /\ kept = {} => OneLivePerFamily)
<1>1. MobileInv => (~ cut /\ kept = {} => OneLivePerFamily)
  BY DEF MobileInv, LoginsAlone
<1>2. QED
  BY <1>1, MobileInvariance, PTL

\* What the next refresh will present has no successor yet, unless it is a token the keychain
\* failed to delete: a write that fails in the middle of a refresh leaves no other behind
\* (api.ts:77-90).
THEOREM ClientKeychainUnspent == MobileSpec => []KeychainUnspent
<1>1. MobileInv => KeychainUnspent
  BY DEF MobileInv, ClientFresh, Taken, SpentTokens, KeychainUnspent
<1>2. QED
  BY <1>1, MobileInvariance, PTL

\* No honest device whose keychain deletes what it is told to is taken for a thief: the lost
\* answers, retries and expiries of the network alone never trigger reuse detection
\* (token.service.ts:138-147).
THEOREM ClientNoFalseAlarm == MobileSpec => []NoFalseAlarm
<1>1. MobileInv => NoFalseAlarm
  BY DEF MobileInv, Unrevoked, NoFalseAlarm
<1>2. QED
  BY <1>1, MobileInvariance, PTL

\* A sign-out that overlapped with nothing leaves no credential behind, whether or not the
\* server was reached, but for exactly the tokens the keychain failed to delete or to store
\* (api.ts:41-49, 131-134, App.tsx:47-51).
THEOREM ClientSignedOutHoldsNothing == MobileSpec => []SignedOutHoldsNothing
<1>1. MobileInv => SignedOutHoldsNothing
  BY DEF MobileInv, Calm, SignedOutHoldsNothing
<1>2. QED
  BY <1>1, MobileInvariance, PTL
=============================================================================
