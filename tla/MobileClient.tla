----------------------------- MODULE MobileClient -----------------------------
(***************************************************************************)
(* The session of the mobile app (apps/mobile: api.ts, push.ts, App.tsx)   *)
(* against the server of TokenSessions: an access token in memory, the     *)
(* refresh token in the keychain, one shared refresh, a logout nobody      *)
(* awaits, an app that can be killed, a network that loses answers and a   *)
(* keychain whose calls can fail, and have then changed nothing.           *)
(*                                                                         *)
(* JavaScript runs one continuation at a time, so an action is what the    *)
(* app does between two awaits.  The access token is the number of the     *)
(* session it names; the server checks it without the database.            *)
(***************************************************************************)
EXTENDS TokenSessions

CONSTANTS
  NoRequest,   \* no request slot of the server
  Owner        \* the user of the device

ASSUME ClientAssumption == NoRequest \notin Requests /\ Owner \in Users

VARIABLES
  access,      \* accessToken, in memory
  keychain,    \* the refresh token in SecureStore
  screen,      \* authed: true is "tasks", false is "auth", null is "restoring", or
               \* "stuck" once nobody is left to set it
  registered,  \* registeredToken of push.ts is set
  refresh,     \* the promise `refreshing`, its token and the slot that serves it
  enter,       \* api.login / api.register
  leave,       \* unregisterPush and api.logout, and the access token it sent
  call,        \* the other requests: "tasks" by the panel, "push" by registerForPush
  cut,         \* the app was killed while a token was being exchanged or given up
  hasty,       \* sign-out has overlapped with another request of the app
  kept,        \* the tokens a failed deletion has left in the keychain
  adrift       \* the sign-ins whose refresh token could not be stored

faults == <<kept, adrift>>
clientVars == <<access, keychain, screen, registered, refresh, enter, leave, call, cut, hasty, faults>>
mobileVars == <<vars, clientVars>>

Calls == {"tasks", "push"}
Exchange(at, token, req) == [at |-> at, token |-> token, req |-> req]
Nothing == Exchange("idle", NoToken, NoRequest)
Leaving(at, token) == [at |-> at, token |-> token]
Reading == Exchange("reading", NoToken, NoRequest)

ClientTypeOK ==
  /\ access \in Issued \cup {NoToken}
  /\ keychain \in Issued \cup {NoToken}
  /\ screen \in {"restoring", "tasks", "auth", "stuck"}
  /\ registered \in BOOLEAN
  /\ refresh \in [at : {"idle", "reading", "sent", "storing", "clearing"},
                  token : Issued \cup {NoToken}, req : Requests \cup {NoRequest}]
  /\ enter \in [at : {"idle", "sent", "storing"},
                token : Issued \cup {NoToken}, req : Requests \cup {NoRequest}]
  /\ leave \in [at : {"idle", "push", "pushWaiting", "pushRetrying",
                      "sent", "waiting", "retrying", "clearing"},
                token : Issued \cup {NoToken}]
  /\ call \in [Calls -> {"idle", "sent", "bare", "waiting", "retrying"}]
  /\ kept \subseteq Issued /\ adrift \subseteq Issued
  /\ screen = "restoring" => refresh.at # "idle" \* somebody will end it
  /\ \A c \in Calls : call[c] = "waiting" => refresh.at # "idle"
  /\ leave.at \in {"waiting", "pushWaiting"} => refresh.at # "idle"

\* A fresh install: App mounts and asks for the previous session.
MobileInit ==
  /\ SessionInit
  /\ access = NoToken
  /\ keychain = NoToken
  /\ screen = "restoring"
  /\ registered = FALSE
  /\ refresh = Reading
  /\ enter = Nothing
  /\ leave = Leaving("idle", NoToken)
  /\ call = [c \in Calls |-> "idle"]
  /\ cut = FALSE
  /\ hasty = FALSE
  /\ kept = {}
  /\ adrift = {}

-----------------------------------------------------------------------------
(* refreshSession *)

\* Mutation: every 401 starts a refresh of its own.
JoinUncoalesced == refresh' = Reading
\* `refreshing ??= ...`: the first to ask starts it, the others await it.
JoinRefresh == refresh' = IF refresh.at = "idle" THEN Reading ELSE refresh

\* The header a request leaves with, at first and once it is sent again.
Sent == IF access = NoToken THEN "bare" ELSE "sent"
Again == IF access = NoToken THEN "bare" ELSE "retrying"

Retried(c, ok) == IF c # "waiting" THEN c ELSE IF ok THEN Again ELSE "idle"

\* The promise settles and everyone who awaited it goes on: requests are sent
\* again or fail, sign-out swallows its errors and gives up what is left, the
\* start screen gives way to `start`.
Settle(ok, start) ==
  LET again == [c \in Calls |-> Retried(call[c], ok)] IN
  /\ refresh' = Nothing
  /\ call' = IF screen = "restoring" /\ ok THEN [again EXCEPT !["push"] = "sent"] ELSE again
  /\ leave' = CASE leave.at = "waiting" /\ ok       -> Leaving("retrying", access)
                [] leave.at = "waiting" /\ ~ ok     -> Leaving("clearing", NoToken)
                [] leave.at = "pushWaiting" /\ ok   -> Leaving("pushRetrying", NoToken)
                [] leave.at = "pushWaiting" /\ ~ ok -> Leaving("sent", access)
                [] OTHER -> leave
  /\ access' = IF leave.at = "waiting" /\ ~ ok THEN NoToken ELSE access
  /\ screen' = IF screen = "restoring" THEN start
               ELSE IF leave.at = "pushWaiting" /\ ~ ok THEN "auth" ELSE screen
  /\ registered' = (registered /\ ~ (leave.at = "pushWaiting" /\ ~ ok))

ReadKeychain ==
  /\ refresh.at = "reading"
  /\ IF keychain = NoToken
     THEN Settle(FALSE, "auth")
     ELSE /\ refresh' = Exchange("sent", keychain, NoRequest)
          /\ UNCHANGED <<access, screen, registered, leave, call>>
  /\ UNCHANGED <<vars, keychain, enter, cut, hasty, faults>>

\* getItemAsync throws outside the try: the promise is rejected, and the start
\* screen has no handler for that.
ReadFails ==
  /\ refresh.at = "reading"
  /\ Settle(FALSE, "stuck")
  /\ UNCHANGED <<vars, keychain, enter, cut, hasty, faults>>

\* Mutation: a refresh that fails leaves the stored token in place.
GiveUpMemoryOnly ==
  /\ refresh' = Nothing
  /\ access' = NoToken
\* The catch of refreshSession: clearTokens drops the access token, then deletes.
GiveUp ==
  /\ refresh' = Exchange("clearing", NoToken, NoRequest)
  /\ access' = NoToken

RefreshArrives(r) ==
  /\ refresh.at = "sent"
  /\ refresh.req = NoRequest
  /\ Refresh(r, refresh.token)
  /\ refresh' = [refresh EXCEPT !.req = r]
  /\ UNCHANGED <<access, keychain, screen, registered, enter, leave, call, cut, hasty, faults>>

\* No row has this hash: 401.
RefreshUnknown ==
  /\ refresh.at = "sent"
  /\ refresh.req = NoRequest
  /\ refresh.token \notin table
  /\ GiveUp
  /\ UNCHANGED <<vars, keychain, screen, registered, enter, leave, call, cut, hasty, faults>>

\* The connection is lost; a server that has the request goes on with it.
RefreshLost ==
  /\ refresh.at = "sent"
  /\ GiveUp
  /\ UNCHANGED <<vars, keychain, screen, registered, enter, leave, call, cut, hasty, faults>>

RefreshAnswered(r) ==
  /\ SaveRotated(r)
  /\ IF refresh.req = r
     THEN refresh' = Exchange("storing", nextToken, NoRequest) /\ access' = nextToken
     ELSE UNCHANGED <<refresh, access>>
  /\ UNCHANGED <<keychain, screen, registered, enter, leave, call, cut, hasty, faults>>

RefreshRefused(r) ==
  /\ RejectUnusable(r) \/ DetectReuse(r)
  /\ IF refresh.req = r THEN GiveUp ELSE UNCHANGED <<refresh, access>>
  /\ UNCHANGED <<keychain, screen, registered, enter, leave, call, cut, hasty, faults>>

\* Mutation: the successor is kept in memory only.
StoreAccessOnly ==
  /\ refresh.at = "storing"
  /\ Settle(TRUE, "tasks")
  /\ UNCHANGED <<vars, keychain, enter, cut, hasty, faults>>
\* setItemAsync throws inside the try: the pair is given up like a refused one.
StoreRotated ==
  /\ refresh.at = "storing"
  /\ \/ /\ keychain' = refresh.token
        /\ Settle(TRUE, "tasks")
     \/ /\ GiveUp
        /\ UNCHANGED <<keychain, screen, registered, leave, call>>
  /\ UNCHANGED <<vars, enter, cut, hasty, faults>>

\* deleteItemAsync, whose failure is swallowed.
DeleteItem ==
  \/ keychain' = NoToken /\ UNCHANGED kept
  \/ kept' = kept \cup ({keychain} \ {NoToken}) /\ UNCHANGED keychain

DeleteStored ==
  /\ refresh.at = "clearing"
  /\ DeleteItem
  /\ Settle(FALSE, "auth")
  /\ UNCHANGED <<vars, enter, cut, hasty, adrift>>

-----------------------------------------------------------------------------
(* request: the tasks panel and the registration for push *)

\* A request while sign-out is under way: its 401 would use the token given up.
StartCall ==
  /\ screen = "tasks"
  /\ call["tasks"] = "idle"
  /\ call' = [call EXCEPT !["tasks"] = Sent]
  /\ hasty' = (hasty \/ leave.at # "idle")
  /\ UNCHANGED <<vars, access, keychain, screen, registered, refresh, enter, leave, cut, faults>>

CallSucceeds(c) ==
  /\ call[c] \in {"sent", "retrying"}
  /\ call' = [call EXCEPT ![c] = "idle"]
  /\ registered' = (registered \/ c = "push")
  /\ UNCHANGED <<vars, access, keychain, screen, refresh, enter, leave, cut, hasty, faults>>

\* 401: the access token has expired, or there was none.
CallUnauthorised(c) ==
  /\ call[c] \in {"sent", "bare"}
  /\ call' = [call EXCEPT ![c] = "waiting"]
  /\ JoinRefresh
  /\ UNCHANGED <<vars, access, keychain, screen, registered, enter, leave, cut, hasty, faults>>

\* The network fails, or the second answer is an error as well.
CallFails(c) ==
  /\ call[c] \in {"sent", "bare", "retrying"}
  /\ call' = [call EXCEPT ![c] = "idle"]
  /\ UNCHANGED <<vars, access, keychain, screen, registered, refresh, enter, leave, cut, hasty, faults>>

-----------------------------------------------------------------------------
(* Sign in: the form is disabled while it is busy *)

Submit ==
  /\ screen = "auth"
  /\ enter.at = "idle"
  /\ enter' = Exchange("sent", NoToken, NoRequest)
  /\ hasty' = (hasty \/ leave.at # "idle")
  /\ UNCHANGED <<vars, access, keychain, screen, registered, refresh, leave, call, cut, faults>>

LoginArrives(r) ==
  /\ enter.at = "sent"
  /\ enter.req = NoRequest
  /\ Authenticate(r, Owner)
  /\ enter' = [enter EXCEPT !.req = r]
  /\ UNCHANGED <<access, keychain, screen, registered, refresh, leave, call, cut, hasty, faults>>

LoginAnswered(r) ==
  /\ IssueForNewSession(r)
  /\ IF enter.req = r
     THEN enter' = Exchange("storing", nextToken, NoRequest) /\ access' = nextToken
     ELSE UNCHANGED <<enter, access>>
  /\ UNCHANGED <<keychain, screen, registered, refresh, leave, call, cut, hasty, faults>>

\* Wrong password, or a lost answer: the server goes on if it has the request.
LoginFails ==
  /\ enter.at = "sent"
  /\ enter' = Nothing
  /\ UNCHANGED <<vars, access, keychain, screen, registered, refresh, leave, call, cut, hasty, faults>>

\* setItemAsync may throw: the form shows the error, and the access token stays.
StoreLogin ==
  /\ enter.at = "storing"
  /\ enter' = Nothing
  /\ \/ /\ keychain' = enter.token
        /\ screen' = "tasks"
        /\ call' = IF call["push"] = "idle" THEN [call EXCEPT !["push"] = Sent] ELSE call
        /\ UNCHANGED adrift
     \/ /\ adrift' = adrift \cup {enter.token}
        /\ UNCHANGED <<keychain, screen, call>>
  /\ UNCHANGED <<vars, access, registered, refresh, leave, cut, hasty, kept>>

-----------------------------------------------------------------------------
(* Sign out: unregisterPush is awaited, api.logout is not *)

PressSignOut ==
  /\ screen = "tasks"
  /\ leave.at = "idle"
  /\ IF registered
     THEN leave' = Leaving("push", NoToken) /\ UNCHANGED screen
     ELSE leave' = Leaving("sent", access) /\ screen' = "auth"
  /\ hasty' = (hasty \/ refresh # Nothing \/ \E c \in Calls : call[c] # "idle")
  /\ UNCHANGED <<vars, access, keychain, registered, refresh, enter, call, cut, faults>>

\* Whatever became of the DELETE, logout is sent and the panel goes.
PushUnregistered ==
  /\ leave.at \in {"push", "pushRetrying"}
  /\ leave' = Leaving("sent", access)
  /\ registered' = FALSE
  /\ screen' = "auth"
  /\ UNCHANGED <<vars, access, keychain, refresh, enter, call, cut, hasty, faults>>

PushUnauthorised ==
  /\ leave.at = "push"
  /\ leave' = Leaving("pushWaiting", NoToken)
  /\ JoinRefresh
  /\ UNCHANGED <<vars, access, keychain, screen, registered, enter, call, cut, hasty, faults>>

\* POST /auth/logout revokes the session its access token names.
LogoutServed ==
  /\ leave.at \in {"sent", "retrying"}
  /\ leave.token # NoToken
  /\ Logout(leave.token)
  /\ leave' = Leaving("clearing", NoToken)
  /\ access' = NoToken
  /\ UNCHANGED <<keychain, screen, registered, refresh, enter, call, cut, hasty, faults>>

LogoutUnauthorised ==
  /\ leave.at = "sent"
  /\ leave' = Leaving("waiting", NoToken)
  /\ JoinRefresh
  /\ UNCHANGED <<vars, access, keychain, screen, registered, enter, call, cut, hasty, faults>>

\* The network fails, or the retried request does: caught, and cleared anyway.
LogoutFails ==
  /\ leave.at \in {"sent", "retrying"}
  /\ leave' = Leaving("clearing", NoToken)
  /\ access' = NoToken
  /\ UNCHANGED <<vars, keychain, screen, registered, refresh, enter, call, cut, hasty, faults>>

\* Mutation: signing out forgets the access token only.
LogoutKeepsStored ==
  /\ leave.at = "clearing"
  /\ leave' = Leaving("idle", NoToken)
  /\ UNCHANGED <<vars, access, keychain, screen, registered, refresh, enter, call, cut, hasty, faults>>
LogoutClears ==
  /\ leave.at = "clearing"
  /\ DeleteItem
  /\ leave' = Leaving("idle", NoToken)
  /\ UNCHANGED <<vars, access, screen, registered, refresh, enter, call, cut, hasty, adrift>>

-----------------------------------------------------------------------------
\* The OS ends the app and the user starts it again: memory is gone, the
\* keychain is not, and what the server is doing goes on.
Kill ==
  /\ access' = NoToken
  /\ screen' = "restoring"
  /\ registered' = FALSE
  /\ refresh' = Reading
  /\ enter' = Nothing
  /\ leave' = Leaving("idle", NoToken)
  /\ call' = [c \in Calls |-> "idle"]
  /\ cut' = (\/ cut
             \/ refresh.at \in {"sent", "storing", "clearing"}
             \/ leave.at \in {"sent", "waiting", "retrying", "clearing"})
  /\ UNCHANGED <<vars, keychain, hasty, faults>>

\* What the server does of itself.  Its unexpected errors reach the app.
ServerStep ==
  \/ /\ \/ \E r \in Requests : ResolveUser(r) \/ RevokePresented(r)
        \/ DeleteAccount(Owner)
        \/ PurgeExpired
        \/ Tick
     /\ UNCHANGED clientVars
  \/ \E r \in Requests :
       /\ Abandon(r)
       /\ IF refresh.req = r THEN GiveUp ELSE UNCHANGED <<refresh, access>>
       /\ enter' = IF enter.req = r THEN Nothing ELSE enter
       /\ UNCHANGED <<keychain, screen, registered, leave, call, cut, hasty, faults>>

MobileNext ==
  \/ ReadKeychain \/ ReadFails \/ RefreshUnknown \/ RefreshLost \/ StoreRotated \/ DeleteStored
  \/ \E r \in Requests : RefreshArrives(r) \/ RefreshAnswered(r) \/ RefreshRefused(r)
  \/ StartCall
  \/ \E c \in Calls : CallSucceeds(c) \/ CallUnauthorised(c) \/ CallFails(c)
  \/ Submit \/ LoginFails \/ StoreLogin
  \/ \E r \in Requests : LoginArrives(r) \/ LoginAnswered(r)
  \/ PressSignOut \/ PushUnregistered \/ PushUnauthorised
  \/ LogoutServed \/ LogoutUnauthorised \/ LogoutFails \/ LogoutClears
  \/ Kill
  \/ ServerStep

MobileSpec == MobileInit /\ [][MobileNext]_mobileVars

-----------------------------------------------------------------------------
(* Properties *)

\* Concurrent 401s share one refresh "so the rotating token is never
\* double-spent" (apps/mobile/src/api.ts:69-72): no token gets two successors,
\* although the server alone would issue them (TokenSessions).  A token that could
\* not be deleted is presented again, and is excepted here and below (api.ts:48).
SpentOnce ==
  ~ cut => \A s, t \in Issued :
    info[s].parent = info[t].parent /\ info[s].parent \notin kept \cup {NoToken} => s = t

\* What the next refresh will present has not been exchanged already, unless
\* deleting it failed: every other outcome of a refresh replaces or deletes the
\* stored token, whatever else fails in it (api.ts:77-90).
KeychainUnspent ==
  ~ cut /\ refresh.at \in {"idle", "reading"} /\ keychain \notin kept \cup {NoToken} =>
    \A t \in Issued : info[t].parent # keychain

\* An honest device that signs out with nothing else in flight, and whose
\* keychain has deleted what it was told to, is never taken for a thief,
\* whatever the network loses (token.service.ts:138-147).
NoFalseAlarm == ~ cut /\ ~ hasty /\ kept = {} => exposed = {}

\* After sign-out the device holds no credential and the next start does not
\* resume the session (api.ts:131-134, App.tsx:47-51), but for a token the
\* keychain failed to delete, or the access token of a sign-in whose refresh
\* token it failed to store (api.ts:41-49).
SignedOutHoldsNothing ==
  ~ hasty /\ screen = "auth" /\ leave.at = "idle" /\ enter.at # "storing" =>
    access \in adrift \cup {NoToken} /\ keychain \in kept \cup {NoToken}

\* What the words of api.ts:131-134 and App.tsx:47-51 say, and does not hold: the
\* keychain's failures are swallowed.
SignOutForgets ==
  screen = "auth" /\ leave.at = "idle" /\ enter.at # "storing" =>
    access = NoToken /\ keychain = NoToken
=============================================================================
