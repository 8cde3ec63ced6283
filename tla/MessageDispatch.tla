--------------------------- MODULE MessageDispatch ---------------------------
(***************************************************************************)
(* libs/messaging from dispatch() to the queue: one message fans out to    *)
(* its channels, each of which finds its destinations, renders its         *)
(* template, asks MessagingConfigService for a route and enqueues a job    *)
(* per destination.  Routes and credentials come from copies of two        *)
(* tables, kept for a minute by each instance and re-read, one table after *)
(* the other, by every caller that finds them too old: channels and the    *)
(* sender of the queue do so at once, and nothing makes them share.        *)
(*                                                                         *)
(* One instance and one dispatch at a time: copies are not shared between  *)
(* instances, and the channels of a dispatch already overlap.  What a      *)
(* worker does with a job is PushDelivery.                                 *)
(***************************************************************************)
EXTENDS Naturals

CONSTANTS
  EnvKeys,                \* providers with credentials in the environment
  Keyed,                  \* providers whose row can hold credentials
  EmailProviderOverride,  \* MESSAGING_EMAIL_PROVIDER, or None
  PushProviderOverride,   \* MESSAGING_PUSH_PROVIDER, or None
  None,                   \* null
  Rerouted,               \* channels whose route an operator changes
  Fallbacks,              \* fallbacks the operator may name
  MaxDevices,             \* devices of the recipient
  MaxWrites               \* bound on the writes of the operator

ChannelsOf == [EMAIL_VERIFICATION |-> {"EMAIL"},
               PHONE_OTP          |-> {"SMS"},
               WELCOME            |-> {"EMAIL"},
               PASSWORD_RESET     |-> {"EMAIL"},
               TASK_ASSIGNED      |-> {"EMAIL", "IN_APP", "PUSH"}]

\* The channels each key has a variant for.
TemplateRegistry == [EMAIL_VERIFICATION |-> {"EMAIL"},
                     PHONE_OTP          |-> {"SMS"},
                     WELCOME            |-> {"EMAIL"},
                     PASSWORD_RESET     |-> {"EMAIL"},
                     TASK_ASSIGNED      |-> {"EMAIL", "IN_APP", "PUSH"}]

ProvidersOf == [EMAIL  |-> {"resend", "console-email"},
                SMS    |-> {"console-sms"},
                IN_APP |-> {"in-app"},
                PUSH   |-> {"fcm", "console-push"}]

Channels == DOMAIN ProvidersOf
Callers  == Channels \cup {"sender"}

ASSUME DispatchAssumption ==
  /\ Rerouted \subseteq Channels
  /\ {EnvKeys, Keyed} \subseteq SUBSET {"resend", "fcm"}
  /\ MaxDevices \in Nat
  /\ MaxWrites \in Nat

VARIABLES
  routeRows,   \* messaging_channel_routes: the global row of each channel
  secretRows,  \* credentials_enc of messaging_provider_configs
  writes,      \* how often the operator has written
  routes,      \* this.routes
  providers,   \* this.providers: those with credentials
  expired,     \* cacheExpiry has passed
  reader,      \* how far the refresh of each caller is, and what it was given
  type,        \* message type being dispatched
  chan         \* the channels of the dispatch

tables == <<routeRows, secretRows, writes>>
copies == <<routes, providers, expired>>
dispatchVars == <<tables, copies, reader, type, chan>>

Route(primary, fallback) == [primary |-> primary, fallback |-> fallback]
NoRoute == Route(None, None)
Rows(c) == {NoRoute} \cup {Route(p, f) : p \in ProvidersOf[c], f \in Fallbacks}

SeededRoutes == [EMAIL  |-> Route("resend", "console-email"),
                 SMS    |-> Route("console-sms", None),
                 IN_APP |-> Route("in-app", None),
                 PUSH   |-> NoRoute]

\* A secret that cannot be decrypted or parsed counts as absent.
Secrets == {"absent", "sealed", "unreadable"}
Readable(rows) == {p \in Keyed : rows[p] = "sealed"}

NoReading == [at |-> "idle", seen |-> None]
\* pending: destinations whose enqueue has not settled; unqueued: those without a job.
Over == [at |-> "over", pending |-> 0, unqueued |-> 0, failed |-> FALSE]

\* Modules are initialised one by one: the first refresh has ended, one way or
\* the other, before anything is dispatched.
DispatchInit ==
  /\ routeRows = SeededRoutes
  /\ secretRows = [p \in Keyed |-> "absent"]
  /\ writes = 0
  /\ \/ routes = SeededRoutes /\ expired = FALSE
     \/ routes = [c \in Channels |-> NoRoute] /\ expired = TRUE
  /\ providers = {}
  /\ reader = [k \in Callers |-> NoReading]
  /\ type = None
  /\ chan = [c \in Channels |-> Over]

-----------------------------------------------------------------------------
(* routeFor and getProvider, over a copy *)

DefaultRoute(c) ==
  CASE c = "EMAIL"  -> Route(IF "resend" \in EnvKeys THEN "resend" ELSE "console-email",
                             "console-email")
    [] c = "SMS"    -> Route("console-sms", None)
    [] c = "PUSH"   -> Route(IF "fcm" \in EnvKeys THEN "fcm" ELSE "console-push", None)
    [] c = "IN_APP" -> Route("in-app", None)

\* No caller names a use case.
RouteFor(c, rows) ==
  CASE c = "EMAIL" /\ EmailProviderOverride # None ->
         Route(EmailProviderOverride,
               IF rows[c].fallback = None THEN "console-email" ELSE rows[c].fallback)
    [] c = "PUSH" /\ PushProviderOverride # None -> Route(PushProviderOverride, None)
    [] OTHER -> IF rows[c] = NoRoute THEN DefaultRoute(c) ELSE rows[c]

\* A provider without credentials fails explicitly.
Configured(p, secrets) == p \in secrets \cup EnvKeys

-----------------------------------------------------------------------------
(* Channels of a dispatch *)

\* Promise.all rejects with the first failure; the others go on.
Fails(c) == chan' = [chan EXCEPT ![c] = [Over EXCEPT !.failed = TRUE]]

\* No caller narrows the channels with channelOverride.
Dispatch(t) ==
  /\ \A c \in Channels : chan[c].at = "over"
  /\ chan' = [c \in Channels |->
                IF c \in ChannelsOf[t] THEN [Over EXCEPT !.at = "resolving"] ELSE Over]
  /\ type' = t
  /\ UNCHANGED <<tables, copies, reader>>

\* The callers: both log a rejection, and the first does not wait for the dispatch.
WelcomeUser == Dispatch("WELCOME")
NotifyAssignment == Dispatch("TASK_ASSIGNED")

\* Both give a user and an e-mail address, and neither a phone nor a push token.
ContactPoints(c) ==
  CASE c = "PUSH" -> 0..MaxDevices
    [] c = "SMS"  -> {0}
    [] OTHER      -> {1}

\* Without a contact point the channel is skipped.
ResolveDestinations(c) ==
  /\ chan[c].at = "resolving"
  /\ \E n \in ContactPoints(c) :
       chan' = [chan EXCEPT ![c].at = IF n = 0 THEN "over" ELSE "rendering",
                             ![c].pending = n, ![c].unqueued = n]
  /\ UNCHANGED <<tables, copies, reader, type>>

DevicesUnread ==
  /\ chan["PUSH"].at = "resolving"
  /\ Fails("PUSH")
  /\ UNCHANGED <<tables, copies, reader, type>>

\* The channel has its route, RouteFor(c, routes), and enqueues a job on it for each
\* destination.
Routed(c) == [chan EXCEPT ![c].at = "enqueuing"]

\* A row of message_templates replaces the variant in the code, if there is one;
\* then routeFor answers from the copy, or starts a refresh.
Render(c) ==
  /\ chan[c].at = "rendering"
  /\ c \in TemplateRegistry[type]
  /\ IF expired
     THEN /\ reader' = [reader EXCEPT ![c].at = "providers"]
          /\ chan' = [chan EXCEPT ![c].at = "routing"]
     ELSE /\ chan' = Routed(c)
          /\ UNCHANGED reader
  /\ UNCHANGED <<tables, copies, type>>

RenderFails(c) ==
  /\ chan[c].at = "rendering"
  /\ Fails(c)
  /\ UNCHANGED <<tables, copies, reader, type>>

\* The enqueue of one destination settles; the last one settles the channel.
Settled(c, r) ==
  chan' = [chan EXCEPT ![c] = IF r.pending > 0 THEN r
                              ELSE IF r.failed THEN [Over EXCEPT !.failed = TRUE]
                              ELSE [r EXCEPT !.at = "over"]]

Enqueue(c) ==
  /\ chan[c].at = "enqueuing"
  /\ Settled(c, [chan[c] EXCEPT !.pending = @ - 1, !.unqueued = @ - 1])
  /\ UNCHANGED <<tables, copies, reader, type>>

\* Mutation: the rejection is dropped.
EnqueueSwallowed(c) ==
  /\ chan[c].at = "enqueuing"
  /\ Settled(c, [chan[c] EXCEPT !.pending = @ - 1])
  /\ UNCHANGED <<tables, copies, reader, type>>
\* queue.add rejects, or inline delivery cannot save its record.
EnqueueFails(c) ==
  /\ chan[c].at = "enqueuing"
  /\ Settled(c, [chan[c] EXCEPT !.pending = @ - 1, !.failed = TRUE])
  /\ UNCHANGED <<tables, copies, reader, type>>

-----------------------------------------------------------------------------
(* refresh: a query for each table, what it returns installed at once *)

\* A provider about to send asks for its credentials.
SenderAsks ==
  /\ reader["sender"].at = "idle"
  /\ expired
  /\ reader' = [reader EXCEPT !["sender"].at = "providers"]
  /\ UNCHANGED <<tables, copies, type, chan>>

ReadProviders(k) ==
  /\ reader[k].at = "providers"
  /\ reader' = [reader EXCEPT ![k] = [at |-> "gotProviders", seen |-> Readable(secretRows)]]
  /\ UNCHANGED <<tables, copies, type, chan>>

InstallProviders(k) ==
  /\ reader[k].at = "gotProviders"
  /\ providers' = reader[k].seen
  /\ reader' = [reader EXCEPT ![k] = [at |-> "routes", seen |-> None]]
  /\ UNCHANGED <<tables, routes, expired, type, chan>>

ReadRoutes(k) ==
  /\ reader[k].at = "routes"
  /\ reader' = [reader EXCEPT ![k] = [at |-> "gotRoutes", seen |-> routeRows]]
  /\ UNCHANGED <<tables, copies, type, chan>>

\* ensureFresh returns to the channel that awaits it.
Resume(k) ==
  /\ reader' = [reader EXCEPT ![k] = NoReading]
  /\ chan' = IF k \in Channels THEN Routed(k) ELSE chan

\* Mutation: rows are added to the map in use.
InstallMerged(k) ==
  /\ reader[k].at = "gotRoutes"
  /\ routes' = [c \in Channels |-> IF reader[k].seen[c] = NoRoute THEN routes[c]
                                   ELSE reader[k].seen[c]]
  /\ expired' = FALSE
  /\ Resume(k)
  /\ UNCHANGED <<tables, providers, type>>
InstallRoutes(k) ==
  /\ reader[k].at = "gotRoutes"
  /\ routes' = reader[k].seen
  /\ expired' = FALSE
  /\ Resume(k)
  /\ UNCHANGED <<tables, providers, type>>

\* Either query rejects: the copies stay and are not looked at for five seconds.
RefreshRejected(k) ==
  /\ reader[k].at \in {"providers", "routes"}
  /\ expired' = FALSE
  /\ Resume(k)
  /\ UNCHANGED <<tables, routes, providers, type>>

\* Date.now() passes cacheExpiry.
ExpireCopies ==
  /\ ~ expired
  /\ expired' = TRUE
  /\ UNCHANGED <<tables, routes, providers, reader, type, chan>>

-----------------------------------------------------------------------------
(* The tables are written by an operator, outside the application *)

WriteRoute(c) ==
  /\ writes < MaxWrites
  /\ \E row \in Rows(c) \ {routeRows[c]} : routeRows' = [routeRows EXCEPT ![c] = row]
  /\ writes' = writes + 1
  /\ UNCHANGED <<secretRows, copies, reader, type, chan>>

WriteSecret(p) ==
  /\ writes < MaxWrites
  /\ \E s \in Secrets \ {secretRows[p]} : secretRows' = [secretRows EXCEPT ![p] = s]
  /\ writes' = writes + 1
  /\ UNCHANGED <<routeRows, copies, reader, type, chan>>

-----------------------------------------------------------------------------
ChannelStep(c) ==
  \/ ResolveDestinations(c)
  \/ Render(c) \/ RenderFails(c)
  \/ Enqueue(c) \/ EnqueueFails(c)

RefreshStep(k) ==
  \/ ReadProviders(k) \/ InstallProviders(k)
  \/ ReadRoutes(k) \/ InstallRoutes(k)
  \/ RefreshRejected(k)

DispatchNext ==
  \/ WelcomeUser \/ NotifyAssignment
  \/ \E c \in Channels : ChannelStep(c)
  \/ DevicesUnread
  \/ SenderAsks
  \/ \E k \in Callers : RefreshStep(k)
  \/ ExpireCopies
  \/ \E c \in Rerouted : WriteRoute(c)
  \/ \E p \in Keyed : WriteSecret(p)

DispatchSpec == DispatchInit /\ [][DispatchNext]_dispatchVars

\* Queries and the queue answer; time passes; messages keep being sent, and the
\* database does not refuse every query of the sender for ever.
DispatchFairness ==
  /\ \A c \in Channels : WF_dispatchVars(ChannelStep(c))
  /\ \A k \in Callers : WF_dispatchVars(RefreshStep(k))
  /\ WF_dispatchVars(ExpireCopies)
  /\ SF_dispatchVars(SenderAsks)
  /\ SF_dispatchVars(ReadProviders("sender"))
  /\ SF_dispatchVars(ReadRoutes("sender"))

DispatchFairSpec == DispatchSpec /\ DispatchFairness

-----------------------------------------------------------------------------
(* Properties *)

DispatchTypeOK ==
  /\ routeRows \in [Channels -> UNION {Rows(c) \cup {SeededRoutes[c]} : c \in Channels}]
  /\ secretRows \in [Keyed -> Secrets]
  /\ writes \in 0..MaxWrites
  /\ routes \in [Channels -> UNION {Rows(c) \cup {SeededRoutes[c]} : c \in Channels}]
  /\ providers \subseteq Keyed
  /\ expired \in BOOLEAN
  /\ \A k \in Callers :
       reader[k].at \in {"idle", "providers", "gotProviders", "routes", "gotRoutes"}
  /\ type \in {"WELCOME", "TASK_ASSIGNED", None}
  /\ \A c \in Channels :
       /\ chan[c].at \in {"over", "resolving", "rendering", "routing", "enqueuing"}
       /\ chan[c].at = "routing" <=> reader[c].at # "idle"
       /\ chan[c].pending <= chan[c].unqueued

\* Fan-out is independent (messaging.service.ts:62-65): whatever becomes of the
\* other channels and of the configuration, every channel of a dispatch ends, and one
\* that ends without an error for the caller has a job queued for every destination.
HandedOverOrReported ==
  /\ []<>(\A c \in Channels : chan[c].at = "over")
  /\ [](\A c \in Channels :
          chan[c].at = "over" /\ ~ chan[c].failed => chan[c].unqueued = 0)

\* Refreshes overlap, so an older reading can replace a newer one, and the copies of
\* the two tables can come from different moments; once the operator has finished,
\* all the same, every channel is routed and every provider configured as the tables
\* say, for good (messaging-config.service.ts:100-110).
SettlesOnTables ==
  <>[](/\ \A c \in Channels : RouteFor(c, routes) = RouteFor(c, routeRows)
       /\ \A p \in Keyed : Configured(p, providers) <=> Configured(p, Readable(secretRows)))

\* "store credentials encrypted in the DB ... DB beats env", "with FCM configured there
\* is no console fallback" (docs/PUSH_NOTIFICATIONS.md:35-45).  Not so: without a row
\* the route depends on the environment only.  No run checks it.
FcmWhenConfigured ==
  Configured("fcm", providers) /\ routes["PUSH"] = NoRoute /\ PushProviderOverride = None =>
    RouteFor("PUSH", routes).primary = "fcm"
=============================================================================
