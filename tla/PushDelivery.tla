---------------------------- MODULE PushDelivery ----------------------------
(***************************************************************************)
(* The PUSH channel of libs/messaging from dispatch to the provider:       *)
(* MessagingService reads the devices of the recipient and enqueues one    *)
(* job for each; DeliveryQueueService sends it, records the outcome and    *)
(* prunes the registration FCM reports dead.  Composed with the registry   *)
(* the tokens come from, whose clients keep changing it meanwhile.         *)
(*                                                                         *)
(* BullMQ runs a job again while its processor throws (`attempts`), or     *)
(* once after the worker running it died (a stalled job).  Inline delivery *)
(* without Redis is MaxAttempts = 1 and MaxStalls = 0.                     *)
(***************************************************************************)
EXTENDS DeviceRegistry

CONSTANTS
  MaxJobs,       \* bound on the deliveries ever dispatched
  MaxAttempts,   \* `attempts` of queue.add
  MaxStalls      \* maxStalledCount of the worker

ASSUME DeliveryAssumption ==
  /\ MaxJobs \in Nat
  /\ MaxAttempts \in Nat \ {0}
  /\ MaxStalls \in Nat

Jobs == 1..MaxJobs

VARIABLES
  dead,       \* tokens FCM has answered UNREGISTERED for: it never accepts them again
  jobs,       \* [Jobs -> delivery job]
  sent,       \* how often FCM accepted the message of each job
  records     \* statuses of the message_deliveries rows each job has written

deliveryVars == <<dead, jobs, sent, records>>
allVars == <<vars, deliveryVars>>

\* state: where the job is; made: attempts that threw; stalls: workers that died;
\* outcome: what the last provider called has answered; fallback: whether the PUSH
\* route named a fallback provider when the job was made.
Job == [state : {"none", "dispatched", "waiting", "sending", "fallback", "recording",
                 "pruning", "completed", "failed"},
        user : Users \cup {NoUser}, to : Tokens \cup {NoDevice},
        fallback : BOOLEAN, made : Nat, stalls : Nat,
        outcome : {"none", "ok", "error", "unregistered"}]

NoJob == [state |-> "none", user |-> NoUser, to |-> NoDevice, fallback |-> FALSE,
          made |-> 0, stalls |-> 0, outcome |-> "none"]

Running == {"sending", "fallback", "recording", "pruning"}

DeliveryTypeOK ==
  /\ DeviceTypeOK
  /\ dead \subseteq Tokens
  /\ jobs \in [Jobs -> Job]
  /\ \A j \in Jobs : /\ jobs[j].made <= MaxAttempts
                     /\ jobs[j].state = "waiting" => jobs[j].made < MaxAttempts
  /\ sent \in [Jobs -> Nat]
  /\ records \in [Jobs -> SUBSET {"SENT", "FAILED"}]

DeliveryInit ==
  /\ DeviceInit
  /\ dead = {}
  /\ jobs = [j \in Jobs |-> NoJob]
  /\ sent = [j \in Jobs |-> 0]
  /\ records = [j \in Jobs |-> {}]

-----------------------------------------------------------------------------
(* Dispatch *)

FreeJobs == {j \in Jobs : jobs[j].state = "none"}

\* tokensForUser is read once; each token gets a job of its own, for the route of
\* the moment.
DispatchPush(u, fallback) ==
  LET to == {d.token : d \in DevicesOf(u)}
  IN /\ to # {}
     /\ \E f \in [to -> FreeJobs] :
          /\ \A s, t \in to : f[s] = f[t] => s = t
          /\ jobs' = [j \in Jobs |->
               IF \E t \in to : f[t] = j
               THEN [NoJob EXCEPT !.state = "dispatched", !.user = u, !.fallback = fallback,
                                  !.to = CHOOSE t \in to : f[t] = j]
               ELSE jobs[j]]
     /\ UNCHANGED <<vars, dead, sent, records>>

Move(j, from, job) ==
  /\ jobs[j].state = from
  /\ jobs' = [jobs EXCEPT ![j] = job]

Enqueue(j) ==
  /\ Move(j, "dispatched", [jobs[j] EXCEPT !.state = "waiting"])
  /\ UNCHANGED <<vars, dead, sent, records>>

\* queue.add rejects: dispatch throws to its caller.
EnqueueFails(j) ==
  /\ Move(j, "dispatched", [jobs[j] EXCEPT !.state = "failed"])
  /\ UNCHANGED <<vars, dead, sent, records>>

-----------------------------------------------------------------------------
(* processDelivery *)

TakeJob(j) ==
  /\ Move(j, "waiting", [jobs[j] EXCEPT !.state = "sending", !.outcome = "none"])
  /\ UNCHANGED <<vars, dead, sent, records>>

\* What FCM can answer for a token: the app may have been uninstalled, or its token
\* rotated, at any time before.
Answers(t) == {"unregistered", "error"} \cup IF t \in dead THEN {} ELSE {"ok"}

\* trySend with the primary provider; a throw counts as a failed result.
SendPrimary(j) ==
  /\ \E a \in Answers(jobs[j].to) :
       /\ Move(j, "sending",
               [jobs[j] EXCEPT !.outcome = a,
                               !.state = IF a # "ok" /\ jobs[j].fallback THEN "fallback"
                                         ELSE "recording"])
       /\ sent' = [sent EXCEPT ![j] = IF a = "ok" THEN @ + 1 ELSE @]
       /\ dead' = IF a = "unregistered" THEN dead \cup {jobs[j].to} ELSE dead
  /\ UNCHANGED <<vars, records>>

\* The fallback of a push route prints to the console or fails.
SendFallback(j) ==
  /\ \E a \in {"ok", "error"} :
       Move(j, "fallback", [jobs[j] EXCEPT !.outcome = a, !.state = "recording"])
  /\ UNCHANGED <<vars, dead, sent, records>>

Status(j) == IF jobs[j].outcome = "ok" THEN "SENT" ELSE "FAILED"

\* Mutation: every failed push prunes its token.
SaveRecordPruneAll(j) ==
  /\ Move(j, "recording",
          [jobs[j] EXCEPT !.state = IF jobs[j].outcome # "ok" THEN "pruning" ELSE "completed"])
  /\ records' = [records EXCEPT ![j] = @ \cup {Status(j)}]
  /\ UNCHANGED <<vars, dead, sent>>
\* Mutation: the status is written before the result is known.
SaveRecordEarly(j) ==
  /\ Move(j, "recording",
          [jobs[j] EXCEPT !.state = IF jobs[j].outcome = "unregistered" THEN "pruning"
                                    ELSE "completed"])
  /\ records' = [records EXCEPT ![j] = @ \cup {"SENT"}]
  /\ UNCHANGED <<vars, dead, sent>>
\* The attempt is recorded whatever its result, and the processor returns.
SaveRecord(j) ==
  /\ Move(j, "recording",
          [jobs[j] EXCEPT !.state = IF jobs[j].outcome = "unregistered" THEN "pruning"
                                    ELSE "completed"])
  /\ records' = [records EXCEPT ![j] = @ \cup {Status(j)}]
  /\ UNCHANGED <<vars, dead, sent>>

\* Mutation: BullMQ is not told how many attempts to make.
SaveRecordRetriesForever(j) ==
  /\ sent[j] <= 1 + MaxAttempts + MaxStalls
  /\ Move(j, "recording", [jobs[j] EXCEPT !.state = "waiting"])
  /\ UNCHANGED <<vars, dead, sent, records>>
\* deliveries.save throws out of the processor: the attempt failed.
SaveRecordFails(j) ==
  /\ Move(j, "recording",
          [jobs[j] EXCEPT !.made = @ + 1,
                          !.state = IF jobs[j].made + 1 < MaxAttempts THEN "waiting"
                                    ELSE "failed"])
  /\ UNCHANGED <<vars, dead, sent, records>>

PruneToken(j) ==
  /\ Move(j, "pruning", [jobs[j] EXCEPT !.state = "completed"])
  /\ RemoveToken(jobs[j].to)
  /\ UNCHANGED <<dead, sent, records>>

\* .catch(() => undefined)
PruneFails(j) ==
  /\ Move(j, "pruning", [jobs[j] EXCEPT !.state = "completed"])
  /\ UNCHANGED <<vars, dead, sent, records>>

\* The worker dies with the job in hand; another takes it over, once.
WorkerDies(j) ==
  /\ jobs[j].state \in Running
  /\ jobs' = [jobs EXCEPT ![j].stalls = @ + 1,
                          ![j].state = IF jobs[j].stalls < MaxStalls THEN "waiting"
                                       ELSE "failed"]
  /\ UNCHANGED <<vars, dead, sent, records>>

-----------------------------------------------------------------------------
JobStep(j) ==
  \/ Enqueue(j) \/ EnqueueFails(j)
  \/ TakeJob(j)
  \/ SendPrimary(j) \/ SendFallback(j)
  \/ SaveRecord(j) \/ SaveRecordFails(j)
  \/ PruneToken(j) \/ PruneFails(j)

DeliveryNext ==
  \/ ClientNext /\ UNCHANGED deliveryVars
  \/ \E u \in Users, fallback \in BOOLEAN : DispatchPush(u, fallback)
  \/ \E j \in Jobs : JobStep(j) \/ WorkerDies(j)

DeliverySpec == DeliveryInit /\ [][DeliveryNext]_allVars

-----------------------------------------------------------------------------
(* Properties *)

\* However often record keeping fails and workers die, a message reaches its
\* device a bounded number of times, and more than once only for such a reason
\* (delivery-queue.service.ts:100-111).
BoundedDuplicates ==
  \A j \in Jobs : sent[j] <= 1 + jobs[j].made + jobs[j].stalls

\* "a failed real send surfaces as FAILED" (docs/PUSH_NOTIFICATIONS.md:30-31): on
\* a route without a fallback a SENT row stands for a message FCM accepted, and a
\* finished job has a row.
RecordsTellTruth ==
  \A j \in Jobs :
    /\ "SENT" \in records[j] /\ ~ jobs[j].fallback => sent[j] > 0
    /\ jobs[j].state = "completed" => records[j] # {}

\* A registration is pruned only when its token is dead for good; a transient
\* failure never costs a user the device (delivery-queue.service.ts:145-153).
PrunesOnlyDead ==
  [][\A j \in Jobs :
       jobs[j].state = "pruning" /\ jobs'[j].state = "completed" =>
         \A d \in devices \ devices' : d.token \in dead]_allVars

\* "one BullMQ job per channel delivery, retried with backoff"
\* (delivery-queue.service.ts:43): a failed send is not the end of a job that has
\* attempts left, unless the token is dead.  Not so: the failure becomes a FAILED
\* record, saving it completes the job (134-154), and the attempts left only ever
\* repeat a failed save.  No run checks it.
FailedSendIsRetried ==
  \A j \in Jobs :
    jobs[j].state = "completed" /\ jobs[j].outcome = "error" => jobs[j].made + 1 >= MaxAttempts
=============================================================================
