-------------------------- MODULE PushDeliveryProofs --------------------------
(***************************************************************************)
(* Theorems about PushDelivery, and about the DeviceRegistry inside it,    *)
(* for any number of users, tokens, calls and jobs.                        *)
(***************************************************************************)
EXTENDS PushDelivery, FiniteSetTheorems, TLAPS

(* Types and identity of the rows *)

Steps == {"idle", "find", "saveExisting", "count", "findStalest", "evict", "insert"}

\* A primary key stays with its token, so the row a call is about to save under the key
\* it has read can only replace the row of the same token.
KeysOK ==
  /\ IsFiniteSet(devices)
  /\ \A r \in Registers :
       /\ pc[r] # "idle" => user[r] \in Users /\ token[r] \in Tokens
       /\ pc[r] = "saveExisting" =>
            /\ rowId[r] < nextId
            /\ \A d \in WithId(rowId[r]) : d.token = token[r]
            /\ \A q \in Registers :
                 pc[q] = "saveExisting" /\ rowId[q] = rowId[r] => token[q] = token[r]
DeviceInv == DeviceTypeOK /\ KeysOK

LEMMA ReturnEffect ==
  ASSUME DeviceTypeOK, NEW r \in Registers, Return(r)
  PROVE  /\ pc'[r] = "idle" /\ user'[r] = NoUser
         /\ \A q \in Registers \ {r} :
              /\ pc'[q] = pc[q] /\ user'[q] = user[q] /\ token'[q] = token[q]
              /\ rowId'[q] = rowId[q]
         /\ pc' \in [Registers -> Steps]
         /\ user' \in [Registers -> Users \cup {NoUser}]
         /\ token' \in [Registers -> Tokens \cup {NoDevice}]
         /\ rowId' \in [Registers -> Nat]
  BY DEF Return, DeviceTypeOK, Steps

LEMMA GotoEffect ==
  ASSUME DeviceTypeOK, NEW r \in Registers, NEW step \in Steps, Goto(r, step)
  PROVE  /\ pc'[r] = step /\ user' = user /\ token' = token
         /\ \A q \in Registers \ {r} : pc'[q] = pc[q]
         /\ pc' \in [Registers -> Steps]
  BY DEF Goto, DeviceTypeOK, Steps

\* The row a call writes.
LEMMA NewRowType ==
  ASSUME DeviceInv, NEW r \in Registers, pc[r] # "idle", NEW n \in Nat
  PROVE  /\ NewRow(r, n) \in Device
         /\ NewRow(r, n).id = n /\ NewRow(r, n).token = token[r]
         /\ NewRow(r, n).user = user[r] /\ NewRow(r, n).lastSeenAt = clock
  BY DEF NewRow, DeviceInv, KeysOK, DeviceTypeOK, Device

\* Fewer rows keep every invariant of the rows.
LEMMA FewerRows ==
  ASSUME DeviceInv, devices' \subseteq devices, UNCHANGED <<nextId, callVars, ghosts>>, clock' \in Nat
  PROVE  DeviceInv'
<1>1. IsFiniteSet(devices')
  BY FS_Subset DEF DeviceInv, KeysOK
<1>2. DeviceTypeOK'
  BY DEF DeviceInv, DeviceTypeOK, callVars, ghosts
<1>3. KeysOK'
  BY <1>1 DEF DeviceInv, KeysOK, WithId, callVars
<1>4. QED
  BY <1>2, <1>3 DEF DeviceInv

LEMMA DeviceInductive ==
  ASSUME DeviceInv, [DeviceNext]_vars
  PROVE  DeviceInv'
<1> USE DEF DeviceInv
<1>1. ASSUME NEW r \in Registers, NEW u \in Users, NEW t \in Tokens, Register(r, u, t)
      PROVE  DeviceInv'
  BY <1>1 DEF Register, DeviceTypeOK, KeysOK, WithId, ghosts
<1>2. ASSUME NEW r \in Registers, FindByToken(r)
      PROVE  DeviceInv'
  <2>1. /\ UNCHANGED <<devices, nextId, clock, user, token, uncounted, blind, renewed>>
        /\ pc[r] = "find"
        /\ \A q \in Registers \ {r} : pc'[q] = pc[q]
        /\ pc' \in [Registers -> Steps]
    BY <1>2 DEF FindByToken, Goto, DeviceTypeOK, Steps, ghosts
  <2>2. CASE pc'[r] = "saveExisting"
    <3>1. PICK d \in WithToken(token[r]) : rowId' = [rowId EXCEPT ![r] = d.id]
      BY <1>2, <2>2 DEF FindByToken, Goto, DeviceTypeOK
    <3>2. d \in devices /\ d \in Device /\ d.token = token[r] /\ d.id \in Nat /\ d.id < nextId
      BY <3>1 DEF WithToken, DeviceTypeOK, Device
    <3>3. \A e \in devices : e.id = d.id => e = d
      BY <3>2 DEF DeviceTypeOK
    <3>4. /\ rowId' \in [Registers -> Nat] /\ rowId'[r] = d.id
          /\ \A q \in Registers \ {r} : rowId'[q] = rowId[q]
      BY <3>1, <3>2 DEF DeviceTypeOK
    <3>5. \A q \in Registers \ {r} :
            pc[q] = "saveExisting" /\ rowId[q] = d.id => token[q] = token[r]
      BY <3>2 DEF KeysOK, WithId
    <3>6. DeviceTypeOK'
      BY <2>1, <3>4 DEF DeviceTypeOK, Steps
    <3>7. KeysOK'
      BY <2>1, <3>2, <3>3, <3>4, <3>5 DEF KeysOK, WithId
    <3>8. QED
      BY <3>6, <3>7
  <2>3. CASE pc'[r] # "saveExisting"
    <3>1. rowId' = rowId /\ pc'[r] = "count"
      BY <1>2, <2>3 DEF FindByToken, Goto, DeviceTypeOK
    <3>2. QED
      BY <2>1, <2>3, <3>1 DEF DeviceTypeOK, KeysOK, WithId, Steps
  <2>4. QED
    BY <2>2, <2>3
<1>3. ASSUME NEW r \in Registers, SaveExisting(r)
      PROVE  DeviceInv'
  <2> DEFINE new == NewRow(r, rowId[r])
  <2>1. /\ pc[r] = "saveExisting" /\ Return(r) /\ UNCHANGED <<nextId, clock>>
        /\ rowId[r] \in Nat /\ rowId[r] < nextId
    BY <1>3 DEF SaveExisting, DeviceTypeOK, KeysOK
  <2>11. uncounted' \subseteq Nat /\ blind' \subseteq Registers /\ renewed' \subseteq Registers
    BY <1>3, <2>1 DEF SaveExisting, DeviceTypeOK
  <2>2. new \in Device /\ new.id = rowId[r] /\ new.token = token[r]
    BY <2>1, NewRowType
  <2> HIDE DEF new
  <2>3. devices' = (devices \ WithId(rowId[r])) \cup {new}
    BY <1>3 DEF SaveExisting, WithId, new
  <2>4. \A d \in devices \ WithId(rowId[r]) : d.token # token[r] /\ d.id # rowId[r]
    BY <1>3, <2>1 DEF SaveExisting, TokenIsFree, WithToken, WithId, KeysOK, DeviceTypeOK
  <2>5. IsFiniteSet(devices')
    <3>1. IsFiniteSet(devices \ WithId(rowId[r]))
      BY FS_Subset DEF KeysOK
    <3>2. QED
      BY <2>3, <3>1, FS_AddElement
  <2>6. DeviceTypeOK'
    <3>1. devices' \subseteq Device
      BY <2>2, <2>3 DEF DeviceTypeOK
    <3>2. \A d, e \in devices' : d.token = e.token \/ d.id = e.id => d = e
      BY <2>2, <2>3, <2>4 DEF DeviceTypeOK
    <3>3. \A d \in devices' : d.id < nextId'
      BY <2>1, <2>2, <2>3 DEF DeviceTypeOK
    <3>4. QED
      BY <2>1, <2>11, <3>1, <3>2, <3>3, ReturnEffect DEF DeviceTypeOK, Steps
  <2>7. KeysOK'
    <3>1. ASSUME NEW q \in Registers, pc'[q] = "saveExisting"
          PROVE  \A d \in devices' : d.id = rowId'[q] => d.token = token'[q]
      <4>1. q # r /\ pc[q] = "saveExisting" /\ rowId'[q] = rowId[q] /\ token'[q] = token[q]
        BY <2>1, <3>1, ReturnEffect
      <4>2. rowId[q] = rowId[r] => token[q] = token[r]
        BY <2>1, <4>1 DEF KeysOK
      <4>3. \A d \in devices : d.id = rowId[q] => d.token = token[q]
        BY <4>1 DEF KeysOK, WithId
      <4>4. QED
        BY <2>2, <2>3, <4>1, <4>2, <4>3
    <3>2. QED
      BY <2>1, <2>5, <3>1, ReturnEffect DEF KeysOK, WithId
  <2>8. QED
    BY <2>6, <2>7
<1>4. ASSUME NEW r \in Registers, CountDevices(r)
      PROVE  DeviceInv'
  <2>1. PICK step \in {"findStalest", "insert"} : Goto(r, step)
    BY <1>4 DEF CountDevices
  <2>2. /\ UNCHANGED <<devices, nextId, rowId, clock, uncounted, renewed>> /\ pc[r] = "count"
        /\ blind' \subseteq Registers
    BY <1>4 DEF CountDevices, Overlaps, DeviceTypeOK
  <2>3. QED
    BY <2>1, <2>2, GotoEffect DEF DeviceTypeOK, KeysOK, WithId, Steps
<1>5. ASSUME NEW r \in Registers, FindStalest(r)
      PROVE  DeviceInv'
  <2>1. PICK step \in {"evict", "insert"} : Goto(r, step)
    BY <1>5 DEF FindStalest
  <2>2. /\ UNCHANGED <<devices, nextId, clock, uncounted, renewed>> /\ pc[r] = "findStalest"
        /\ blind' \subseteq Registers
        /\ \/ rowId' = rowId
           \/ \E d \in devices : rowId' = [rowId EXCEPT ![r] = d.id]
    BY <1>5 DEF FindStalest, Stalest, DevicesOf, DeviceTypeOK
  <2>3. rowId' \in [Registers -> Nat] /\ \A q \in Registers \ {r} : rowId'[q] = rowId[q]
    BY <2>2 DEF DeviceTypeOK, Device
  <2>4. QED
    BY <2>1, <2>2, <2>3, GotoEffect DEF DeviceTypeOK, KeysOK, WithId, Steps
<1>6. ASSUME NEW r \in Registers, Evict(r)
      PROVE  DeviceInv'
  <2>1. Goto(r, "insert") /\ devices' \subseteq devices
        /\ UNCHANGED <<nextId, clock, uncounted, blind>> /\ pc[r] = "evict"
        /\ rowId' = [rowId EXCEPT ![r] = 0] /\ renewed' \subseteq Registers
    BY <1>6 DEF Evict, DeviceTypeOK
  <2>2. IsFiniteSet(devices')
    BY <2>1, FS_Subset DEF KeysOK
  <2>3. DeviceTypeOK'
    BY <2>1, GotoEffect DEF DeviceTypeOK, Steps
  <2>4. KeysOK'
    BY <2>1, <2>2, GotoEffect DEF KeysOK, WithId, Steps
  <2>5. QED
    BY <2>3, <2>4
<1>7. ASSUME NEW r \in Registers, InsertDevice(r)
      PROVE  DeviceInv'
  <2> DEFINE new == NewRow(r, nextId)
  <2>1. /\ pc[r] = "insert" /\ Return(r) /\ UNCHANGED clock /\ nextId' = nextId + 1
        /\ nextId \in Nat
        /\ uncounted' \subseteq Nat /\ blind' \subseteq Registers /\ renewed' = renewed
    BY <1>7 DEF InsertDevice, DeviceTypeOK
  <2>2. new \in Device /\ new.id = nextId /\ new.token = token[r]
    BY <2>1, NewRowType
  <2> HIDE DEF new
  <2>3. devices' = devices \cup {new}
    BY <1>7 DEF InsertDevice, new
  <2>4. \A d \in devices : d.token # token[r] /\ d.id < nextId /\ d.id \in Nat
    BY <1>7 DEF InsertDevice, TokenIsFree, WithToken, DeviceTypeOK, Device
  <2>5. IsFiniteSet(devices')
    BY <2>3, FS_AddElement DEF KeysOK
  <2>6. DeviceTypeOK'
    <3>1. devices' \subseteq Device
      BY <2>2, <2>3 DEF DeviceTypeOK
    <3>2. \A d, e \in devices' : d.token = e.token \/ d.id = e.id => d = e
      BY <2>1, <2>2, <2>3, <2>4 DEF DeviceTypeOK
    <3>3. \A d \in devices' : d.id < nextId'
      BY <2>1, <2>2, <2>3, <2>4
    <3>4. QED
      BY <2>1, <3>1, <3>2, <3>3, ReturnEffect DEF DeviceTypeOK, Steps
  <2>7. KeysOK'
    <3>1. ASSUME NEW q \in Registers, pc'[q] = "saveExisting"
          PROVE  /\ rowId'[q] < nextId'
                 /\ \A d \in devices' : d.id = rowId'[q] => d.token = token'[q]
      <4>1. /\ q # r /\ pc[q] = "saveExisting" /\ rowId'[q] = rowId[q] /\ token'[q] = token[q]
            /\ rowId[q] \in Nat /\ rowId[q] < nextId
        BY <2>1, <3>1, ReturnEffect DEF KeysOK, DeviceTypeOK
      <4>2. \A d \in devices : d.id = rowId[q] => d.token = token[q]
        BY <4>1 DEF KeysOK, WithId
      <4>3. QED
        BY <2>1, <2>2, <2>3, <4>1, <4>2
    <3>2. QED
      BY <2>1, <2>5, <3>1, ReturnEffect DEF KeysOK, WithId
  <2>8. QED
    BY <2>6, <2>7
<1>8. ASSUME NEW r \in Registers, RegisterFails(r)
      PROVE  DeviceInv'
  BY <1>8, ReturnEffect DEF RegisterFails, DeviceTypeOK, KeysOK, WithId, Steps
<1>9. ASSUME NEW D, DeleteDevices(D)
      PROVE  DeviceInv'
  BY <1>9, FewerRows DEF DeleteDevices, DeviceTypeOK
<1>10. CASE Tick
  BY <1>10, FewerRows DEF Tick, DeviceTypeOK
<1>11. CASE UNCHANGED vars
  BY <1>11, FewerRows DEF vars, DeviceTypeOK
<1>12. QED
  BY <1>1, <1>2, <1>3, <1>4, <1>5, <1>6, <1>7, <1>8, <1>9, <1>10, <1>11
     DEF DeviceNext, ClientNext, RegisterNext, Unregister, EraseForUser, PurgeStale, RemoveToken

LEMMA DeviceInvariant == DeviceSpec => []DeviceInv
<1>1. DeviceInit => DeviceInv
  BY FS_EmptySet DEF DeviceInit, DeviceInv, DeviceTypeOK, KeysOK, WithId
<1>2. DeviceInv /\ [DeviceNext]_vars => DeviceInv'
  BY DeviceInductive
<1>3. QED
  BY <1>1, <1>2, PTL DEF DeviceSpec

-----------------------------------------------------------------------------
(* The jobs *)

Unsent == {"dispatched", "waiting", "sending", "fallback"}

\* What holds of one job x, whose message was accepted n times and has the statuses rs,
\* when FCM has reported the tokens in gone dead.
JobOK(x, n, rs, gone) ==
  /\ x.state # "none" => x.to \in Tokens
  /\ x.state = "none" => n = 0 /\ rs = {}
  /\ x.made <= MaxAttempts
  /\ x.state \in {"dispatched", "waiting"} \cup Running => x.made < MaxAttempts
  /\ n <= 1 + x.made + x.stalls
  /\ x.state \in Unsent => n <= x.made + x.stalls
  /\ x.state = "fallback" => x.fallback
  /\ x.state = "recording" /\ x.outcome = "ok" /\ ~ x.fallback => n > 0
  /\ "SENT" \in rs /\ ~ x.fallback => n > 0
  /\ x.state \in {"pruning", "completed"} => rs # {}
  /\ x.state = "recording" /\ x.outcome = "unregistered" => x.to \in gone
  /\ x.state = "pruning" => x.to \in gone

DeliveryInv ==
  /\ DeviceInv
  /\ DeliveryTypeOK
  /\ \A j \in Jobs : JobOK(jobs[j], sent[j], records[j], dead)

LEMMA MoveEffect ==
  ASSUME jobs \in [Jobs -> Job], NEW j \in Jobs, NEW from, NEW job \in Job, Move(j, from, job)
  PROVE  /\ jobs[j].state = from /\ jobs'[j] = job
         /\ jobs' \in [Jobs -> Job]
         /\ \A i \in Jobs \ {j} : jobs'[i] = jobs[i]
  BY DEF Move

\* A step that touches one job keeps the invariant if it keeps it for that job.
LEMMA OneJobStep ==
  ASSUME DeliveryInv, DeviceInv', NEW j \in Jobs,
         jobs' \in [Jobs -> Job], \A i \in Jobs \ {j} : jobs'[i] = jobs[i],
         NEW n \in Nat, sent' = [sent EXCEPT ![j] = n],
         NEW rs \in SUBSET {"SENT", "FAILED"}, records' = [records EXCEPT ![j] = rs],
         dead \subseteq dead', dead' \subseteq Tokens,
         JobOK(jobs'[j], n, rs, dead')
  PROVE  DeliveryInv'
<1>1. sent' \in [Jobs -> Nat] /\ records' \in [Jobs -> SUBSET {"SENT", "FAILED"}]
  BY DEF DeliveryInv, DeliveryTypeOK
<1>2. ASSUME NEW i \in Jobs PROVE JobOK(jobs'[i], sent'[i], records'[i], dead')
  <2>1. CASE i = j
    BY <2>1 DEF DeliveryInv, DeliveryTypeOK
  <2>2. CASE i # j
    <3>1. jobs'[i] = jobs[i] /\ sent'[i] = sent[i] /\ records'[i] = records[i]
      BY <2>2 DEF DeliveryInv, DeliveryTypeOK
    <3>2. JobOK(jobs[i], sent[i], records[i], dead)
      BY DEF DeliveryInv
    <3>3. QED
      BY <3>1, <3>2 DEF JobOK
  <2>3. QED
    BY <2>1, <2>2
<1>3. DeliveryTypeOK'
  BY <1>1, <1>2 DEF DeliveryTypeOK, DeviceInv, JobOK
<1>4. QED
  BY <1>2, <1>3 DEF DeliveryInv

\* A step that leaves the token, the route and what was sent and recorded alone.
LEMMA QuietJobStep ==
  ASSUME DeliveryInv, DeviceInv', NEW j \in Jobs, jobs[j].state # "none",
         NEW from, NEW job \in Job, Move(j, from, job), UNCHANGED <<dead, sent, records>>,
         job.to = jobs[j].to, job.fallback = jobs[j].fallback,
         JobOK(job, sent[j], records[j], dead)
  PROVE  DeliveryInv'
<1>1. /\ sent[j] \in Nat /\ sent' = [sent EXCEPT ![j] = sent[j]]
      /\ records[j] \in SUBSET {"SENT", "FAILED"} /\ records' = [records EXCEPT ![j] = records[j]]
      /\ dead \subseteq Tokens /\ jobs \in [Jobs -> Job]
  BY DEF DeliveryInv, DeliveryTypeOK
<1>2. /\ jobs'[j] = job /\ jobs' \in [Jobs -> Job]
      /\ \A i \in Jobs \ {j} : jobs'[i] = jobs[i]
  BY <1>1, MoveEffect
<1>3. QED
  BY <1>1, <1>2, OneJobStep

LEMMA JobStepInductive ==
  ASSUME DeliveryInv, DeviceInv', NEW j \in Jobs, JobStep(j) \/ WorkerDies(j)
  PROVE  DeliveryInv'
<1>0. /\ jobs \in [Jobs -> Job] /\ jobs[j] \in Job /\ JobOK(jobs[j], sent[j], records[j], dead)
      /\ sent \in [Jobs -> Nat] /\ records \in [Jobs -> SUBSET {"SENT", "FAILED"}]
      /\ dead \subseteq Tokens
      /\ MaxAttempts \in Nat /\ MaxStalls \in Nat
  BY DeliveryAssumption DEF DeliveryInv, DeliveryTypeOK
<1>1. CASE Enqueue(j)
  <2> DEFINE x == [jobs[j] EXCEPT !.state = "waiting"]
  <2>1. x \in Job
    BY <1>0, Zenon DEF Job
  <2>2. /\ x.state = "waiting" /\ x.to = jobs[j].to /\ x.fallback = jobs[j].fallback
        /\ x.made = jobs[j].made /\ x.stalls = jobs[j].stalls
    BY <1>0 DEF Job
  <2> HIDE DEF x
  <2>3. Move(j, "dispatched", x) /\ jobs[j].state = "dispatched" /\ UNCHANGED <<dead, sent, records>>
    BY <1>1 DEF Enqueue, Move, x
  <2>4. JobOK(x, sent[j], records[j], dead)
    BY <1>0, <2>2, <2>3 DEF JobOK, Unsent, Running
  <2>5. QED
    BY <2>1, <2>2, <2>3, <2>4, QuietJobStep
<1>2. CASE EnqueueFails(j)
  <2> DEFINE x == [jobs[j] EXCEPT !.state = "failed"]
  <2>1. x \in Job
    BY <1>0, Zenon DEF Job
  <2>2. /\ x.state = "failed" /\ x.to = jobs[j].to /\ x.fallback = jobs[j].fallback
        /\ x.made = jobs[j].made /\ x.stalls = jobs[j].stalls
    BY <1>0 DEF Job
  <2> HIDE DEF x
  <2>3. Move(j, "dispatched", x) /\ jobs[j].state = "dispatched" /\ UNCHANGED <<dead, sent, records>>
    BY <1>2 DEF EnqueueFails, Move, x
  <2>4. JobOK(x, sent[j], records[j], dead)
    BY <1>0, <2>2, <2>3 DEF JobOK, Unsent, Running
  <2>5. QED
    BY <2>1, <2>2, <2>3, <2>4, QuietJobStep
<1>3. CASE TakeJob(j)
  <2> DEFINE x == [jobs[j] EXCEPT !.state = "sending", !.outcome = "none"]
  <2>1. x \in Job
    BY <1>0, Zenon DEF Job
  <2>2. /\ x.state = "sending" /\ x.to = jobs[j].to /\ x.fallback = jobs[j].fallback
        /\ x.made = jobs[j].made /\ x.stalls = jobs[j].stalls
    BY <1>0 DEF Job
  <2> HIDE DEF x
  <2>3. Move(j, "waiting", x) /\ jobs[j].state = "waiting" /\ UNCHANGED <<dead, sent, records>>
    BY <1>3 DEF TakeJob, Move, x
  <2>4. JobOK(x, sent[j], records[j], dead)
    BY <1>0, <2>2, <2>3 DEF JobOK, Unsent, Running
  <2>5. QED
    BY <2>1, <2>2, <2>3, <2>4, QuietJobStep
<1>4. CASE SendPrimary(j)
  <2>1. PICK a \in Answers(jobs[j].to) :
          /\ Move(j, "sending",
                  [jobs[j] EXCEPT !.outcome = a,
                                  !.state = IF a # "ok" /\ jobs[j].fallback THEN "fallback"
                                            ELSE "recording"])
          /\ sent' = [sent EXCEPT ![j] = IF a = "ok" THEN @ + 1 ELSE @]
          /\ dead' = IF a = "unregistered" THEN dead \cup {jobs[j].to} ELSE dead
    BY <1>4 DEF SendPrimary
  <2> DEFINE next == IF a # "ok" /\ jobs[j].fallback THEN "fallback" ELSE "recording"
             x == [jobs[j] EXCEPT !.outcome = a, !.state = next]
             n == IF a = "ok" THEN sent[j] + 1 ELSE sent[j]
  <2>2. a \in {"ok", "error", "unregistered"}
    BY DEF Answers
  <2>3. x \in Job
    <3>1. next \in {"fallback", "recording"}
      OBVIOUS
    <3> HIDE DEF next
    <3>2. QED
      BY <1>0, <2>2, <3>1, Zenon DEF Job
  <2>4. /\ x.state = next /\ x.outcome = a /\ x.to = jobs[j].to /\ x.fallback = jobs[j].fallback
        /\ x.made = jobs[j].made /\ x.stalls = jobs[j].stalls
    BY <1>0 DEF Job
  <2>5. Move(j, "sending", x) /\ jobs[j].state = "sending" /\ UNCHANGED records
    BY <1>4, <2>1 DEF SendPrimary, Move
  <2> HIDE DEF x
  <2>6. n \in Nat /\ sent' = [sent EXCEPT ![j] = n]
    BY <1>0, <2>1
  <2>7. dead \subseteq dead' /\ dead' \subseteq Tokens /\ (a = "unregistered" => jobs[j].to \in dead')
    BY <1>0, <2>1, <2>5 DEF JobOK
  <2>8. JobOK(x, n, records[j], dead')
    BY <1>0, <2>2, <2>4, <2>5, <2>7 DEF JobOK, Unsent, Running, Job
  <2>9. /\ jobs'[j] = x /\ jobs' \in [Jobs -> Job]
        /\ \A i \in Jobs \ {j} : jobs'[i] = jobs[i]
    BY <1>0, <2>3, <2>5, MoveEffect
  <2>10. records[j] \in SUBSET {"SENT", "FAILED"} /\ records' = [records EXCEPT ![j] = records[j]]
    BY <1>0, <2>5
  <2> HIDE DEF n
  <2>11. QED
    BY <2>6, <2>7, <2>8, <2>9, <2>10, OneJobStep
<1>5. CASE SendFallback(j)
  <2>1. PICK a \in {"ok", "error"} :
          Move(j, "fallback", [jobs[j] EXCEPT !.outcome = a, !.state = "recording"])
    BY <1>5 DEF SendFallback
  <2> DEFINE x == [jobs[j] EXCEPT !.outcome = a, !.state = "recording"]
  <2>2. x \in Job
    BY <1>0, <2>1, Zenon DEF Job
  <2>3. /\ x.state = "recording" /\ x.outcome = a /\ x.to = jobs[j].to
        /\ x.fallback = jobs[j].fallback
        /\ x.made = jobs[j].made /\ x.stalls = jobs[j].stalls
    BY <1>0 DEF Job
  <2>4. Move(j, "fallback", x) /\ jobs[j].state = "fallback" /\ UNCHANGED <<dead, sent, records>>
    BY <1>5, <2>1 DEF SendFallback, Move
  <2> HIDE DEF x
  <2>5. JobOK(x, sent[j], records[j], dead)
    BY <1>0, <2>1, <2>3, <2>4 DEF JobOK, Unsent, Running, Job
  <2>6. QED
    BY <2>2, <2>3, <2>4, <2>5, QuietJobStep
<1>6. CASE SaveRecord(j)
  <2> DEFINE next == IF jobs[j].outcome = "unregistered" THEN "pruning" ELSE "completed"
             x == [jobs[j] EXCEPT !.state = next]
             rs == records[j] \cup {Status(j)}
  <2>1. x \in Job
    <3>1. next \in {"pruning", "completed"}
      OBVIOUS
    <3> HIDE DEF next
    <3>2. QED
      BY <1>0, <3>1, Zenon DEF Job
  <2>2. /\ x.state = next /\ x.to = jobs[j].to /\ x.fallback = jobs[j].fallback
        /\ x.made = jobs[j].made /\ x.stalls = jobs[j].stalls
    BY <1>0 DEF Job
  <2>3. Move(j, "recording", x) /\ jobs[j].state = "recording" /\ UNCHANGED <<dead, sent>>
    BY <1>6 DEF SaveRecord, Move
  <2> HIDE DEF x
  <2>4. rs \in SUBSET {"SENT", "FAILED"} /\ records' = [records EXCEPT ![j] = rs]
    BY <1>0, <1>6 DEF SaveRecord, Status
  <2>5. JobOK(x, sent[j], rs, dead)
    BY <1>0, <2>2, <2>3 DEF JobOK, Unsent, Running, Job, Status
  <2>6. sent[j] \in Nat /\ sent' = [sent EXCEPT ![j] = sent[j]]
    BY <1>0, <2>3
  <2>7. /\ jobs'[j] = x /\ jobs' \in [Jobs -> Job]
        /\ \A i \in Jobs \ {j} : jobs'[i] = jobs[i]
    BY <1>0, <2>1, <2>3, MoveEffect
  <2> HIDE DEF rs
  <2>8. QED
    BY <1>0, <2>3, <2>4, <2>5, <2>6, <2>7, OneJobStep
<1>7. CASE SaveRecordFails(j)
  <2> DEFINE next == IF jobs[j].made + 1 < MaxAttempts THEN "waiting" ELSE "failed"
             x == [jobs[j] EXCEPT !.made = jobs[j].made + 1, !.state = next]
  <2>1. x \in Job
    <3>1. next \in {"waiting", "failed"}
      OBVIOUS
    <3>2. jobs[j].made + 1 \in Nat
      BY <1>0 DEF Job
    <3> HIDE DEF next
    <3>3. QED
      BY <1>0, <3>1, <3>2, Zenon DEF Job
  <2>2. /\ x.state = next /\ x.to = jobs[j].to /\ x.fallback = jobs[j].fallback
        /\ x.made = jobs[j].made + 1 /\ x.stalls = jobs[j].stalls
    BY <1>0 DEF Job
  <2>3. /\ Move(j, "recording", x) /\ jobs[j].state = "recording"
        /\ UNCHANGED <<dead, sent, records>>
    BY <1>7 DEF SaveRecordFails, Move
  <2> HIDE DEF x
  <2>4. JobOK(x, sent[j], records[j], dead)
    BY <1>0, <2>2, <2>3 DEF JobOK, Unsent, Running, Job
  <2>5. QED
    BY <2>1, <2>2, <2>3, <2>4, QuietJobStep
<1>8. CASE PruneToken(j) \/ PruneFails(j)
  <2> DEFINE x == [jobs[j] EXCEPT !.state = "completed"]
  <2>1. x \in Job
    BY <1>0, Zenon DEF Job
  <2>2. /\ x.state = "completed" /\ x.to = jobs[j].to /\ x.fallback = jobs[j].fallback
        /\ x.made = jobs[j].made /\ x.stalls = jobs[j].stalls
    BY <1>0 DEF Job
  <2> HIDE DEF x
  <2>3. Move(j, "pruning", x) /\ jobs[j].state = "pruning" /\ UNCHANGED <<dead, sent, records>>
    BY <1>8 DEF PruneToken, PruneFails, Move, x
  <2>4. JobOK(x, sent[j], records[j], dead)
    BY <1>0, <2>2, <2>3 DEF JobOK, Unsent, Running
  <2>5. QED
    BY <2>1, <2>2, <2>3, <2>4, QuietJobStep
<1>9. CASE WorkerDies(j)
  <2> DEFINE next == IF jobs[j].stalls < MaxStalls THEN "waiting" ELSE "failed"
             x == [jobs[j] EXCEPT !.stalls = jobs[j].stalls + 1, !.state = next]
  <2>1. x \in Job
    <3>1. next \in {"waiting", "failed"}
      OBVIOUS
    <3>2. jobs[j].stalls + 1 \in Nat
      BY <1>0 DEF Job
    <3> HIDE DEF next
    <3>3. QED
      BY <1>0, <3>1, <3>2, Zenon DEF Job
  <2>2. /\ x.state = next /\ x.to = jobs[j].to /\ x.fallback = jobs[j].fallback
        /\ x.made = jobs[j].made /\ x.stalls = jobs[j].stalls + 1
    BY <1>0 DEF Job
  <2>3. /\ jobs[j].state \in Running /\ UNCHANGED <<dead, sent, records>>
        /\ jobs' = [jobs EXCEPT ![j] = x]
    BY <1>0, <1>9 DEF WorkerDies
  <2>4. Move(j, jobs[j].state, x)
    BY <2>3 DEF Move
  <2> HIDE DEF x
  <2>5. JobOK(x, sent[j], records[j], dead)
    BY <1>0, <2>2, <2>3 DEF JobOK, Unsent, Running, Job
  <2>6. QED
    BY <2>1, <2>2, <2>3, <2>4, <2>5, QuietJobStep DEF Running
<1>10. QED
  BY <1>1, <1>2, <1>3, <1>4, <1>5, <1>6, <1>7, <1>8, <1>9 DEF JobStep

LEMMA NoJobType ==
  NoJob \in Job /\ NoJob.state = "none" /\ NoJob.made = 0 /\ NoJob.stalls = 0
<1>1. 0 \in Nat
  OBVIOUS
<1>2. NoJob \in Job
  BY <1>1, Zenon DEF NoJob, Job
<1>3. NoJob.state = "none" /\ NoJob.made = 0 /\ NoJob.stalls = 0
  BY DEF NoJob
<1>4. QED
  BY <1>2, <1>3, Zenon

LEMMA DispatchInductive ==
  ASSUME DeliveryInv, DeviceInv', NEW u \in Users, NEW fallback \in BOOLEAN,
         DispatchPush(u, fallback)
  PROVE  DeliveryInv'
<1> DEFINE to == {d.token : d \in DevicesOf(u)}
           fresh(t) == [NoJob EXCEPT !.state = "dispatched", !.user = u, !.fallback = fallback,
                                     !.to = t]
<1>1. PICK f \in [to -> FreeJobs] :
        jobs' = [j \in Jobs |-> IF \E t \in to : f[t] = j
                                THEN fresh(CHOOSE t \in to : f[t] = j) ELSE jobs[j]]
  BY DEF DispatchPush
<1>2. to \subseteq Tokens
  BY DEF DevicesOf, DeliveryInv, DeviceInv, DeviceTypeOK, Device
<1>3. ASSUME NEW t \in Tokens
      PROVE  /\ fresh(t) \in Job
             /\ fresh(t).state = "dispatched" /\ fresh(t).to = t
             /\ fresh(t).made = 0 /\ fresh(t).stalls = 0
  <2>1. u \in Users \cup {NoUser} /\ t \in Tokens \cup {NoDevice}
    OBVIOUS
  <2>2. fresh(t) \in Job
    BY <2>1, NoJobType, Zenon DEF Job
  <2>3. fresh(t).state = "dispatched" /\ fresh(t).to = t /\ fresh(t).made = 0 /\ fresh(t).stalls = 0
    BY NoJobType DEF Job
  <2>4. QED
    BY <2>2, <2>3, Zenon
<1> HIDE DEF fresh
<1>4. /\ jobs \in [Jobs -> Job] /\ sent \in [Jobs -> Nat]
      /\ sent' = sent /\ records' = records /\ dead' = dead /\ MaxAttempts \in Nat \ {0}
  BY DeliveryAssumption DEF DispatchPush, DeliveryInv, DeliveryTypeOK
<1>5. ASSUME NEW j \in Jobs
      PROVE  jobs'[j] \in Job /\ JobOK(jobs'[j], sent[j], records[j], dead)
  <2>1. JobOK(jobs[j], sent[j], records[j], dead) /\ jobs[j] \in Job
    BY <1>4 DEF DeliveryInv
  <2>2. CASE \E t \in to : f[t] = j
    <3>1. PICK t \in Tokens : jobs'[j] = fresh(t)
      BY <1>1, <1>2, <2>2
    <3>2. jobs[j].state = "none"
      BY <1>1, <2>2 DEF FreeJobs
    <3>3. QED
      BY <1>3, <1>4, <2>1, <3>1, <3>2 DEF JobOK, Unsent, Running
  <2>3. CASE ~ \E t \in to : f[t] = j
    BY <1>1, <2>1, <2>3
  <2>4. QED
    BY <2>2, <2>3
<1>6. jobs' \in [Jobs -> Job]
  <2>1. jobs' = [j \in Jobs |-> jobs'[j]]
    BY <1>1
  <2>2. QED
    BY <1>5, <2>1
<1>7. DeliveryTypeOK'
  BY <1>4, <1>5, <1>6 DEF DeliveryInv, DeliveryTypeOK, DeviceInv, JobOK
<1>8. QED
  BY <1>4, <1>5, <1>7 DEF DeliveryInv

\* Every step of the pipeline is a step of the registry or leaves it alone: what is
\* proved of the registry holds inside the pipeline.
LEMMA DeliveryStepIsDeviceStep ==
  ASSUME DeliveryInv, [DeliveryNext]_allVars
  PROVE  [DeviceNext]_vars
<1>1. CASE ClientNext
  BY <1>1 DEF DeviceNext
<1>2. ASSUME NEW j \in Jobs, PruneToken(j)
      PROVE  [DeviceNext]_vars
  <2>1. jobs[j].state = "pruning" /\ RemoveToken(jobs[j].to)
    BY <1>2 DEF PruneToken, Move
  <2>2. jobs[j].to \in Tokens
    BY <2>1 DEF DeliveryInv, JobOK
  <2>3. QED
    BY <2>1, <2>2 DEF DeviceNext
<1>3. CASE UNCHANGED vars
  BY <1>3
<1>4. ASSUME NEW j \in Jobs, JobStep(j) \/ WorkerDies(j), ~ PruneToken(j)
      PROVE  UNCHANGED vars
  BY <1>4 DEF JobStep, Enqueue, EnqueueFails, TakeJob, SendPrimary, SendFallback, SaveRecord,
     SaveRecordFails, PruneFails, WorkerDies
<1>5. CASE \E u \in Users, fallback \in BOOLEAN : DispatchPush(u, fallback)
  BY <1>5 DEF DispatchPush
<1>6. CASE UNCHANGED allVars
  BY <1>6 DEF allVars
<1>7. QED
  BY <1>1, <1>2, <1>3, <1>4, <1>5, <1>6 DEF DeliveryNext

LEMMA DeliveryInductive ==
  ASSUME DeliveryInv, [DeliveryNext]_allVars
  PROVE  DeliveryInv'
<1>1. DeviceInv'
  BY DeliveryStepIsDeviceStep, DeviceInductive DEF DeliveryInv
<1>2. CASE UNCHANGED deliveryVars
  BY <1>1, <1>2 DEF DeliveryInv, DeliveryTypeOK, DeviceInv, deliveryVars
<1>3. CASE \E u \in Users, fallback \in BOOLEAN : DispatchPush(u, fallback)
  BY <1>1, <1>3, DispatchInductive
<1>4. CASE \E j \in Jobs : JobStep(j) \/ WorkerDies(j)
  BY <1>1, <1>4, JobStepInductive
<1>5. QED
  BY <1>2, <1>3, <1>4 DEF DeliveryNext, allVars

LEMMA DeliveryInvInit == DeliveryInit => DeliveryInv
<1> SUFFICES ASSUME DeliveryInit PROVE DeliveryInv
  OBVIOUS
<1>1. DeviceInv
  BY FS_EmptySet DEF DeliveryInit, DeviceInit, DeviceInv, DeviceTypeOK, KeysOK, WithId
<1>2. \A j \in Jobs : JobOK(jobs[j], sent[j], records[j], dead)
  BY NoJobType, DeliveryAssumption DEF DeliveryInit, JobOK, Unsent, Running
<1>3. DeliveryTypeOK
  BY NoJobType, <1>1, <1>2 DEF DeliveryInit, DeliveryTypeOK, DeviceInv, JobOK
<1>4. QED
  BY <1>1, <1>2, <1>3 DEF DeliveryInv

LEMMA DeliveryInvariant == DeliverySpec => []DeliveryInv
<1>1. DeliveryInv /\ [DeliveryNext]_allVars => DeliveryInv'
  BY DeliveryInductive
<1>2. QED
  BY DeliveryInvInit, <1>1, PTL DEF DeliverySpec

\* The pipeline's state is well typed, a job never exceeds the attempts it was queued
\* with, and the registry inside it keeps one row per token and per key
\* (delivery-queue.service.ts:100-111).
THEOREM DeliveryTypeCorrect == DeliverySpec => []DeliveryTypeOK
<1>1. DeliveryInv => DeliveryTypeOK
  BY DEF DeliveryInv
<1>2. QED
  BY <1>1, DeliveryInvariant, PTL

\* The registry the pipeline runs with is the registry as DeviceRegistry specifies it:
\* jobs touch it only through removeToken (delivery-queue.service.ts:145-153).
THEOREM DeliveryUsesRegistry == DeliverySpec => DeviceSpec
<1>1. DeliveryInit => DeviceInit
  BY DEF DeliveryInit
<1>2. DeliveryInv /\ [DeliveryNext]_allVars => [DeviceNext]_vars
  BY DeliveryStepIsDeviceStep
<1>3. QED
  BY <1>1, <1>2, DeliveryInvariant, PTL DEF DeliverySpec, DeviceSpec

\* For any number of jobs, attempts and workers that die, FCM accepts a message at most
\* once more than it had reason to be sent again (delivery-queue.service.ts:100-111).
THEOREM DuplicatesAreBounded == DeliverySpec => []BoundedDuplicates
<1>1. DeliveryInv => BoundedDuplicates
  BY DEF DeliveryInv, BoundedDuplicates, JobOK
<1>2. QED
  BY <1>1, DeliveryInvariant, PTL

\* A SENT row of a route without a fallback stands for an accepted message, and no job
\* finishes without a row (delivery-queue.service.ts:134-154).
THEOREM DeliveryRecordsTellTruth == DeliverySpec => []RecordsTellTruth
<1>1. DeliveryInv => RecordsTellTruth
  BY DEF DeliveryInv, RecordsTellTruth, JobOK
<1>2. QED
  BY <1>1, DeliveryInvariant, PTL

\* A registration is pruned only for a token FCM has reported dead, whatever the
\* registry's clients do meanwhile (delivery-queue.service.ts:145-153).
THEOREM DeliveryPrunesOnlyDead == DeliverySpec => PrunesOnlyDead
<1>1. ASSUME DeliveryInv, [DeliveryNext]_allVars, NEW j \in Jobs,
             jobs[j].state = "pruning", jobs'[j].state = "completed"
      PROVE  \A d \in devices \ devices' : d.token \in dead
  <2>1. PICK i \in Jobs : JobStep(i) \/ WorkerDies(i)
    BY <1>1 DEF DeliveryNext, DispatchPush, FreeJobs, deliveryVars, allVars
  <2>2. CASE PruneToken(i)
    <3>1. jobs[i].state = "pruning" /\ devices' = devices \ WithToken(jobs[i].to)
      BY <2>2 DEF PruneToken, Move, RemoveToken, DeleteDevices
    <3>2. jobs[i].to \in dead
      BY <1>1, <3>1 DEF DeliveryInv, JobOK
    <3>3. QED
      BY <3>1, <3>2 DEF WithToken
  <2>3. CASE ~ PruneToken(i)
    BY <2>1, <2>3 DEF vars, JobStep, Enqueue, EnqueueFails, TakeJob, SendPrimary, SendFallback,
       SaveRecord, SaveRecordFails, PruneFails, WorkerDies
  <2>4. QED
    BY <2>2, <2>3
<1>2. DeliveryInv /\ [DeliveryNext]_allVars =>
        [\A j \in Jobs :
           jobs[j].state = "pruning" /\ jobs'[j].state = "completed" =>
             \A d \in devices \ devices' : d.token \in dead]_allVars
  BY <1>1
<1>3. QED
  BY <1>2, DeliveryInvariant, PTL DEF DeliverySpec, PrunesOnlyDead

-----------------------------------------------------------------------------
(* The cap *)

\* A call at step p that has read the row with id k, and sees the devices N of its user
\* that came in turn: it inserts below the cap, and once the row it is to evict is gone,
\* whoever removed it, it is below the cap.
Room(p, N, k) ==
  /\ p = "evict" => (\E d \in N : d.id = k) \/ Cardinality(N) < MaxDevices
  /\ p = "insert" => Cardinality(N) < MaxDevices
Kept(u) ==
  /\ Cardinality(InTurn(u)) <= MaxDevices
  /\ \A r \in Registers : user[r] = u /\ r \notin blind => Room(pc[r], InTurn(u), rowId[r])

\* Of the calls of a user that have counted, all but one know that they overlap.
OneSighted ==
  \A u \in Users : \A q, r \in Counted(u) : q # r => q \in blind \/ r \in blind
CapInv == OneSighted /\ \A u \in Users : Kept(u)

LEMMA InTurnFinite ==
  ASSUME DeviceInv, NEW u
  PROVE  /\ IsFiniteSet(InTurn(u)) /\ Cardinality(InTurn(u)) \in Nat
         /\ IsFiniteSet(DevicesOf(u)) /\ Cardinality(DevicesOf(u)) \in Nat
         /\ Cardinality(InTurn(u)) <= Cardinality(DevicesOf(u))
<1>1. InTurn(u) \subseteq DevicesOf(u) /\ DevicesOf(u) \subseteq devices /\ IsFiniteSet(devices)
  BY DEF InTurn, DevicesOf, DeviceInv, KeysOK
<1>2. QED
  BY <1>1, FS_Subset, FS_CardinalityType

LEMMA AddOne ==
  ASSUME NEW S, IsFiniteSet(S), NEW x
  PROVE  /\ IsFiniteSet(S \cup {x})
         /\ Cardinality(S \cup {x}) <= Cardinality(S) + 1
         /\ x \notin S => Cardinality(S \cup {x}) = Cardinality(S) + 1
<1>1. Cardinality(S) \in Nat
  BY FS_CardinalityType
<1>2. CASE x \in S
  <2>1. S \cup {x} = S
    BY <1>2
  <2>2. Cardinality(S \cup {x}) = Cardinality(S) /\ IsFiniteSet(S \cup {x})
    BY <2>1, Zenon
  <2>3. QED
    BY <1>1, <1>2, <2>2
<1>3. CASE x \notin S
  BY <1>1, <1>3, FS_AddElement
<1>4. QED
  BY <1>2, <1>3

LEMMA DropOne ==
  ASSUME NEW S, IsFiniteSet(S), NEW x \in S
  PROVE  IsFiniteSet(S \ {x}) /\ Cardinality(S \ {x}) = Cardinality(S) - 1
  BY FS_RemoveElement

\* Losing devices never takes a call over the cap.
LEMMA RoomShrinks ==
  ASSUME NEW N, IsFiniteSet(N), Cardinality(N) <= MaxDevices, NEW M \in SUBSET N,
         NEW p, NEW k, Room(p, N, k)
  PROVE  Cardinality(M) <= MaxDevices /\ Room(p, M, k)
<1>1. /\ Cardinality(N) \in Nat /\ Cardinality(M) \in Nat /\ Cardinality(M) <= Cardinality(N)
      /\ Cardinality(M) = Cardinality(N) => M = N
  BY FS_Subset, FS_CardinalityType
<1>2. QED
  BY <1>1, DeviceAssumption DEF Room

\* A step of one call leaves the others where they are.
LEMMA OthersStay ==
  ASSUME DeviceInv, NEW q \in Registers, RegisterNext(q), NEW r \in Registers, r # q
  PROVE  /\ pc'[r] = pc[r] /\ user'[r] = user[r] /\ rowId'[r] = rowId[r]
         /\ r \in blind' <=> r \in blind
<1> USE DEF DeviceInv, DeviceTypeOK
<1>1. CASE \E u \in Users, t \in Tokens : Register(q, u, t)
  BY <1>1 DEF Register, ghosts
<1>2. CASE FindByToken(q)
  BY <1>2 DEF FindByToken, Goto, ghosts
<1>3. CASE CountDevices(q)
  BY <1>3 DEF CountDevices, Goto, Overlaps
<1>4. CASE FindStalest(q)
  BY <1>4 DEF FindStalest, Goto
<1>5. CASE Evict(q)
  BY <1>5 DEF Evict, Goto
<1>6. CASE SaveExisting(q)
  BY <1>6, ReturnEffect DEF SaveExisting
<1>7. CASE InsertDevice(q)
  BY <1>7, ReturnEffect DEF InsertDevice
<1>8. CASE RegisterFails(q)
  BY <1>8, ReturnEffect DEF RegisterFails
<1>9. QED
  BY <1>1, <1>2, <1>3, <1>4, <1>5, <1>6, <1>7, <1>8 DEF RegisterNext

\* What a save does to the devices that came to u in turn: none is new, or one is
\* refreshed, or the first to come arrives while nobody of u is about to insert.
LEMMA SaveEffect ==
  ASSUME DeviceInv, NEW q \in Registers, SaveExisting(q), NEW u \in Users
  PROVE  \/ InTurn(u)' \subseteq InTurn(u)
         \/ \E d \in InTurn(u), e \in InTurn(u)' :
              d.id = e.id /\ InTurn(u)' = (InTurn(u) \ {d}) \cup {e} /\ e \notin InTurn(u) \ {d}
         \/ /\ Cardinality(DevicesOf(u)) < MaxDevices /\ Counted(u) = {}
            /\ \E e : InTurn(u)' \subseteq InTurn(u) \cup {e}
<1> DEFINE k == rowId[q]
           e == NewRow(q, k)
<1>1. /\ pc[q] = "saveExisting" /\ k \in Nat
      /\ uncounted' = uncounted \cup IF ComesUncounted(q) THEN {k} ELSE {}
  BY DEF SaveExisting, DeviceInv, DeviceTypeOK
<1>2. devices' = (devices \ WithId(k)) \cup {e}
  BY DEF SaveExisting, WithId
<1>3. e.id = k /\ e.user = user[q]
  BY <1>1, NewRowType
<1> HIDE DEF e, k
<1>4. CASE user[q] # u \/ ComesUncounted(q) \/ k \in uncounted
  BY <1>1, <1>2, <1>3, <1>4 DEF InTurn, DevicesOf
<1>5. CASE user[q] = u /\ ~ ComesUncounted(q) /\ k \notin uncounted
  <2>1. uncounted' = uncounted
    BY <1>1, <1>5
  <2>2. CASE \E d \in WithId(k) : d.user = u
    <3>1. PICK d \in devices : d.id = k /\ d.user = u
      BY <2>2 DEF WithId
    <3>2. WithId(k) = {d}
      BY <3>1 DEF WithId, DeviceInv, DeviceTypeOK
    <3>3. d \in InTurn(u) /\ e \in InTurn(u)'
      BY <1>2, <1>3, <1>5, <2>1, <3>1 DEF InTurn, DevicesOf
    <3>4. InTurn(u)' = (InTurn(u) \ {d}) \cup {e}
      BY <1>2, <1>3, <1>5, <2>1, <3>1, <3>2 DEF InTurn, DevicesOf
    <3>5. e \notin InTurn(u) \ {d}
      BY <1>3, <3>2 DEF InTurn, DevicesOf, WithId
    <3>6. QED
      BY <1>3, <3>1, <3>3, <3>4, <3>5
  <2>3. CASE ~ \E d \in WithId(k) : d.user = u
    <3>1. ~ Cardinality(DevicesOf(u)) >= MaxDevices /\ Counted(u) = {}
      BY <1>5, <2>3 DEF ComesUncounted, k
    <3>2. Cardinality(DevicesOf(u)) < MaxDevices
      BY <3>1, InTurnFinite, DeviceAssumption
    <3>3. InTurn(u)' \subseteq InTurn(u) \cup {e}
      BY <1>2, <2>1 DEF InTurn, DevicesOf
    <3>4. QED
      BY <3>1, <3>2, <3>3
  <2>4. QED
    BY <2>2, <2>3
<1>6. QED
  BY <1>4, <1>5

\* Fewer devices in turn, and no call nearer to its insert than it may be.
LEMMA KeptFewer ==
  ASSUME DeviceInv, NEW u \in Users, Kept(u), InTurn(u)' \subseteq InTurn(u),
         \A r \in Registers : user'[r] = u /\ r \notin blind' => Room(pc'[r], InTurn(u), rowId'[r])
  PROVE  Kept(u)'
<1>1. IsFiniteSet(InTurn(u)) /\ Cardinality(InTurn(u)) <= MaxDevices
  BY InTurnFinite DEF Kept
<1>2. Cardinality(InTurn(u)') <= MaxDevices
  BY <1>1, RoomShrinks, FS_Subset, FS_CardinalityType, DeviceAssumption
<1>3. ASSUME NEW r \in Registers, user'[r] = u, r \notin blind'
      PROVE  Room(pc'[r], InTurn(u)', rowId'[r])
  BY <1>1, <1>3, RoomShrinks
<1>4. QED
  BY <1>2, <1>3 DEF Kept

\* The same for a step of one call q.
LEMMA KeptByCall ==
  ASSUME DeviceInv, NEW u \in Users, Kept(u), NEW q \in Registers, RegisterNext(q),
         InTurn(u)' \subseteq InTurn(u),
         user'[q] = u /\ q \notin blind' => Room(pc'[q], InTurn(u), rowId'[q])
  PROVE  Kept(u)'
<1>1. ASSUME NEW r \in Registers, user'[r] = u, r \notin blind'
      PROVE  Room(pc'[r], InTurn(u), rowId'[r])
  <2>1. CASE r = q
    BY <1>1, <2>1
  <2>2. CASE r # q
    BY <1>1, <2>2, OthersStay DEF Kept
  <2>3. QED
    BY <2>1, <2>2
<1>2. QED
  BY <1>1, KeptFewer

LEMMA KeptBySave ==
  ASSUME DeviceInv, NEW u \in Users, Kept(u), NEW q \in Registers, SaveExisting(q)
  PROVE  Kept(u)'
<1>1. pc'[q] = "idle" /\ RegisterNext(q)
  BY ReturnEffect DEF SaveExisting, RegisterNext, DeviceInv
<1>2. /\ IsFiniteSet(InTurn(u)) /\ Cardinality(InTurn(u)) \in Nat
      /\ Cardinality(InTurn(u)) <= MaxDevices
      /\ Cardinality(InTurn(u)) <= Cardinality(DevicesOf(u)) /\ Cardinality(DevicesOf(u)) \in Nat
  BY InTurnFinite DEF Kept
<1>3. CASE InTurn(u)' \subseteq InTurn(u)
  BY <1>1, <1>3, KeptByCall DEF Room
<1>4. CASE \E d \in InTurn(u), e \in InTurn(u)' :
             d.id = e.id /\ InTurn(u)' = (InTurn(u) \ {d}) \cup {e} /\ e \notin InTurn(u) \ {d}
  <2>1. PICK d \in InTurn(u), e \in InTurn(u)' :
          d.id = e.id /\ InTurn(u)' = (InTurn(u) \ {d}) \cup {e} /\ e \notin InTurn(u) \ {d}
    BY <1>4
  <2>2. Cardinality(InTurn(u) \ {d}) = Cardinality(InTurn(u)) - 1 /\ IsFiniteSet(InTurn(u) \ {d})
    BY <1>2, DropOne
  <2>3. Cardinality(InTurn(u)') = Cardinality(InTurn(u))
    BY <1>2, <2>1, <2>2, AddOne
  <2>4. ASSUME NEW r \in Registers, user'[r] = u, r \notin blind'
        PROVE  Room(pc'[r], InTurn(u)', rowId'[r])
    <3>1. CASE r = q
      BY <1>1, <3>1 DEF Room
    <3>2. CASE r # q
      <4>1. Room(pc[r], InTurn(u), rowId[r]) /\ pc'[r] = pc[r] /\ rowId'[r] = rowId[r]
        BY <1>1, <2>4, <3>2, OthersStay DEF Kept
      <4>2. \A n : (\E c \in InTurn(u) : c.id = n) => \E c \in InTurn(u)' : c.id = n
        BY <2>1
      <4>3. QED
        BY <2>3, <4>1, <4>2 DEF Room
    <3>3. QED
      BY <3>1, <3>2
  <2>5. QED
    BY <1>2, <2>3, <2>4 DEF Kept
<1>5. CASE /\ Cardinality(DevicesOf(u)) < MaxDevices /\ Counted(u) = {}
           /\ \E e : InTurn(u)' \subseteq InTurn(u) \cup {e}
  <2>1. PICK e : InTurn(u)' \subseteq InTurn(u) \cup {e}
    BY <1>5
  <2>2. /\ IsFiniteSet(InTurn(u) \cup {e})
        /\ Cardinality(InTurn(u) \cup {e}) <= Cardinality(InTurn(u)) + 1
    BY <1>2, AddOne
  <2>3. Cardinality(InTurn(u)') <= MaxDevices
    BY <1>2, <1>5, <2>1, <2>2, FS_Subset, FS_CardinalityType, DeviceAssumption
  <2>4. ASSUME NEW r \in Registers, user'[r] = u
        PROVE  pc'[r] \notin {"evict", "insert"}
    BY <1>1, <1>5, <2>4, OthersStay DEF Counted
  <2>5. QED
    BY <2>3, <2>4 DEF Kept, Room
<1>6. QED
  BY <1>3, <1>4, <1>5, SaveEffect

LEMMA KeptByInsert ==
  ASSUME DeviceInv, OneSighted, NEW u \in Users, Kept(u), NEW q \in Registers, InsertDevice(q)
  PROVE  Kept(u)'
<1> DEFINE e == NewRow(q, nextId)
<1>1. /\ pc'[q] = "idle" /\ RegisterNext(q) /\ pc[q] = "insert" /\ nextId \in Nat
      /\ uncounted' = uncounted \cup IF q \in blind THEN {nextId} ELSE {}
  BY ReturnEffect DEF InsertDevice, RegisterNext, DeviceInv, DeviceTypeOK
<1>2. devices' = devices \cup {e}
  BY DEF InsertDevice
<1>3. e.id = nextId /\ e.user = user[q]
  BY <1>1, NewRowType
<1> HIDE DEF e
<1>4. CASE user[q] # u \/ q \in blind
  <2>1. InTurn(u)' \subseteq InTurn(u)
    BY <1>1, <1>2, <1>3, <1>4 DEF InTurn, DevicesOf
  <2>2. QED
    BY <1>1, <2>1, KeptByCall DEF Room
<1>5. CASE user[q] = u /\ q \notin blind
  <2>1. InTurn(u)' \subseteq InTurn(u) \cup {e}
    BY <1>1, <1>2 DEF InTurn, DevicesOf
  <2>2. IsFiniteSet(InTurn(u)) /\ Cardinality(InTurn(u)) \in Nat /\ Cardinality(InTurn(u)) < MaxDevices
    BY <1>1, <1>5, InTurnFinite DEF Kept, Room
  <2>3. /\ IsFiniteSet(InTurn(u) \cup {e})
        /\ Cardinality(InTurn(u) \cup {e}) <= Cardinality(InTurn(u)) + 1
    BY <2>2, AddOne
  <2>4. Cardinality(InTurn(u)') <= MaxDevices
    BY <2>1, <2>2, <2>3, FS_Subset, FS_CardinalityType, DeviceAssumption
  <2>5. ASSUME NEW r \in Registers, user'[r] = u, r \notin blind'
        PROVE  pc'[r] \notin {"evict", "insert"}
    <3>1. CASE r # q
      <4>1. pc'[r] = pc[r] /\ user[r] = u /\ r \notin blind
        BY <1>1, <2>5, <3>1, OthersStay
      <4>2. q \in Counted(u)
        BY <1>1, <1>5 DEF Counted
      <4>3. r \notin Counted(u)
        BY <1>5, <3>1, <4>1, <4>2 DEF OneSighted
      <4>4. QED
        BY <4>1, <4>3 DEF Counted
    <3>2. QED
      BY <1>1, <3>1
  <2>6. QED
    BY <2>4, <2>5 DEF Kept, Room
<1>6. QED
  BY <1>4, <1>5

LEMMA KeptByEvict ==
  ASSUME DeviceInv, NEW u \in Users, Kept(u), NEW q \in Registers, Evict(q)
  PROVE  Kept(u)'
<1>1. /\ pc[q] = "evict" /\ pc'[q] = "insert" /\ user' = user /\ blind' = blind
      /\ devices' = devices \ WithId(rowId[q]) /\ uncounted' = uncounted /\ RegisterNext(q)
  BY DEF Evict, Goto, RegisterNext, DeviceInv, DeviceTypeOK
<1>2. InTurn(u)' \subseteq InTurn(u) /\ \A d \in InTurn(u)' : d.id # rowId[q]
  BY <1>1 DEF InTurn, DevicesOf, WithId
<1>3. IsFiniteSet(InTurn(u)) /\ Cardinality(InTurn(u)) <= MaxDevices
  BY InTurnFinite DEF Kept
<1>4. Cardinality(InTurn(u)') <= MaxDevices
  BY <1>2, <1>3, FS_Subset, FS_CardinalityType, DeviceAssumption
<1>5. ASSUME NEW r \in Registers, user'[r] = u, r \notin blind'
      PROVE  Room(pc'[r], InTurn(u)', rowId'[r])
  <2>1. Room(pc[r], InTurn(u), rowId[r])
    BY <1>1, <1>5 DEF Kept
  <2>2. Room(pc[r], InTurn(u)', rowId[r])
    BY <1>2, <1>3, <2>1, RoomShrinks
  <2>3. CASE r = q
    BY <1>1, <1>2, <2>2, <2>3 DEF Room
  <2>4. CASE r # q
    BY <1>1, <2>2, <2>4, OthersStay
  <2>5. QED
    BY <2>3, <2>4
<1>6. QED
  BY <1>4, <1>5 DEF Kept

LEMMA KeptStep ==
  ASSUME DeviceInv, CapInv, [DeviceNext]_vars, NEW u \in Users
  PROVE  Kept(u)'
<1>1. OneSighted /\ Kept(u)
  BY DEF CapInv
<1>2. ASSUME NEW q \in Registers, RegisterNext(q)
      PROVE  Kept(u)'
  <2>1. CASE SaveExisting(q)
    BY <1>1, <2>1, KeptBySave
  <2>2. CASE InsertDevice(q)
    BY <1>1, <2>2, KeptByInsert
  <2>3. CASE Evict(q)
    BY <1>1, <2>3, KeptByEvict
  <2>4. CASE (\E v \in Users, t \in Tokens : Register(q, v, t)) \/ FindByToken(q)
    <3>1. /\ pc'[q] \in {"find", "saveExisting", "count"}
          /\ UNCHANGED <<devices, uncounted>>
      BY <2>4 DEF Register, FindByToken, Goto, ghosts, DeviceInv, DeviceTypeOK
    <3>2. InTurn(u)' = InTurn(u)
      BY <3>1 DEF InTurn, DevicesOf
    <3>3. QED
      BY <1>1, <1>2, <3>1, <3>2, KeptByCall DEF Room
  <2>5. CASE RegisterFails(q)
    <3>1. pc'[q] = "idle" /\ UNCHANGED <<devices, uncounted>>
      BY <2>5, ReturnEffect DEF RegisterFails, DeviceInv
    <3>2. InTurn(u)' = InTurn(u)
      BY <3>1 DEF InTurn, DevicesOf
    <3>3. QED
      BY <1>1, <1>2, <3>1, <3>2, KeptByCall DEF Room
  <2>6. CASE CountDevices(q)
    <3>1. /\ UNCHANGED <<devices, uncounted, user>>
          /\ pc'[q] = IF Cardinality(DevicesOf(user[q])) >= MaxDevices THEN "findStalest" ELSE "insert"
      BY <2>6 DEF CountDevices, Goto, DeviceInv, DeviceTypeOK
    <3>2. InTurn(u)' = InTurn(u)
      BY <3>1 DEF InTurn, DevicesOf
    <3>3. user'[q] = u => Room(pc'[q], InTurn(u), rowId'[q])
      BY <3>1, InTurnFinite, DeviceAssumption DEF Room
    <3>4. QED
      BY <1>1, <1>2, <3>2, <3>3, KeptByCall
  <2>7. CASE FindStalest(q)
    <3>1. UNCHANGED <<devices, uncounted, user>> /\ pc'[q] \in {"evict", "insert"}
      BY <2>7 DEF FindStalest, Goto, DeviceInv, DeviceTypeOK
    <3>2. InTurn(u)' = InTurn(u)
      BY <3>1 DEF InTurn, DevicesOf
    <3>3. ASSUME pc'[q] = "evict", user'[q] = u, q \notin blind'
          PROVE  \E d \in InTurn(u) : d.id = rowId'[q]
      <4>1. PICK d \in DevicesOf(u) : rowId'[q] = d.id /\ d.id \notin uncounted
        BY <2>7, <3>1, <3>3 DEF FindStalest, Goto, Stalest, DeviceInv, DeviceTypeOK
      <4>2. QED
        BY <4>1 DEF InTurn
    <3>4. ASSUME pc'[q] = "insert", user'[q] = u
          PROVE  Cardinality(InTurn(u)) < MaxDevices
      <4>1. DevicesOf(u) = {}
        BY <2>7, <3>1, <3>4 DEF FindStalest, Goto, DeviceInv, DeviceTypeOK
      <4>2. InTurn(u) = {}
        BY <4>1 DEF InTurn
      <4>3. QED
        BY <4>2, FS_EmptySet, DeviceAssumption
    <3>5. QED
      BY <1>1, <1>2, <3>1, <3>2, <3>3, <3>4, KeptByCall DEF Room
  <2>8. QED
    BY <1>2, <2>1, <2>2, <2>3, <2>4, <2>5, <2>6, <2>7 DEF RegisterNext
<1>3. CASE UNCHANGED <<callVars, ghosts>> /\ devices' \subseteq devices
  <2>1. InTurn(u)' \subseteq InTurn(u)
    BY <1>3 DEF InTurn, DevicesOf, ghosts
  <2>2. QED
    BY <1>1, <1>3, <2>1, KeptFewer DEF callVars, ghosts, Kept
<1>4. QED
  BY <1>2, <1>3 DEF DeviceNext, ClientNext, Unregister, EraseForUser, PurgeStale, RemoveToken,
     DeleteDevices, Tick, vars

LEMMA SightStep ==
  ASSUME DeviceInv, OneSighted, [DeviceNext]_vars
  PROVE  OneSighted'
<1>1. ASSUME NEW q \in Registers, RegisterNext(q)
      PROVE  OneSighted'
  <2>1. CASE CountDevices(q)
    <3>1. user' = user /\ blind \subseteq blind' /\ (Counted(user[q]) # {} => q \in blind')
      BY <2>1 DEF CountDevices, Overlaps, Goto
    <3>2. \A u \in Users : Counted(u)' \subseteq Counted(u) \cup IF u = user[q] THEN {q} ELSE {}
      BY <1>1, <3>1, OthersStay DEF Counted
    <3>3. QED
      BY <3>1, <3>2 DEF OneSighted
  <2>2. CASE ~ CountDevices(q)
    <3>1. pc'[q] \in {"findStalest", "evict", "insert"} =>
            /\ user'[q] = user[q] /\ pc[q] \in {"findStalest", "evict", "insert"}
            /\ q \in blind => q \in blind'
      <4>1. CASE (\E v \in Users, t \in Tokens : Register(q, v, t)) \/ FindByToken(q)
        BY <4>1 DEF Register, FindByToken, Goto, DeviceInv, DeviceTypeOK
      <4>2. CASE SaveExisting(q) \/ InsertDevice(q) \/ RegisterFails(q)
        BY <4>2, ReturnEffect DEF SaveExisting, InsertDevice, RegisterFails, DeviceInv
      <4>3. CASE FindStalest(q) \/ Evict(q)
        BY <4>3 DEF FindStalest, Evict, Goto, DeviceInv, DeviceTypeOK
      <4>4. QED
        BY <1>1, <2>2, <4>1, <4>2, <4>3 DEF RegisterNext
    <3>2. ASSUME NEW u \in Users, NEW r \in Registers, r \in Counted(u)'
          PROVE  r \in Counted(u) /\ (r \in blind => r \in blind')
      <4>1. CASE r = q
        BY <3>1, <3>2, <4>1 DEF Counted
      <4>2. CASE r # q
        BY <1>1, <3>2, <4>2, OthersStay DEF Counted
      <4>3. QED
        BY <4>1, <4>2
    <3>3. \A u \in Users : Counted(u)' \subseteq Registers
      BY DEF Counted
    <3>4. QED
      BY <3>2, <3>3 DEF OneSighted
  <2>3. QED
    BY <2>1, <2>2
<1>2. CASE UNCHANGED <<callVars, ghosts>>
  BY <1>2 DEF callVars, ghosts, OneSighted, Counted
<1>3. QED
  BY <1>1, <1>2 DEF DeviceNext, ClientNext, Unregister, EraseForUser, PurgeStale, RemoveToken,
     DeleteDevices, Tick, vars

\* The devices that came to a user in turn never exceed the cap, for any number of calls,
\* users and tokens, whatever calls, removals and the retention sweep do between the
\* statements of a registration (device-token.service.ts:27-50).
THEOREM RegistryKeepsCap == DeviceSpec => []CapKept
<1>1. DeviceInit => CapInv
  BY FS_EmptySet, DeviceAssumption
     DEF DeviceInit, CapInv, OneSighted, Counted, Kept, Room, InTurn, DevicesOf
<1>2. DeviceInv /\ CapInv /\ [DeviceNext]_vars => CapInv'
  <2>1. ASSUME DeviceInv, CapInv, [DeviceNext]_vars
        PROVE  CapInv'
    BY <2>1, KeptStep, SightStep DEF CapInv
  <2>2. QED
    BY <2>1
<1>3. CapInv => CapKept
  BY DEF CapInv, Kept, CapKept
<1>4. QED
  BY <1>1, <1>2, <1>3, DeviceInvariant, PTL DEF DeviceSpec

-----------------------------------------------------------------------------
(* What makes room *)

\* The row under the key k, if there is one, is the least recently seen of the user u.
StalestOf(D, u, k) ==
  \A d \in D : d.id = k => d.user = u /\ \A e \in D : e.user = u => d.lastSeenAt <= e.lastSeenAt
EvictInv ==
  /\ \A d \in devices : d.lastSeenAt <= clock
  /\ \A r \in Registers :
       pc[r] = "evict" /\ r \notin renewed =>
         rowId[r] < nextId /\ StalestOf(devices, user[r], rowId[r])

\* A step that writes no more than the row e, under another key and as fresh as can be.
LEMMA ChosenStays ==
  ASSUME DeviceInv, EvictInv, NEW r \in Registers, pc[r] = "evict", r \notin renewed,
         UNCHANGED clock, nextId' >= nextId, nextId' \in Nat,
         NEW e, e.id # rowId[r], e.lastSeenAt = clock, devices' \subseteq devices \cup {e}
  PROVE  rowId[r] < nextId' /\ StalestOf(devices', user[r], rowId[r])
<1>1. rowId[r] < nextId /\ StalestOf(devices, user[r], rowId[r]) /\ rowId[r] \in Nat /\ nextId \in Nat
  BY DEF EvictInv, DeviceInv, DeviceTypeOK
<1>2. ASSUME NEW d \in devices', d.id = rowId[r], NEW c \in devices', c.user = user[r]
      PROVE  d.user = user[r] /\ d.lastSeenAt <= c.lastSeenAt
  <2>1. d \in devices /\ d.user = user[r] /\ d.lastSeenAt <= clock
    BY <1>1, <1>2 DEF StalestOf, EvictInv
  <2>2. CASE c \in devices
    BY <1>1, <1>2, <2>1, <2>2 DEF StalestOf
  <2>3. CASE c = e
    BY <2>1, <2>3
  <2>4. QED
    BY <1>2, <2>2, <2>3
<1>3. \A d \in devices' : d.id = rowId[r] => d.user = user[r]
  BY <1>1 DEF StalestOf
<1>4. QED
  BY <1>1, <1>2, <1>3 DEF StalestOf

LEMMA EvictStep ==
  ASSUME DeviceInv, EvictInv, [DeviceNext]_vars
  PROVE  EvictInv'
<1>0. /\ clock \in Nat /\ nextId \in Nat /\ \A d \in devices : d.lastSeenAt \in Nat
      /\ rowId \in [Registers -> Nat]
  BY DEF DeviceInv, DeviceTypeOK, Device
<1>1. ASSUME NEW q \in Registers, SaveExisting(q) \/ InsertDevice(q)
      PROVE  EvictInv'
  <2>1. PICK n \in Nat :
          /\ devices' \subseteq devices \cup {NewRow(q, n)} /\ pc[q] # "idle"
          /\ pc'[q] = "idle" /\ UNCHANGED clock /\ RegisterNext(q)
          /\ \/ n = nextId /\ nextId' = nextId + 1 /\ renewed' = renewed
             \/ /\ n = rowId[q] /\ nextId' = nextId
                /\ renewed' = renewed \cup {r \in Registers : pc[r] = "evict" /\ rowId[r] = n}
    <3>1. CASE SaveExisting(q)
      <4>1. /\ devices' \subseteq devices \cup {NewRow(q, rowId[q])} /\ pc[q] # "idle"
            /\ rowId[q] \in Nat /\ Return(q) /\ UNCHANGED <<clock, nextId>> /\ RegisterNext(q)
            /\ renewed' = renewed \cup {r \in Registers : pc[r] = "evict" /\ rowId[r] = rowId[q]}
        BY <1>0, <3>1 DEF SaveExisting, RegisterNext
      <4>2. pc'[q] = "idle"
        BY <4>1, ReturnEffect DEF DeviceInv
      <4>3. QED
        BY <4>1, <4>2
    <3>2. CASE InsertDevice(q)
      <4>1. /\ devices' \subseteq devices \cup {NewRow(q, nextId)} /\ pc[q] # "idle"
            /\ Return(q) /\ UNCHANGED <<clock, renewed>> /\ nextId' = nextId + 1 /\ RegisterNext(q)
        BY <3>2 DEF InsertDevice, RegisterNext
      <4>2. pc'[q] = "idle"
        BY <4>1, ReturnEffect DEF DeviceInv
      <4>3. QED
        BY <1>0, <4>1, <4>2
    <3>3. QED
      BY <1>1, <3>1, <3>2
  <2> DEFINE e == NewRow(q, n)
  <2>2. e.id = n /\ e.lastSeenAt = clock
    BY <2>1, NewRowType
  <2> HIDE DEF e
  <2>3. \A d \in devices' : d.lastSeenAt <= clock'
    BY <1>0, <2>1, <2>2 DEF EvictInv, e
  <2>4. ASSUME NEW r \in Registers, pc'[r] = "evict", r \notin renewed'
        PROVE  rowId'[r] < nextId' /\ StalestOf(devices', user'[r], rowId'[r])
    <3>1. r # q /\ pc[r] = "evict" /\ rowId'[r] = rowId[r] /\ user'[r] = user[r]
      BY <2>1, <2>4, OthersStay
    <3>2. r \notin renewed /\ rowId[r] < nextId
      BY <2>1, <2>4, <3>1 DEF EvictInv
    <3>3. n # rowId[r]
      BY <1>0, <2>1, <2>4, <3>1, <3>2
    <3>4. devices' \subseteq devices \cup {e} /\ nextId' \in Nat /\ nextId' >= nextId
      BY <1>0, <2>1 DEF e
    <3>5. rowId[r] < nextId' /\ StalestOf(devices', user[r], rowId[r])
      BY <2>1, <2>2, <3>1, <3>2, <3>3, <3>4, ChosenStays
    <3>6. QED
      BY <3>1, <3>5
  <2>5. QED
    BY <2>3, <2>4 DEF EvictInv
<1>2. ASSUME devices' \subseteq devices, nextId' = nextId, clock' \in {clock, clock + 1},
             \A r \in Registers : pc'[r] = "evict" /\ r \notin renewed' =>
               rowId'[r] < nextId /\ StalestOf(devices, user'[r], rowId'[r])
      PROVE  EvictInv'
  BY <1>0, <1>2 DEF EvictInv, StalestOf
<1>3. ASSUME NEW q \in Registers, RegisterNext(q), ~ SaveExisting(q), ~ InsertDevice(q)
      PROVE  EvictInv'
  <2>1. devices' \subseteq devices /\ nextId' = nextId /\ clock' = clock
    BY <1>3 DEF RegisterNext, Register, FindByToken, CountDevices, FindStalest, Evict, RegisterFails
  <2>2. renewed \ renewed' \subseteq {q}
    BY <1>3 DEF RegisterNext, Register, FindByToken, CountDevices, FindStalest, Evict, RegisterFails,
       ghosts
  <2>3. ASSUME NEW r \in Registers, pc'[r] = "evict", r \notin renewed'
        PROVE  rowId'[r] < nextId /\ StalestOf(devices, user'[r], rowId'[r])
    <3>1. CASE r # q
      BY <1>3, <2>2, <2>3, <3>1, OthersStay DEF EvictInv
    <3>2. CASE r = q
      <4>1. FindStalest(q)
        BY <1>3, <2>3, <3>2, ReturnEffect
           DEF RegisterNext, Register, FindByToken, CountDevices, Evict, RegisterFails, Goto,
           DeviceInv, DeviceTypeOK
      <4>2. PICK d \in Stalest(DevicesOf(user[q])) : rowId' = [rowId EXCEPT ![q] = d.id]
        BY <2>3, <3>2, <4>1 DEF FindStalest, Goto, DeviceInv, DeviceTypeOK
      <4>3. rowId'[q] = d.id /\ user' = user
        BY <1>0, <4>1, <4>2 DEF FindStalest, Goto
      <4>4. d \in devices /\ d.id < nextId /\ \A c \in devices : c.id = d.id => c = d
        BY <4>2 DEF Stalest, DevicesOf, DeviceInv, DeviceTypeOK
      <4>5. QED
        BY <3>2, <4>2, <4>3, <4>4 DEF StalestOf, Stalest, DevicesOf
    <3>3. QED
      BY <3>1, <3>2
  <2>4. QED
    BY <1>2, <2>1, <2>3
<1>4. CASE /\ UNCHANGED <<callVars, nextId, ghosts>> /\ devices' \subseteq devices
           /\ clock' \in {clock, clock + 1}
  BY <1>2, <1>4 DEF callVars, ghosts, EvictInv
<1>5. QED
  BY <1>1, <1>3, <1>4 DEF DeviceNext, ClientNext, Unregister, EraseForUser, PurgeStale, RemoveToken,
     DeleteDevices, Tick, vars

LEMMA EvictInvariant == DeviceSpec => [](DeviceInv /\ EvictInv)
<1>1. DeviceInit => EvictInv
  BY DEF DeviceInit, EvictInv
<1>2. DeviceInv /\ EvictInv /\ [DeviceNext]_vars => EvictInv'
  BY EvictStep
<1>3. QED
  BY <1>1, <1>2, DeviceInvariant, PTL DEF DeviceSpec

\* With any number of registrations in flight, what makes room at the cap is, as it goes, the
\* least recently seen device of the caller's own, unless another registration has saved that
\* very row since it was chosen (device-token.service.ts:35-45).
THEOREM RegistryEvictsStalest == DeviceSpec => EvictsStalest
<1>1. ASSUME DeviceInv, EvictInv, [DeviceNext]_vars, NEW r \in Registers,
             pc[r] = "evict", pc'[r] = "insert", r \notin renewed
      PROVE  devices \ devices' \subseteq Stalest(DevicesOf(user[r]))
  <2>1. RegisterNext(r)
    <3>1. PICK q \in Registers : RegisterNext(q)
      BY <1>1 DEF DeviceNext, ClientNext, Unregister, EraseForUser, PurgeStale, RemoveToken,
         DeleteDevices, Tick, callVars, vars
    <3>2. QED
      BY <1>1, <3>1, OthersStay
  <2>2. Evict(r)
    BY <1>1, <2>1, ReturnEffect
       DEF RegisterNext, Register, FindByToken, SaveExisting, CountDevices, FindStalest,
       InsertDevice, RegisterFails, DeviceInv
  <2>3. devices \ devices' \subseteq WithId(rowId[r])
    BY <2>2 DEF Evict
  <2>4. QED
    BY <1>1, <2>3 DEF EvictInv, StalestOf, WithId, Stalest, DevicesOf
<1>2. DeviceInv /\ EvictInv /\ [DeviceNext]_vars =>
        [\A r \in Registers :
           pc[r] = "evict" /\ pc'[r] = "insert" /\ r \notin renewed =>
             devices \ devices' \subseteq Stalest(DevicesOf(user[r]))]_vars
  BY <1>1
<1>3. QED
  BY <1>2, EvictInvariant, PTL DEF DeviceSpec, EvictsStalest

\* Both hold of the registry inside the pipeline, where deliveries prune it as well.
THEOREM PipelineRegistry == DeliverySpec => []CapKept /\ EvictsStalest
<1>1. QED
  BY DeliveryUsesRegistry, RegistryKeepsCap, RegistryEvictsStalest, PTL
=============================================================================
