--------------------------- MODULE DataSubjectProofs ---------------------------
(***************************************************************************)
(* Theorems about DataSubject, for any number of notifications and         *)
(* requests and for windows of any length.                                 *)
(***************************************************************************)
EXTENDS DataSubject, Integers, TLAPS

Note == [read : BOOLEAN, days : 0..(Window + 1), present : BOOLEAN]

Steps == {"anonymise", "softDelete", "tasks", "notifications", "devices", "audit"}
Quiet == {"no", "recorded"}

LEMMA ErasureSteps == {Erasure[i] : i \in 1..Len(Erasure)} = Steps
<1>1. Len(Erasure) = 6
  BY DEF Erasure
<1>2. 1..6 = {1, 2, 3, 4, 5, 6}
  OBVIOUS
<1>3. /\ Erasure[1] = "anonymise" /\ Erasure[2] = "softDelete" /\ Erasure[3] = "tasks"
      /\ Erasure[4] = "notifications" /\ Erasure[5] = "devices" /\ Erasure[6] = "audit"
  BY DEF Erasure
<1> HIDE DEF Erasure
<1>4. QED
  BY <1>1, <1>2, <1>3 DEF Steps

LEMMA FollowsTable ==
  /\ Follows("anonymise") = "softDelete" /\ Follows("softDelete") = "tasks"
  /\ Follows("tasks") = "notifications" /\ Follows("notifications") = "devices"
  /\ Follows("devices") = "audit" /\ Follows("audit") = "recorded"
<1>1. Len(Erasure) = 6
  BY DEF Erasure
<1>2. 1..6 = {1, 2, 3, 4, 5, 6}
  OBVIOUS
<1>3. /\ Erasure[1] = "anonymise" /\ Erasure[2] = "softDelete" /\ Erasure[3] = "tasks"
      /\ Erasure[4] = "notifications" /\ Erasure[5] = "devices" /\ Erasure[6] = "audit"
  BY DEF Erasure
<1> HIDE DEF Erasure
<1>4. ASSUME NEW k \in {1, 2, 3, 4, 5, 6}
      PROVE  Follows(Erasure[k]) = IF k = 6 THEN "recorded" ELSE Erasure[k + 1]
  <2>1. \A j \in {1, 2, 3, 4, 5, 6} : Erasure[j] = Erasure[k] => j = k
    BY <1>3
  <2> DEFINE i == CHOOSE j \in 1..Len(Erasure) : Erasure[j] = Erasure[k]
  <2>2. i = k
    BY <1>1, <1>2, <2>1
  <2>3. Follows(Erasure[k]) = IF i = Len(Erasure) THEN "recorded" ELSE Erasure[i + 1]
    BY DEF Follows
  <2> HIDE DEF i
  <2>4. QED
    BY <1>1, <2>2, <2>3
<1>5. /\ Follows(Erasure[1]) = Erasure[2] /\ Follows(Erasure[2]) = Erasure[3]
      /\ Follows(Erasure[3]) = Erasure[4] /\ Follows(Erasure[4]) = Erasure[5]
      /\ Follows(Erasure[5]) = Erasure[6] /\ Follows(Erasure[6]) = "recorded"
  BY <1>4
<1>6. QED
  BY <1>3, <1>5

-----------------------------------------------------------------------------
(* Types *)

LEMMA NoteEdits ==
  ASSUME NEW x \in Note
  PROVE  /\ [x EXCEPT !.read = TRUE] \in Note /\ [x EXCEPT !.present = FALSE] \in Note
         /\ [x EXCEPT !.read = TRUE, !.present = TRUE] \in Note
         /\ \A d \in 0..(Window + 1) : [x EXCEPT !.days = d] \in Note
         /\ [x EXCEPT !.read = TRUE].present = x.present
         /\ [x EXCEPT !.present = FALSE].present = FALSE
         /\ \A d : [x EXCEPT !.days = d].present = x.present
         /\ [x EXCEPT !.read = TRUE, !.present = TRUE].present = TRUE
<1>1. /\ [x EXCEPT !.read = TRUE] \in Note /\ [x EXCEPT !.present = FALSE] \in Note
      /\ [x EXCEPT !.read = TRUE, !.present = TRUE] \in Note
  BY Zenon DEF Note
<1>2. \A d \in 0..(Window + 1) : [x EXCEPT !.days = d] \in Note
  BY Zenon DEF Note
<1>3. /\ [x EXCEPT !.read = TRUE].present = x.present
      /\ [x EXCEPT !.present = FALSE].present = FALSE
      /\ \A d : [x EXCEPT !.days = d].present = x.present
      /\ [x EXCEPT !.read = TRUE, !.present = TRUE].present = TRUE
  BY Zenon DEF Note
<1>4. QED
  BY <1>1, <1>2, <1>3, Zenon

LEMMA CappedType ==
  ASSUME NEW limit \in Nat, NEW n \in 0..(limit + 1)
  PROVE  /\ Capped(n + 1, limit) \in 0..(limit + 1)
         /\ n > limit => Capped(n + 1, limit) > limit
  BY DEF Capped

\* What each operation does to the rows that are there.
LEMMA NotesEffect ==
  ASSUME SubjectTypeOK
  PROVE  /\ \A n \in Notes : Deliver(n) => notes' \in [Notes -> Note] /\ Present' = Present \cup {n}
         /\ \A r \in Requests : SaveRead(r) =>
              notes' \in [Notes -> Note] /\ Present' = Present \cup {copy[r]}
         /\ MarkAllRead \/ NextDay => notes' \in [Notes -> Note] /\ Present' = Present
         /\ PurgeNotes => notes' \in [Notes -> Note] /\ Present' \subseteq Present
         /\ EraseStep => /\ notes' \in [Notes -> Note]
                         /\ Present' = IF at = "notifications" THEN {} ELSE Present
<1>0. /\ notes \in [Notes -> Note] /\ \A n \in Notes : notes[n] \in Note
      /\ Window \in Nat
  BY SubjectAssumption DEF SubjectTypeOK, Note
<1>1. ASSUME NEW n \in Notes, Deliver(n)
      PROVE  notes' \in [Notes -> Note] /\ Present' = Present \cup {n}
  <2> DEFINE new == [read |-> FALSE, days |-> 0, present |-> TRUE]
  <2>1. 0 \in 0..(Window + 1)
    BY <1>0
  <2>2. new \in Note /\ new.present = TRUE
    BY <2>1, Zenon DEF Note
  <2>3. notes' = [notes EXCEPT ![n] = new]
    BY <1>1 DEF Deliver
  <2> HIDE DEF new
  <2>4. QED
    BY <1>0, <2>2, <2>3 DEF Present
<1>2. ASSUME NEW r \in Requests, SaveRead(r)
      PROVE  notes' \in [Notes -> Note] /\ Present' = Present \cup {copy[r]}
  <2> DEFINE new == [notes[copy[r]] EXCEPT !.read = TRUE, !.present = TRUE]
  <2>1. copy[r] \in Notes /\ notes[copy[r]] \in Note
    BY <1>0, <1>2 DEF SaveRead
  <2>2. new \in Note /\ new.present = TRUE
    BY <2>1, NoteEdits
  <2>3. notes' = [notes EXCEPT ![copy[r]] = new]
    BY <1>0, <1>2, <2>1 DEF SaveRead
  <2> HIDE DEF new
  <2>4. QED
    BY <1>0, <2>1, <2>2, <2>3 DEF Present
<1>3. ASSUME MarkAllRead
      PROVE  notes' \in [Notes -> Note] /\ Present' = Present
  <2> DEFINE edit(x) == [x EXCEPT !.read = TRUE]
  <2>1. notes' = [n \in Notes |-> IF notes[n].present THEN edit(notes[n]) ELSE notes[n]]
    BY <1>3 DEF MarkAllRead
  <2>2. \A x \in Note : edit(x) \in Note /\ edit(x).present = x.present
    BY NoteEdits
  <2> HIDE DEF edit
  <2>3. QED
    BY <1>0, <2>1, <2>2 DEF Present
<1>4. ASSUME NextDay
      PROVE  notes' \in [Notes -> Note] /\ Present' = Present
  <2> DEFINE edit(x) == [x EXCEPT !.days = Capped(x.days + 1, Window)]
  <2>1. notes' = [n \in Notes |-> IF n \in used THEN edit(notes[n]) ELSE notes[n]]
    BY <1>0, <1>4 DEF NextDay
  <2>2. \A x \in Note : edit(x) \in Note /\ edit(x).present = x.present
    <3>1. \A x \in Note : x.days \in 0..(Window + 1)
      BY DEF Note
    <3>2. \A x \in Note : Capped(x.days + 1, Window) \in 0..(Window + 1)
      BY <1>0, <3>1, CappedType
    <3>3. QED
      BY <3>2, NoteEdits, Zenon
  <2> HIDE DEF edit
  <2>3. QED
    BY <1>0, <2>1, <2>2 DEF Present
<1>5. ASSUME PurgeNotes
      PROVE  notes' \in [Notes -> Note] /\ Present' \subseteq Present
  <2> DEFINE edit(x) == [x EXCEPT !.present = FALSE]
  <2>1. notes' = [n \in Notes |-> IF Window > 0 /\ notes[n].days > Window
                                 THEN edit(notes[n]) ELSE notes[n]]
    BY <1>5 DEF PurgeNotes, Without
  <2>2. \A x \in Note : edit(x) \in Note /\ edit(x).present = FALSE
    BY NoteEdits
  <2> HIDE DEF edit
  <2>3. QED
    BY <1>0, <2>1, <2>2 DEF Present
<1>6. ASSUME EraseStep
      PROVE  /\ notes' \in [Notes -> Note]
             /\ Present' = IF at = "notifications" THEN {} ELSE Present
  <2> DEFINE edit(x) == [x EXCEPT !.present = FALSE]
  <2>1. notes' = IF at = "notifications" THEN [n \in Notes |-> edit(notes[n])] ELSE notes
    BY <1>6 DEF EraseStep, Without
  <2>2. \A x \in Note : edit(x) \in Note /\ edit(x).present = FALSE
    BY NoteEdits
  <2> HIDE DEF edit
  <2>3. QED
    BY <1>0, <2>1, <2>2 DEF Present
<1>7. QED
  BY <1>1, <1>2, <1>3, <1>4, <1>5, <1>6

-----------------------------------------------------------------------------
(* The invariant *)

After(step) ==
  CASE step = "anonymise"     -> {"softDelete", "tasks", "notifications", "devices", "audit", "recorded"}
    [] step = "softDelete"    -> {"tasks", "notifications", "devices", "audit", "recorded"}
    [] step = "tasks"         -> {"notifications", "devices", "audit", "recorded"}
    [] step = "notifications" -> {"devices", "audit", "recorded"}
    [] step = "devices"       -> {"audit", "recorded"}

\* What each statement of an erasure has achieved outlasts the ones that follow; a row it
\* deleted can come back only through a request that still holds a copy.
ErasureInv ==
  /\ at \in After("anonymise") => restored \/ scrubbed
  /\ at \in After("softDelete") => restored \/ deleted
  /\ at \in After("tasks") => held["tasks"] # "old"
  /\ at \in After("devices") => held["devices"] # "old"
  /\ at \in After("notifications") => old \cap Present \subseteq revived
  /\ Present \subseteq used /\ old \subseteq used
  /\ \A r \in Requests : copy[r] \in Notes => copy[r] \in used

\* Days pass for a deleted account only when nobody holds a copy of its row, no access token
\* is valid and no erasure runs: whom retention lists is out of their reach.
AgingInv ==
  /\ deleted /\ (holder \/ token \/ at \notin Quiet) => age = 0
  /\ retention = "scrub" => deleted /\ age > Grace

SubjectInv == SubjectTypeOK /\ ErasureInv /\ AgingInv

LEMMA SubjectTypeStep ==
  ASSUME SubjectTypeOK, [SubjectNext]_vars
  PROVE  SubjectTypeOK'
<1> USE DEF Note
<1>0. /\ Grace \in Nat /\ 0 \in 0..(Grace + 1) /\ Steps = {Erasure[i] : i \in 1..Len(Erasure)}
      /\ notes \in [Notes -> Note] /\ Present \subseteq Notes
  BY SubjectAssumption, ErasureSteps DEF SubjectTypeOK, Present
<1>1. CASE ReadUser \/ SaveUser \/ DropUser
  BY <1>0, <1>1 DEF ReadUser, SaveUser, DropUser, SubjectTypeOK, accountVars, noteVars, eraseVars
<1>2. CASE SoftDeleteAccount \/ TokenExpires \/ RefreshToken
  BY <1>0, <1>2 DEF SoftDeleteAccount, TokenExpires, RefreshToken, SubjectTypeOK, accountVars,
     noteVars, eraseVars
<1>3. ASSUME NEW o \in Others, Produce(o) \/ LoseDevice
      PROVE  SubjectTypeOK'
  BY <1>3 DEF Produce, LoseDevice, SubjectTypeOK, accountVars, noteVars, eraseVars
<1>4. CASE Notify
  BY <1>4 DEF Notify, SubjectTypeOK, accountVars, eraseVars
<1>5. ASSUME NEW n \in Notes, Deliver(n)
      PROVE  SubjectTypeOK'
  <2>1. notes' \in [Notes -> Note]
    BY <1>5, NotesEffect
  <2>2. QED
    BY <1>5, <2>1 DEF Deliver, SubjectTypeOK, accountVars, eraseVars
<1>6. ASSUME NEW r \in Requests,
             \/ \E n \in Notes : ReadNote(r, n)
             \/ \E o \in Others : ReadOther(r, o)
             \/ DropCopy(r)
      PROVE  SubjectTypeOK'
  BY <1>6 DEF ReadNote, ReadOther, DropCopy, SubjectTypeOK, accountVars, eraseVars
<1>7. ASSUME NEW r \in Requests, SaveOther(r)
      PROVE  SubjectTypeOK'
  <2>1. held' \in [Others -> {"none", "new", "old", "back"}]
    BY <1>7 DEF SaveOther, SubjectTypeOK
  <2>2. QED
    BY <1>7, <2>1 DEF SaveOther, SubjectTypeOK, accountVars, eraseVars
<1>8. ASSUME NEW r \in Requests, SaveRead(r)
      PROVE  SubjectTypeOK'
  <2>1. notes' \in [Notes -> Note] /\ copy[r] \in Notes
    BY <1>8, NotesEffect DEF SaveRead, SubjectTypeOK
  <2>2. QED
    BY <1>8, <2>1 DEF SaveRead, SubjectTypeOK, accountVars, eraseVars
<1>9. CASE MarkAllRead
  <2>1. notes' \in [Notes -> Note]
    BY <1>9, NotesEffect
  <2>2. QED
    BY <1>9, <2>1 DEF MarkAllRead, SubjectTypeOK, accountVars, eraseVars
<1>10. CASE StartErase
  <2>1. at' = "anonymise"
    BY <1>10 DEF StartErase, Erasure
  <2>2. held' \in [Others -> {"none", "new", "old", "back"}]
    BY <1>10 DEF StartErase, Marked, SubjectTypeOK
  <2> HIDE DEF Note
  <2>3. QED
    BY <1>0, <1>10, <2>1, <2>2 DEF StartErase, SubjectTypeOK, accountVars, Steps
<1>11. CASE EraseStep
  <2>1. at \in Steps /\ at' = Follows(at)
    BY <1>0, <1>11 DEF EraseStep, SubjectTypeOK
  <2>2. at' \in {"no", "recorded"} \cup Steps
    BY <2>1, FollowsTable DEF Steps
  <2>3. notes' \in [Notes -> Note]
    BY <1>11, NotesEffect
  <2>4. scrubbed' \in BOOLEAN /\ deleted' \in BOOLEAN
    BY <1>11 DEF EraseStep
  <2>5. age' \in 0..(Grace + 1)
    BY <1>0, <1>11 DEF EraseStep, SubjectTypeOK
  <2>6. /\ held' \in [Others -> {"none", "new", "old", "back"}]
        /\ revived' \subseteq Notes
    BY <1>11 DEF EraseStep, SubjectTypeOK
  <2> HIDE DEF Note
  <2>7. UNCHANGED <<lookalike, holder, token, used, queued, copy, old, restored, retention>>
    BY <1>11 DEF EraseStep
  <2>8. QED
    BY <1>0, <2>2, <2>3, <2>4, <2>5, <2>6, <2>7 DEF SubjectTypeOK, Note
<1>12. CASE EraseFails
  <2>1. held' \in [Others -> {"none", "new", "old", "back"}]
    BY <1>12 DEF EraseFails, Marked, SubjectTypeOK
  <2>2. QED
    BY <1>12, <2>1 DEF EraseFails, SubjectTypeOK, accountVars
<1>13. CASE ListStale \/ RetentionFails
  BY <1>13 DEF ListStale, RetentionFails, Keep, SubjectTypeOK, accountVars, eraseVars
<1>14. CASE ScrubStale
  BY <1>14 DEF ScrubStale, Keep, SubjectTypeOK, eraseVars
<1>15. CASE PurgeNotes
  <2>1. notes' \in [Notes -> Note]
    BY <1>15, NotesEffect
  <2>2. QED
    BY <1>15, <2>1 DEF PurgeNotes, Keep, SubjectTypeOK, accountVars, eraseVars
<1>16. CASE PurgeDevices
  BY <1>16 DEF PurgeDevices, Keep, SubjectTypeOK, accountVars, eraseVars
<1>17. CASE NextDay
  <2>1. notes' \in [Notes -> Note]
    BY <1>17, NotesEffect
  <2>2. age' \in 0..(Grace + 1)
    BY <1>0, <1>17, CappedType DEF NextDay, SubjectTypeOK
  <2>3. QED
    BY <1>17, <2>1, <2>2 DEF NextDay, SubjectTypeOK, eraseVars
<1>18. CASE UNCHANGED vars
  BY <1>18 DEF vars, SubjectTypeOK, accountVars, noteVars, eraseVars
<1>19. QED
  BY <1>1, <1>2, <1>3, <1>4, <1>5, <1>6, <1>7, <1>8, <1>9, <1>10, <1>11, <1>12, <1>13, <1>14, <1>15,
     <1>16, <1>17, <1>18 DEF SubjectNext, Others

LEMMA AgingStep ==
  ASSUME SubjectTypeOK, AgingInv, [SubjectNext]_vars
  PROVE  AgingInv'
<1>0. Grace \in Nat /\ age \in Nat /\ deleted \in BOOLEAN /\ scrubbed \in BOOLEAN
  BY SubjectAssumption DEF SubjectTypeOK
<1>1. CASE ReadUser \/ SaveUser \/ DropUser \/ SoftDeleteAccount \/ TokenExpires \/ RefreshToken
  BY <1>0, <1>1 DEF AgingInv, ReadUser, SaveUser, DropUser, SoftDeleteAccount, TokenExpires,
     RefreshToken, accountVars, eraseVars
<1>2. CASE StartErase \/ EraseFails
  BY <1>0, <1>2 DEF AgingInv, StartErase, EraseFails, accountVars, noteVars, Quiet
<1>3. CASE EraseStep
  <2>1. /\ UNCHANGED <<holder, token, retention>> /\ at \notin Quiet
        /\ deleted' = (deleted \/ at = "softDelete")
        /\ age' = IF at = "softDelete" THEN 0 ELSE age
    BY <1>3 DEF EraseStep, Quiet
  <2>2. deleted' => age' = 0
    BY <2>1 DEF AgingInv
  <2>3. retention # "scrub"
    BY <1>0, <2>1 DEF AgingInv
  <2>4. QED
    BY <2>1, <2>2, <2>3 DEF AgingInv
<1>4. CASE NextDay
  <2>1. /\ ~ holder /\ at \in Quiet /\ (deleted => ~ token)
        /\ UNCHANGED <<deleted, holder, token, at, retention>>
        /\ age' = IF deleted THEN Capped(age + 1, Grace) ELSE age
    BY <1>4 DEF NextDay, Quiet, eraseVars
  <2>2. age > Grace => Capped(age + 1, Grace) > Grace
    BY <1>0, CappedType DEF SubjectTypeOK
  <2>3. QED
    BY <2>1, <2>2 DEF AgingInv
<1>5. CASE ListStale \/ ScrubStale \/ PurgeNotes \/ PurgeDevices \/ RetentionFails
  BY <1>0, <1>5 DEF AgingInv, ListStale, ScrubStale, PurgeNotes, PurgeDevices, RetentionFails, Keep,
     accountVars, eraseVars
<1>6. CASE UNCHANGED <<accountVars, holder, token, at, retention>>
  BY <1>6 DEF AgingInv, accountVars
<1>7. QED
  BY <1>1, <1>2, <1>3, <1>4, <1>5, <1>6
     DEF SubjectNext, Produce, LoseDevice, Notify, Deliver, ReadNote, ReadOther, SaveRead, SaveOther,
     DropCopy, MarkAllRead, vars, eraseVars

LEMMA ErasureStepInv ==
  ASSUME SubjectTypeOK, ErasureInv, [SubjectNext]_vars
  PROVE  ErasureInv'
<1> USE DEF After
<1>0. /\ copy \in [Requests -> Notes \cup Others \cup {NoCopy}]
      /\ held \in [Others -> {"none", "new", "old", "back"}]
      /\ "tasks" \in Others /\ "devices" \in Others /\ NoCopy \notin Notes
      /\ Notes \cap Others = {}
  BY SubjectAssumption DEF SubjectTypeOK, Others
<1>1. ASSUME UNCHANGED <<at, old, held, used, copy, revived, restored>>,
             restored \/ ((scrubbed => scrubbed') /\ (deleted => deleted')), Present' \subseteq Present
      PROVE  ErasureInv'
  BY <1>1 DEF ErasureInv
<1>2. CASE SaveUser
  <2>1. /\ restored' = (at # "no") /\ UNCHANGED <<at, old, held, used, copy, revived, notes>>
    BY <1>2 DEF SaveUser, noteVars, eraseVars
  <2>2. Present' = Present
    BY <2>1 DEF Present
  <2>3. CASE at = "no"
    BY <2>1, <2>2, <2>3 DEF ErasureInv
  <2>4. CASE at # "no"
    BY <2>1, <2>2, <2>4 DEF ErasureInv
  <2>5. QED
    BY <2>3, <2>4
<1>3. CASE ReadUser \/ DropUser \/ SoftDeleteAccount \/ TokenExpires \/ RefreshToken \/ Notify
  BY <1>1, <1>3 DEF ReadUser, DropUser, SoftDeleteAccount, TokenExpires, RefreshToken, Notify,
     accountVars, noteVars, eraseVars, Present
<1>4. ASSUME NEW o \in Others, Produce(o) \/ LoseDevice
      PROVE  ErasureInv'
  <2>1. UNCHANGED <<at, old, scrubbed, deleted, used, copy, revived, restored, notes>>
    BY <1>4 DEF Produce, LoseDevice, accountVars, noteVars, eraseVars
  <2>2. \A i \in Others : held'[i] = "old" => held[i] = "old"
    BY <1>0, <1>4 DEF Produce, LoseDevice
  <2>3. Present' = Present
    BY <2>1 DEF Present
  <2>4. QED
    BY <1>0, <2>1, <2>2, <2>3 DEF ErasureInv
<1>5. ASSUME NEW n \in Notes, Deliver(n)
      PROVE  ErasureInv'
  <2>1. /\ UNCHANGED <<at, old, scrubbed, deleted, copy, revived, restored, held>>
        /\ n \notin used /\ used' = used \cup {n}
    BY <1>5 DEF Deliver, accountVars, eraseVars
  <2>2. Present' = Present \cup {n}
    BY <1>5, NotesEffect
  <2>3. QED
    BY <2>1, <2>2 DEF ErasureInv
<1>6. ASSUME NEW r \in Requests, NEW n \in Notes, ReadNote(r, n)
      PROVE  ErasureInv'
  <2>1. /\ UNCHANGED <<at, old, scrubbed, deleted, used, notes, revived, restored, held>>
        /\ copy' = [copy EXCEPT ![r] = n] /\ n \in Present
    BY <1>6 DEF ReadNote, accountVars, eraseVars, Present
  <2>2. Present' = Present
    BY <2>1 DEF Present
  <2>3. QED
    BY <1>0, <2>1, <2>2 DEF ErasureInv
<1>7. ASSUME NEW r \in Requests, NEW o \in Others, ReadOther(r, o)
      PROVE  ErasureInv'
  <2>1. /\ UNCHANGED <<at, old, scrubbed, deleted, used, notes, revived, restored, held>>
        /\ copy' = [copy EXCEPT ![r] = o]
    BY <1>7 DEF ReadOther, accountVars, eraseVars
  <2>2. Present' = Present
    BY <2>1 DEF Present
  <2>3. QED
    BY <1>0, <2>1, <2>2 DEF ErasureInv
<1>8. ASSUME NEW r \in Requests, SaveRead(r)
      PROVE  ErasureInv'
  <2>1. /\ UNCHANGED <<at, old, scrubbed, deleted, used, restored, held>>
        /\ copy' = [copy EXCEPT ![r] = NoCopy] /\ copy[r] \in Notes
        /\ revived' = IF at = "no" THEN {} ELSE revived \cup ({copy[r]} \ Present)
    BY <1>8 DEF SaveRead, accountVars, eraseVars
  <2>2. Present' = Present \cup {copy[r]}
    BY <1>8, NotesEffect
  <2>3. QED
    BY <1>0, <2>1, <2>2 DEF ErasureInv
<1>9. ASSUME NEW r \in Requests, SaveOther(r)
      PROVE  ErasureInv'
  <2>1. /\ UNCHANGED <<at, old, scrubbed, deleted, used, notes, revived, restored>>
        /\ copy' = [copy EXCEPT ![r] = NoCopy]
    BY <1>9 DEF SaveOther, accountVars, eraseVars
  <2>2. \A i \in Others : held'[i] = "old" => held[i] = "old"
    BY <1>0, <1>9 DEF SaveOther
  <2>3. Present' = Present
    BY <2>1 DEF Present
  <2>4. QED
    BY <1>0, <2>1, <2>2, <2>3 DEF ErasureInv
<1>10. ASSUME NEW r \in Requests, DropCopy(r)
      PROVE  ErasureInv'
  <2>1. /\ UNCHANGED <<at, old, scrubbed, deleted, used, notes, revived, restored, held>>
        /\ copy' = [copy EXCEPT ![r] = NoCopy]
    BY <1>10 DEF DropCopy, accountVars, eraseVars
  <2>2. Present' = Present
    BY <2>1 DEF Present
  <2>3. QED
    BY <1>0, <2>1, <2>2 DEF ErasureInv
<1>11. CASE StartErase
  <2>1. at' = "anonymise" /\ old' = Present /\ UNCHANGED <<used, notes, copy>>
    BY <1>11 DEF StartErase, Erasure
  <2>2. Present' = Present
    BY <2>1 DEF Present
  <2>3. QED
    BY <2>1, <2>2 DEF ErasureInv
<1>12. CASE EraseStep
  <2>1. at \in Steps /\ at' = Follows(at)
    BY <1>12, ErasureSteps DEF EraseStep, SubjectTypeOK
  <2>2. /\ UNCHANGED <<old, used, copy, restored>>
        /\ revived' = IF at = "notifications" THEN {} ELSE revived
        /\ scrubbed' = (scrubbed \/ at = "anonymise") /\ deleted' = (deleted \/ at = "softDelete")
        /\ held' = IF at \in Others THEN [held EXCEPT ![at] = "none"] ELSE held
    BY <1>12 DEF EraseStep
  <2>3. Present' = IF at = "notifications" THEN {} ELSE Present
    BY <1>12, NotesEffect
  <2>4. /\ \A i \in Others : held'[i] = IF at = i THEN "none" ELSE held[i]
    BY <1>0, <2>2
  <2>5. CASE at = "anonymise"
    BY <1>0, <2>1, <2>2, <2>3, <2>4, <2>5, FollowsTable DEF ErasureInv
  <2>6. CASE at = "softDelete"
    BY <1>0, <2>1, <2>2, <2>3, <2>4, <2>6, FollowsTable DEF ErasureInv
  <2>7. CASE at = "tasks"
    BY <1>0, <2>1, <2>2, <2>3, <2>4, <2>7, FollowsTable DEF ErasureInv
  <2>8. CASE at = "notifications"
    BY <1>0, <2>1, <2>2, <2>3, <2>4, <2>8, FollowsTable DEF ErasureInv
  <2>9. CASE at = "devices"
    BY <1>0, <2>1, <2>2, <2>3, <2>4, <2>9, FollowsTable DEF ErasureInv
  <2>10. CASE at = "audit"
    BY <1>0, <2>1, <2>2, <2>3, <2>4, <2>10, FollowsTable DEF ErasureInv
  <2>11. QED
    BY <2>1, <2>5, <2>6, <2>7, <2>8, <2>9, <2>10 DEF Steps
<1>13. CASE EraseFails
  <2>1. at' = "no" /\ old' = {} /\ UNCHANGED <<used, copy, notes>>
    BY <1>13 DEF EraseFails
  <2>2. Present' = Present
    BY <2>1 DEF Present
  <2>3. QED
    BY <2>1, <2>2 DEF ErasureInv
<1>14. CASE ListStale \/ ScrubStale \/ RetentionFails
  BY <1>1, <1>14 DEF ListStale, ScrubStale, RetentionFails, Keep, accountVars, eraseVars, Present
<1>15. CASE MarkAllRead \/ NextDay \/ PurgeNotes
  <2>1. Present' \subseteq Present
    BY <1>15, NotesEffect
  <2>2. QED
    BY <1>1, <1>15, <2>1 DEF MarkAllRead, NextDay, PurgeNotes, Keep, accountVars, eraseVars
<1>16. CASE PurgeDevices
  <2>1. UNCHANGED <<at, old, scrubbed, deleted, used, copy, revived, restored, notes>>
    BY <1>16 DEF PurgeDevices, Keep, accountVars, eraseVars
  <2>2. \A i \in Others : held'[i] = "old" => held[i] = "old"
    BY <1>0, <1>16 DEF PurgeDevices
  <2>3. Present' = Present
    BY <2>1 DEF Present
  <2>4. QED
    BY <1>0, <2>1, <2>2, <2>3 DEF ErasureInv
<1>17. CASE UNCHANGED vars
  BY <1>1, <1>17 DEF vars, accountVars, noteVars, eraseVars, Present
<1>18. QED
  BY <1>0, <1>2, <1>3, <1>4, <1>5, <1>6, <1>7, <1>8, <1>9, <1>10, <1>11, <1>12, <1>13, <1>14, <1>15,
     <1>16, <1>17
     DEF SubjectNext

LEMMA SubjectInvariant == SubjectSpec => []SubjectInv
<1>1. SubjectInit => SubjectInv
  <2> SUFFICES ASSUME SubjectInit PROVE SubjectInv
    OBVIOUS
  <2>1. 0 \in 0..(Window + 1) /\ 0 \in 0..(Grace + 1)
    BY SubjectAssumption
  <2>2. None \in Note /\ None.present = FALSE
    BY <2>1, Zenon DEF None, Note
  <2>3. SubjectTypeOK
    BY <2>1, <2>2 DEF SubjectInit, SubjectTypeOK, Note
  <2>4. Present = {}
    BY <2>2 DEF SubjectInit, Present
  <2>5. ErasureInv /\ AgingInv
    BY <2>4, SubjectAssumption DEF SubjectInit, ErasureInv, AgingInv, After
  <2>6. QED
    BY <2>3, <2>5 DEF SubjectInv
<1>2. SubjectInv /\ [SubjectNext]_vars => SubjectInv'
  BY SubjectTypeStep, ErasureStepInv, AgingStep DEF SubjectInv
<1>3. QED
  BY <1>1, <1>2, PTL DEF SubjectSpec

-----------------------------------------------------------------------------
(* Theorems *)

\* The state of a subject is well typed: in particular ages stay in the windows the bounds
\* allow.
THEOREM SubjectTypeCorrect == SubjectSpec => []SubjectTypeOK
<1>1. SubjectInv => SubjectTypeOK
  BY DEF SubjectInv
<1>2. QED
  BY <1>1, SubjectInvariant, PTL

\* However the erasure interleaves with the requests of its subject, with retention and with
\* earlier attempts that failed half-way, its audit record means that nothing it found is
\* left, but for what a request under way wrote back: a notification, a task, a device or the
\* user's own row (data-subject.service.ts:57-75).
THEOREM ErasureProofIsTrue == SubjectSpec => []ProvenErasureComplete
<1>1. SubjectInv => ProvenErasureComplete
  BY DEF SubjectInv, ErasureInv, After, ProvenErasureComplete, Others
<1>2. QED
  BY <1>1, SubjectInvariant, PTL

\* What trickles in for a user who is gone was on its way before (notifications.service.ts:26-47,
\* 64-72).
THEOREM SubjectNotesRunDry == SubjectSpec => NotesRunDry
<1>1. ASSUME SubjectTypeOK, [SubjectNext]_vars, deleted, ~ token, ~ holder, ~ Carried
      PROVE  ~ Carried' /\ \A n \in Present' : n \in Present
  <2>1. ~ queued /\ \A r \in Requests : copy[r] \notin Notes
    BY <1>1 DEF Carried
  <2>2. /\ queued' = FALSE /\ \A n \in Notes : ~ Deliver(n)
        /\ \A r \in Requests : copy'[r] \notin Notes
    BY <1>1, <2>1, SubjectAssumption
       DEF SubjectTypeOK, SubjectNext, ReadUser, SaveUser, DropUser, SoftDeleteAccount, TokenExpires,
       RefreshToken, Produce, LoseDevice, Notify, Deliver, ReadNote, ReadOther, SaveRead, SaveOther,
       DropCopy, MarkAllRead, StartErase, EraseStep,
       EraseFails, ListStale, ScrubStale, PurgeNotes, PurgeDevices, RetentionFails, NextDay, Keep,
       noteVars, vars
  <2>3. \A r \in Requests : ~ SaveRead(r)
    BY <2>1 DEF SaveRead
  <2>4. Present' \subseteq Present
    <3>1. CASE MarkAllRead \/ NextDay \/ PurgeNotes \/ EraseStep
      BY <1>1, <3>1, NotesEffect
    <3>2. CASE UNCHANGED notes
      BY <3>2 DEF Present
    <3>3. QED
      BY <1>1, <2>2, <2>3, <3>1, <3>2
         DEF SubjectNext, ReadUser, SaveUser, DropUser, SoftDeleteAccount, TokenExpires, RefreshToken,
         Produce, LoseDevice, Notify, ReadNote, ReadOther, SaveOther, DropCopy, StartErase, EraseFails,
         ListStale, ScrubStale, PurgeDevices, RetentionFails, noteVars, vars
  <2>5. QED
    BY <2>1, <2>2, <2>4 DEF Carried
<1>2. SubjectTypeOK /\ [SubjectNext]_vars =>
        [deleted /\ ~ token /\ ~ holder /\ ~ Carried =>
           ~ Carried' /\ \A n \in Present' : n \in Present]_vars
  BY <1>1
<1>3. QED
  BY <1>2, SubjectTypeCorrect, PTL DEF SubjectSpec, NotesRunDry

\* Whom retention has listed stays deleted and aged until the UPDATE comes: nobody who could
\* restore the account can have held on to it for that long (compliance-wiring.service.ts:82-97).
THEOREM RetentionScrubsOnlyAged == SubjectSpec => ScrubsOnlyAged
<1>1. ASSUME SubjectInv, [SubjectNext]_vars, ~ scrubbed, scrubbed'
      PROVE  at = "anonymise" \/ (deleted /\ age > Grace)
  <2>1. EraseStep \/ ScrubStale
    BY <1>1
       DEF SubjectNext, ReadUser, SaveUser, DropUser, SoftDeleteAccount, TokenExpires, RefreshToken,
       Produce, LoseDevice, Notify, Deliver, ReadNote, ReadOther, SaveRead, SaveOther, DropCopy,
       MarkAllRead, StartErase, EraseFails, ListStale, PurgeNotes, PurgeDevices, RetentionFails,
       NextDay, accountVars, vars
  <2>2. CASE EraseStep
    BY <1>1, <2>2 DEF EraseStep
  <2>3. CASE ScrubStale
    BY <1>1, <2>3 DEF ScrubStale, SubjectInv, AgingInv
  <2>4. QED
    BY <2>1, <2>2, <2>3
<1>2. SubjectInv /\ [SubjectNext]_vars =>
        [~ scrubbed /\ scrubbed' => at = "anonymise" \/ (deleted /\ age > Grace)]_vars
  BY <1>1
<1>3. QED
  BY <1>2, SubjectInvariant, PTL DEF SubjectSpec, ScrubsOnlyAged
=============================================================================
