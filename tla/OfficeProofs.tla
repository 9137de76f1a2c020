----------------------------- MODULE OfficeProofs -----------------------------
(***************************************************************************)
(* The office as a whole: every area keeps the invariant of its component, *)
(* and no step of an area disturbs what another component promises.        *)
(* Before that, the proofs about activity and alerts: saved changes are    *)
(* recorded or reported and keep their answers, and the deliveries of a    *)
(* key are paced, for any number of sessions, requests and restarts.       *)
(***************************************************************************)
EXTENDS MCOffice, RecoveryProofs, CredentialsProofs, BusinessLockProofs, CustomersProofs

\* What a session serves, and how a request describes itself.
ActivityTask ==
  [id : 1..asked, kind : RequestKind, status : Status, activity : BOOLEAN,
   key : AlertKey \cup {None}, at : Instant]

ActivityShape == ActivityTypeOK /\ asked \in Nat /\ job \in [Session -> ActivityTask \cup {None}]

\* What a request has done to the records when it reaches a step.
Recording(s) == LET id == job[s].id IN
  pc[s] # "idle" =>
    /\ \A status \in Status : <<id, status>> \notin answers
    /\ pc[s] \in {"handle", "test", "audit"} => id \notin audits \cup reports
    /\ pc[s] \in {"handle", "test"} =>
         id \notin saved /\ (job[s].kind \in {"change", "email"} => job[s].activity)
    /\ pc[s] = "audit" => job[s].status = "ok" /\ (id \in saved => job[s].activity)
    /\ pc[s] \in {"log", "alert", "deliver", "answer"} /\ id \in saved =>
         job[s].status = "ok" /\ id \in audits \cup reports
    /\ pc[s] \in {"alert", "deliver"} =>
         job[s].key \in AlertKey /\ (id \in saved => job[s].key = "audit")

Numbered == \A r, s \in Serving : r # s => job[r].id # job[s].id

Records == (\A s \in Session : Recording(s)) /\ Numbered /\ AuditedOrReported /\ SavedAnswerKept

\* The last attempts of a key, those since it was last given back, are covered by its reservation.
Attempted ==
  \A x \in attempts :
    /\ x.run <= restarts /\ x.failures <= givenBack[x.key]
    /\ x.run = restarts /\ x.failures = givenBack[x.key] =>
         reserved[x.key] \in Instant /\ x.at <= reserved[x.key]

Paced == Attempted /\ AttemptsPaced

ActivityInv == ActivityShape /\ Records /\ Paced
-----------------------------------------------------------------------------

\* The steps of a request after its beginning.
RequestStep(s) ==
  \/ HandleActivity(s) \/ HandlerRaises(s) \/ TestDelivery(s)
  \/ RecordActivity(s) \/ RecordFails(s) \/ Monitor(s)
  \/ ReserveDelivery(s) \/ SuppressDelivery(s)
  \/ WebhookReceives(s) \/ DeliverAlert(s) \/ DeliveryFails(s) \/ DeliveryRaises(s) \/ Respond(s)

ActivityPc == {"idle", "handle", "test", "audit", "alert", "deliver", "log", "answer"}

\* What a request works on has its type.
LEMMA Working ==
  ASSUME ActivityShape, NEW s \in Session, pc[s] # "idle"
  PROVE  job[s] \in ActivityTask /\ s \in Serving
BY DEF ActivityShape, ActivityTypeOK, Serving, ActivityTask

\* The key of a monitored failure; success is no failure.
LEMMA KeyOfFailure ==
  ASSUME NEW kind, NEW status
  PROVE  /\ MonitoredKey(kind, status) \in AlertKey \cup {None}
         /\ status = "ok" => MonitoredKey(kind, status) = None
BY DEF MonitoredKey, AlertKey

\* A request moves only itself, stays the same request, and writes records of itself only.
LEMMA ActivityMoves ==
  ASSUME ActivityShape, NEW s \in Session, RequestStep(s)
  PROVE  /\ pc[s] # "idle" /\ asked' = asked /\ clock' = clock /\ restarts' = restarts
         /\ \E step \in ActivityPc : pc' = [pc EXCEPT ![s] = step]
         /\ \E task \in ActivityTask \cup {None} :
              /\ job' = [job EXCEPT ![s] = task]
              /\ pc'[s] # "idle" => task \in ActivityTask /\ task.id = job[s].id /\ task.kind = job[s].kind
<1>1. pc \in [Session -> ActivityPc] /\ job \in [Session -> ActivityTask \cup {None}] /\ clock \in Instant
  BY DEF ActivityShape, ActivityTypeOK, ActivityPc
<1>2. pc[s] # "idle"
  BY DEF RequestStep, HandleActivity, HandlerRaises, TestDelivery, RecordActivity, RecordFails, Monitor,
         ReserveDelivery, SuppressDelivery, WebhookReceives, DeliverAlert, DeliveryFails, DeliveryRaises,
         Respond, Goto
<1>3. job[s] \in ActivityTask
  BY <1>2, Working
<1>4. asked' = asked /\ clock' = clock /\ restarts' = restarts
  BY DEF RequestStep, HandleActivity, HandlerRaises, TestDelivery, RecordActivity, RecordFails, Monitor,
         ReserveDelivery, SuppressDelivery, WebhookReceives, DeliverAlert, DeliveryFails, DeliveryRaises,
         Respond
<1>5. ASSUME NEW step \in ActivityPc, NEW task \in ActivityTask \cup {None},
             pc' = [pc EXCEPT ![s] = step], job' = [job EXCEPT ![s] = task],
             step = "idle" \/ (task \in ActivityTask /\ task.id = job[s].id /\ task.kind = job[s].kind)
      PROVE  /\ \E x \in ActivityPc : pc' = [pc EXCEPT ![s] = x]
             /\ \E t \in ActivityTask \cup {None} :
                  /\ job' = [job EXCEPT ![s] = t]
                  /\ pc'[s] # "idle" => t \in ActivityTask /\ t.id = job[s].id /\ t.kind = job[s].kind
  BY <1>1, <1>5
<1>6. ASSUME Answer(s)
      PROVE  /\ \E x \in ActivityPc : pc' = [pc EXCEPT ![s] = x]
             /\ \E t \in ActivityTask \cup {None} :
                  /\ job' = [job EXCEPT ![s] = t]
                  /\ pc'[s] # "idle" => t \in ActivityTask /\ t.id = job[s].id /\ t.kind = job[s].kind
  <2>1. "idle" \in ActivityPc /\ pc' = [pc EXCEPT ![s] = "idle"] /\ job' = [job EXCEPT ![s] = None]
    BY <1>6 DEF Answer, ActivityPc
  <2>2. pc'[s] = "idle"
    BY <1>1, <2>1
  <2>3. \E x \in ActivityPc : pc' = [pc EXCEPT ![s] = x]
    BY <2>1
  <2> QED
    BY <2>1, <2>2, <2>3
<1>7. CASE HandleActivity(s)
  <2>1. PICK status \in Outcome(job[s].kind), books \in BOOLEAN :
          /\ books => job[s].kind = "message" /\ status = "ok"
          /\ job' = [job EXCEPT ![s].status = status, ![s].activity = @ \/ books]
          /\ pc' = [pc EXCEPT ![s] = AfterHandler(job[s].kind, status)]
    BY <1>7 DEF HandleActivity
  <2>2. status \in Status /\ AfterHandler(job[s].kind, status) \in ActivityPc
    BY <1>3, <2>1 DEF Outcome, AfterHandler, Status, ActivityPc, ActivityTask, RequestKind
  <2> DEFINE task == [job[s] EXCEPT !.status = status, !.activity = @ \/ books]
  <2>3. task \in ActivityTask /\ task.id = job[s].id /\ task.kind = job[s].kind
    BY <1>3, <2>2 DEF ActivityTask
  <2>4. job' = [job EXCEPT ![s] = task]
    BY <1>1, <2>1
  <2> HIDE DEF task
  <2> QED
    BY <1>2, <1>4, <1>5, <2>1, <2>2, <2>3, <2>4
<1>8. CASE TestDelivery(s)
  <2>1. PICK status \in Outcome("test") :
          /\ job' = [job EXCEPT ![s].status = status]
          /\ pc' = [pc EXCEPT ![s] = AfterHandler("test", status)]
    BY <1>8 DEF TestDelivery
  <2>2. status \in Status /\ AfterHandler("test", status) \in ActivityPc
    BY <2>1 DEF Outcome, AfterHandler, Status, ActivityPc
  <2> DEFINE task == [job[s] EXCEPT !.status = status]
  <2>3. task \in ActivityTask /\ task.id = job[s].id /\ task.kind = job[s].kind
    BY <1>3, <2>2 DEF ActivityTask
  <2>4. job' = [job EXCEPT ![s] = task]
    BY <1>1, <2>1
  <2> HIDE DEF task
  <2> QED
    BY <1>2, <1>4, <1>5, <2>1, <2>2, <2>3, <2>4
<1>9. CASE HandlerRaises(s) \/ Respond(s)
  <2>1. Answer(s)
    BY <1>9 DEF HandlerRaises, Respond, Answered
  <2> QED
    BY <1>2, <1>4, <1>6, <2>1
<1>10. CASE RecordActivity(s)
  <2>1. pc' = [pc EXCEPT ![s] = "log"] /\ "log" \in ActivityPc /\ job' = [job EXCEPT ![s] = job[s]]
    BY <1>1, <1>10 DEF RecordActivity, Goto, ActivityPc
  <2> QED
    BY <1>2, <1>3, <1>4, <1>5, <2>1
<1>11. ASSUME NEW key \in AlertKey \cup {None}, job' = [job EXCEPT ![s].key = key], NEW step \in ActivityPc,
              pc' = [pc EXCEPT ![s] = step]
       PROVE  /\ \E x \in ActivityPc : pc' = [pc EXCEPT ![s] = x]
              /\ \E t \in ActivityTask \cup {None} :
                   /\ job' = [job EXCEPT ![s] = t]
                   /\ pc'[s] # "idle" => t \in ActivityTask /\ t.id = job[s].id /\ t.kind = job[s].kind
  <2> DEFINE task == [job[s] EXCEPT !.key = key]
  <2>1. task \in ActivityTask /\ task.id = job[s].id /\ task.kind = job[s].kind
    BY <1>3 DEF ActivityTask
  <2>2. job' = [job EXCEPT ![s] = task]
    BY <1>1, <1>11
  <2> HIDE DEF task
  <2> QED
    BY <1>5, <1>11, <2>1, <2>2
<1>12. CASE RecordFails(s)
  <2>1. pc' = [pc EXCEPT ![s] = "alert"] /\ job' = [job EXCEPT ![s].key = "audit"]
        /\ "alert" \in ActivityPc /\ "audit" \in AlertKey
    BY <1>12 DEF RecordFails, ActivityPc, AlertKey
  <2> QED
    BY <1>2, <1>4, <1>11, <2>1
<1>13. CASE Monitor(s)
  <2> DEFINE key == MonitoredKey(job[s].kind, job[s].status)
             step == IF key = None THEN "answer" ELSE "alert"
  <2>1. pc' = [pc EXCEPT ![s] = step] /\ job' = [job EXCEPT ![s].key = key] /\ step \in ActivityPc
    BY <1>13 DEF Monitor, ActivityPc
  <2>2. key \in AlertKey \cup {None}
    BY KeyOfFailure
  <2> HIDE DEF key, step
  <2> QED
    BY <1>2, <1>4, <1>11, <2>1, <2>2
<1>14. CASE ReserveDelivery(s)
  <2>1. pc' = [pc EXCEPT ![s] = "deliver"] /\ job' = [job EXCEPT ![s].at = clock] /\ "deliver" \in ActivityPc
    BY <1>14 DEF ReserveDelivery, Goto, ActivityPc
  <2> DEFINE task == [job[s] EXCEPT !.at = clock]
  <2>2. task \in ActivityTask /\ task.id = job[s].id /\ task.kind = job[s].kind
    BY <1>1, <1>3 DEF ActivityTask
  <2>3. job' = [job EXCEPT ![s] = task]
    BY <1>1, <2>1
  <2> HIDE DEF task
  <2> QED
    BY <1>2, <1>4, <1>5, <2>1, <2>2, <2>3
<1>15. ASSUME Alerted(s), NEW step \in ActivityPc, pc' = [pc EXCEPT ![s] = step]
       PROVE  /\ \E x \in ActivityPc : pc' = [pc EXCEPT ![s] = x]
              /\ \E t \in ActivityTask \cup {None} :
                   /\ job' = [job EXCEPT ![s] = t]
                   /\ pc'[s] # "idle" => t \in ActivityTask /\ t.id = job[s].id /\ t.kind = job[s].kind
  <2> DEFINE task == [job[s] EXCEPT !.key = None, !.at = 0]
  <2>1. task \in ActivityTask /\ task.id = job[s].id /\ task.kind = job[s].kind
    <3>1. 0 \in Instant
      BY HorizonAssumption DEF Instant
    <3>2. [job[s] EXCEPT !.key = None] \in ActivityTask
      BY <1>3 DEF ActivityTask
    <3> QED
      BY <1>3, <3>1, <3>2 DEF ActivityTask
  <2>2. job' = [job EXCEPT ![s] = task]
    BY <1>1, <1>15 DEF Alerted
  <2> HIDE DEF task
  <2> QED
    BY <1>5, <1>15, <2>1, <2>2
<1>16. CASE SuppressDelivery(s) \/ DeliverAlert(s) \/ DeliveryFails(s)
  <2>1. Alerted(s) /\ pc' = [pc EXCEPT ![s] = AfterAlert(s)] /\ AfterAlert(s) \in ActivityPc
    BY <1>16 DEF SuppressDelivery, DeliverAlert, DeliveryFails, Goto, AfterAlert, ActivityPc
  <2> QED
    BY <1>2, <1>4, <1>15, <2>1
<1>17. CASE DeliveryRaises(s)
  <2>1. CASE job[s].key = "audit"
    <3>1. Alerted(s) /\ pc' = [pc EXCEPT ![s] = "log"] /\ "log" \in ActivityPc
      BY <1>17, <2>1 DEF DeliveryRaises, ActivityPc
    <3> QED
      BY <1>2, <1>4, <1>15, <3>1
  <2>2. CASE job[s].key # "audit"
    <3>1. Answer(s)
      BY <1>17, <2>2 DEF DeliveryRaises, Answered
    <3> QED
      BY <1>2, <1>4, <1>6, <3>1
  <2> QED
    BY <2>1, <2>2
<1>18. CASE WebhookReceives(s)
  <2>1. pc' = [pc EXCEPT ![s] = pc[s]] /\ job' = [job EXCEPT ![s] = job[s]]
    BY <1>1, <1>18 DEF WebhookReceives
  <2>2. pc[s] \in ActivityPc
    BY <1>1
  <2> QED
    BY <1>2, <1>3, <1>4, <1>5, <2>1, <2>2
<1> QED
  BY <1>7, <1>8, <1>9, <1>10, <1>12, <1>13, <1>14, <1>16, <1>17, <1>18 DEF RequestStep

\* What follows for the session that moves and for the others.
LEMMA Unmoved ==
  ASSUME ActivityShape, NEW s \in Session, RequestStep(s)
  PROVE  /\ pc[s] # "idle" /\ job[s] \in ActivityTask /\ ActivityTask' = ActivityTask
         /\ pc' \in [Session -> ActivityPc] /\ job' \in [Session -> ActivityTask \cup {None}]
         /\ \A r \in Session \ {s} : pc'[r] = pc[r] /\ job'[r] = job[r]
         /\ pc'[s] # "idle" =>
              job'[s] \in ActivityTask /\ job'[s].id = job[s].id /\ job'[s].kind = job[s].kind
<1>1. pc \in [Session -> ActivityPc] /\ job \in [Session -> ActivityTask \cup {None}]
  BY DEF ActivityShape, ActivityTypeOK, ActivityPc
<1>2. pc[s] # "idle" /\ asked' = asked
  BY ActivityMoves
<1>3. job[s] \in ActivityTask
  BY <1>2, Working
<1>4. PICK step \in ActivityPc : pc' = [pc EXCEPT ![s] = step]
  BY ActivityMoves
<1>5. PICK task \in ActivityTask \cup {None} :
        /\ job' = [job EXCEPT ![s] = task]
        /\ pc'[s] # "idle" => task \in ActivityTask /\ task.id = job[s].id /\ task.kind = job[s].kind
  BY ActivityMoves
<1>6. ActivityTask' = ActivityTask
  BY <1>2 DEF ActivityTask, Instant
<1>7. pc' \in [Session -> ActivityPc] /\ \A r \in Session \ {s} : pc'[r] = pc[r]
  BY <1>1, <1>4
<1>8. /\ job' \in [Session -> ActivityTask \cup {None}] /\ job'[s] = task
      /\ \A r \in Session \ {s} : job'[r] = job[r]
  BY <1>1, <1>5
<1> QED
  BY <1>2, <1>3, <1>5, <1>6, <1>7, <1>8

\* A request adds to the records and answers nothing but itself.
LEMMA Writes ==
  ASSUME ActivityShape, NEW s \in Session, RequestStep(s)
  PROVE  /\ saved \subseteq saved' /\ saved' \subseteq saved \cup {job[s].id}
         /\ audits \subseteq audits' /\ audits' \subseteq audits \cup {job[s].id}
         /\ reports \subseteq reports' /\ reports' \subseteq reports \cup {job[s].id}
         /\ answers \subseteq answers' /\ answers' \subseteq answers \cup ({job[s].id} \X Status)
<1>1. job[s] \in ActivityTask
  BY Unmoved
<1>2. job[s].status \in Status /\ "failed" \in Status
  BY <1>1 DEF ActivityTask, Status
<1>3. ASSUME NEW status \in Status, Answered(s, status)
      PROVE  answers \subseteq answers' /\ answers' \subseteq answers \cup ({job[s].id} \X Status)
  BY <1>3 DEF Answered
<1>4. CASE HandleActivity(s)
  BY <1>4 DEF HandleActivity
<1>5. CASE HandlerRaises(s)
  BY <1>2, <1>5 DEF HandlerRaises
<1>6. CASE TestDelivery(s) \/ Monitor(s) \/ ReserveDelivery(s) \/ SuppressDelivery(s)
           \/ WebhookReceives(s) \/ DeliverAlert(s) \/ DeliveryFails(s)
  BY <1>6 DEF TestDelivery, Monitor, ReserveDelivery, SuppressDelivery, WebhookReceives, DeliverAlert,
              DeliveryFails, activityHistory
<1>7. CASE RecordActivity(s) \/ RecordFails(s)
  BY <1>7 DEF RecordActivity, RecordFails
<1>8. CASE DeliveryRaises(s)
  <2>1. UNCHANGED <<saved, audits, reports>>
    BY <1>8 DEF DeliveryRaises
  <2>2. UNCHANGED answers \/ Answered(s, "failed")
    BY <1>8 DEF DeliveryRaises
  <2> QED
    BY <1>2, <1>3, <2>1, <2>2
<1>9. CASE Respond(s)
  <2>1. UNCHANGED <<saved, audits, reports>> /\ Answered(s, job[s].status)
    BY <1>9 DEF Respond
  <2> QED
    BY <1>2, <1>3, <2>1
<1> QED
  BY <1>4, <1>5, <1>6, <1>7, <1>8, <1>9 DEF RequestStep

\* The other requests stand where they stood.
LEMMA OthersRecord ==
  ASSUME ActivityShape, Records, NEW s \in Session, RequestStep(s)
  PROVE  (\A r \in Session \ {s} : Recording(r)') /\ Numbered'
<1>1. /\ pc[s] # "idle" /\ \A r \in Session \ {s} : pc'[r] = pc[r] /\ job'[r] = job[r]
      /\ pc'[s] # "idle" => job'[s].id = job[s].id
  BY Unmoved
<1>2. \A r \in Session \ {s} : pc[r] # "idle" => job[r].id # job[s].id
  BY <1>1 DEF Records, Numbered, Serving
<1>3. ASSUME NEW r \in Session \ {s} PROVE Recording(r)'
  <2>1. Recording(r) /\ pc'[r] = pc[r] /\ job'[r] = job[r]
    BY <1>1 DEF Records
  <2>2. CASE pc[r] = "idle"
    BY <2>1, <2>2 DEF Recording
  <2>3. CASE pc[r] # "idle"
    <3>1. job[r].id # job[s].id
      BY <1>2, <2>3
    <3>2. /\ job[r].id \in saved' <=> job[r].id \in saved
          /\ job[r].id \in (audits \cup reports)' <=> job[r].id \in audits \cup reports
          /\ \A x \in Status : <<job[r].id, x>> \in answers' <=> <<job[r].id, x>> \in answers
      BY <3>1, Writes
    <3> QED
      BY <2>1, <2>3, <3>2 DEF Recording
  <2> QED
    BY <2>2, <2>3
<1>4. Numbered'
  BY <1>1, <1>2 DEF Records, Numbered, Serving
<1> QED
  BY <1>3, <1>4

\* What the records say of one request.
Consistent(i) ==
  /\ i \in saved /\ <<i, "ok">> \in answers => i \in audits \cup reports
  /\ i \in saved \cap (audits \cup reports) => <<i, "failed">> \notin answers

\* The records of the other requests are as they were.
LEMMA OthersConsistent ==
  ASSUME ActivityShape, Records, NEW s \in Session, RequestStep(s),
         NEW id, id = job[s].id, Consistent(id)'
  PROVE  AuditedOrReported' /\ SavedAnswerKept'
<1>1. ASSUME NEW i, i # job[s].id
      PROVE  /\ i \in saved' <=> i \in saved
             /\ i \in (audits \cup reports)' <=> i \in audits \cup reports
             /\ \A x \in {"ok", "failed"} : <<i, x>> \in answers' <=> <<i, x>> \in answers
  BY <1>1, Writes
<1>3. ASSUME NEW i PROVE Consistent(i)'
  <2>1. CASE i = id
    BY <2>1
  <2>2. CASE i # id
    BY <1>1, <2>2 DEF Consistent, Records, AuditedOrReported, SavedAnswerKept
  <2> QED
    BY <2>1, <2>2
<1> QED
  BY <1>3 DEF Consistent, AuditedOrReported, SavedAnswerKept

\* The two history properties, one request at a time.
LEMMA RequestsConsistent ==
  ASSUME Records, NEW i
  PROVE  Consistent(i)
BY DEF Records, AuditedOrReported, SavedAnswerKept, Consistent

\* Every step of a request keeps the records.
LEMMA RecordsStep ==
  ASSUME ActivityShape, Records, NEW s \in Session, RequestStep(s)
  PROVE  Records'
<1> DEFINE id == job[s].id
<1>1. /\ pc[s] # "idle" /\ job[s] \in ActivityTask /\ pc \in [Session -> ActivityPc] /\ job \in [Session -> ActivityTask \cup {None}]
      /\ pc' \in [Session -> ActivityPc] /\ job' \in [Session -> ActivityTask \cup {None}]
      /\ pc'[s] # "idle" => job'[s] \in ActivityTask /\ job'[s].id = id /\ job'[s].kind = job[s].kind
  BY Unmoved DEF ActivityShape, ActivityTypeOK, ActivityPc
<1>2. Recording(s) /\ Consistent(id)
  BY RequestsConsistent DEF Records
<1>3. SUFFICES ASSUME NEW i, i = id PROVE Recording(s)' /\ Consistent(i)'
  BY OthersRecord, OthersConsistent DEF Records
<1>4. \A x \in Status : <<i, x>> \notin answers
  BY <1>1, <1>2, <1>3 DEF Recording
<1>5. ASSUME UNCHANGED answers PROVE Consistent(i)'
  BY <1>4, <1>5 DEF Consistent, Status
<1>6. CASE HandleActivity(s)
  <2>1. PICK status \in Outcome(job[s].kind), books \in BOOLEAN :
          /\ books => job[s].kind = "message" /\ status = "ok"
          /\ job' = [job EXCEPT ![s].status = status, ![s].activity = @ \/ books]
          /\ pc' = [pc EXCEPT ![s] = AfterHandler(job[s].kind, status)]
          /\ saved' = IF status = "ok" /\ (job[s].kind \in {"change", "email"} \/ books)
                      THEN saved \cup {job[s].id} ELSE saved
    BY <1>6 DEF HandleActivity
  <2>2. /\ pc[s] = "handle" /\ UNCHANGED <<audits, reports, answers>>
    BY <1>6 DEF HandleActivity
  <2>3. /\ pc'[s] = AfterHandler(job[s].kind, status)
        /\ job'[s].status = status /\ job'[s].activity = (job[s].activity \/ books)
    BY <1>1, <2>1 DEF ActivityTask
  <2>4. /\ i \notin saved /\ i \notin audits \cup reports
        /\ job[s].kind \in {"change", "email"} => job[s].activity
    BY <1>1, <1>2, <1>3, <2>2 DEF Recording
  <2>5. \/ pc'[s] = "audit" /\ status = "ok" /\ job[s].kind # "login"
        \/ pc'[s] = "log" /\ ~(status = "ok" /\ job[s].kind # "login")
    BY <2>3 DEF AfterHandler
  <2>6. i \in saved' => job'[s].activity /\ pc'[s] = "audit"
    <3>1. CASE status = "ok" /\ (job[s].kind \in {"change", "email"} \/ books)
      <4>1. pc'[s] = "audit"
        BY <2>1, <2>5, <3>1
      <4>2. job'[s].activity
        BY <2>3, <2>4, <3>1
      <4> QED
        BY <4>1, <4>2
    <3>2. CASE ~(status = "ok" /\ (job[s].kind \in {"change", "email"} \/ books))
      BY <2>1, <2>4, <3>2
    <3> QED
      BY <3>1, <3>2
  <2>7. job'[s].id = i
    BY <1>1, <1>3, <2>5
  <2>8. Recording(s)'
    BY <1>4, <2>2, <2>3, <2>4, <2>5, <2>6, <2>7 DEF Recording
  <2> QED
    BY <1>5, <2>2, <2>8
<1>7. ASSUME Answer(s) PROVE Recording(s)'
  BY <1>1, <1>7 DEF Answer, Recording
<1>8. CASE HandlerRaises(s)
  <2>1. /\ Answer(s) /\ i \notin audits \cup reports /\ UNCHANGED <<audits, reports>>
        /\ <<i, "ok">> \notin answers'
    BY <1>2, <1>3, <1>4, <1>8 DEF HandlerRaises, Recording, Status
  <2> QED
    BY <1>7, <2>1 DEF Consistent
<1>9. CASE TestDelivery(s)
  <2>1. PICK status \in Outcome("test") :
          /\ job' = [job EXCEPT ![s].status = status]
          /\ pc' = [pc EXCEPT ![s] = AfterHandler("test", status)]
    BY <1>9 DEF TestDelivery
  <2>2. pc[s] = "test" /\ UNCHANGED <<saved, audits, reports, answers>>
    BY <1>9 DEF TestDelivery, activityHistory
  <2>3. pc'[s] = AfterHandler("test", status) /\ job'[s].status = status
    BY <1>1, <2>1 DEF ActivityTask
  <2>4. i \notin saved /\ i \notin audits \cup reports
    BY <1>2, <1>3, <2>2 DEF Recording
  <2>5. pc'[s] = "log" \/ (pc'[s] = "audit" /\ job'[s].status = "ok")
    BY <2>3 DEF AfterHandler
  <2>6. job'[s].id = i
    BY <1>1, <1>3, <2>5
  <2>7. Recording(s)'
    BY <1>4, <2>2, <2>4, <2>5, <2>6 DEF Recording
  <2> QED
    BY <1>5, <2>2, <2>7
<1>10. CASE RecordActivity(s)
  <2>1. /\ pc[s] = "audit" /\ pc'[s] = "log" /\ job' = job /\ UNCHANGED <<saved, reports, answers>>
        /\ audits' = IF job[s].activity THEN audits \cup {i} ELSE audits
    BY <1>1, <1>3, <1>10 DEF RecordActivity, Goto
  <2>2. job[s].status = "ok" /\ (i \in saved => job[s].activity)
    BY <1>2, <1>3, <2>1 DEF Recording
  <2>3. Recording(s)'
    BY <1>3, <1>4, <2>1, <2>2 DEF Recording
  <2> QED
    BY <1>5, <2>1, <2>3
<1>11. CASE RecordFails(s)
  <2>1. /\ pc[s] = "audit" /\ pc'[s] = "alert" /\ job' = [job EXCEPT ![s].key = "audit"]
        /\ UNCHANGED <<saved, audits, answers>> /\ reports' = reports \cup {i}
    BY <1>1, <1>3, <1>11 DEF RecordFails
  <2>2. job[s].status = "ok"
    BY <1>2, <1>3, <2>1 DEF Recording
  <2>3. job'[s].id = i /\ job'[s].key = "audit" /\ job'[s].status = "ok"
    BY <1>1, <1>3, <2>1, <2>2 DEF ActivityTask
  <2>4. Recording(s)'
    BY <1>4, <2>1, <2>3 DEF Recording, AlertKey
  <2> QED
    BY <1>5, <2>1, <2>4
<1>12. CASE Monitor(s)
  <2> DEFINE key == MonitoredKey(job[s].kind, job[s].status)
  <2>1. /\ pc[s] = "log" /\ pc'[s] = (IF key = None THEN "answer" ELSE "alert")
        /\ job' = [job EXCEPT ![s].key = key] /\ UNCHANGED <<saved, audits, reports, answers>>
    BY <1>1, <1>12 DEF Monitor, activityHistory
  <2>2. key \in AlertKey \cup {None} /\ (job[s].status = "ok" => key = None)
    BY KeyOfFailure
  <2>3. i \in saved => job[s].status = "ok" /\ i \in audits \cup reports
    BY <1>2, <1>3, <2>1 DEF Recording
  <2> HIDE DEF key
  <2>4. job'[s].id = i /\ job'[s].key = key /\ job'[s].status = job[s].status
    BY <1>1, <1>3, <2>1 DEF ActivityTask
  <2>5. Recording(s)'
    BY <1>4, <2>1, <2>2, <2>3, <2>4 DEF Recording
  <2> QED
    BY <1>5, <2>1, <2>5
<1>13. CASE ReserveDelivery(s)
  <2>1. /\ pc[s] = "alert" /\ pc'[s] = "deliver" /\ job' = [job EXCEPT ![s].at = clock]
        /\ UNCHANGED <<saved, audits, reports, answers>>
    BY <1>1, <1>13 DEF ReserveDelivery, Goto, activityHistory
  <2>2. job'[s].id = i /\ job'[s].key = job[s].key /\ job'[s].status = job[s].status
    BY <1>1, <1>3, <2>1 DEF ActivityTask
  <2>3. Recording(s)'
    BY <1>2, <1>3, <2>1, <2>2 DEF Recording
  <2> QED
    BY <1>5, <2>1, <2>3
<1>14. ASSUME Alerted(s), pc[s] \in {"alert", "deliver"}, pc'[s] \in {"log", "answer"},
              UNCHANGED <<saved, audits, reports, answers>>
       PROVE  Recording(s)' /\ Consistent(i)'
  <2>1. job'[s].id = i /\ job'[s].status = job[s].status
    BY <1>1, <1>3, <1>14 DEF Alerted, ActivityTask
  <2>2. Recording(s)'
    BY <1>2, <1>3, <1>14, <2>1 DEF Recording
  <2> QED
    BY <1>5, <1>14, <2>2
<1>15. CASE SuppressDelivery(s) \/ DeliverAlert(s) \/ DeliveryFails(s)
  <2>1. /\ Alerted(s) /\ pc[s] \in {"alert", "deliver"} /\ pc' = [pc EXCEPT ![s] = AfterAlert(s)]
        /\ UNCHANGED <<saved, audits, reports, answers>>
    BY <1>15 DEF SuppressDelivery, DeliverAlert, DeliveryFails, Goto, activityHistory
  <2>2. pc'[s] \in {"log", "answer"}
    BY <1>1, <2>1 DEF AfterAlert
  <2> QED
    BY <1>14, <2>1, <2>2
<1>16. CASE DeliveryRaises(s)
  <2>1. pc[s] = "deliver" /\ UNCHANGED <<saved, audits, reports>>
    BY <1>16 DEF DeliveryRaises
  <2>2. CASE job[s].key = "audit"
    <3>1. pc'[s] = "log" /\ Alerted(s) /\ UNCHANGED answers
      BY <1>1, <1>16, <2>2 DEF DeliveryRaises
    <3> QED
      BY <1>14, <2>1, <3>1
  <2>3. CASE job[s].key # "audit"
    <3>1. Answer(s) /\ i \notin saved
      BY <1>2, <1>3, <1>16, <2>1, <2>3 DEF DeliveryRaises, Answered, Recording
    <3> QED
      BY <1>7, <2>1, <3>1 DEF Consistent
  <2> QED
    BY <2>2, <2>3
<1>17. CASE Respond(s)
  <2>1. pc[s] = "answer" /\ Answer(s) /\ UNCHANGED <<saved, audits, reports>>
    BY <1>17 DEF Respond, Answered
  <2>2. i \in saved => job[s].status = "ok" /\ i \in audits \cup reports
    BY <1>2, <1>3, <2>1 DEF Recording
  <2>3. <<i, "failed">> \in answers' => i \notin saved
    BY <1>3, <1>4, <1>17, <2>2 DEF Respond, Answered, Status
  <2> QED
    BY <1>7, <2>1, <2>2, <2>3 DEF Consistent
<1>18. CASE WebhookReceives(s)
  <2>1. UNCHANGED <<pc, job, saved, audits, reports, answers>>
    BY <1>18 DEF WebhookReceives, activityHistory
  <2> QED
    BY <1>2, <1>5, <2>1 DEF Recording
<1> QED
  BY <1>6, <1>8, <1>9, <1>10, <1>11, <1>12, <1>13, <1>15, <1>16, <1>17, <1>18 DEF RequestStep

\* The steps of a request, by what they do to the reservations and the deliveries.
LEMMA AlertCases ==
  ASSUME ActivityShape, NEW s \in Session, RequestStep(s)
  PROVE  \/ ReserveDelivery(s) \/ DeliveryFails(s) \/ WebhookReceives(s)
         \/ UNCHANGED <<reserved, attempts, givenBack, notified>> /\ pc'[s] # "deliver"
<1>1. pc \in [Session -> ActivityPc]
  BY DEF ActivityShape, ActivityTypeOK, ActivityPc
<1>2. CASE HandleActivity(s) \/ TestDelivery(s)
  <2>1. UNCHANGED <<reserved, attempts, givenBack, notified>> /\ pc'[s] \in {"audit", "log"}
    BY <1>1, <1>2 DEF HandleActivity, TestDelivery, AfterHandler, alertHistory
  <2> QED
    BY <2>1
<1>3. CASE \/ HandlerRaises(s) \/ RecordActivity(s) \/ RecordFails(s) \/ Monitor(s) \/ SuppressDelivery(s)
           \/ DeliverAlert(s) \/ DeliveryRaises(s) \/ Respond(s)
  BY <1>1, <1>3 DEF HandlerRaises, RecordActivity, RecordFails, Monitor, SuppressDelivery, DeliverAlert,
                    DeliveryRaises, Respond, Answered, Answer, Goto, AfterAlert, alertHistory
<1> QED
  BY <1>2, <1>3 DEF RequestStep

\* Every step of a request keeps the types.
LEMMA TypedStep ==
  ASSUME ActivityShape, NEW s \in Session, RequestStep(s),
         pc[s] \in {"alert", "deliver"} => job[s].key \in AlertKey
  PROVE  ActivityShape'
<1>1. /\ pc[s] # "idle" /\ job[s] \in ActivityTask /\ ActivityTask' = ActivityTask
      /\ pc' \in [Session -> ActivityPc] /\ job' \in [Session -> ActivityTask \cup {None}]
      /\ \A r \in Session \ {s} : pc'[r] = pc[r] /\ job'[r] = job[r]
      /\ pc'[s] # "idle" => job'[s] \in ActivityTask
  BY Unmoved
<1>2. /\ asked' = asked /\ clock' = clock /\ restarts' = restarts
      /\ clock \in Instant /\ restarts \in 0..MaxRestarts /\ asked \in Nat
  BY ActivityMoves DEF ActivityShape, ActivityTypeOK
<1>3. \A r \in Serving' : job'[r] \in ActivityTask
  <2> SUFFICES ASSUME NEW r \in Session, pc'[r] # "idle" PROVE job'[r] \in ActivityTask
    BY DEF Serving
  <2> QED
    BY <1>1, Working
<1>4. saved' \cup audits' \cup reports' \subseteq 1..asked /\ answers' \subseteq (1..asked) \X Status
  <2>1. job[s].id \in 1..asked
    BY <1>1 DEF ActivityTask
  <2> QED
    BY <2>1, Writes DEF ActivityShape, ActivityTypeOK
<1>5. CASE ReserveDelivery(s) \/ DeliveryFails(s) \/ WebhookReceives(s)
  <2>1. job[s].key \in AlertKey /\ job[s].id \in 1..asked
    BY <1>1, <1>5 DEF ReserveDelivery, DeliveryFails, WebhookReceives, Goto, ActivityTask
  <2>2. /\ reserved' \in [AlertKey -> Instant \cup {None}]
        /\ givenBack' \in [AlertKey -> Nat]
    BY <1>2, <1>5, <2>1 DEF ActivityShape, ActivityTypeOK, ReserveDelivery, DeliveryFails, WebhookReceives
  <2>3. attempts' \subseteq [id : 1..asked, key : AlertKey, at : Instant, failures : Nat, run : 0..MaxRestarts]
    BY <1>2, <1>5, <2>1 DEF ActivityShape, ActivityTypeOK, ReserveDelivery, Attempt, DeliveryFails,
       WebhookReceives
  <2>4. notified' \subseteq [id : 1..asked, key : AlertKey, at : Instant, run : 0..MaxRestarts]
    BY <1>2, <1>5, <2>1 DEF ActivityShape, ActivityTypeOK, ReserveDelivery, DeliveryFails, WebhookReceives
  <2>5. ActivityTypeOK'
    BY <1>1, <1>2, <1>3, <1>4, <2>2, <2>3, <2>4 DEF ActivityTypeOK, ActivityPc, ActivityTask, Instant
  <2> QED
    BY <1>1, <1>2, <2>5 DEF ActivityShape
<1>6. CASE ~(ReserveDelivery(s) \/ DeliveryFails(s) \/ WebhookReceives(s))
  <2>1. UNCHANGED <<reserved, attempts, givenBack, notified>>
    BY <1>6, AlertCases
  <2>2. ActivityTypeOK'
    BY <1>1, <1>2, <1>3, <1>4, <2>1 DEF ActivityShape, ActivityTypeOK, ActivityPc, ActivityTask, Instant
  <2> QED
    BY <1>1, <1>2, <2>2 DEF ActivityShape
<1> QED
  BY <1>5, <1>6

\* A key that can be reserved is free, or its reservation is a cooldown old.
LEMMA FreeKey ==
  ASSUME ActivityShape, NEW k \in AlertKey, ~Reserved(k)
  PROVE  /\ clock \in Int /\ clock \in Instant /\ None \notin Instant /\ Instant \subseteq Int
         /\ reserved[k] \in Instant => reserved[k] + AlertCooldown <= clock
<1>1. /\ clock \in Instant /\ Instant \subseteq Int /\ None \notin Instant /\ AlertCooldown \in Int
  BY HorizonAssumption, AlertAssumption DEF ActivityShape, ActivityTypeOK, Instant
<1>2. reserved[k] \in Instant => ~(clock - reserved[k] < AlertCooldown)
  BY <1>1 DEF Reserved
<1>3. ASSUME NEW t \in Int, ~(clock - t < AlertCooldown) PROVE t + AlertCooldown <= clock
  BY <1>1, <1>3
<1> QED
  BY <1>1, <1>2, <1>3

\* Every step of a request keeps the attempts paced: a reservation lasts a cooldown, or its key
\* is given back, by its own delivery or by an older one.
LEMMA PacedStep ==
  ASSUME ActivityShape, Records, Paced, NEW s \in Session, RequestStep(s)
  PROVE  Paced'
<1> DEFINE k == job[s].key
<1>1. restarts' = restarts
  BY ActivityMoves
<1>2. /\ \A x \in attempts : x.key \in AlertKey /\ x.at \in Int /\ x.failures \in Int
      /\ givenBack \in [AlertKey -> Nat] /\ reserved \in [AlertKey -> Instant \cup {None}]
  BY HorizonAssumption DEF ActivityShape, ActivityTypeOK, Instant
<1>3. pc[s] \in {"alert", "deliver"} => k \in AlertKey
  BY DEF Records, Recording
<1>4. CASE ReserveDelivery(s)
  <2> DEFINE new == Attempt(s)
  <2>1. /\ k \in AlertKey /\ ~Reserved(k)
        /\ reserved' = [reserved EXCEPT ![k] = clock]
        /\ attempts' = attempts \cup {new} /\ UNCHANGED <<clock, givenBack>>
    BY <1>3, <1>4 DEF ReserveDelivery, Goto
  <2>2. new.key = k /\ new.at = clock /\ new.failures = givenBack[k] /\ new.run = restarts
    BY DEF Attempt
  <2> HIDE DEF new, k
  <2>3. reserved'[k] = clock /\ \A q \in AlertKey \ {k} : reserved'[q] = reserved[q]
    BY <1>2, <2>1
  <2>4. /\ clock \in Int /\ clock \in Instant /\ Instant \subseteq Int
        /\ reserved[k] \in Instant => reserved[k] + AlertCooldown <= clock
    BY <2>1, FreeKey
  <2>5. ASSUME NEW x \in attempts, x.key = k, x.run = restarts, x.failures = givenBack[k]
        PROVE  x.at + AlertCooldown <= clock
    <3>1. reserved[k] \in Instant /\ x.at <= reserved[k]
      BY <2>5 DEF Paced, Attempted
    <3>2. x.at \in Int
      BY <1>2
    <3>3. reserved[k] \in Int /\ clock \in Int /\ reserved[k] + AlertCooldown <= clock
      BY <2>4, <3>1
    <3>4. AlertCooldown \in Int
      BY AlertAssumption
    <3> QED
      BY <3>1, <3>2, <3>3, <3>4
  <2>6. Attempted'
    <3> SUFFICES ASSUME NEW x \in attempts'
                 PROVE  /\ x.run <= restarts /\ x.failures <= givenBack[x.key]
                        /\ x.run = restarts /\ x.failures = givenBack[x.key] =>
                             reserved'[x.key] \in Instant /\ x.at <= reserved'[x.key]
      BY <1>1, <2>1 DEF Attempted, Instant
    <3>1. CASE x = new
      BY <1>2, <2>1, <2>2, <2>3, <2>4, <3>1 DEF ActivityShape, ActivityTypeOK
    <3>2. CASE x \in attempts /\ x.key = k
      <4>1. x.run = restarts /\ x.failures = givenBack[k] => x.at <= clock
        BY <1>2, <2>4, <2>5, <3>2, AlertAssumption
      <4> QED
        BY <2>3, <2>4, <3>2, <4>1 DEF Paced, Attempted
    <3>3. CASE x \in attempts /\ x.key # k
      BY <1>2, <2>3, <3>3 DEF Paced, Attempted
    <3> QED
      BY <2>1, <3>1, <3>2, <3>3
  <2>7. AttemptsPaced'
    <3> SUFFICES ASSUME NEW x \in attempts', NEW y \in attempts', x # y, x.key = y.key, x.run = y.run,
                        x.failures = y.failures
                 PROVE  x.at >= y.at + AlertCooldown \/ y.at >= x.at + AlertCooldown
      BY DEF AttemptsPaced
    <3>1. CASE x \in attempts /\ y \in attempts
      BY <3>1 DEF Paced, AttemptsPaced
    <3>2. CASE x = new /\ y \in attempts
      BY <1>2, <2>2, <2>4, <2>5, <3>2, AlertAssumption
    <3>3. CASE x \in attempts /\ y = new
      BY <1>2, <2>2, <2>4, <2>5, <3>3, AlertAssumption
    <3> QED
      BY <2>1, <3>1, <3>2, <3>3
  <2> QED
    BY <2>6, <2>7 DEF Paced
<1>5. CASE DeliveryFails(s)
  <2>1. /\ k \in AlertKey /\ attempts' = attempts
        /\ reserved' = [reserved EXCEPT ![k] = None]
        /\ givenBack' = [givenBack EXCEPT ![k] = @ + 1]
    BY <1>3, <1>5 DEF DeliveryFails, Goto
  <2> HIDE DEF k
  <2>2. /\ givenBack'[k] = givenBack[k] + 1 /\ givenBack[k] \in Nat
        /\ \A q \in AlertKey \ {k} : reserved'[q] = reserved[q] /\ givenBack'[q] = givenBack[q]
    BY <1>2, <2>1
  <2>3. Attempted'
    <3> SUFFICES ASSUME NEW x \in attempts
                 PROVE  /\ x.run <= restarts /\ x.failures <= givenBack'[x.key]
                        /\ x.run = restarts /\ x.failures = givenBack'[x.key] =>
                             reserved'[x.key] \in Instant /\ x.at <= reserved'[x.key]
      BY <1>1, <2>1 DEF Attempted, Instant
    <3>1. CASE x.key = k
      BY <1>2, <2>2, <3>1 DEF Paced, Attempted
    <3>2. CASE x.key # k
      BY <1>2, <2>2, <3>2 DEF Paced, Attempted
    <3> QED
      BY <3>1, <3>2
  <2>4. AttemptsPaced'
    BY <2>1 DEF Paced, AttemptsPaced
  <2> QED
    BY <2>3, <2>4 DEF Paced
<1>6. CASE UNCHANGED <<reserved, attempts, givenBack>>
  BY <1>1, <1>6 DEF Paced, Attempted, AttemptsPaced, Instant
<1> QED
  BY <1>4, <1>5, <1>6, AlertCases DEF WebhookReceives

\* A request begins with a number nobody has had.
LEMMA BeginStep ==
  ASSUME ActivityInv, NEW s \in Session, NEW kind \in RequestKind, BeginActivity(s, kind)
  PROVE  ActivityInv'
<1> DEFINE step == IF kind = "test" THEN "test" ELSE "handle"
           task == [id |-> asked + 1, kind |-> kind, status |-> "ok", activity |-> kind \in {"change", "email", "test"},
                    key |-> None, at |-> 0]
<1>1. /\ pc[s] = "idle" /\ pc' = [pc EXCEPT ![s] = step] /\ job' = [job EXCEPT ![s] = task]
      /\ asked' = asked + 1
      /\ UNCHANGED <<clock, reserved, restarts, saved, audits, reports, answers, attempts, givenBack, notified>>
  BY DEF BeginActivity, Begin, activityHistory, alertHistory
<1>2. /\ pc \in [Session -> ActivityPc] /\ job \in [Session -> ActivityTask \cup {None}] /\ asked \in Nat
      /\ saved \cup audits \cup reports \subseteq 1..asked /\ answers \subseteq (1..asked) \X Status
  BY DEF ActivityInv, ActivityShape, ActivityTypeOK, ActivityPc
<1>3. /\ step \in {"test", "handle"} /\ task.id = asked + 1 /\ task.kind = kind
      /\ task.activity = (kind \in {"change", "email", "test"})
  OBVIOUS
<1>4. task \in ActivityTask'
  BY <1>1, <1>2, HorizonAssumption DEF ActivityTask, Instant, Status
<1>5. ActivityTask \subseteq ActivityTask' /\ 1..asked \subseteq 1..asked'
  <2>1. 1..asked \subseteq 1..asked'
    BY <1>1, <1>2
  <2> QED
    BY <2>1 DEF ActivityTask, Instant
<1> HIDE DEF step, task
<1>6. /\ pc'[s] = step /\ job'[s] = task
      /\ \A r \in Session \ {s} : pc'[r] = pc[r] /\ job'[r] = job[r]
      /\ pc' \in [Session -> ActivityPc] /\ job' \in [Session -> ActivityTask' \cup {None}]
  BY <1>1, <1>2, <1>3, <1>4, <1>5 DEF ActivityPc
<1>7. ActivityShape'
  <2>1. \A r \in Serving' : job'[r] \in ActivityTask'
    <3> SUFFICES ASSUME NEW r \in Session, pc'[r] # "idle" PROVE job'[r] \in ActivityTask'
      BY DEF Serving
    <3> QED
      BY <1>4, <1>5, <1>6, Working DEF ActivityInv
  <2>2. answers' \subseteq (1..asked') \X Status /\ saved' \cup audits' \cup reports' \subseteq 1..asked'
    BY <1>1, <1>2, <1>5
  <2>3. /\ notified' \subseteq [id : 1..asked', key : AlertKey, at : Instant, run : 0..MaxRestarts]
        /\ attempts' \subseteq [id : 1..asked', key : AlertKey, at : Instant, failures : Nat, run : 0..MaxRestarts]
        /\ givenBack' \in [AlertKey -> Nat]
    BY <1>1, <1>5 DEF ActivityInv, ActivityShape, ActivityTypeOK
  <2>4. asked' \in Nat /\ clock' \in Instant /\ restarts' \in 0..MaxRestarts
        /\ reserved' \in [AlertKey -> Instant \cup {None}]
    BY <1>1, <1>2 DEF ActivityInv, ActivityShape, ActivityTypeOK
  <2>5. ActivityTypeOK'
    BY <1>6, <2>1, <2>2, <2>3, <2>4 DEF ActivityTypeOK, ActivityPc, ActivityTask, Instant
  <2> QED
    BY <1>6, <2>4, <2>5 DEF ActivityShape
<1>8. ASSUME NEW r \in Session PROVE Recording(r)'
  <2>1. CASE r = s
    <3>1. task.id \notin 1..asked
      BY <1>2, <1>3
    <3>2. /\ task.id \notin saved \cup audits \cup reports
          /\ \A x \in Status : <<task.id, x>> \notin answers
      BY <1>2, <3>1
    <3> QED
      BY <1>1, <1>3, <1>6, <2>1, <3>2 DEF Recording
  <2>2. CASE r # s
    BY <1>1, <1>6, <2>2 DEF ActivityInv, Records, Recording
  <2> QED
    BY <2>1, <2>2
<1>9. Numbered'
  <2>1. \A r \in Session \ {s} : pc[r] # "idle" => job[r].id \in 1..asked
    BY Working DEF ActivityInv, ActivityTask
  <2>2. \A r \in Session \ {s} : pc'[r] # "idle" => job'[r].id # job'[s].id
    BY <1>2, <1>3, <1>6, <2>1
  <2> QED
    BY <1>6, <2>2 DEF ActivityInv, Records, Numbered, Serving
<1>10. AuditedOrReported' /\ SavedAnswerKept'
  BY <1>1 DEF ActivityInv, Records, AuditedOrReported, SavedAnswerKept
<1>11. Paced'
  BY <1>1 DEF ActivityInv, Paced, Attempted, AttemptsPaced, Instant
<1> QED
  BY <1>7, <1>8, <1>9, <1>10, <1>11 DEF ActivityInv, Records

\* A restart forgets the requests and the reservations, and starts a run of its own.
LEMMA RestartStep ==
  ASSUME ActivityInv, Restart
  PROVE  ActivityInv'
<1>1. /\ restarts < MaxRestarts /\ restarts' = restarts + 1
      /\ pc' = [s \in Session |-> "idle"] /\ job' = [s \in Session |-> None]
      /\ reserved' = [k \in AlertKey |-> None]
      /\ UNCHANGED <<clock, asked, saved, audits, reports, answers, attempts, givenBack, notified>>
  BY DEF Restart, activityHistory, alertHistory
<1>2. restarts \in Nat /\ MaxRestarts \in Nat /\ restarts' \in 0..MaxRestarts
  BY <1>1, AlertAssumption DEF ActivityInv, ActivityShape, ActivityTypeOK
<1>3. ActivityShape'
  BY <1>1, <1>2 DEF ActivityInv, ActivityShape, ActivityTypeOK, Serving, ActivityTask, Instant
<1>4. Records'
  BY <1>1 DEF ActivityInv, Records, Recording, Numbered, Serving, AuditedOrReported, SavedAnswerKept
<1>5. Attempted'
  <2> SUFFICES ASSUME NEW x \in attempts
               PROVE  x.run <= restarts' /\ x.run # restarts' /\ x.failures <= givenBack[x.key]
    BY <1>1 DEF Attempted
  <2>1. x.run <= restarts /\ x.run \in Int /\ x.failures <= givenBack[x.key]
    BY DEF ActivityInv, Paced, Attempted, ActivityShape, ActivityTypeOK
  <2> QED
    BY <1>1, <1>2, <2>1
<1>6. AttemptsPaced'
  BY <1>1 DEF ActivityInv, Paced, AttemptsPaced
<1> QED
  BY <1>3, <1>4, <1>5, <1>6 DEF ActivityInv, Paced

\* Time passes, however long deliveries take.
LEMMA TickStep ==
  ASSUME ActivityInv, ActivityTick
  PROVE  ActivityInv'
<1>1. /\ clock < Horizon /\ clock' = clock + 1
      /\ UNCHANGED <<pc, job, asked, reserved, restarts, saved, audits, reports, answers, attempts, givenBack,
                     notified>>
  BY DEF ActivityTick, activityHistory, alertHistory
<1>2. clock \in Nat /\ clock' \in Instant
  BY <1>1, HorizonAssumption DEF ActivityInv, ActivityShape, ActivityTypeOK, Instant
<1>3. ActivityShape'
  BY <1>1, <1>2 DEF ActivityInv, ActivityShape, ActivityTypeOK, Serving, ActivityTask, Instant
<1>4. Records'
  BY <1>1 DEF ActivityInv, Records, Recording, Numbered, Serving, AuditedOrReported, SavedAnswerKept
<1>5. Paced'
  BY <1>1 DEF ActivityInv, Paced, Attempted, AttemptsPaced, Instant
<1> QED
  BY <1>3, <1>4, <1>5 DEF ActivityInv

\* Initially nothing is asked, recorded or reserved.
LEMMA ActivityInitially == ActivityInit => ActivityInv
<1> SUFFICES ASSUME ActivityInit PROVE ActivityInv
  OBVIOUS
<1>1. /\ pc = [s \in Session |-> "idle"] /\ job = [s \in Session |-> None]
      /\ clock = 0 /\ asked = 0 /\ reserved = [k \in AlertKey |-> None] /\ restarts = 0
      /\ saved = {} /\ audits = {} /\ reports = {} /\ answers = {}
      /\ attempts = {} /\ givenBack = [k \in AlertKey |-> 0] /\ notified = {}
  BY DEF ActivityInit, BackendInit, NoActivity
<1>2. 0 \in Instant /\ 0 \in 0..MaxRestarts
  BY HorizonAssumption, AlertAssumption DEF Instant
<1>3. ActivityShape
  BY <1>1, <1>2 DEF ActivityShape, ActivityTypeOK, Serving
<1>4. Records
  BY <1>1 DEF Records, Recording, Numbered, Serving, AuditedOrReported, SavedAnswerKept
<1>5. Paced
  BY <1>1 DEF Paced, Attempted, AttemptsPaced
<1> QED
  BY <1>3, <1>4, <1>5 DEF ActivityInv

\* The strengthened invariant is inductive.
LEMMA ActivityStepKeeps == ActivityInv /\ [ActivityNext]_activityVars => ActivityInv'
<1> SUFFICES ASSUME ActivityInv, [ActivityNext]_activityVars PROVE ActivityInv'
  OBVIOUS
<1>1. ASSUME NEW s \in Session, RequestStep(s) PROVE ActivityInv'
  <2>1. pc[s] \in {"alert", "deliver"} => job[s].key \in AlertKey
    BY DEF ActivityInv, Records, Recording
  <2>2. ActivityShape'
    BY <1>1, <2>1, TypedStep DEF ActivityInv
  <2>3. Records'
    BY <1>1, RecordsStep DEF ActivityInv
  <2>4. Paced'
    BY <1>1, PacedStep DEF ActivityInv
  <2> QED
    BY <2>2, <2>3, <2>4 DEF ActivityInv
<1>2. CASE UNCHANGED activityVars
  <2>1. UNCHANGED <<pc, job, clock, asked, reserved, restarts, saved, audits, reports, answers, attempts,
                    givenBack, notified>>
    BY <1>2 DEF activityVars, activityHistory, alertHistory
  <2>2. ActivityShape'
    BY <2>1 DEF ActivityInv, ActivityShape, ActivityTypeOK, Serving, ActivityTask, Instant
  <2>3. Records'
    BY <2>1 DEF ActivityInv, Records, Recording, Numbered, Serving, AuditedOrReported, SavedAnswerKept
  <2>4. Paced'
    BY <2>1 DEF ActivityInv, Paced, Attempted, AttemptsPaced, Instant
  <2> QED
    BY <2>2, <2>3, <2>4 DEF ActivityInv
<1> QED
  BY <1>1, <1>2, BeginStep, RestartStep, TickStep DEF ActivityNext, RequestStep

\* The strengthened invariant holds in every reachable state.
LEMMA ActivityInvariant == ActivitySpec => []ActivityInv
BY ActivityInitially, ActivityStepKeeps, PTL DEF ActivitySpec

\* The requests, records, reservations and alerts have their types.
THEOREM ActivityTyped == ActivitySpec => []ActivityTypeOK
<1>1. ActivityInv => ActivityTypeOK
  BY DEF ActivityInv, ActivityShape
<1> QED
  BY <1>1, ActivityInvariant, PTL

\* A saved change that is answered as saved is in the history, or the failure to record it
\* was reported.
THEOREM ChangesAreRecorded == ActivitySpec => []AuditedOrReported
<1>1. ActivityInv => AuditedOrReported
  BY DEF ActivityInv, Records
<1> QED
  BY <1>1, ActivityInvariant, PTL

\* Neither the history nor an alert turns a saved change into a failure.
THEOREM AnswersAreKept == ActivitySpec => []SavedAnswerKept
<1>1. ActivityInv => SavedAnswerKept
  BY DEF ActivityInv, Records
<1> QED
  BY <1>1, ActivityInvariant, PTL

\* One process attempts the deliveries of a key a cooldown apart unless one of them is given up,
\* for every cooldown and however long deliveries take: a webhook that answers in time gets one
\* attempt a cooldown, however many requests fail.
THEOREM AttemptsArePaced == ActivitySpec => []AttemptsPaced
<1>1. ActivityInv => AttemptsPaced
  BY DEF ActivityInv, Paced
<1> QED
  BY <1>1, ActivityInvariant, PTL
-----------------------------------------------------------------------------
\* What the webhook receives.

\* Deliveries take at most D.
DeliveriesWithin(D) == \A s \in Session : pc[s] = "deliver" => clock <= job[s].at + D

\* No delivery is given up whose alert the webhook has received.
FailuresUnreceived == \A s \in Session : DeliveryFails(s) => ~Received(s)

\* The webhook receives the alerts of a key that one process sends a cooldown apart, up to D.
ReceivedApart(D) ==
  \A x, y \in notified :
    x # y /\ x.key = y.key /\ x.run = y.run =>
      x.at + AlertCooldown <= y.at + D \/ y.at + AlertCooldown <= x.at + D

\* A delivery still has its reservation, and earlier alerts of its key were received long before.
DeliveringAlert(s, D) ==
  pc[s] = "deliver" =>
    /\ reserved[job[s].key] = job[s].at /\ job[s].at <= clock
    /\ \A n \in notified :
         n.run = restarts /\ n.key = job[s].key =>
           n.id = job[s].id \/ n.at + AlertCooldown <= job[s].at + D

OneDelivery ==
  \A r, s \in Session :
    r # s /\ pc[r] = "deliver" /\ pc[s] = "deliver" => job[r].key # job[s].key

\* An alert this process had received long ago is covered by the reservation of its key.
Covered(n, D) ==
  \/ n.at + AlertCooldown <= clock + D
  \/ reserved[n.key] \in Instant /\ n.at <= reserved[n.key] + D

Delivered(D) == \A n \in notified : n.run <= restarts /\ (n.run = restarts => Covered(n, D))

Spaced(D) == (\A s \in Session : DeliveringAlert(s, D)) /\ OneDelivery /\ Delivered(D) /\ ReceivedApart(D)

\* Every step of a request keeps the distances when deliveries end within the cooldown and what
\* was received is not given up: a reservation is free only while nobody delivers.
LEMMA SpacedStep ==
  ASSUME NEW D \in Nat, D < AlertCooldown, ActivityInv, Spaced(D), DeliveriesWithin(D),
         FailuresUnreceived, NEW s \in Session, RequestStep(s)
  PROVE  Spaced(D)'
<1> DEFINE k == job[s].key
<1>1. /\ pc \in [Session -> ActivityPc] /\ job \in [Session -> ActivityTask \cup {None}]
      /\ \A r \in Session \ {s} : pc'[r] = pc[r] /\ job'[r] = job[r]
      /\ job[s] \in ActivityTask
      /\ clock' = clock /\ restarts' = restarts
  BY Unmoved, ActivityMoves DEF ActivityInv, ActivityShape, ActivityTypeOK, ActivityPc
<1>2. /\ Instant \subseteq Int /\ None \notin Instant /\ AlertCooldown \in Int /\ D \in Int
      /\ clock \in Instant /\ clock \in Int /\ reserved \in [AlertKey -> Instant \cup {None}]
      /\ \A n \in notified : n.at \in Int /\ n.key \in AlertKey
      /\ restarts \in Int
  BY HorizonAssumption, AlertAssumption DEF ActivityInv, ActivityShape, ActivityTypeOK, Instant
<1>3. \A r \in Session : pc[r] \in {"alert", "deliver"} =>
        job[r].key \in AlertKey /\ job[r].at \in Instant /\ job[r].at \in Int
  <2> SUFFICES ASSUME NEW r \in Session, pc[r] \in {"alert", "deliver"}
               PROVE  job[r].key \in AlertKey /\ job[r].at \in Instant
    BY <1>2
  <2>1. job[r] \in ActivityTask
    BY Working DEF ActivityInv
  <2> QED
    BY <2>1 DEF ActivityInv, Records, Recording, ActivityTask
<1>4. CASE ReserveDelivery(s)
  <2>1. /\ pc[s] = "alert" /\ pc'[s] = "deliver" /\ k \in AlertKey /\ ~Reserved(k)
        /\ reserved' = [reserved EXCEPT ![k] = clock] /\ notified' = notified
        /\ job' = [job EXCEPT ![s].at = clock]
    BY <1>1, <1>3, <1>4 DEF ReserveDelivery, Goto
  <2>2. job'[s].key = k /\ job'[s].at = clock
    BY <1>1, <2>1 DEF ActivityTask
  <2>3. reserved'[k] = clock /\ \A q \in AlertKey \ {k} : reserved'[q] = reserved[q]
    BY <1>2, <2>1
  <2>4. reserved[k] \in Instant => reserved[k] + AlertCooldown <= clock
    BY <2>1, FreeKey DEF ActivityInv
  <2> HIDE DEF k
  <2>5. \A r \in Session \ {s} : pc[r] = "deliver" => job[r].key # k
    <3> SUFFICES ASSUME NEW r \in Session \ {s}, pc[r] = "deliver", job[r].key = k PROVE FALSE
      OBVIOUS
    <3>1. reserved[k] = job[r].at /\ job[r].at \in Instant /\ clock <= job[r].at + D
      BY <1>3 DEF Spaced, DeliveringAlert, DeliveriesWithin
    <3>2. /\ job[r].at \in Int /\ clock \in Int /\ D \in Int /\ AlertCooldown \in Int
          /\ job[r].at + AlertCooldown <= clock
      BY <1>2, <2>4, <3>1
    <3> QED
      BY <3>1, <3>2
  <2>6. \A n \in notified : n.run = restarts /\ n.key = k => n.at + AlertCooldown <= clock + D
    <3> SUFFICES ASSUME NEW n \in notified, n.run = restarts, n.key = k,
                        reserved[k] \in Instant, n.at <= reserved[k] + D
                 PROVE  n.at + AlertCooldown <= clock + D
      BY DEF Spaced, Delivered, Covered
    <3>1. /\ n.at \in Int /\ reserved[k] \in Int /\ clock \in Int /\ AlertCooldown \in Int
          /\ reserved[k] + AlertCooldown <= clock
      BY <1>2, <2>4
    <3> QED
      BY <1>2, <3>1
  <2>7. ASSUME NEW r \in Session PROVE DeliveringAlert(r, D)'
    <3>1. CASE r = s
      BY <1>1, <1>2, <2>1, <2>2, <2>3, <2>6, <3>1 DEF DeliveringAlert
    <3>2. CASE r # s
      BY <1>1, <1>3, <2>1, <2>3, <2>5, <3>2 DEF Spaced, DeliveringAlert
    <3> QED
      BY <3>1, <3>2
  <2>8. OneDelivery'
    BY <1>1, <2>2, <2>5 DEF Spaced, OneDelivery
  <2>9. Delivered(D)'
    BY <1>1, <1>2, <2>1, <2>3, <2>6 DEF Spaced, Delivered, Covered, Instant
  <2>10. ReceivedApart(D)'
    BY <2>1 DEF Spaced, ReceivedApart
  <2> QED
    BY <2>7, <2>8, <2>9, <2>10 DEF Spaced
<1>5. CASE DeliveryFails(s)
  <2>1. /\ pc[s] = "deliver" /\ k \in AlertKey /\ ~Received(s) /\ notified' = notified
        /\ pc' = [pc EXCEPT ![s] = AfterAlert(s)] /\ reserved' = [reserved EXCEPT ![k] = None]
    BY <1>3, <1>5 DEF DeliveryFails, Goto, FailuresUnreceived
  <2>2. pc'[s] # "deliver"
    BY <1>1, <2>1 DEF AfterAlert
  <2>3. \A r \in Session \ {s} : pc[r] = "deliver" => job[r].key # k
    BY <2>1 DEF Spaced, OneDelivery
  <2>4. \A q \in AlertKey \ {k} : reserved'[q] = reserved[q]
    BY <1>2, <2>1
  <2>5. \A n \in notified : n.run = restarts /\ n.key = k => n.at + AlertCooldown <= clock + D
    <3> SUFFICES ASSUME NEW n \in notified, n.run = restarts, n.key = k
                 PROVE  n.at + AlertCooldown <= clock + D
      OBVIOUS
    <3>1. n.at + AlertCooldown <= job[s].at + D /\ job[s].at <= clock /\ job[s].at \in Int
      BY <1>3, <2>1 DEF Spaced, DeliveringAlert, Received
    <3> QED
      BY <1>2, <3>1
  <2> HIDE DEF k
  <2>6. ASSUME NEW r \in Session PROVE DeliveringAlert(r, D)'
    BY <1>1, <1>3, <2>1, <2>2, <2>3, <2>4 DEF Spaced, DeliveringAlert
  <2>7. OneDelivery'
    BY <1>1, <2>2 DEF Spaced, OneDelivery
  <2>8. Delivered(D)'
    BY <1>1, <1>2, <2>1, <2>4, <2>5 DEF Spaced, Delivered, Covered, Instant
  <2>9. ReceivedApart(D)'
    BY <2>1 DEF Spaced, ReceivedApart
  <2> QED
    BY <2>6, <2>7, <2>8, <2>9 DEF Spaced
<1>6. CASE WebhookReceives(s)
  <2> DEFINE new == [id |-> job[s].id, key |-> k, at |-> clock, run |-> restarts]
  <2>1. /\ pc[s] = "deliver" /\ ~Received(s) /\ notified' = notified \cup {new}
        /\ UNCHANGED <<pc, job, reserved>>
    BY <1>6 DEF WebhookReceives
  <2>2. new.id = job[s].id /\ new.key = k /\ new.at = clock /\ new.run = restarts
    OBVIOUS
  <2>3. /\ reserved[k] = job[s].at /\ job[s].at \in Instant /\ job[s].at \in Int
        /\ clock <= job[s].at + D /\ job[s].at <= clock
    BY <1>3, <2>1 DEF Spaced, DeliveringAlert, DeliveriesWithin
  <2>4. \A n \in notified : n.run = restarts /\ n.key = k => n.at + AlertCooldown <= clock + D
    <3> SUFFICES ASSUME NEW n \in notified, n.run = restarts, n.key = k
                 PROVE  n.at + AlertCooldown <= clock + D
      OBVIOUS
    <3>1. n.at + AlertCooldown <= job[s].at + D
      BY <2>1 DEF Spaced, DeliveringAlert, Received
    <3> QED
      BY <1>2, <2>3, <3>1
  <2>5. \A r \in Session \ {s} : pc[r] = "deliver" => job[r].key # k
    BY <2>1 DEF Spaced, OneDelivery
  <2> HIDE DEF new, k
  <2>6. ASSUME NEW r \in Session PROVE DeliveringAlert(r, D)'
    <3>1. CASE r = s
      <4>1. \A n \in notified' : n \in notified \/ n.id = job[r].id
        BY <2>1, <2>2, <3>1
      <4>2. DeliveringAlert(r, D)
        BY DEF Spaced
      <4> QED
        BY <1>1, <2>1, <4>1, <4>2 DEF DeliveringAlert
    <3>2. CASE r # s
      <4>1. \A n \in notified' : n \in notified \/ (pc[r] = "deliver" => n.key # job[r].key)
        BY <2>1, <2>2, <2>5, <3>2
      <4>2. DeliveringAlert(r, D)
        BY DEF Spaced
      <4> QED
        BY <1>1, <2>1, <4>1, <4>2 DEF DeliveringAlert
    <3> QED
      BY <3>1, <3>2
  <2>7. OneDelivery'
    BY <2>1 DEF Spaced, OneDelivery
  <2>8. Delivered(D)'
    <3> SUFFICES ASSUME NEW n \in notified'
                 PROVE  n.run <= restarts /\ (n.run = restarts => Covered(n, D))
      BY <1>1, <2>1 DEF Delivered, Covered, Instant
    <3>1. CASE n \in notified
      BY <3>1 DEF Spaced, Delivered
    <3>2. CASE n = new
      BY <1>2, <2>2, <2>3, <3>2 DEF Covered
    <3> QED
      BY <2>1, <3>1, <3>2
  <2>9. ReceivedApart(D)'
    <3> SUFFICES ASSUME NEW x \in notified', NEW y \in notified', x # y, x.key = y.key, x.run = y.run
                 PROVE  x.at + AlertCooldown <= y.at + D \/ y.at + AlertCooldown <= x.at + D
      BY DEF ReceivedApart
    <3>1. CASE x \in notified /\ y \in notified
      BY <3>1 DEF Spaced, ReceivedApart
    <3>2. CASE x = new /\ y \in notified
      BY <2>2, <2>4, <3>2
    <3>3. CASE x \in notified /\ y = new
      BY <2>2, <2>4, <3>3
    <3> QED
      BY <2>1, <3>1, <3>2, <3>3
  <2> QED
    BY <2>6, <2>7, <2>8, <2>9 DEF Spaced
<1>7. CASE UNCHANGED <<reserved, attempts, givenBack, notified>> /\ pc'[s] # "deliver"
  <2>1. \A r \in Session : DeliveringAlert(r, D)'
    BY <1>1, <1>7 DEF Spaced, DeliveringAlert
  <2>2. OneDelivery'
    BY <1>1, <1>7 DEF Spaced, OneDelivery
  <2>3. Delivered(D)' /\ ReceivedApart(D)'
    BY <1>1, <1>7 DEF Spaced, Delivered, Covered, ReceivedApart, Instant
  <2> QED
    BY <2>1, <2>2, <2>3 DEF Spaced
<1> QED
  BY <1>4, <1>5, <1>6, <1>7, AlertCases DEF ActivityInv

\* So do the steps around the requests.
LEMMA SpacedAround ==
  ASSUME NEW D \in Nat, D < AlertCooldown, ActivityInv, Spaced(D),
         \/ \E s \in Session, kind \in RequestKind : BeginActivity(s, kind)
         \/ Restart \/ ActivityTick \/ UNCHANGED activityVars
  PROVE  Spaced(D)'
<1>1. /\ clock \in Int /\ restarts \in Int /\ AlertCooldown \in Int /\ D \in Int
      /\ \A n \in notified : n.at \in Int /\ n.run \in Int
      /\ pc \in [Session -> ActivityPc] /\ job \in [Session -> ActivityTask \cup {None}]
  BY HorizonAssumption, AlertAssumption
  DEF ActivityInv, ActivityShape, ActivityTypeOK, Instant, ActivityPc
<1>2. ASSUME NEW s \in Session, NEW kind \in RequestKind, BeginActivity(s, kind)
      PROVE  Spaced(D)'
  <2>1. /\ \A r \in Session \ {s} : pc'[r] = pc[r] /\ job'[r] = job[r]
        /\ pc'[s] # "deliver" /\ UNCHANGED <<clock, reserved, restarts, notified>>
    BY <1>1, <1>2 DEF BeginActivity, Begin, alertHistory
  <2> QED
    BY <2>1 DEF Spaced, DeliveringAlert, OneDelivery, Delivered, Covered, ReceivedApart, Instant
<1>3. CASE Restart
  <2>1. /\ restarts' = restarts + 1 /\ notified' = notified /\ \A s \in Session : pc'[s] = "idle"
    BY <1>3 DEF Restart, alertHistory
  <2>2. Delivered(D)'
    BY <1>1, <2>1 DEF Spaced, Delivered
  <2> QED
    BY <2>1, <2>2 DEF Spaced, DeliveringAlert, OneDelivery, ReceivedApart
<1>4. CASE ActivityTick
  <2>1. clock' = clock + 1 /\ UNCHANGED <<pc, job, reserved, restarts, notified>>
    BY <1>4 DEF ActivityTick, alertHistory
  <2>2. ASSUME NEW s \in Session PROVE DeliveringAlert(s, D)'
    <3>1. pc[s] = "deliver" => job[s].at \in Int
      BY Working, HorizonAssumption DEF ActivityInv, ActivityTask, Instant
    <3>2. pc[s] = "deliver" => job[s].at <= clock'
      BY <1>1, <2>1, <3>1 DEF Spaced, DeliveringAlert
    <3> QED
      BY <2>1, <3>2 DEF Spaced, DeliveringAlert
  <2>3. Delivered(D)'
    <3>1. ASSUME NEW n \in notified, Covered(n, D) PROVE Covered(n, D)'
      BY <1>1, <2>1, <3>1 DEF Covered, Instant
    <3> QED
      BY <2>1, <3>1 DEF Spaced, Delivered
  <2>4. OneDelivery' /\ ReceivedApart(D)'
    BY <2>1 DEF Spaced, OneDelivery, ReceivedApart
  <2> QED
    BY <2>2, <2>3, <2>4 DEF Spaced
<1>5. CASE UNCHANGED activityVars
  BY <1>5 DEF activityVars, alertHistory, Spaced, DeliveringAlert, OneDelivery, Delivered, Covered,
     ReceivedApart, Instant
<1> QED
  BY <1>2, <1>3, <1>4, <1>5

\* When no delivery takes longer than D, short of the cooldown, and none is given up that was
\* received, the webhook receives the alerts of a key from one process a cooldown apart, up to D.
\* The code ensures neither condition: the timeout and the cooldown are configured apart, and a
\* read timeout after the webhook accepted an alert gives its key back.
THEOREM AlertsReceivedApart ==
  ASSUME NEW D \in Nat, D < AlertCooldown
  PROVE  ActivitySpec /\ []DeliveriesWithin(D) /\ [][FailuresUnreceived]_activityVars
           => []ReceivedApart(D)
<1>1. ActivityInit => Spaced(D)
  BY DEF ActivityInit, BackendInit, NoActivity, Spaced, DeliveringAlert, OneDelivery, Delivered, ReceivedApart
<1>2. ActivityInv /\ Spaced(D) /\ DeliveriesWithin(D) /\ [FailuresUnreceived]_activityVars
        /\ [ActivityNext]_activityVars => Spaced(D)'
  BY SpacedStep, SpacedAround DEF ActivityNext, RequestStep
<1>3. Spaced(D) => ReceivedApart(D)
  BY DEF Spaced
<1> QED
  BY <1>1, <1>2, <1>3, ActivityInvariant, PTL DEF ActivitySpec
-----------------------------------------------------------------------------
\* In an area its component keeps its invariant; the tables of the others rest as they began.
RecoveryPart == IF area = "recovery" THEN RecoveryInv ELSE NoRecovery
SignInPart ==
  IF area \in SignIn THEN SignInInv /\ (area = "orderly" => VersionsApart /\ TokenInv) ELSE NoSignIns
AccountsPart ==
  IF area \in Management THEN AccountsInv /\ (area = "e-mails apart" => EmailsApart /\ MailInv)
  ELSE NoAccounts
CustomersPart == IF area = "customers" THEN CustomersInv ELSE \E offer \in Program : NoCustomers(offer)
ExpensesPart == IF area = "expenses" THEN ExpensesInv ELSE NoExpenses
ActivityPart == IF area \in Alerting THEN ActivityInv ELSE NoActivity
ReportPart == IF area = "report" THEN ReportInv ELSE NothingToReport

OfficeInv ==
  /\ area \in Areas
  /\ RecoveryPart /\ SignInPart /\ AccountsPart /\ CustomersPart /\ ExpensesPart /\ ActivityPart
  /\ ReportPart

\* What a step of the office is to each component: a step of its own, or none.
OfficeStep ==
  /\ UNCHANGED area
  /\ IF area = "recovery" THEN [RecoveryNext]_recoveryVars ELSE UNCHANGED recoveryTables
  /\ IF area \in SignIn THEN [CredentialsNext]_credentialVars ELSE UNCHANGED credentialTables
  /\ IF area \in Management THEN [AccountsNext]_accountVars ELSE UNCHANGED accountTables
  /\ IF area = "customers" THEN [CustomersNext]_customerVars ELSE UNCHANGED customerTables
  /\ IF area = "expenses" THEN [ExpensesNext]_expenseVars ELSE UNCHANGED expenseTables
  /\ IF area \in Alerting THEN [ActivityNext]_activityVars ELSE UNCHANGED activityTables
  /\ IF area = "report" THEN [ReportNext]_reportVars ELSE UNCHANGED reportVars

LEMMA OneComponent ==
  ASSUME [OfficeNext]_officeVars
  PROVE  OfficeStep
<1> USE DEF OfficeStep, SignIn, Management, Alerting
<1>1. CASE RecoveryOnly
  BY <1>1 DEF RecoveryOnly, Stay
<1>2. CASE CredentialsOnly
  <2>1. AccountsIn(area) \subseteq Account
    BY AccountAssumption DEF AccountsIn
  <2>2. CredentialsNext
    BY <1>2, <2>1 DEF CredentialsOnly, CredentialsArea, CredentialsNext
  <2> QED
    BY <1>2, <2>2 DEF CredentialsOnly, Stay
<1>3. CASE AccountsOnly
  BY <1>3 DEF AccountsOnly, AccountsArea, Stay
<1>4. CASE CustomersOnly
  BY <1>4 DEF CustomersOnly, Stay
<1>5. CASE ExpensesOnly
  BY <1>5 DEF ExpensesOnly, Stay
<1>6. CASE ActivityOnly
  BY <1>6 DEF ActivityOnly, ActivityArea, Stay
<1>7. CASE ReportOnly
  BY <1>7 DEF ReportOnly
<1>8. CASE UNCHANGED officeVars
  BY <1>8 DEF officeVars, backend, recoveryTables, recoveryVars, history, credentialTables, credentialVars,
     accountTables, accountVars, customerTables, customerVars, expenseTables, expenseVars,
     activityTables, activityVars
<1> QED
  BY <1>1, <1>2, <1>3, <1>4, <1>5, <1>6, <1>7, <1>8 DEF OfficeNext

LEMMA RecoveryPartKept ==
  ASSUME RecoveryPart, OfficeStep
  PROVE  RecoveryPart'
<1>1. CASE area = "recovery"
  BY <1>1, RecoveryStepKeeps DEF RecoveryPart, OfficeStep
<1>2. CASE area # "recovery"
  BY <1>2 DEF RecoveryPart, OfficeStep, recoveryTables, history, NoRecovery
<1> QED
  BY <1>1, <1>2

\* The orderly area keeps the versions of an account apart.
LEMMA VersionsStayApart ==
  ASSUME [OfficeNext]_officeVars, area = "orderly", VersionsApart
  PROVE  VersionsApart'
<1>1. CASE CredentialsOnly
  BY <1>1 DEF CredentialsOnly, CredentialsArea
<1>2. CASE UNCHANGED officeVars
  BY <1>2 DEF officeVars, backend, VersionsApart, Renews, Deciding
<1> QED
  BY <1>1, <1>2 DEF OfficeNext, RecoveryOnly, AccountsOnly, CustomersOnly, ExpensesOnly, ActivityOnly,
     ReportOnly, Management, Alerting

LEMMA SignInPartKept ==
  ASSUME SignInPart, OfficeStep, [OfficeNext]_officeVars
  PROVE  SignInPart'
<1>1. CASE area \in SignIn
  <2>1. SignInInv /\ [CredentialsNext]_credentialVars /\ area' = area
    BY <1>1 DEF SignInPart, OfficeStep
  <2>2. SignInInv'
    BY <2>1, SignInStepKeeps
  <2>3. area = "orderly" => VersionsApart' /\ TokenInv'
    BY <1>1, <2>1, TokenStep, VersionsStayApart DEF SignInPart
  <2> QED
    BY <1>1, <2>1, <2>2, <2>3 DEF SignInPart
<1>2. CASE area \notin SignIn
  BY <1>2 DEF SignInPart, OfficeStep, credentialTables, signInHistory, NoSignIns
<1> QED
  BY <1>1, <1>2

\* The last area keeps the requests for the e-mail of one account apart.
LEMMA EmailsStayApart ==
  ASSUME [OfficeNext]_officeVars, area = "e-mails apart", EmailsApart
  PROVE  EmailsApart'
<1>1. CASE AccountsOnly
  BY <1>1 DEF AccountsOnly, AccountsArea
<1>2. CASE UNCHANGED officeVars
  BY <1>2 DEF officeVars, backend, EmailsApart, Serving
<1> QED
  BY <1>1, <1>2 DEF OfficeNext, RecoveryOnly, CredentialsOnly, CustomersOnly, ExpensesOnly, ActivityOnly,
     ReportOnly, SignIn, Alerting

LEMMA AccountsPartKept ==
  ASSUME AccountsPart, OfficeStep, [OfficeNext]_officeVars
  PROVE  AccountsPart'
<1>1. CASE area \in Management
  <2>1. AccountsInv /\ [AccountsNext]_accountVars /\ area' = area
    BY <1>1 DEF AccountsPart, OfficeStep
  <2>2. AccountsInv'
    BY <2>1, AccountStepKeeps
  <2>3. area = "e-mails apart" => EmailsApart' /\ MailInv'
    BY <1>1, <2>1, MailStepKeeps, EmailsStayApart DEF AccountsPart
  <2> QED
    BY <1>1, <2>1, <2>2, <2>3 DEF AccountsPart
<1>2. CASE area \notin Management
  BY <1>2 DEF AccountsPart, OfficeStep, accountTables, accountHistory, NoAccounts
<1> QED
  BY <1>1, <1>2

LEMMA CustomersPartKept ==
  ASSUME CustomersPart, OfficeStep
  PROVE  CustomersPart'
<1>1. CASE area = "customers"
  BY <1>1, CustomersStepKeeps DEF CustomersPart, OfficeStep
<1>2. CASE area # "customers"
  BY <1>2 DEF CustomersPart, OfficeStep, customerTables, loyaltyHistory, NoCustomers
<1> QED
  BY <1>1, <1>2

LEMMA ExpensesPartKept ==
  ASSUME ExpensesPart, OfficeStep
  PROVE  ExpensesPart'
<1>1. CASE area = "expenses"
  BY <1>1, LedgerStepKeeps DEF ExpensesPart, OfficeStep
<1>2. CASE area # "expenses"
  BY <1>2 DEF ExpensesPart, OfficeStep, expenseTables, NoExpenses
<1> QED
  BY <1>1, <1>2

LEMMA ActivityPartKept ==
  ASSUME ActivityPart, OfficeStep
  PROVE  ActivityPart'
<1>1. CASE area \in Alerting
  BY <1>1, ActivityStepKeeps DEF ActivityPart, OfficeStep
<1>2. CASE area \notin Alerting
  BY <1>2 DEF ActivityPart, OfficeStep, activityTables, activityHistory, alertHistory, NoActivity
<1> QED
  BY <1>1, <1>2

LEMMA ReportPartKept ==
  ASSUME ReportPart, OfficeStep
  PROVE  ReportPart'
<1>1. CASE area = "report"
  BY <1>1, ReportStepKeeps DEF ReportPart, OfficeStep
<1>2. CASE area # "report"
  BY <1>2 DEF ReportPart, OfficeStep, reportVars, NothingToReport
<1> QED
  BY <1>1, <1>2

LEMMA OfficeBegins ==
  ASSUME OfficeInit
  PROVE  OfficeInv
<1> USE DEF OfficeInit, RowsIn, SignIn, Management, Alerting
<1>1. RecoveryPart
  BY Starts DEF RecoveryPart, RecoveryInit
<1>2. SignInPart
  <2>1. area \in SignIn => CredentialsInit
    BY DEF CredentialsInit
  <2>2. CredentialsInit => SignInInv /\ VersionsApart /\ TokenInv
    BY SignInInitially DEF CredentialsInit, BackendInit, NoSignIns, VersionsApart, Renews, Deciding,
       TokenInv, Current, UpToDate
  <2> QED
    BY <2>1, <2>2 DEF SignInPart
<1>3. AccountsPart
  <2>1. area \in Management => AccountsInit
    BY DEF AccountsInit
  <2>2. AccountsInit => AccountsInv /\ EmailsApart /\ MailInv
    BY AccountInitInv DEF AccountsInit, BackendInit, NoAccounts, EmailsApart, Serving, MailInv, EmailProven,
       PendingSent, CodesNumbered, Intact, FreshUser
  <2> QED
    BY <2>1, <2>2 DEF AccountsPart
<1>4. CustomersPart
  <2>1. PICK target \in Target : TRUE
    BY CustomerAssumption
  <2>2. [enabled |-> TRUE, target |-> target] \in Program
    BY DEF Program
  <2>3. (CHOOSE offer \in Program : TRUE) \in Program
    BY <2>2
  <2> QED
    BY <2>3, CustomersInitially DEF CustomersPart, CustomersInit
<1>5. ExpensesPart
  BY LedgerInitInv DEF ExpensesPart, ExpensesInit
<1>6. ActivityPart
  BY ActivityInitially DEF ActivityPart, ActivityInit
<1>7. ReportPart
  BY ReportBegins DEF ReportPart
<1> QED
  BY <1>1, <1>2, <1>3, <1>4, <1>5, <1>6, <1>7 DEF OfficeInv

LEMMA OfficeInvariant == OfficeSpec => []OfficeInv
<1>1. OfficeInit => OfficeInv
  BY OfficeBegins
<1>2. ASSUME OfficeInv, [OfficeNext]_officeVars
      PROVE  OfficeInv'
  <2>1. OfficeStep
    BY <1>2, OneComponent
  <2> QED
    BY <1>2, <2>1, RecoveryPartKept, SignInPartKept, AccountsPartKept, CustomersPartKept, ExpensesPartKept,
       ActivityPartKept, ReportPartKept DEF OfficeInv, OfficeStep
<1> QED
  BY <1>1, <1>2, PTL DEF OfficeSpec

-----------------------------------------------------------------------------
\* Time passes by single instants, in every area.
LEMMA RecoveryClock ==
  ASSUME [RecoveryNext]_recoveryVars
  PROVE  clock' \in {clock, clock + 1}
<1>1. ASSUME NEW s, NEW p,
             \/ \E a \in Address : AskCode(s, p, a) \/ \E c \in 0..Len(sent) : AskBookings(s, p, a, c)
             \/ RefusePhone(s, p) \/ Draw(s, p)
      PROVE  clock' = clock
  BY <1>1 DEF AskCode, AskBookings, Ask, RefusePhone, Draw
<1>2. ASSUME NEW s, NEW p, RejectUnusable(s, p) \/ RejectWrong(s, p) \/ AcceptCode(s, p)
      PROVE  clock' = clock
  BY <1>2 DEF RejectUnusable, RejectWrong, AcceptCode
<1>3. ASSUME NEW s, NEW x, PassThrottle(s, x) \/ RefuseThrottle(s, x) \/ PurgeRow(s, x)
      PROVE  clock' = clock
  BY <1>3 DEF PassThrottle, RefuseThrottle, PurgeRow
<1>4. ASSUME NEW s, PurgeDone(s) \/ InsertMissing(s) \/ RowGone(s)
      PROVE  clock' = clock
  BY <1>4 DEF PurgeDone, InsertMissing, RowGone
<1>5. ASSUME NEW s, Deliver(s) \/ FailDelivery(s) \/ Withdraw(s) \/ AbortRecovery(s)
      PROVE  clock' = clock
  BY <1>5 DEF Deliver, FailDelivery, Withdraw, AbortRecovery
<1> QED
  BY <1>1, <1>2, <1>3, <1>4, <1>5 DEF RecoveryNext, RecoveryTick, recoveryVars

LEMMA SignInClock ==
  ASSUME [CredentialsNext]_credentialVars
  PROVE  clock' \in {clock, clock + 1}
<1>1. ASSUME NEW s, NEW a, BeginLogin(s, a) \/ BeginReset(s, a) \/ BeginManagement(s, a)
      PROVE  clock' = clock
  BY <1>1 DEF BeginLogin, BeginReset, BeginManagement, BeginOwn, BeginManage, BeginDelete, BeginProfile,
     BeginStale, BeginCall
<1>2. ASSUME NEW s,
             LockAccount(s) \/ RefuseUnknown(s) \/ AbortSignIn(s) \/ RefuseLogin(s) \/ RejectPassword(s)
      PROVE  clock' = clock
  BY <1>2 DEF LockAccount, RefuseUnknown, AbortSignIn, RefuseLogin, RejectPassword, Refuse, Store
<1>3. ASSUME NEW s, AcceptPassword(s) \/ DrawReset(s) \/ RefuseDraw(s) \/ RefuseReset(s) \/ RejectReset(s)
      PROVE  clock' = clock
  BY <1>3 DEF AcceptPassword, DrawReset, RefuseDraw, RefuseReset, RejectReset, Refuse, Store
<1>4. ASSUME NEW s,
             AcceptReset(s) \/ FlushProfile(s) \/ WriteStale(s) \/ WriteProfileAlone(s) \/ DeleteAccount(s)
      PROVE  clock' = clock
  BY <1>4 DEF AcceptReset, FlushProfile, WriteStale, WriteProfileAlone, DeleteAccount, Refuse, Store
<1> QED
  BY <1>1, <1>2, <1>3, <1>4 DEF CredentialsNext, CredentialsStep, CredentialsTick, credentialVars

LEMMA AccountsClock ==
  ASSUME [AccountsNext]_accountVars
  PROVE  clock' \in {clock, clock + 1}
<1>1. ASSUME NEW s, BeginAccount(s)
      PROVE  clock' = clock
  BY <1>1 DEF BeginAccount, BeginBootstrap, BeginCreateOwner, BeginCreateBarber, BeginUpdate, BeginDeleteUser,
     BeginEmail, BeginConfirm, Confirm, Manage, Present
<1>2. ASSUME NEW s, LockBusiness(s) \/ RefuseBootstrap(s) \/ CheckEmail(s) \/ RefuseEmail(s)
      PROVE  clock' = clock
  BY <1>2 DEF LockBusiness, RefuseBootstrap, CheckEmail, RefuseEmail, Refused
<1>3. ASSUME NEW s,
             InsertUser(s) \/ UpdateUser(s) \/ RefuseDuplicate(s) \/ DeleteUser(s) \/ AbortManagement(s)
      PROVE  clock' = clock
  BY <1>3 DEF InsertUser, UpdateUser, RefuseDuplicate, DeleteUser, AbortManagement, Refused
<1> QED
  BY <1>1, <1>2, <1>3 DEF AccountsNext, AccountsStep, AccountsTick, accountVars

LEMMA CustomersClock ==
  ASSUME [CustomersNext]_customerVars
  PROVE  clock' = clock
<1>1. ASSUME NEW s, NEW t,
             BeginRegister(s, t) \/ BeginBooking(s, t) \/ \E c \in Customer : BeginEdit(s, c, t)
      PROVE  clock' = clock
  BY <1>1 DEF BeginRegister, BeginBooking, BeginEdit, Serve
<1>2. ASSUME NEW s,
             \/ \E c \in Customer : BeginRedeem(s, c)
             \/ \E enabled \in BOOLEAN, target \in Target : BeginProgram(s, enabled, target)
             \/ CheckPhone(s) \/ RejectPhone(s) \/ InsertCustomer(s) \/ EditCustomer(s)
      PROVE  clock' = clock
  BY <1>2 DEF BeginRedeem, BeginProgram, Serve, CheckPhone, RejectPhone, InsertCustomer, EditCustomer, Reject
<1>3. ASSUME NEW s, FindCustomer(s) \/ FlushCustomer(s) \/ Appoint(s) \/ LockCustomer(s)
      PROVE  clock' = clock
  BY <1>3 DEF FindCustomer, FlushCustomer, Appoint, LockCustomer, Reject
<1>4. ASSUME NEW s, Redeem(s) \/ RejectRedeem(s) \/ UpdateProgram(s) \/ AbortCustomers(s)
      PROVE  clock' = clock
  BY <1>4 DEF Redeem, RejectRedeem, UpdateProgram, AbortCustomers, Reject
<1> QED
  BY <1>1, <1>2, <1>3, <1>4 DEF CustomersNext, BookVisit, CompleteVisit, customerVars

LEMMA ExpensesClock ==
  ASSUME [ExpensesNext]_expenseVars
  PROVE  clock' \in {clock, clock + 1}
<1>1. ASSUME NEW s, NEW m,
             \/ BeginGenerate(s, m)
             \/ \E l \in Label, d \in MonthDay, fixed \in BOOLEAN :
                  \/ BeginRecord(s, l, m, d, fixed)
                  \/ \E e \in Entry : BeginCorrect(s, e, l, m, d, fixed)
      PROVE  clock' = clock
  BY <1>1 DEF BeginGenerate, BeginRecord, BeginCorrect, BeginEntry, Post
<1>2. ASSUME NEW s, NEW e, BeginPaid(s, e) \/ BeginPending(s, e) \/ BeginRemove(s, e)
      PROVE  clock' = clock
  BY <1>2 DEF BeginPaid, BeginPending, BeginRemove, BeginEntry, Post
<1>3. ASSUME NEW s, RecordExpense(s) \/ WriteExpense(s) \/ RemoveExpense(s) \/ LockLedger(s)
      PROVE  clock' = clock
  BY <1>3 DEF RecordExpense, WriteExpense, RemoveExpense, LockLedger
<1>4. ASSUME NEW s, ReadSources(s) \/ ReadExisting(s) \/ Copy(s) \/ AbortLedger(s)
      PROVE  clock' = clock
  BY <1>4 DEF ReadSources, ReadExisting, Copy, AbortLedger
<1> QED
  BY <1>1, <1>2, <1>3, <1>4 DEF ExpensesNext, ExpensesTick, expenseVars

LEMMA ActivityClock ==
  ASSUME [ActivityNext]_activityVars
  PROVE  clock' \in {clock, clock + 1}
<1>1. ASSUME NEW s,
             \/ \E kind \in RequestKind : BeginActivity(s, kind)
             \/ HandleActivity(s) \/ HandlerRaises(s) \/ TestDelivery(s)
      PROVE  clock' = clock
  BY <1>1 DEF BeginActivity, HandleActivity, HandlerRaises, TestDelivery
<1>2. ASSUME NEW s, RecordActivity(s) \/ RecordFails(s) \/ Monitor(s) \/ ReserveDelivery(s) \/ SuppressDelivery(s)
      PROVE  clock' = clock
  BY <1>2 DEF RecordActivity, RecordFails, Monitor, ReserveDelivery, SuppressDelivery
<1>3. ASSUME NEW s,
             WebhookReceives(s) \/ DeliverAlert(s) \/ DeliveryFails(s) \/ DeliveryRaises(s) \/ Respond(s)
      PROVE  clock' = clock
  BY <1>3 DEF WebhookReceives, DeliverAlert, DeliveryFails, DeliveryRaises, Respond
<1> QED
  BY <1>1, <1>2, <1>3 DEF ActivityNext, Restart, ActivityTick, activityVars

LEMMA OfficeClock ==
  ASSUME OfficeStep, [OfficeNext]_officeVars
  PROVE  clock' \in {clock, clock + 1}
<1>1. CASE area = "recovery"
  BY <1>1, RecoveryClock DEF OfficeStep
<1>2. CASE area \in SignIn
  BY <1>2, SignInClock DEF OfficeStep
<1>3. CASE area \in Management
  BY <1>3, AccountsClock DEF OfficeStep
<1>4. CASE area = "customers"
  BY <1>4, CustomersClock DEF OfficeStep
<1>5. CASE area = "expenses"
  BY <1>5, ExpensesClock DEF OfficeStep
<1>6. CASE area \in Alerting
  BY <1>6, ActivityClock DEF OfficeStep
<1>7. CASE area = "report" \/ UNCHANGED officeVars
  BY <1>7 DEF OfficeNext, officeVars, backend, RecoveryOnly, CredentialsOnly, AccountsOnly, CustomersOnly, ExpensesOnly,
     ActivityOnly, ReportOnly, SignIn, Management, Alerting
<1> QED
  BY <1>1, <1>2, <1>3, <1>4, <1>5, <1>6, <1>7 DEF OfficeNext, RecoveryOnly, CredentialsOnly, AccountsOnly,
     CustomersOnly, ExpensesOnly, ActivityOnly, ReportOnly

\* To the codes of a component that rests, a step of the office is the passing of time.
LEMMA RestingChallenges ==
  ASSUME UNCHANGED <<table, sent, recovered>>, clock' = clock \/ clock' = clock + 1
  PROVE  [RecoveryCode!Next]_(RecoveryCode!codeVars)
BY DEF RecoveryCode!Next, RecoveryCode!Pass, RecoveryCode!codeVars, LiveCode

LEMMA RestingResets ==
  ASSUME UNCHANGED <<account, resets, redeemed>>, clock' = clock \/ clock' = clock + 1
  PROVE  [ResetCode!Next]_(ResetCode!codeVars)
BY DEF ResetCode!Next, ResetCode!Pass, ResetCode!codeVars, LiveReset
-----------------------------------------------------------------------------
\* In every area the tables, the locks, the requests and the histories have their types.
THEOREM OfficeTypes == OfficeSpec => []OfficeTypeOK
<1>1. OfficeInv => OfficeTypeOK
  <2>1. RecoveryPart => (area = "recovery" => RecoveryTypeOK)
    BY RecoveryTypesHold DEF RecoveryPart
  <2>2. SignInPart => (area \in SignIn => CredentialsTypeOK)
    BY DEF SignInPart, SignInInv, SignInTyped
  <2>3. AccountsPart => (area \in Management => AccountsTypeOK)
    BY DEF AccountsPart, AccountsInv, AccountsTyped
  <2>4. CustomersPart => (area = "customers" => CustomersTypeOK)
    BY DEF CustomersPart, CustomersInv, Tables
  <2>5. ExpensesPart => (area = "expenses" => ExpensesTypeOK)
    BY DEF ExpensesPart, ExpensesInv
  <2>6. ActivityPart => (area \in Alerting => ActivityTypeOK)
    BY DEF ActivityPart, ActivityInv, ActivityShape
  <2> QED
    BY <2>1, <2>2, <2>3, <2>4, <2>5, <2>6 DEF OfficeInv, OfficeTypeOK
<1> QED
  BY <1>1, OfficeInvariant, PTL

\* In the last area, where the requests for a new e-mail of one account do not overlap while
\* everything else does, an account takes only an e-mail that the confirmed code was sent to.
THEOREM OfficeEmails == OfficeSpec => []EmailProvenApart
<1>1. OfficeInv => EmailProvenApart
  BY DEF OfficeInv, AccountsPart, MailInv, EmailProvenApart, Management
<1> QED
  BY <1>1, OfficeInvariant, PTL

\* In the orderly area, where the versions of an account are written one after the other while
\* everything else overlaps, a token that was refused stays refused.
THEOREM OfficeTokens == OfficeSpec => OrderlyTokensStayRefused
<1>1. OfficeInv /\ [OfficeNext]_officeVars => [area = "orderly" => TokensStayRefused]_credentialVars
  <2> SUFFICES ASSUME OfficeInv, [OfficeNext]_officeVars, area = "orderly"
               PROVE  TokensStayRefused
    OBVIOUS
  <2>1. SignInInv /\ TokenInv /\ VersionsApart
    BY DEF OfficeInv, SignInPart, SignIn
  <2>2. [CredentialsNext]_credentialVars
    BY OneComponent DEF OfficeStep, SignIn
  <2> QED
    BY <2>1, <2>2, TokenStep
<1> QED
  BY <1>1, OfficeInvariant, PTL DEF OfficeSpec, OrderlyTokensStayRefused

\* Whatever area a behaviour is in, every promise of every component holds in it.
THEOREM OfficePromises ==
  OfficeSpec =>
    [](/\ DeliveredCodeLives /\ SendsCounted
       /\ GuessesBounded /\ OnePrimaryOwner
       /\ RewardsCovered /\ RedemptionsCounted /\ NoOrphanCustomers
       /\ CopiesUnique
       /\ AuditedOrReported /\ SavedAnswerKept /\ AttemptsPaced
       /\ ReportReconciles)
<1>1. OfficeInv => DeliveredCodeLives /\ SendsCounted
  <2>1. NoRecovery => DeliveredCodeLives /\ SendsCounted
    BY DEF NoRecovery, DeliveredCodeLives, SendsCounted, RecoveryRow
  <2> QED
    BY <2>1, DeliveredCodesHold, CountsHold DEF OfficeInv, RecoveryPart
<1>2. OfficeInv => GuessesBounded
  <2>1. NoSignIns => GuessesBounded
    BY DEF NoSignIns, GuessesBounded
  <2> QED
    BY <2>1, GuessesHold DEF OfficeInv, SignInPart
<1>3. OfficeInv => OnePrimaryOwner
  <2>1. NoAccounts => OnePrimaryOwner
    BY DEF NoAccounts, OnePrimaryOwner, Existing
  <2> QED
    BY <2>1, OwnerHolds DEF OfficeInv, AccountsPart
<1>4. OfficeInv => RewardsCovered /\ RedemptionsCounted /\ NoOrphanCustomers
  <2>1. ASSUME NEW offer \in Program, NoCustomers(offer)
        PROVE  RewardsCovered /\ RedemptionsCounted /\ NoOrphanCustomers
    <3>1. least \in Nat /\ \A c \in Customer : granted[c] = 0 /\ completed[c] = 0
      BY <2>1, CustomerAssumption DEF NoCustomers, Program
    <3> QED
      BY <2>1, <3>1 DEF NoCustomers, RewardsCovered, RedemptionsCounted, NoOrphanCustomers, Known
  <2>2. CustomersInv => RewardsCovered /\ RedemptionsCounted /\ NoOrphanCustomers
    BY DEF CustomersInv, Rewards
  <2> QED
    BY <2>1, <2>2 DEF OfficeInv, CustomersPart
<1>5. OfficeInv => CopiesUnique
  BY DEF OfficeInv, ExpensesPart, ExpensesInv, NoExpenses, CopiesUnique
<1>6. OfficeInv => AuditedOrReported /\ SavedAnswerKept /\ AttemptsPaced
  <2>1. NoActivity => AuditedOrReported /\ SavedAnswerKept /\ AttemptsPaced
    BY DEF NoActivity, AuditedOrReported, SavedAnswerKept, AttemptsPaced
  <2> QED
    BY <2>1 DEF OfficeInv, ActivityPart, ActivityInv, Records, Paced
<1>7. OfficeInv => ReportReconciles
  <2>1. NothingToReport => ReportReconciles
    BY DEF NothingToReport, ReportReconciles
  <2> QED
    BY <2>1, ReportHolds DEF OfficeInv, ReportPart
<1> QED
  BY <1>1, <1>2, <1>3, <1>4, <1>5, <1>6, <1>7, OfficeInvariant, PTL

\* Whatever area a behaviour is in, both kinds of codes are one-time codes in it.
THEOREM OfficeCodes == OfficeSpec => RecoveryImplementsOneTimeCode /\ ResetImplementsOneTimeCode
<1>1. OfficeInit => RecoveryCode!Init /\ ResetCode!Init
  <2>1. ASSUME OfficeInit
        PROVE  /\ clock = 0 /\ NoRecovery /\ NoSignIns
               /\ \A p \in Phone : LiveCode(p) = 0
               /\ \A a \in Account : LiveReset(a) = 0
    BY <2>1, AccountAssumption
       DEF OfficeInit, BackendInit, NoRecovery, NoSignIns, LiveCode, LiveReset, RecoveryRow, NewAccount
  <2> QED
    BY <2>1 DEF NoRecovery, NoSignIns, RecoveryCode!Init, ResetCode!Init
<1>2. OfficeInv /\ [OfficeNext]_officeVars
        => [RecoveryCode!Next]_(RecoveryCode!codeVars) /\ [ResetCode!Next]_(ResetCode!codeVars)
  <2> SUFFICES ASSUME OfficeInv, [OfficeNext]_officeVars
               PROVE  [RecoveryCode!Next]_(RecoveryCode!codeVars) /\ [ResetCode!Next]_(ResetCode!codeVars)
    OBVIOUS
  <2>1. OfficeStep /\ (clock' = clock \/ clock' = clock + 1)
    BY OneComponent, OfficeClock
  <2>2. CASE area = "recovery"
    <3>1. [RecoveryCode!Next]_(RecoveryCode!codeVars)
      BY <2>1, <2>2, CodeSteps DEF OfficeStep, OfficeInv, RecoveryPart
    <3>2. UNCHANGED <<account, resets, redeemed>>
      BY <2>1, <2>2 DEF OfficeStep, SignIn, credentialTables, signInHistory
    <3> QED
      BY <2>1, <3>1, <3>2, RestingResets
  <2>3. CASE area # "recovery"
    <3>1. UNCHANGED <<table, sent, recovered>>
      BY <2>1, <2>3 DEF OfficeStep, recoveryTables, history
    <3>2. [RecoveryCode!Next]_(RecoveryCode!codeVars)
      BY <2>1, <3>1, RestingChallenges
    <3>3. CASE area \in SignIn
      BY <2>1, <3>2, <3>3, ResetSteps DEF OfficeStep, OfficeInv, SignInPart
    <3>4. CASE area \notin SignIn
      <4>1. UNCHANGED <<account, resets, redeemed>>
        BY <2>1, <3>4 DEF OfficeStep, credentialTables, signInHistory
      <4> QED
        BY <2>1, <3>2, <4>1, RestingResets
    <3> QED
      BY <3>3, <3>4
  <2> QED
    BY <2>2, <2>3
<1> QED
  BY <1>1, <1>2, OfficeInvariant, PTL DEF OfficeSpec, RecoveryImplementsOneTimeCode, ResetImplementsOneTimeCode,
     RecoveryCode!Spec, ResetCode!Spec
=============================================================================
