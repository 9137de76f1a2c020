------------------------------- MODULE Activity --------------------------------
(***************************************************************************)
(* What surrounds every request of one server process: a change that       *)
(* succeeded is recorded in the activity history by a transaction of its   *)
(* own, a failure to record it is reported and alerted, monitored failures *)
(* are alerted too.  A delivery reserves the key of its alert for a        *)
(* cooldown before it waits for the webhook, gives the reservation back    *)
(* when the webhook refuses it or does not answer in time, and the alerts  *)
(* that meet a reservation are only logged.  The reservations live in the  *)
(* process and are lost when it restarts.                                  *)
(***************************************************************************)
EXTENDS Backend

CONSTANTS
  AlertCooldown, \* how long a delivery reserves its key
  MaxRestarts,   \* bound: restarts of the process
  MaxActivity    \* bound: requests

\* The cooldown is 300 seconds unless configured otherwise, and can be 0.  Nothing bounds how
\* long a delivery takes by it: its timeout is configured apart, and holds for each phase.
ASSUME AlertAssumption ==
  /\ AlertCooldown \in Nat
  /\ MaxRestarts \in Nat /\ MaxActivity \in Nat /\ None \notin Instant

VARIABLES
  reserved,  \* when each key was last reserved, None if it is not
  restarts,  \* how often the process restarted
  saved,     \* history: requests whose change was committed
  audits,    \* the activity history: requests it has an entry for
  reports,   \* failures to record that were logged
  answers,   \* history: saved changes that were answered, each with its status
  attempts,  \* history: deliveries that were reserved
  givenBack, \* history: how many reservations of each key were given back
  notified   \* history: alerts the webhook received, and when

activityHistory == <<saved, audits, reports, answers>>
alertHistory == <<attempts, givenBack, notified>>
activityVars == <<pc, job, lock, clock, asked, reserved, restarts, activityHistory, alertHistory>>

RequestKind == {"change", "email", "message", "login", "test"}
Status == {"ok", "refused", "locked", "failed"}
AlertKey == {"audit", "locked", "login", "email", "ai"}

ActivityTypeOK ==
  /\ pc \in [Session -> {"idle", "handle", "test", "audit", "alert", "deliver", "log", "answer"}]
  /\ clock \in Instant /\ restarts \in 0..MaxRestarts
  /\ reserved \in [AlertKey -> Instant \cup {None}]
  /\ \A s \in Serving :
       job[s] \in [id : 1..asked, kind : RequestKind, status : Status, activity : BOOLEAN,
                   key : AlertKey \cup {None}, at : Instant]
  /\ saved \cup audits \cup reports \subseteq 1..asked
  /\ answers \subseteq (1..asked) \X Status
  /\ givenBack \in [AlertKey -> Nat]
  /\ attempts \subseteq [id : 1..asked, key : AlertKey, at : Instant, failures : Nat, run : 0..MaxRestarts]
  /\ notified \subseteq [id : 1..asked, key : AlertKey, at : Instant, run : 0..MaxRestarts]

NoActivity ==
  /\ reserved = [k \in AlertKey |-> None] /\ restarts = 0
  /\ saved = {} /\ audits = {} /\ reports = {} /\ answers = {}
  /\ attempts = {} /\ givenBack = [k \in AlertKey |-> 0] /\ notified = {}

ActivityInit == BackendInit({}) /\ NoActivity

BeginActivity(s, kind) ==
  /\ asked < MaxActivity
  /\ Begin(s, IF kind = "test" THEN "test" ELSE "handle",
           [id |-> asked + 1, kind |-> kind, status |-> "ok", activity |-> kind \in {"change", "email", "test"},
            key |-> None, at |-> 0])
  /\ UNCHANGED <<lock, clock, reserved, restarts, activityHistory, alertHistory>>

Answered(s, status) ==
  /\ answers' = IF job[s].id \in saved THEN answers \cup {<<job[s].id, status>>} ELSE answers
  /\ Answer(s)

\* The answers of a handler.  Only accounts that are already locked meet 429, an assistant
\* message changes something only when it books, and an e-mail request can be undone by a
\* delivery that fails.
Outcome(kind) ==
  CASE kind = "change"  -> {"ok", "refused"}
    [] kind = "email"   -> {"ok", "refused", "failed"}
    [] kind = "message" -> {"ok", "refused", "failed"}
    [] kind = "login"   -> {"ok", "refused", "locked", "failed"}
    [] kind = "test"    -> {"ok", "failed"}

\* Successful answers of authenticated POST, PUT, PATCH and DELETE requests are recorded.
AfterHandler(kind, status) == IF status = "ok" /\ kind # "login" THEN "audit" ELSE "log"

\* audit_activity is set by a message that books; other messages describe no activity.
HandleActivity(s) == LET kind == job[s].kind IN
  /\ pc[s] = "handle"
  /\ \E status \in Outcome(kind) : \E books \in BOOLEAN :
       /\ books => kind = "message" /\ status = "ok"
       /\ job' = [job EXCEPT ![s].status = status, ![s].activity = @ \/ books]
       /\ pc' = [pc EXCEPT ![s] = AfterHandler(kind, status)]
       /\ saved' = IF status = "ok" /\ (kind \in {"change", "email"} \/ books)
                   THEN saved \cup {job[s].id} ELSE saved
  /\ UNCHANGED <<lock, clock, asked, reserved, restarts, audits, reports, answers, alertHistory>>

\* An exception, before or after the commit, passes both middlewares: no entry, no alert.
HandlerRaises(s) ==
  /\ pc[s] \in {"handle", "test"}
  /\ \/ UNCHANGED <<saved, answers>>
     \/ /\ job[s].kind \in {"change", "email"}
        /\ saved' = saved \cup {job[s].id}
        /\ answers' = answers \cup {<<job[s].id, "failed">>}
  /\ Answer(s)
  /\ UNCHANGED <<lock, clock, asked, reserved, restarts, audits, reports, alertHistory>>

\* A test delivery reserves nothing and answers whether it was delivered.
TestDelivery(s) ==
  /\ pc[s] = "test"
  /\ \E status \in Outcome("test") :
       /\ job' = [job EXCEPT ![s].status = status]
       /\ pc' = [pc EXCEPT ![s] = AfterHandler("test", status)]
  /\ UNCHANGED <<lock, clock, asked, reserved, restarts, activityHistory, alertHistory>>

RecordActivity(s) ==
  /\ Goto(s, "audit", "log")
  /\ audits' = IF job[s].activity THEN audits \cup {job[s].id} ELSE audits
  /\ UNCHANGED <<job, lock, clock, asked, reserved, restarts, saved, reports, answers, alertHistory>>

\* Faulty variant: the failure is swallowed.
RecordFailsSilently(s) ==
  /\ pc[s] = "audit" /\ job[s].activity
  /\ pc' = [pc EXCEPT ![s] = "log"]
  /\ UNCHANGED <<job, lock, clock, asked, reserved, restarts, activityHistory, alertHistory>>

RecordFails(s) ==
  /\ pc[s] = "audit" /\ job[s].activity
  /\ reports' = reports \cup {job[s].id}
  /\ pc' = [pc EXCEPT ![s] = "alert"]
  /\ job' = [job EXCEPT ![s].key = "audit"]
  /\ UNCHANGED <<lock, clock, asked, reserved, restarts, saved, audits, answers, alertHistory>>

\* classify_operational_failure.
MonitoredKey(kind, status) ==
  CASE kind = "login" /\ status = "locked"   -> "locked"
    [] kind = "login" /\ status = "failed"   -> "login"
    [] kind = "email" /\ status = "failed"   -> "email"
    [] kind = "message" /\ status = "failed" -> "ai"
    [] OTHER                                 -> None

Monitor(s) == LET key == MonitoredKey(job[s].kind, job[s].status) IN
  /\ pc[s] = "log"
  /\ pc' = [pc EXCEPT ![s] = IF key = None THEN "answer" ELSE "alert"]
  /\ job' = [job EXCEPT ![s].key = key]
  /\ UNCHANGED <<lock, clock, asked, reserved, restarts, activityHistory, alertHistory>>

\* After its alert a request goes on where it stood: the audit one comes before the log.
AfterAlert(s) == IF job[s].key = "audit" THEN "log" ELSE "answer"
Alerted(s) == job' = [job EXCEPT ![s].key = None, ![s].at = 0]

Reserved(k) == reserved[k] # None /\ clock - reserved[k] < AlertCooldown

Attempt(s) ==
  [id |-> job[s].id, key |-> job[s].key, at |-> clock, failures |-> givenBack[job[s].key], run |-> restarts]

\* Faulty variant: the key is left free until the webhook answers.
ReserveDeliveryUnrecorded(s) ==
  /\ Goto(s, "alert", "deliver") /\ ~Reserved(job[s].key)
  /\ job' = [job EXCEPT ![s].at = clock]
  /\ attempts' = attempts \cup {Attempt(s)}
  /\ UNCHANGED <<lock, clock, asked, reserved, restarts, activityHistory, givenBack, notified>>

ReserveDelivery(s) == LET k == job[s].key IN
  /\ Goto(s, "alert", "deliver") /\ ~Reserved(k)
  /\ reserved' = [reserved EXCEPT ![k] = clock]
  /\ job' = [job EXCEPT ![s].at = clock]
  /\ attempts' = attempts \cup {Attempt(s)}
  /\ UNCHANGED <<lock, clock, asked, restarts, activityHistory, givenBack, notified>>

\* With the key reserved the alert is only logged.  A server without a webhook never
\* delivers and is left out.
SuppressDelivery(s) ==
  /\ Goto(s, "alert", AfterAlert(s)) /\ Reserved(job[s].key)
  /\ Alerted(s)
  /\ UNCHANGED <<lock, clock, asked, reserved, restarts, activityHistory, alertHistory>>

Received(s) == \E n \in notified : n.id = job[s].id /\ n.key = job[s].key

\* The webhook receives the alert, some time before its answer is read.
WebhookReceives(s) ==
  /\ pc[s] = "deliver" /\ ~Received(s)
  /\ notified' = notified \cup {[id |-> job[s].id, key |-> job[s].key, at |-> clock, run |-> restarts]}
  /\ UNCHANGED <<pc, job, lock, clock, asked, reserved, restarts, activityHistory, attempts, givenBack>>

\* Its answer is a success.
DeliverAlert(s) ==
  /\ Goto(s, "deliver", AfterAlert(s)) /\ Received(s) /\ Alerted(s)
  /\ UNCHANGED <<lock, clock, asked, reserved, restarts, activityHistory, alertHistory>>

\* The webhook refuses, or no answer comes in time, be the alert received or not, and
\* however long it took: the reservation, whosever it is by then, is given back.
DeliveryFails(s) ==
  /\ Goto(s, "deliver", AfterAlert(s)) /\ Alerted(s)
  /\ reserved' = [reserved EXCEPT ![job[s].key] = None]
  /\ givenBack' = [givenBack EXCEPT ![job[s].key] = @ + 1]
  /\ UNCHANGED <<lock, clock, asked, restarts, activityHistory, attempts, notified>>

\* Faulty variant: what dispatch raises is not caught after an audit failure.
DeliveryRaisesThrough(s) ==
  /\ pc[s] = "deliver"
  /\ Answered(s, "failed")
  /\ UNCHANGED <<lock, clock, asked, reserved, restarts, saved, audits, reports, alertHistory>>

\* Any other exception keeps the reservation.  It is caught after an audit failure and
\* replaces the answer of a monitored failure.
DeliveryRaises(s) ==
  /\ pc[s] = "deliver"
  /\ IF job[s].key = "audit"
     THEN pc' = [pc EXCEPT ![s] = "log"] /\ Alerted(s) /\ UNCHANGED answers
     ELSE Answered(s, "failed")
  /\ UNCHANGED <<lock, clock, asked, reserved, restarts, saved, audits, reports, alertHistory>>

Respond(s) ==
  /\ pc[s] = "answer"
  /\ Answered(s, job[s].status)
  /\ UNCHANGED <<lock, clock, asked, reserved, restarts, saved, audits, reports, alertHistory>>

\* The process restarts: requests are lost, answered or not, and with them the reservations.
Restart ==
  /\ restarts < MaxRestarts
  /\ restarts' = restarts + 1
  /\ pc' = [s \in Session |-> "idle"] /\ job' = [s \in Session |-> None]
  /\ reserved' = [k \in AlertKey |-> None]
  /\ UNCHANGED <<lock, clock, asked, activityHistory, alertHistory>>

ActivityTick ==
  /\ clock < Horizon
  /\ clock' = clock + 1
  /\ UNCHANGED <<pc, job, lock, asked, reserved, restarts, activityHistory, alertHistory>>

ActivityNext ==
  \/ \E s \in Session :
       \/ \E kind \in RequestKind : BeginActivity(s, kind)
       \/ HandleActivity(s) \/ HandlerRaises(s) \/ TestDelivery(s)
       \/ RecordActivity(s) \/ RecordFails(s) \/ Monitor(s)
       \/ ReserveDelivery(s) \/ SuppressDelivery(s)
       \/ WebhookReceives(s) \/ DeliverAlert(s) \/ DeliveryFails(s) \/ DeliveryRaises(s) \/ Respond(s)
  \/ Restart
  \/ ActivityTick

ActivitySpec == ActivityInit /\ [][ActivityNext]_activityVars

\* A change that was saved and answered as such has an entry in the history, or the
\* failure to write it was reported: only a lost process or request can lose both.
AuditedOrReported ==
  \A i \in saved : <<i, "ok">> \in answers => i \in audits \cup reports

\* Once its entry was written or missed, a change is answered as the success it is: neither
\* the history nor an alert turns it into a failure that invites a retry.
SavedAnswerKept ==
  \A i \in saved \cap (audits \cup reports) : <<i, "failed">> \notin answers

\* Two deliveries of one key that one process attempts, with none of the key given up between
\* their reservations, are at least a cooldown apart, however many requests alert at once and
\* however long a delivery takes: only a failure makes room for another one.
AttemptsPaced ==
  \A x, y \in attempts :
    x # y /\ x.key = y.key /\ x.run = y.run /\ x.failures = y.failures =>
      x.at >= y.at + AlertCooldown \/ y.at >= x.at + AlertCooldown
=============================================================================
