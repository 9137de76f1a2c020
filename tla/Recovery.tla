------------------------------- MODULE Recovery --------------------------------
(***************************************************************************)
(* Booking recovery: a customer asks for a code by WhatsApp and shows it to *)
(* list the bookings of a phone.  The rows are the throttles of addresses  *)
(* and of the system, and one challenge per phone of a business; they are  *)
(* inserted when missing, read under their row locks and deleted after a   *)
(* day by whoever asks next.  A request keeps what it writes in its draft  *)
(* until the commit.  The code is delivered after the commit, and a failed *)
(* delivery withdraws it, if it still is the phone's code.  Codes are      *)
(* numbered as they are drawn: two random codes are taken to differ.       *)
(***************************************************************************)
EXTENDS Backend, Sequences

CONSTANTS
  Phone,       \* subjects: phones of a business
  Address,     \* client addresses
  LimitOf,     \* requests a throttle of each kind admits in a window
  WindowOf,    \* the length of that window
  Cooldown,    \* the least time between two codes of a phone
  CodeLife,    \* how long a code lasts
  SendWindow,  \* the window over which the codes of a phone are counted
  SendLimit,   \* the codes of a phone in a window
  GuessLimit,  \* the wrong answer that destroys a code
  Day,         \* age from which a row is deleted
  MaxWait,     \* a request answers within this time: bound on lock waits
  MaxRequests  \* bound: requests

Kind == {"issue_ip", "issue_global", "verify_ip"}
Throttle == ({"issue_ip", "verify_ip"} \X Address) \cup {<<"issue_global", None>>}

Window == [start : Instant, requests : Nat]
Challenge ==
  [start : Instant, requests : Nat, code : Nat, expires : Nat, last : Int, attempts : 0..GuessLimit]

ASSUME ThrottleAssumption ==
  /\ None \notin Phone \cup Window \cup Challenge /\ Phone \cap Throttle = {}
  /\ LimitOf \in [Kind -> Nat \ {0}]
  /\ WindowOf \in [Kind -> Nat \ {0}]
ASSUME CodeAssumption ==
  /\ Cooldown \in Nat \ {0} /\ CodeLife \in Nat \ {0} /\ SendWindow \in Nat \ {0}
  /\ SendLimit \in Nat \ {0} /\ GuessLimit \in Nat \ {0} /\ MaxRequests \in Nat
  /\ MaxWait \in Nat
  /\ Day \in Nat
\* A row is deleted when its codes have expired and no request that is still being served
\* could count or pace with them.
ASSUME DayAssumption ==
  /\ Day + 2 >= SendWindow + CodeLife
  /\ Day + 2 >= SendWindow + Cooldown + MaxWait

VARIABLES
  table,     \* committed rows, None when there is none
  draft,     \* what each session wrote and has not committed
  sent,      \* history: the codes drawn, each with its phone and the time of its request
  delivered, \* history: the codes that were delivered
  recovered  \* history: the codes that were accepted

history == <<sent, delivered, recovered>>
recoveryVars == <<pc, job, lock, clock, asked, table, draft, sent, delivered, recovered>>

RecoveryRow == Throttle \cup Phone
NoDraft == [x \in {} |-> None]
RecoveryRequest ==
  [phone : Phone, address : Address, row : RecoveryRow \cup {None}, code : Nat,
   at : Instant, now : Instant]

\* The rows, the locks and the requests have these types.  Only the holder of a row's lock has
\* a draft of it, and requests and histories name codes that were drawn.
RecoveryTypeOK ==
  /\ pc \in [Session -> {"idle", "purge", "insert", "select", "verify", "deliver", "withdraw"}]
  /\ clock \in Instant
  /\ \A t \in Throttle : table[t] # None => table[t] \in Window
  /\ \A p \in Phone : table[p] # None => table[p] \in Challenge
  /\ lock \in [RecoveryRow -> Session \cup {None}]
  /\ \A s \in Session : \A x \in DOMAIN draft[s] : lock[x] = s
  /\ \A s \in Session : IF pc[s] = "idle" THEN job[s] = None
                          ELSE job[s] \in RecoveryRequest /\ job[s].code <= Len(sent)
  /\ asked \in 0..MaxRequests
  /\ \A i \in 1..Len(sent) : sent[i] \in [phone : Phone, at : Instant]
  /\ delivered \cup recovered \subseteq 1..Len(sent)

NoRecovery ==
  /\ table = [x \in RecoveryRow |-> None]
  /\ draft = [s \in Session |-> NoDraft]
  /\ sent = <<>> /\ delivered = {} /\ recovered = {}

RecoveryInit == BackendInit(RecoveryRow) /\ NoRecovery

\* What a session reads: its own writes over the committed rows.
Seen(s, x) == IF x \in DOMAIN draft[s] THEN draft[s][x] ELSE table[x]

\* The writes of a transaction with one more.
Put(writes, x, row) == [y \in DOMAIN writes \cup {x} |-> IF y = x THEN row ELSE writes[y]]
Write(s, x, row) == draft' = [draft EXCEPT ![s] = Put(@, x, row)]

\* A commit stores the draft, with the last write of the step.
CommitRows(s, writes) ==
  /\ table' = [x \in RecoveryRow |-> IF x \in DOMAIN writes THEN writes[x] ELSE table[x]]
  /\ Release(s)
  /\ draft' = [draft EXCEPT ![s] = NoDraft]

Ask(s, step, request) ==
  /\ Begin(s, step, request)
  /\ asked < MaxRequests
  /\ UNCHANGED <<lock, clock, table, draft, sent, delivered, recovered>>

AskCode(s, p, a) ==
  Ask(s, "purge", [phone |-> p, address |-> a, row |-> None, code |-> 0, at |-> clock, now |-> clock])

\* The answer is one of the codes drawn, or none of them (0).
AskBookings(s, p, a, c) ==
  Ask(s, "insert", [phone |-> p, address |-> a, row |-> <<"verify_ip", a>>, code |-> c,
                    at |-> clock, now |-> clock])

OldRows(s) == {x \in RecoveryRow : Seen(s, x) # None /\ Seen(s, x).start + Day < job[s].at}

\* Two DELETEs, of throttles and then of challenges, wait for every row's lock in turn.
PurgeRow(s, x) ==
  /\ pc[s] = "purge"
  /\ x \in OldRows(s) /\ (x \in Phone => OldRows(s) \cap Throttle = {})
  /\ lock[x] = None
  /\ Hold(s, x)
  /\ Write(s, x, None)
  /\ UNCHANGED <<pc, job, clock, asked, table, history>>

\* The time a throttle compares with is taken on entry, before the lock waits.
EnterThrottle(s, row) == job' = [job EXCEPT ![s].row = row, ![s].now = clock]

EnterChallenge(s) == job' = [job EXCEPT ![s].row = job[s].phone, ![s].now = 0]

PurgeDone(s) ==
  /\ Goto(s, "purge", "insert")
  /\ OldRows(s) = {}
  /\ EnterThrottle(s, <<"issue_ip", job[s].address>>)
  /\ UNCHANGED <<lock, clock, asked, table, draft, history>>

EmptyRow(s, x) ==
  IF x \in Throttle THEN [start |-> job[s].now, requests |-> 0]
  ELSE [start |-> job[s].at, requests |-> 0, code |-> 0, expires |-> 0, last |-> -Cooldown, attempts |-> 0]

\* The conflict-free insertion waits for a session that inserts or deletes the key.
\* Inserting takes the row's lock, finding the row does not.
InsertMissing(s) == LET x == job[s].row IN
  /\ Goto(s, "insert", "select")
  /\ Available(s, x)
  /\ IF Seen(s, x) # None THEN UNCHANGED <<lock, draft>>
     ELSE /\ Hold(s, x)
          /\ Write(s, x, EmptyRow(s, x))
  /\ UNCHANGED <<job, clock, asked, table, history>>

\* Faulty variant: the window that ended is counted from again.
RenewedInPlace(row, now, length) ==
  IF now >= row.start + length THEN [row EXCEPT !.requests = 0] ELSE row

Renewed(row, now, length) ==
  IF now >= row.start + length THEN [row EXCEPT !.start = now, !.requests = 0] ELSE row

\* The SELECT ... FOR UPDATE of a throttle finds its row.
AtThrottle(s, t) ==
  /\ pc[s] = "select" /\ job[s].row = t /\ t \in Throttle
  /\ Available(s, t) /\ Seen(s, t) # None

ThrottleRow(s, t) == Renewed(Seen(s, t), job[s].now, WindowOf[t[1]])

PassThrottle(s, t) == LET row == ThrottleRow(s, t) IN
  /\ AtThrottle(s, t)
  /\ row.requests < LimitOf[t[1]]
  /\ Hold(s, t)
  /\ Write(s, t, [row EXCEPT !.requests = @ + 1])
  /\ IF t[1] = "issue_ip" THEN EnterThrottle(s, <<"issue_global", None>>) ELSE EnterChallenge(s)
  /\ pc' = [pc EXCEPT ![s] = IF t[1] = "verify_ip" THEN "verify" ELSE "insert"]
  /\ UNCHANGED <<clock, asked, table, history>>

\* A refusal commits what the earlier throttles counted.
RefuseThrottle(s, t) ==
  /\ AtThrottle(s, t)
  /\ ThrottleRow(s, t).requests >= LimitOf[t[1]]
  /\ CommitRows(s, Put(draft[s], t, ThrottleRow(s, t)))
  /\ Answer(s)
  /\ UNCHANGED <<clock, asked, history>>

ChallengeRow(s, p) == Renewed(Seen(s, p), job[s].at, SendWindow)

\* The SELECT ... FOR UPDATE of a challenge finds its row.
Challenged(s, p) ==
  /\ pc[s] = "select" /\ job[s].row = p /\ p \in Phone
  /\ Available(s, p) /\ Seen(s, p) # None

TooSoon(s, p) == job[s].at < Seen(s, p).last + Cooldown

RefusePhone(s, p) ==
  /\ Challenged(s, p)
  /\ \/ TooSoon(s, p) /\ CommitRows(s, Put(draft[s], p, Seen(s, p)))
     \/ /\ ~TooSoon(s, p) /\ ChallengeRow(s, p).requests >= SendLimit
        /\ CommitRows(s, Put(draft[s], p, ChallengeRow(s, p)))
  /\ Answer(s)
  /\ UNCHANGED <<clock, asked, history>>

Draw(s, p) == LET row == ChallengeRow(s, p)  c == Len(sent) + 1 IN
  /\ Challenged(s, p)
  /\ ~TooSoon(s, p) /\ row.requests < SendLimit
  /\ CommitRows(s, Put(draft[s], p,
       [row EXCEPT !.code = c, !.expires = job[s].at + CodeLife, !.last = job[s].at,
                   !.attempts = 0, !.requests = @ + 1]))
  /\ sent' = Append(sent, [phone |-> p, at |-> job[s].at])
  /\ job' = [job EXCEPT ![s].code = c]
  /\ pc' = [pc EXCEPT ![s] = "deliver"]
  /\ UNCHANGED <<clock, asked, delivered, recovered>>

\* The row a request counts on was deleted between its two statements.
RowGone(s) ==
  /\ pc[s] = "select" /\ Available(s, job[s].row) /\ Seen(s, job[s].row) = None
  /\ Release(s)
  /\ draft' = [draft EXCEPT ![s] = NoDraft]
  /\ Answer(s)
  /\ UNCHANGED <<clock, asked, table, history>>

Deliver(s) ==
  /\ pc[s] = "deliver"
  /\ delivered' = delivered \cup {job[s].code}
  /\ Answer(s)
  /\ UNCHANGED <<lock, clock, asked, table, draft, sent, recovered>>

FailDelivery(s) ==
  /\ Goto(s, "deliver", "withdraw")
  /\ UNCHANGED <<job, lock, clock, asked, table, draft, history>>

\* Faulty variant: a failed delivery removes whatever code the phone has.
WithdrawAny(s) == LET p == job[s].phone IN
  /\ pc[s] = "withdraw" /\ lock[p] = None
  /\ table' = IF table[p] = None THEN table ELSE [table EXCEPT ![p].code = 0]
  /\ Answer(s)
  /\ UNCHANGED <<lock, clock, asked, draft, history>>

\* An UPDATE of the row that still has this code, committed at once.
Withdraw(s) == LET p == job[s].phone IN
  /\ pc[s] = "withdraw"
  /\ IF table[p] = None \/ (table[p] # None /\ table[p].code # job[s].code) THEN UNCHANGED table
     ELSE lock[p] = None /\ table' = [table EXCEPT ![p].code = 0]
  /\ Answer(s)
  /\ UNCHANGED <<lock, clock, asked, draft, history>>

\* The time is read after the lock.
Usable(row) == row.code # 0 /\ row.expires > clock /\ row.attempts < GuessLimit

\* A challenge that is being inserted is not visible and not waited for.
Verified(s, p) ==
  /\ pc[s] = "verify" /\ p = job[s].phone
  /\ table[p] = None \/ lock[p] = None

RejectUnusable(s, p) ==
  /\ Verified(s, p)
  /\ table[p] # None => ~Usable(table[p])
  /\ CommitRows(s, draft[s])
  /\ Answer(s)
  /\ UNCHANGED <<clock, asked, history>>

\* Faulty variant: the last wrong answer leaves the code.
RejectWrongSparing(s, p) ==
  /\ Verified(s, p) /\ table[p] # None /\ Usable(table[p])
  /\ job[s].code # table[p].code
  /\ CommitRows(s, Put(draft[s], p, [table[p] EXCEPT !.attempts = @ + 1]))
  /\ Answer(s)
  /\ UNCHANGED <<clock, asked, history>>

RejectWrong(s, p) ==
  /\ Verified(s, p) /\ table[p] # None /\ Usable(table[p])
  /\ job[s].code # table[p].code
  /\ CommitRows(s, Put(draft[s], p,
       [table[p] EXCEPT !.attempts = @ + 1,
                        !.code = IF table[p].attempts + 1 >= GuessLimit THEN 0 ELSE @]))
  /\ Answer(s)
  /\ UNCHANGED <<clock, asked, history>>

AcceptCode(s, p) ==
  /\ Verified(s, p) /\ table[p] # None /\ Usable(table[p])
  /\ job[s].code = table[p].code
  /\ CommitRows(s, Put(draft[s], p, [table[p] EXCEPT !.attempts = @ + 1, !.code = 0]))
  /\ recovered' = recovered \cup {job[s].code}
  /\ Answer(s)
  /\ UNCHANGED <<clock, asked, sent, delivered>>

\* A lost connection, a crash of the worker, a database that breaks a deadlock.
AbortRecovery(s) ==
  /\ pc[s] # "idle"
  /\ Release(s)
  /\ draft' = [draft EXCEPT ![s] = NoDraft]
  /\ Answer(s)
  /\ UNCHANGED <<clock, asked, table, history>>

RecoveryTick ==
  /\ clock < Horizon
  /\ \A s \in Serving : clock < job[s].at + MaxWait
  /\ clock' = clock + 1
  /\ UNCHANGED <<pc, job, lock, asked, table, draft, history>>

RecoveryNext ==
  \/ \E s \in Session, p \in Phone :
       \/ \E a \in Address : AskCode(s, p, a) \/ \E c \in 0..Len(sent) : AskBookings(s, p, a, c)
       \/ RefusePhone(s, p) \/ Draw(s, p)
       \/ RejectUnusable(s, p) \/ RejectWrong(s, p) \/ AcceptCode(s, p)
  \/ \E s \in Session, t \in Throttle : PassThrottle(s, t) \/ RefuseThrottle(s, t)
  \/ \E s \in Session, x \in RecoveryRow : PurgeRow(s, x)
  \/ \E s \in Session :
       \/ PurgeDone(s) \/ InsertMissing(s) \/ RowGone(s)
       \/ Deliver(s) \/ FailDelivery(s) \/ Withdraw(s) \/ AbortRecovery(s)
  \/ RecoveryTick

RecoverySpec == RecoveryInit /\ [][RecoveryNext]_recoveryVars

LiveCode(p) == IF table[p] = None THEN 0 ELSE table[p].code

\* The challenges keep the promises of a one-time code, whatever requests, deliveries
\* and deletions interleave: one live code per phone, accepted once, within its life,
\* dead at the last wrong answer and never alive again.
RecoveryCode == INSTANCE OneTimeCode WITH
  Subject <- Phone,
  live <- [p \in Phone |-> LiveCode(p)],
  misses <- [p \in Phone |-> IF LiveCode(p) = 0 THEN 0 ELSE table[p].attempts],
  until <- [p \in Phone |-> IF LiveCode(p) = 0 THEN 0 ELSE table[p].expires],
  drawn <- Len(sent),
  accepted <- recovered

RecoveryImplementsOneTimeCode == RecoveryCode!Spec

\* A code that reached the customer stays usable until it expires, is used, is replaced
\* or meets the last wrong answer: neither the late failure of an older delivery nor a
\* deletion of old rows takes it away.
DeliveredCodeLives ==
  \A c \in delivered \ recovered :
    LET p == sent[c].phone IN
    \/ clock >= sent[c].at + CodeLife
    \/ \E d \in c + 1..Len(sent) : sent[d].phone = p
    \/ table[p] # None /\ (table[p].code = c \/ table[p].attempts = GuessLimit)

\* No phone is sent two codes closer than the cooldown, and the challenge counts exactly
\* the codes of its window, at most the limit, although requests compare with the time
\* before their lock waits and rows are deleted under them.
SendsCounted ==
  /\ \A i, j \in 1..Len(sent) :
       i < j /\ sent[i].phone = sent[j].phone => sent[j].at >= sent[i].at + Cooldown
  /\ \A p \in Phone : table[p] # None =>
       /\ table[p].requests <= SendLimit
       /\ table[p].requests =
            Cardinality({i \in 1..Len(sent) : sent[i].phone = p /\ sent[i].at >= table[p].start})
=============================================================================
