------------------------------ MODULE Scheduling ------------------------------
(***************************************************************************)
(* The requests that write the appointments table, as concurrent database  *)
(* sessions under READ COMMITTED.  A handler is a sequence of steps, one   *)
(* per statement another session can interleave with: the status guard     *)
(* under the appointment's row lock, the closure test, the barber's row    *)
(* lock, the conflict query, the commit.  A session that ends, by commit,  *)
(* refusal or failure, releases its row locks.                             *)
(*                                                                         *)
(* loaded[s] is the Appointment object in the session's identity map.  An  *)
(* owner or barber request loads it under the row lock.  A booking-token   *)
(* request has read it before, without a lock, and SELECT ... FOR UPDATE   *)
(* does not refresh an object the session still holds: the guard tests     *)
(* that object, and the flush writes only the columns that differ from it. *)
(***************************************************************************)
EXTENDS AppointmentTable

CONSTANTS
  Session,    \* concurrent requests, each with a database session of its own
  Intervals,  \* the [start, stop) pairs requests ask for
  Channel     \* the kinds of caller that take part

ASSUME IntervalsAssumption == Intervals \subseteq {i \in Instant \X Instant : i[1] < i[2]}
ASSUME SessionAssumption == None \notin Session
ASSUME ChannelAssumption == Channel \subseteq {"owner", "barber", "public", "token"}

VARIABLES
  appointments,     \* the committed appointments table
  closures,         \* the dates of business_closures
  isActive,         \* barbers.is_active
  appointmentLock,  \* the session that holds the row lock of an appointment
  barberLock,       \* the session that holds the row lock of a barber
  pc,               \* the step each session waits to take
  request,          \* what the session's request asks for
  loaded,           \* the Appointment object of the session, NoRow when none
  clock             \* the current instant

locks == <<appointmentLock, barberLock>>
vars == <<appointments, closures, isActive, locks, pc, request, loaded, clock>>

Ask(op, channel, a, b, start, stop) ==
  [op |-> op, channel |-> channel, appt |-> a, barber |-> b, start |-> start, stop |-> stop]
NoRequest == Ask("none", "none", None, None, 0, 0)
StaffOps == {"confirm", "cancel", "complete", "no_show", "notes"}
AssignedOps == {"confirm", "complete", "no_show"}
TokenOps == {"confirm", "cancel"}
Steps == {"idle", "appointment", "closure", "barber", "conflict", "create", "move", "settle", "close"}

Request ==
  [op : StaffOps \cup {"none", "create", "reschedule", "close"}, channel : Channel \cup {"none"},
   appt : Appointment \cup {None}, barber : Barber \cup {None}, start : Instant, stop : Instant]

\* The tables, the locks and the sessions have these types.
TypeOK ==
  /\ appointments \in [Appointment -> Row]
  /\ closures \subseteq Date
  /\ isActive \in [Barber -> BOOLEAN]
  /\ appointmentLock \in [Appointment -> Session \cup {None}]
  /\ barberLock \in [Barber -> Session \cup {None}]
  /\ pc \in [Session -> Steps]
  /\ request \in [Session -> Request]
  /\ loaded \in [Session -> Row]
  /\ clock \in Instant

Init ==
  /\ appointments = [a \in Appointment |-> NoRow]
  /\ closures = {}
  /\ isActive = [b \in Barber |-> TRUE]
  /\ appointmentLock = [a \in Appointment |-> None]
  /\ barberLock = [b \in Barber |-> None]
  /\ pc = [s \in Session |-> "idle"]
  /\ request = [s \in Session |-> NoRequest]
  /\ loaded = [s \in Session |-> NoRow]
  /\ clock = 0

-----------------------------------------------------------------------------
\* How a request starts and ends.

Begin(s, step, r, row) ==
  /\ pc[s] = "idle"
  /\ r.channel \in Channel
  /\ pc' = [pc EXCEPT ![s] = step]
  /\ request' = [request EXCEPT ![s] = r]
  /\ loaded' = [loaded EXCEPT ![s] = row]
  /\ UNCHANGED <<appointments, closures, isActive, locks, clock>>

Proceed(s, from, to) ==
  /\ pc[s] = from
  /\ pc' = [pc EXCEPT ![s] = to]
  /\ UNCHANGED <<appointments, closures, isActive, request, clock>>

\* Faulty variant: a refused request leaves its transaction open.
FreeNothing(lock, s) == lock

Free(lock, s) == [x \in DOMAIN lock |-> IF lock[x] = s THEN None ELSE lock[x]]

Finish(s) ==
  /\ pc' = [pc EXCEPT ![s] = "idle"]
  /\ request' = [request EXCEPT ![s] = NoRequest]
  /\ loaded' = [loaded EXCEPT ![s] = NoRow]
  /\ appointmentLock' = Free(appointmentLock, s)
  /\ barberLock' = Free(barberLock, s)
  /\ UNCHANGED <<isActive, clock>>

Refuse(s) == Finish(s) /\ UNCHANGED <<appointments, closures>>

\* A new row draws an identifier no row and no other request has (uuid4).
Unused(a) ==
  /\ appointments[a].status = "none"
  /\ \A s \in Session : request[s].appt # a

Exists(a) == appointments[a].status # "none"

-----------------------------------------------------------------------------
\* The requests callers send.

OwnerCreate(s, a, b, i) ==
  /\ Unused(a)
  /\ Begin(s, "closure", Ask("create", "owner", a, b, i[1], i[2]), NoRow)

PublicCreate(s, a, b, i) ==
  /\ Unused(a)
  /\ i[1] > clock
  /\ isActive[b]
  /\ Begin(s, "closure", Ask("create", "public", a, b, i[1], i[2]), NoRow)

OwnerChange(s, a, op) ==
  /\ Exists(a)
  /\ Begin(s, "appointment", Ask(op, "owner", a, None, 0, 0), NoRow)

\* Faulty variant: any professional of the business may act.
BarberChangeUnassigned(s, a, op, b) ==
  /\ Exists(a)
  /\ isActive[b]
  /\ Begin(s, "appointment", Ask(op, "barber", a, b, 0, 0), NoRow)

\* require_assigned_appointment tests the assignment and lets the object go.
BarberChange(s, a, op, b) ==
  /\ Exists(a)
  /\ isActive[b]
  /\ appointments[a].barber = b
  /\ Begin(s, "appointment", Ask(op, "barber", a, b, 0, 0), NoRow)

TokenChange(s, a, op) ==
  /\ Exists(a)
  /\ Begin(s, "appointment", Ask(op, "token", a, None, 0, 0), appointments[a])

Reschedule(s, a, channel, b, i) ==
  /\ Exists(a)
  /\ channel = "token" => i[1] > clock
  /\ Begin(s, "appointment", Ask("reschedule", channel, a, b, i[1], i[2]),
       IF channel = "token" THEN appointments[a] ELSE NoRow)

\* create_business_closure looks for an existing closure and for active
\* appointments that start on the date, and locks nothing.
CreateClosure(s, t) ==
  /\ t % DayLength = 0
  /\ LocalDate(t) \notin closures
  /\ ~\E a \in Appointment :
        /\ appointments[a].status \in Active
        /\ LocalDate(appointments[a].start) = LocalDate(t)
  /\ Begin(s, "close", Ask("close", "owner", None, None, t, t), NoRow)

-----------------------------------------------------------------------------
\* The status guard, evaluated once the appointment's row lock is granted.

RowSeen(s) == IF request[s].channel = "token" THEN loaded[s] ELSE appointments[request[s].appt]
StatusAllowed(s) == RowSeen(s).status \in Expected[request[s].op]

\* Faulty variant: the guard reads the row without FOR UPDATE.
LockAppointmentUnlocked(s) ==
  /\ Proceed(s, "appointment", IF request[s].op = "reschedule" THEN "closure" ELSE "settle")
  /\ StatusAllowed(s)
  /\ loaded' = [loaded EXCEPT ![s] = RowSeen(s)]
  /\ UNCHANGED locks

LockAppointment(s) ==
  /\ Proceed(s, "appointment", IF request[s].op = "reschedule" THEN "closure" ELSE "settle")
  /\ appointmentLock[request[s].appt] = None
  /\ StatusAllowed(s)
  /\ appointmentLock' = [appointmentLock EXCEPT ![request[s].appt] = s]
  /\ loaded' = [loaded EXCEPT ![s] = RowSeen(s)]
  /\ UNCHANGED barberLock

RejectStatus(s) ==
  /\ pc[s] = "appointment"
  /\ appointmentLock[request[s].appt] = None
  /\ ~StatusAllowed(s)
  /\ Refuse(s)

\* Faulty variant: a move does not consult the closures.
DateOpenForMoves(s) ==
  request[s].op = "create" =>
    /\ LocalDate(request[s].start) \notin closures
    /\ request[s].channel = "public" => request[s].start > clock

\* A public booking tests again that its start lies in the future.
DateOpen(s) ==
  /\ LocalDate(request[s].start) \notin closures
  /\ request[s].channel = "public" => request[s].start > clock

CheckClosure(s) ==
  /\ Proceed(s, "closure", "barber")
  /\ DateOpen(s)
  /\ UNCHANGED <<locks, loaded>>

RejectClosed(s) == pc[s] = "closure" /\ ~DateOpen(s) /\ Refuse(s)

\* A public booking still holds the Barber object it read as active, so the
\* test after FOR UPDATE repeats that reading.
BarberAccepted(s) == request[s].channel = "public" \/ isActive[request[s].barber]

\* Faulty variant: the barber is read without FOR UPDATE.
LockBarberUnlocked(s) ==
  /\ Proceed(s, "barber", "conflict")
  /\ BarberAccepted(s)
  /\ UNCHANGED <<locks, loaded>>

LockBarber(s) ==
  /\ Proceed(s, "barber", "conflict")
  /\ barberLock[request[s].barber] = None
  /\ BarberAccepted(s)
  /\ barberLock' = [barberLock EXCEPT ![request[s].barber] = s]
  /\ UNCHANGED <<appointmentLock, loaded>>

RejectInactive(s) ==
  /\ pc[s] = "barber"
  /\ barberLock[request[s].barber] = None
  /\ ~BarberAccepted(s)
  /\ Refuse(s)

\* Faulty variant: only a row with the same start counts as a conflict.
TakenSameStart(s) ==
  \E a \in Appointment \ {request[s].appt} :
    /\ Occupies(appointments[a], request[s].barber, request[s].start, request[s].stop)
    /\ appointments[a].start = request[s].start

Taken(s) ==
  HasActiveConflict(appointments, request[s].barber, request[s].start, request[s].stop, request[s].appt)

CheckConflict(s) ==
  /\ Proceed(s, "conflict", IF request[s].op = "create" THEN "create" ELSE "move")
  /\ ~Taken(s)
  /\ UNCHANGED <<locks, loaded>>

RejectConflict(s) == pc[s] = "conflict" /\ Taken(s) /\ Refuse(s)

-----------------------------------------------------------------------------
\* The commits.

CommitCreate(s) ==
  /\ pc[s] = "create"
  /\ appointments' =
       [appointments EXCEPT ![request[s].appt] =
          NewRow(request[s].barber, request[s].start, request[s].stop)]
  /\ UNCHANGED closures
  /\ Finish(s)

\* The UPDATE of a flush sets the columns whose new value differs from the object's.
Column(old, seen, new) == IF new = seen THEN old ELSE new

\* Faulty variant: a move asks for confirmation again.
MovedRowUnconfirmed(s) ==
  [appointments[request[s].appt] EXCEPT
     !.status = "scheduled", !.barber = request[s].barber,
     !.start = request[s].start, !.stop = request[s].stop]

MovedRow(s) ==
  LET row == appointments[request[s].appt] IN
  [row EXCEPT !.barber = Column(@, loaded[s].barber, request[s].barber),
              !.start = Column(@, loaded[s].start, request[s].start),
              !.stop = Column(@, loaded[s].stop, request[s].stop)]

CommitReschedule(s) ==
  /\ pc[s] = "move"
  /\ MovedRow(s).start < MovedRow(s).stop
  /\ appointments' = [appointments EXCEPT ![request[s].appt] = MovedRow(s)]
  /\ UNCHANGED closures
  /\ Finish(s)

\* ck_appointments_valid_time_range refuses the UPDATE.
RejectRange(s) == pc[s] = "move" /\ MovedRow(s).start >= MovedRow(s).stop /\ Refuse(s)

SettledRow(row, op) ==
  IF op = "notes" THEN row
  ELSE [row EXCEPT !.status = Target[op], !.paid = IF op = "complete" THEN TRUE ELSE @]

CommitStatus(s) ==
  /\ pc[s] = "settle"
  /\ appointments' = [appointments EXCEPT ![request[s].appt] = SettledRow(@, request[s].op)]
  /\ UNCHANGED closures
  /\ Finish(s)

\* Faulty variant: the closure stores an instant where a local date belongs.
CommitClosureInstant(s) ==
  /\ pc[s] = "close"
  /\ request[s].start \notin closures
  /\ closures' = closures \cup {request[s].start}
  /\ UNCHANGED appointments
  /\ Finish(s)

\* uq_business_closures_date refuses a second row of a date.
CommitClosure(s) ==
  /\ pc[s] = "close"
  /\ LocalDate(request[s].start) \notin closures
  /\ closures' = closures \cup {LocalDate(request[s].start)}
  /\ UNCHANGED appointments
  /\ Finish(s)

RejectClosure(s) == pc[s] = "close" /\ LocalDate(request[s].start) \in closures /\ Refuse(s)

\* A lost connection or a stopped process: the database rolls back.
Fail(s) == pc[s] # "idle" /\ Refuse(s)

-----------------------------------------------------------------------------
\* Requests of a single statement, and time.

DeleteClosure(d) ==
  /\ d \in closures
  /\ closures' = closures \ {d}
  /\ UNCHANGED <<appointments, isActive, locks, pc, request, loaded, clock>>

\* Faulty variant: the flag changes under the feet of a session that locked the row.
UpdateBarberUnlocked(b) ==
  /\ isActive' = [isActive EXCEPT ![b] = ~@]
  /\ UNCHANGED <<appointments, closures, locks, pc, request, loaded, clock>>

\* BarberService.update waits for the row lock of the barber it flushes.
UpdateBarber(b) ==
  /\ barberLock[b] = None
  /\ isActive' = [isActive EXCEPT ![b] = ~@]
  /\ UNCHANGED <<appointments, closures, locks, pc, request, loaded, clock>>

Tick ==
  /\ clock < Horizon
  /\ clock' = clock + 1
  /\ UNCHANGED <<appointments, closures, isActive, locks, pc, request, loaded>>

Arrive(s) ==
  \/ \E a \in Appointment, b \in Barber, i \in Intervals :
       \/ OwnerCreate(s, a, b, i)
       \/ PublicCreate(s, a, b, i)
       \/ \E channel \in {"owner", "token"} : Reschedule(s, a, channel, b, i)
  \/ \E a \in Appointment, op \in StaffOps : OwnerChange(s, a, op)
  \/ \E a \in Appointment, op \in AssignedOps, b \in Barber : BarberChange(s, a, op, b)
  \/ \E a \in Appointment, op \in TokenOps : TokenChange(s, a, op)
  \/ \E t \in Instant : CreateClosure(s, t)

AwaitAppointment(s) == LockAppointment(s) \/ RejectStatus(s)
AwaitBarber(s) == LockBarber(s) \/ RejectInactive(s)
Advance(s) ==
  \/ CheckClosure(s) \/ RejectClosed(s)
  \/ CheckConflict(s) \/ RejectConflict(s)
  \/ CommitCreate(s) \/ CommitReschedule(s) \/ RejectRange(s)
  \/ CommitStatus(s) \/ CommitClosure(s) \/ RejectClosure(s)

Next ==
  \/ \E s \in Session : Arrive(s) \/ AwaitAppointment(s) \/ AwaitBarber(s) \/ Advance(s) \/ Fail(s)
  \/ \E d \in Date : DeleteClosure(d)
  \/ \E b \in Barber : UpdateBarber(b)
  \/ Tick

Spec == Init /\ [][Next]_vars

\* A handler that can run does run, and PostgreSQL grants a row lock to its
\* waiters in turn.  Nothing makes callers send requests.
Fairness ==
  \A s \in Session :
    /\ WF_vars(Advance(s))
    /\ SF_vars(AwaitAppointment(s))
    /\ SF_vars(AwaitBarber(s))

FairSpec == Spec /\ Fairness

-----------------------------------------------------------------------------
\* Properties.

\* A barber never has two scheduled or confirmed appointments that overlap,
\* whatever the interleaving of conflict queries and commits.
NoDoubleBooking == NoOverlap(appointments)

\* A request that decides on an object read under its appointment's lock commits on that very
\* row, in a status its operation accepts, although booking tokens decide on older objects: a
\* move writes all it was asked for and keeps the rest, mixing no two versions.
LockedReadsHold ==
  [][\A s \in Session :
       LET a == request[s].appt
           old == appointments[a] IN
       request[s].channel # "token" =>
         /\ CommitReschedule(s) =>
              /\ old.status \in Active
              /\ appointments'[a] = [old EXCEPT !.barber = request[s].barber,
                                               !.start = request[s].start,
                                               !.stop = request[s].stop]
         /\ CommitStatus(s) => old.status \in Expected[request[s].op]]_vars

\* The payment of an appointment is recorded exactly when it is completed:
\* no other status change leaves one behind, and no completion lacks one.
PaidIffCompleted ==
  \A a \in Appointment : appointments[a].paid <=> appointments[a].status = "completed"

\* No appointment leaves cancelled, completed or no_show, even if the request
\* that changes it was accepted while it was still active.
FinalStatesStay ==
  [][\A a \in Appointment :
       appointments[a].status \in Final => appointments'[a].status = appointments[a].status]_vars

\* The rows that take time of a barber in this step: inserted or moved.
TakesTime(a) ==
  /\ appointments'[a].status \in Active
  /\ \/ appointments[a].status = "none"
     \/ appointments'[a].barber # appointments[a].barber
     \/ appointments'[a].start # appointments[a].start

\* Time is only taken of a barber who is active at that moment: a
\* deactivation cannot slip in between the test of is_active and the commit.
BookedBarberActive ==
  [][\A a \in Appointment : TakesTime(a) => isActive[appointments'[a].barber]]_vars

\* No active appointment starts on a date the business has closed, although
\* bookings test closures and closures count bookings.
ClosedDatesFree ==
  \A a \in Appointment :
    appointments[a].status \in Active => LocalDate(appointments[a].start) \notin closures

\* A professional's request changes only appointments assigned to them at the
\* moment of the change.
AssignedOnly ==
  [][\A s \in Session :
       (pc[s] = "settle" /\ appointments' # appointments /\ pc'[s] = "idle"
          /\ request[s].channel = "barber")
       => appointments[request[s].appt].barber = request[s].barber]_vars

\* Session s waits for a row lock that t holds.
WaitsFor(s, t) ==
  \/ pc[s] = "appointment" /\ appointmentLock[request[s].appt] = t
  \/ pc[s] = "barber" /\ barberLock[request[s].barber] = t

\* No set of sessions all wait for row locks that members of the set hold: the
\* database never has to break a deadlock between scheduling requests.
NoWaitCycle ==
  \A waiting \in (SUBSET Session) \ {{}} :
    \E s \in waiting : \A t \in waiting : ~WaitsFor(s, t)

\* Every request is answered, whatever the other sessions do with the locks.
RequestsFinish == \A s \in Session : pc[s] # "idle" ~> pc[s] = "idle"

\* The requests implement the atomic promises of Calendar.
Promised == INSTANCE Calendar WITH book <- appointments
ImplementsCalendar == Promised!Spec

-----------------------------------------------------------------------------
\* Why there is no double booking when no request carries a stale object: the
\* inductive invariant of the channels that load appointments under the lock.

OpsAt ==
  [idle |-> {"none"}, appointment |-> StaffOps \cup {"reschedule"},
   closure |-> {"create", "reschedule"}, barber |-> {"create", "reschedule"},
   conflict |-> {"create", "reschedule"}, create |-> {"create"}, move |-> {"reschedule"},
   settle |-> StaffOps, close |-> {"close"}]

\* The step of a session and its request fit each other.
RequestShape ==
  \A s \in Session :
    /\ request[s].op \in OpsAt[pc[s]]
    /\ request[s].op \in {"none", "close"} <=> request[s].appt = None
    /\ request[s].op \in {"create", "reschedule"} =>
         request[s].barber \in Barber /\ request[s].start < request[s].stop

HoldsAppointment(s) ==
  \/ pc[s] \in {"move", "settle"}
  \/ pc[s] \in {"closure", "barber", "conflict"} /\ request[s].op = "reschedule"
HoldsBarber(s) == pc[s] \in {"conflict", "create", "move"}

\* A session past the status guard holds the appointment's row lock, and its
\* object still is the committed row, in a status its operation accepts.
LoadedIsCurrent ==
  \A s \in Session : HoldsAppointment(s) =>
    /\ appointmentLock[request[s].appt] = s
    /\ loaded[s] = appointments[request[s].appt]
    /\ loaded[s].status \in Expected[request[s].op]

\* A session past the activity test holds the barber's row lock.
BarberIsLocked ==
  \A s \in Session : HoldsBarber(s) => barberLock[request[s].barber] = s

\* Every row lock belongs to a session that is past the step that takes it.
LocksHaveHolders ==
  /\ \A a \in Appointment : appointmentLock[a] # None =>
       HoldsAppointment(appointmentLock[a]) /\ request[appointmentLock[a]].appt = a
  /\ \A b \in Barber : barberLock[b] # None =>
       HoldsBarber(barberLock[b]) /\ request[barberLock[b]].barber = b

\* Nobody else knows the identifier of a row that is being created.
NewRowsUnknown ==
  \A s \in Session : request[s].op = "create" =>
    /\ appointments[request[s].appt].status = "none"
    /\ \A t \in Session \ {s} : request[t].appt # request[s].appt

\* The answer of a conflict query stays true until its session commits.
TimeStaysFree == \A s \in Session : pc[s] \in {"create", "move"} => ~Taken(s)

\* Everything a guard or a query has established still holds when its session
\* commits, and the committed table has no overlap and no misplaced payment.
IInv ==
  /\ TypeOK
  /\ RequestShape
  /\ LoadedIsCurrent
  /\ BarberIsLocked
  /\ LocksHaveHolders
  /\ NewRowsUnknown
  /\ TimeStaysFree
  /\ NoDoubleBooking
  /\ PaidIffCompleted
=============================================================================
