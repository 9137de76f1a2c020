--------------------------- MODULE SchedulingProofs ---------------------------
(***************************************************************************)
(* What is proved of Scheduling for every set of sessions, appointments    *)
(* and barbers.  TypeShape holds whoever calls; IInv, and with it the      *)
(* absence of double bookings, holds when no request comes with a booking  *)
(* token, so that every guard tests an object loaded under the row lock.   *)
(***************************************************************************)
EXTENDS Scheduling, TLAPS

TypeShape == TypeOK /\ RequestShape

\* The shape a request must have when its handler starts at a step.
WellFormed(step, r) ==
  /\ step \in Steps
  /\ r \in Request
  /\ r.op \in OpsAt[step]
  /\ r.op \in {"none", "close"} <=> r.appt = None
  /\ r.op \in {"create", "reschedule"} => r.barber \in Barber /\ r.start < r.stop

-----------------------------------------------------------------------------
\* Types.

\* A row just inserted, and the row of no appointment, have the table's columns.
LEMMA RowTypes ==
  /\ NoRow \in Row
  /\ \A b \in Barber \cup {None}, t, u \in Instant : NewRow(b, t, u) \in Row
  BY TimeAssumption DEF NoRow, NewRow, Row, Status, Active, Final, Instant

\* A handler that starts with a well-formed request keeps types and shapes.
LEMMA BeginTypes ==
  ASSUME TypeShape, NEW s \in Session, NEW step, NEW r, NEW row \in Row,
         Begin(s, step, r, row), WellFormed(step, r)
  PROVE  TypeShape'
<1>1. TypeOK'
  BY DEF TypeShape, TypeOK, Begin, WellFormed, locks
<1>2. RequestShape'
  BY DEF TypeShape, TypeOK, RequestShape, Begin, WellFormed
<1> QED BY <1>1, <1>2 DEF TypeShape

\* Ending a session keeps types and shapes, whatever it wrote.
LEMMA FinishTypes ==
  ASSUME TypeShape, NEW s \in Session, Finish(s),
         appointments' \in [Appointment -> Row], closures' \subseteq Date
  PROVE  TypeShape'
<1>1. NoRequest \in Request
  BY TimeAssumption DEF NoRequest, Ask, Request, Instant
<1>2. TypeOK'
  BY <1>1, RowTypes DEF TypeShape, TypeOK, Finish, Free, Steps
<1>3. RequestShape'
  BY DEF TypeShape, TypeOK, RequestShape, Finish, NoRequest, Ask, OpsAt
<1> QED BY <1>2, <1>3 DEF TypeShape

\* So does a refusal, which writes nothing.
LEMMA RefuseTypes ==
  ASSUME TypeShape, NEW s \in Session, Refuse(s)
  PROVE  TypeShape'
  BY FinishTypes DEF Refuse, TypeShape, TypeOK

\* Each arriving request is well formed.
LEMMA ArriveTypes ==
  ASSUME TypeShape, NEW s \in Session, Arrive(s)
  PROVE  TypeShape'
<1>0. \A i \in Intervals : i[1] \in Instant /\ i[2] \in Instant /\ i[1] < i[2]
  BY IntervalsAssumption
<1>1. ASSUME NEW step \in {"appointment", "closure", "close"}, NEW op \in OpsAt[step], NEW channel,
             NEW a \in Appointment \cup {None}, NEW b \in Barber \cup {None},
             NEW start \in Instant, NEW stop \in Instant, NEW row \in Row,
             Begin(s, step, Ask(op, channel, a, b, start, stop), row),
             op = "close" <=> a = None,
             op \in {"create", "reschedule"} => b \in Barber /\ start < stop
      PROVE  TypeShape'
  <2>1. channel \in Channel
    BY <1>1 DEF Begin, Ask
  <2>2. WellFormed(step, Ask(op, channel, a, b, start, stop))
    BY <1>1, <2>1 DEF WellFormed, Ask, Steps, OpsAt, StaffOps, Request
  <2> QED BY <1>1, <2>2, BeginTypes
<1>2. /\ \A a \in Appointment : a # None /\ appointments[a] \in Row
      /\ NoRow \in Row
      /\ 0 \in Instant
      /\ OpsAt["appointment"] = StaffOps \cup {"reschedule"}
      /\ OpsAt["closure"] = {"create", "reschedule"}
      /\ OpsAt["close"] = {"close"}
  BY RowTypes, NoneAssumption, TimeAssumption DEF TypeShape, TypeOK, Instant, OpsAt
<1>3. ASSUME NEW a \in Appointment, NEW b \in Barber, NEW i \in Intervals,
             \/ OwnerCreate(s, a, b, i)
             \/ PublicCreate(s, a, b, i)
             \/ \E channel \in {"owner", "token"} : Reschedule(s, a, channel, b, i)
      PROVE  TypeShape'
  BY <1>0, <1>1, <1>2, <1>3 DEF OwnerCreate, PublicCreate, Reschedule
<1>4. ASSUME NEW a \in Appointment, NEW op \in StaffOps,
             \/ OwnerChange(s, a, op)
             \/ \E b \in Barber : BarberChange(s, a, op, b)
             \/ TokenChange(s, a, op)
      PROVE  TypeShape'
  BY <1>1, <1>2, <1>4 DEF OwnerChange, BarberChange, TokenChange, StaffOps
<1>5. ASSUME NEW t \in Instant, CreateClosure(s, t)
      PROVE  TypeShape'
  BY <1>1, <1>2, <1>5 DEF CreateClosure
<1> QED BY <1>3, <1>4, <1>5 DEF Arrive, AssignedOps, TokenOps, StaffOps

\* What the step of a session says of its request.
LEMMA RequestFacts ==
  ASSUME TypeShape, NEW s \in Session
  PROVE  /\ request[s] \in Request
         /\ pc[s] \notin {"idle", "close"} =>
              request[s].appt \in Appointment /\ appointments[request[s].appt] \in Row
         /\ pc[s] \in {"closure", "barber", "conflict", "create", "move"} =>
              request[s].barber \in Barber /\ request[s].start < request[s].stop
         /\ pc[s] = "appointment" => request[s].op \in StaffOps \cup {"reschedule"}
         /\ pc[s] \in {"closure", "barber", "conflict"} => request[s].op \in {"create", "reschedule"}
         /\ pc[s] = "create" => request[s].op = "create"
         /\ pc[s] = "move" => request[s].op = "reschedule"
         /\ pc[s] = "settle" => request[s].op \in StaffOps
  BY DEF TypeShape, TypeOK, RequestShape, OpsAt, Steps, Request, StaffOps

\* The steps before the commits keep types and shapes.
LEMMA ProceedTypes ==
  ASSUME TypeShape, NEW s \in Session,
         LockAppointment(s) \/ CheckClosure(s) \/ LockBarber(s) \/ CheckConflict(s)
  PROVE  TypeShape'
<1>1. PICK to \in Steps :
        /\ pc' = [pc EXCEPT ![s] = to]
        /\ request[s].op \in OpsAt[to]
        /\ UNCHANGED <<appointments, closures, isActive, request, clock>>
  BY RequestFacts DEF LockAppointment, CheckClosure, LockBarber, CheckConflict, Proceed,
     Steps, OpsAt, StaffOps
<1>2. /\ appointmentLock' \in [Appointment -> Session \cup {None}]
      /\ barberLock' \in [Barber -> Session \cup {None}]
      /\ loaded' \in [Session -> Row]
  BY RequestFacts DEF LockAppointment, CheckClosure, LockBarber, CheckConflict, Proceed,
     RowSeen, TypeShape, TypeOK, locks
<1>3. TypeOK'
  BY <1>1, <1>2 DEF TypeShape, TypeOK
<1>4. RequestShape'
  BY <1>1 DEF TypeShape, TypeOK, RequestShape
<1> QED BY <1>3, <1>4 DEF TypeShape

\* What a status operation makes of a row, column by column.
LEMMA SettledColumns ==
  ASSUME NEW row \in Row, NEW op \in StaffOps
  PROVE  LET new == SettledRow(row, op) IN
         /\ op = "notes" => new = row
         /\ op # "notes" => /\ new.status = Target[op]
                            /\ op = "complete" => new.paid
                            /\ op # "complete" => new.paid = row.paid
         /\ new.barber = row.barber
         /\ new.start = row.start
         /\ new.stop = row.stop
  BY DEF SettledRow, Row

\* The lifecycle: only confirm leaves an active status, only complete leaves
\* completed, and no operation but notes accepts a final status.
LEMMA Lifecycle ==
  ASSUME NEW op \in StaffOps
  PROVE  /\ op # "notes" /\ Target[op] \in Active => op = "confirm"
         /\ op # "notes" => (Target[op] = "completed" <=> op = "complete")
         /\ op # "notes" => Expected[op] \subseteq Active
         /\ Expected[op] \subseteq Active \cup Final
<1>1. CASE op = "notes"
  BY <1>1 DEF Expected
<1>2. CASE op \in {"confirm", "cancel", "complete", "no_show"}
  <2>1. /\ Target["confirm"] = "confirmed" /\ Target["cancel"] = "cancelled"
        /\ Target["complete"] = "completed" /\ Target["no_show"] = "no_show"
    BY DEF Target
  <2>2. /\ Expected["confirm"] = {"scheduled"} /\ Expected["cancel"] = Active
        /\ Expected["complete"] = Active /\ Expected["no_show"] = Active
    BY DEF Expected
  <2> QED BY <1>2, <2>1, <2>2 DEF Active
<1> QED BY <1>1, <1>2 DEF StaffOps

\* A status operation keeps the columns' types.
LEMMA SettledTypes == \A row \in Row, op \in StaffOps : SettledRow(row, op) \in Row
<1> SUFFICES ASSUME NEW row \in Row, NEW op \in StaffOps
             PROVE  SettledRow(row, op) \in Row
  OBVIOUS
<1>1. CASE op = "notes"
  BY <1>1 DEF SettledRow
<1>2. CASE op # "notes"
  <2> DEFINE status == Target[op]
             paid == IF op = "complete" THEN TRUE ELSE row.paid
  <2>1. status \in Status
    BY <1>2 DEF Target, StaffOps, Status, Active, Final
  <2>2. paid \in BOOLEAN
    BY DEF Row
  <2>3. SettledRow(row, op) = [row EXCEPT !.status = status, !.paid = paid]
    BY <1>2 DEF SettledRow
  <2> HIDE DEF status, paid
  <2> QED BY <2>1, <2>2, <2>3 DEF Row
<1> QED BY <1>1, <1>2

\* The commits write rows and dates of the tables' types.
LEMMA CommitTypes ==
  ASSUME TypeShape, NEW s \in Session,
         CommitCreate(s) \/ CommitReschedule(s) \/ CommitStatus(s) \/ CommitClosure(s)
  PROVE  TypeShape'
<1>1. CASE CommitCreate(s)
  <2>1. NewRow(request[s].barber, request[s].start, request[s].stop) \in Row
    BY RequestFacts, RowTypes DEF Request
  <2> QED BY <1>1, <2>1, FinishTypes DEF CommitCreate, TypeShape, TypeOK
<1>2. CASE CommitReschedule(s)
  <2>1. request[s].barber \in Barber \cup {None} /\ request[s].start \in Instant
          /\ request[s].stop \in Instant
    BY RequestFacts DEF Request
  <2>2. pc[s] = "move" /\ appointments[request[s].appt] \in Row
    BY <1>2, RequestFacts DEF CommitReschedule
  <2>3. MovedRow(s) \in Row
    BY <2>1, <2>2 DEF MovedRow, Column, Row
  <2> QED BY <1>2, <2>3, FinishTypes DEF CommitReschedule, TypeShape, TypeOK
<1>3. CASE CommitStatus(s)
  <2> QED BY <1>3, SettledTypes, RequestFacts, FinishTypes DEF CommitStatus, TypeShape, TypeOK
<1>4. CASE CommitClosure(s)
  BY <1>4, RequestFacts, FinishTypes DEF CommitClosure, TypeShape, TypeOK, Request, Date
<1> QED BY <1>1, <1>2, <1>3, <1>4

\* Every step keeps types and shapes.
LEMMA TypeStep == TypeShape /\ [Next]_vars => TypeShape'
<1> SUFFICES ASSUME TypeShape, [Next]_vars
             PROVE  TypeShape'
  OBVIOUS
<1>1. ASSUME NEW s \in Session, AwaitAppointment(s) \/ AwaitBarber(s) \/ Advance(s) \/ Fail(s)
      PROVE  TypeShape'
  BY <1>1, ProceedTypes, CommitTypes, RefuseTypes
  DEF AwaitAppointment, AwaitBarber, Advance, Fail, RejectStatus, RejectClosed, RejectInactive,
      RejectConflict, RejectRange, RejectClosure
<1>2. CASE (\E d \in Date : DeleteClosure(d)) \/ (\E b \in Barber : UpdateBarber(b)) \/ Tick
  <2>1. /\ closures' \subseteq Date
        /\ clock' \in Instant
        /\ UNCHANGED <<appointments, appointmentLock, barberLock, pc, request, loaded>>
    BY <1>2, TimeAssumption
    DEF TypeShape, TypeOK, DeleteClosure, UpdateBarber, Tick, Instant, locks
  <2>2. isActive' \in [Barber -> BOOLEAN]
    BY <1>2 DEF TypeShape, TypeOK, DeleteClosure, UpdateBarber, Tick
  <2>3. TypeOK'
    BY <2>1, <2>2 DEF TypeShape, TypeOK
  <2>4. RequestShape'
    BY <2>1 DEF TypeShape, RequestShape
  <2> QED BY <2>3, <2>4 DEF TypeShape
<1>3. CASE UNCHANGED vars
  BY <1>3 DEF vars, locks, TypeShape, TypeOK, RequestShape
<1> QED BY <1>1, <1>2, <1>3, ArriveTypes DEF Next

\* The initial tables and sessions have their types and shapes.
LEMMA TypeInit == Init => TypeShape
  BY RowTypes, TimeAssumption DEF Init, TypeShape, TypeOK, RequestShape, NoRequest, Ask, Request,
     Steps, OpsAt, Instant

\* Type correctness, whoever calls: the tables, the locks and the sessions of
\* the scheduling requests keep their types in every behaviour.
THEOREM TypeCorrect == Spec => []TypeOK
<1>1. Spec => []TypeShape
  BY TypeInit, TypeStep, PTL DEF Spec
<1>2. TypeShape => TypeOK
  BY DEF TypeShape
<1> QED BY <1>1, <1>2, PTL

\* A request arrives for a new identifier, for an existing row, or for a date.
LEMMA ArriveFacts ==
  ASSUME NEW s \in Session, Arrive(s)
  PROVE  \E step, r, row :
           /\ Begin(s, step, r, row)
           /\ \/ step = "closure" /\ r.op = "create" /\ Unused(r.appt)
              \/ step = "appointment" /\ r.op # "create" /\ Exists(r.appt)
              \/ step = "close" /\ r.op = "close" /\ r.appt = None
<1>1. ASSUME NEW a \in Appointment, NEW b \in Barber, NEW i \in Intervals,
             OwnerCreate(s, a, b, i) \/ PublicCreate(s, a, b, i)
      PROVE  \E r, row : Begin(s, "closure", r, row) /\ r.op = "create" /\ Unused(r.appt)
  BY <1>1 DEF OwnerCreate, PublicCreate, Ask
<1>2. ASSUME NEW a \in Appointment, NEW b \in Barber, NEW i \in Intervals, NEW channel,
             Reschedule(s, a, channel, b, i)
      PROVE  \E r, row : Begin(s, "appointment", r, row) /\ r.op # "create" /\ Exists(r.appt)
  BY <1>2 DEF Reschedule, Ask
<1>3. ASSUME NEW a \in Appointment, NEW op \in StaffOps,
             \/ OwnerChange(s, a, op)
             \/ \E b \in Barber : BarberChange(s, a, op, b)
             \/ TokenChange(s, a, op)
      PROVE  \E r, row : Begin(s, "appointment", r, row) /\ r.op # "create" /\ Exists(r.appt)
  <2>1. PICK channel, b, row : Begin(s, "appointment", Ask(op, channel, a, b, 0, 0), row)
    BY <1>3 DEF OwnerChange, BarberChange, TokenChange
  <2>2. Exists(a)
    BY <1>3 DEF OwnerChange, BarberChange, TokenChange
  <2>3. Ask(op, channel, a, b, 0, 0).op # "create" /\ Ask(op, channel, a, b, 0, 0).appt = a
    BY DEF Ask, StaffOps
  <2> QED BY <2>1, <2>2, <2>3
<1>4. ASSUME NEW t \in Instant, CreateClosure(s, t)
      PROVE  \E r, row : Begin(s, "close", r, row) /\ r.op = "close" /\ r.appt = None
  BY <1>4 DEF CreateClosure, Ask
<1> QED BY <1>1, <1>2, <1>3, <1>4 DEF Arrive, AssignedOps, TokenOps, StaffOps

\* What the end of session s leaves the others.
LEMMA FinishFacts ==
  ASSUME TypeShape, NEW s \in Session, Finish(s)
  PROVE  /\ pc'[s] = "idle" /\ request'[s].op = "none" /\ request'[s].appt = None
         /\ \A t \in Session \ {s} :
              /\ pc'[t] = pc[t] /\ request'[t] = request[t] /\ loaded'[t] = loaded[t]
              /\ \A a \in Appointment : appointmentLock[a] = t => appointmentLock'[a] = t
              /\ \A b \in Barber : barberLock[b] = t => barberLock'[b] = t
  BY DEF Finish, Free, NoRequest, Ask, TypeShape, TypeOK

-----------------------------------------------------------------------------
\* Who holds the row locks, and why nobody waits in a circle.

\* A lock changes hands only by the steps that take it and by the end of its
\* holder's session.
LEMMA HoldersStep == TypeShape /\ LocksHaveHolders /\ [Next]_vars => LocksHaveHolders'
<1> SUFFICES ASSUME TypeShape, LocksHaveHolders, [Next]_vars
             PROVE  LocksHaveHolders'
  OBVIOUS
<1>0. /\ \A a \in Appointment : appointmentLock[a] \in Session \cup {None}
      /\ \A b \in Barber : barberLock[b] \in Session \cup {None}
  BY DEF TypeShape, TypeOK
<1>1. ASSUME UNCHANGED <<appointmentLock, barberLock, pc, request>>
      PROVE  LocksHaveHolders'
  BY <1>1 DEF LocksHaveHolders, HoldsAppointment, HoldsBarber
<1>2. ASSUME NEW s \in Session, Arrive(s)
      PROVE  LocksHaveHolders'
  <2>1. PICK step, r, row : Begin(s, step, r, row)
    BY <1>2, ArriveFacts
  <2>2. /\ UNCHANGED <<appointmentLock, barberLock>> /\ pc[s] = "idle"
        /\ \A t \in Session \ {s} : pc'[t] = pc[t] /\ request'[t] = request[t]
    BY <2>1 DEF Begin, locks, TypeShape, TypeOK
  <2>3. ~HoldsAppointment(s) /\ ~HoldsBarber(s)
    BY <2>2 DEF HoldsAppointment, HoldsBarber
  <2> QED BY <1>0, <2>2, <2>3 DEF LocksHaveHolders, HoldsAppointment, HoldsBarber
<1>3. ASSUME NEW s \in Session, Finish(s)
      PROVE  LocksHaveHolders'
  <2>1. /\ \A a \in Appointment : appointmentLock'[a] # None =>
             appointmentLock'[a] = appointmentLock[a] /\ appointmentLock[a] \in Session \ {s}
        /\ \A b \in Barber : barberLock'[b] # None =>
             barberLock'[b] = barberLock[b] /\ barberLock[b] \in Session \ {s}
    BY <1>0, <1>3 DEF Finish, Free, TypeShape, TypeOK
  <2>2. \A t \in Session \ {s} : pc'[t] = pc[t] /\ request'[t] = request[t]
    BY <1>3, FinishFacts
  <2> QED BY <2>1, <2>2 DEF LocksHaveHolders, HoldsAppointment, HoldsBarber
<1>4. ASSUME NEW s \in Session,
             LockAppointment(s) \/ CheckClosure(s) \/ LockBarber(s) \/ CheckConflict(s)
      PROVE  LocksHaveHolders'
  <2>1. /\ UNCHANGED request
        /\ \A t \in Session \ {s} : pc'[t] = pc[t]
        /\ HoldsAppointment(s) => HoldsAppointment(s)'
        /\ HoldsBarber(s) => HoldsBarber(s)'
    BY <1>4, RequestFacts
    DEF LockAppointment, CheckClosure, LockBarber, CheckConflict, Proceed, HoldsAppointment,
        HoldsBarber, TypeShape, TypeOK
  <2>2. \A t \in Session : /\ HoldsAppointment(t) => HoldsAppointment(t)'
                           /\ HoldsBarber(t) => HoldsBarber(t)'
    BY <2>1 DEF HoldsAppointment, HoldsBarber
  <2>3. \A a \in Appointment : appointmentLock'[a] # appointmentLock[a] =>
          appointmentLock'[a] = s /\ HoldsAppointment(s)' /\ request[s].appt = a
    BY <1>4, RequestFacts
    DEF LockAppointment, CheckClosure, LockBarber, CheckConflict, Proceed, HoldsAppointment,
        locks, TypeShape, TypeOK
  <2>4. \A b \in Barber : barberLock'[b] # barberLock[b] =>
          barberLock'[b] = s /\ HoldsBarber(s)' /\ request[s].barber = b
    BY <1>4, RequestFacts
    DEF LockAppointment, CheckClosure, LockBarber, CheckConflict, Proceed, HoldsBarber,
        locks, TypeShape, TypeOK
  <2> QED BY <1>0, <2>1, <2>2, <2>3, <2>4 DEF LocksHaveHolders
<1>5. ASSUME NEW s \in Session, AwaitAppointment(s) \/ AwaitBarber(s) \/ Advance(s) \/ Fail(s)
      PROVE  LocksHaveHolders'
  BY <1>3, <1>4, <1>5
  DEF AwaitAppointment, AwaitBarber, Advance, Fail, RejectStatus, RejectClosed, RejectInactive,
      RejectConflict, RejectRange, RejectClosure, Refuse, CommitCreate, CommitReschedule,
      CommitStatus, CommitClosure
<1>6. CASE (\E d \in Date : DeleteClosure(d)) \/ (\E b \in Barber : UpdateBarber(b)) \/ Tick
             \/ UNCHANGED vars
  BY <1>1, <1>6 DEF DeleteClosure, UpdateBarber, Tick, vars, locks
<1> QED BY <1>2, <1>5, <1>6 DEF Next

\* A session that waits for an appointment holds nothing, one that waits for a
\* barber is waited for only by sessions of the first kind, and the holder of a
\* barber waits for nobody.
LEMMA NoCircle == TypeShape /\ LocksHaveHolders => NoWaitCycle
<1> SUFFICES ASSUME TypeShape, LocksHaveHolders,
                    NEW waiting \in (SUBSET Session) \ {{}},
                    \A s \in waiting : \E t \in waiting : WaitsFor(s, t)
             PROVE  FALSE
  BY DEF NoWaitCycle
<1>1. ASSUME NEW s \in waiting, NEW t \in waiting, WaitsFor(s, t)
      PROVE  /\ pc[s] \in {"appointment", "barber"}
             /\ pc[s] = "barber" => HoldsBarber(t)
             /\ pc[s] = "appointment" => HoldsAppointment(t)
  <2>1. t # None
    BY SessionAssumption
  <2> QED BY <1>1, <2>1, RequestFacts DEF WaitsFor, LocksHaveHolders
<1>2. \A s \in waiting : pc[s] # "barber"
  BY <1>1 DEF HoldsBarber
<1>3. \A s \in waiting : pc[s] # "appointment"
  BY <1>1, <1>2 DEF HoldsAppointment
<1>4. PICK s \in waiting : TRUE
  OBVIOUS
<1>5. PICK t \in waiting : WaitsFor(s, t)
  BY <1>4
<1> QED BY <1>1, <1>2, <1>3, <1>5

\* No deadlock between scheduling requests, whoever calls: the order of the row
\* locks, the appointment before the barber, leaves no circle of waiting.
THEOREM DeadlockFree == Spec => []NoWaitCycle
<1>1. Init => LocksHaveHolders
  BY DEF Init, LocksHaveHolders
<1>2. Spec => [](TypeShape /\ LocksHaveHolders)
  BY <1>1, TypeInit, TypeStep, HoldersStep, PTL DEF Spec
<1> QED BY <1>2, NoCircle, PTL

-----------------------------------------------------------------------------
\* No double booking.

Core ==
  /\ LoadedIsCurrent
  /\ BarberIsLocked
  /\ NewRowsUnknown
  /\ TimeStaysFree
  /\ NoDoubleBooking
  /\ PaidIffCompleted

\* The guard of a request that waits for its appointment reads the committed row: no booking
\* token is used while another request changes the row.
FreshGuards == \A s \in Session : pc[s] = "appointment" => RowSeen(s) = appointments[request[s].appt]

\* The same, asked only of the requests that are granted their lock: no token acts on an object
\* that another request has changed.
FreshGrants == \A s \in Session : LockAppointment(s) => RowSeen(s) = appointments[request[s].appt]

LEMMA GuardsGrant == FreshGuards => FreshGrants
  BY DEF FreshGuards, FreshGrants, LockAppointment, Proceed

\* Only a booking token brings an object from before the lock.
LEMMA TokensAbsent ==
  ASSUME TypeShape, "token" \notin Channel
  PROVE  FreshGuards
BY RequestFacts, ChannelAssumption DEF FreshGuards, RowSeen, Request

LEMMA IInvSplit == IInv <=> TypeShape /\ Core /\ LocksHaveHolders
  BY DEF IInv, TypeShape, Core

\* Steps that touch neither rows, locks nor sessions keep the core.
LEMMA CoreSteady ==
  ASSUME Core, UNCHANGED <<appointments, appointmentLock, barberLock, pc, request, loaded>>
  PROVE  Core'
  BY DEF Core, LoadedIsCurrent, BarberIsLocked, NewRowsUnknown, TimeStaysFree, NoDoubleBooking,
     PaidIffCompleted, HoldsAppointment, HoldsBarber, Taken

\* A request that arrives holds nothing yet and claims no known new row.
LEMMA CoreArrive ==
  ASSUME TypeShape, Core, NEW s \in Session, Arrive(s)
  PROVE  Core'
<1>1. PICK step, r, row :
        /\ Begin(s, step, r, row)
        /\ \/ step = "closure" /\ r.op = "create" /\ Unused(r.appt)
           \/ step = "appointment" /\ r.op # "create" /\ Exists(r.appt)
           \/ step = "close" /\ r.op = "close" /\ r.appt = None
  BY ArriveFacts
<1>2. /\ UNCHANGED <<appointments, appointmentLock, barberLock>>
      /\ pc'[s] = step /\ request'[s] = r
      /\ \A t \in Session \ {s} :
           pc'[t] = pc[t] /\ request'[t] = request[t] /\ loaded'[t] = loaded[t]
  BY <1>1 DEF Begin, locks, TypeShape, TypeOK
<1>3. LoadedIsCurrent' /\ BarberIsLocked' /\ TimeStaysFree'
  BY <1>1, <1>2 DEF Core, LoadedIsCurrent, BarberIsLocked, TimeStaysFree, HoldsAppointment,
     HoldsBarber, Taken
<1>4. NewRowsUnknown'
  <2>1. ASSUME NEW t \in Session \ {s}, request[t].op = "create"
        PROVE  r.appt # request[t].appt
    <3>1. appointments[request[t].appt].status = "none" /\ request[t].appt # None
      BY <2>1 DEF Core, NewRowsUnknown, TypeShape, RequestShape
    <3> QED BY <1>1, <3>1 DEF Unused, Exists
  <2> QED BY <1>1, <1>2, <2>1 DEF Core, NewRowsUnknown, Unused
<1>5. NoDoubleBooking' /\ PaidIffCompleted'
  BY <1>2 DEF Core, NoDoubleBooking, PaidIffCompleted
<1> QED BY <1>3, <1>4, <1>5 DEF Core

\* Locks taken one at a time keep the core: a lock is granted only when free.
LEMMA CoreProceed ==
  ASSUME TypeShape, Core, FreshGrants, NEW s \in Session,
         LockAppointment(s) \/ CheckClosure(s) \/ LockBarber(s) \/ CheckConflict(s)
  PROVE  Core'
<1>1. /\ UNCHANGED <<appointments, request>>
      /\ \A t \in Session \ {s} : pc'[t] = pc[t] /\ loaded'[t] = loaded[t]
  BY DEF LockAppointment, CheckClosure, LockBarber, CheckConflict, Proceed, TypeShape, TypeOK, locks
<1>2. NewRowsUnknown' /\ NoDoubleBooking' /\ PaidIffCompleted'
  BY <1>1 DEF Core, NewRowsUnknown, NoDoubleBooking, PaidIffCompleted
<1>3. CASE LockAppointment(s)
  <2>1. RowSeen(s) = appointments[request[s].appt]
    BY <1>3 DEF FreshGrants
  <2>2. LoadedIsCurrent'
    BY <1>1, <1>3, <2>1, RequestFacts, SessionAssumption
    DEF LockAppointment, Proceed, StatusAllowed, Core, LoadedIsCurrent, HoldsAppointment,
        TypeShape, TypeOK
  <2>3. BarberIsLocked' /\ TimeStaysFree'
    BY <1>1, <1>3 DEF LockAppointment, Proceed, Core, BarberIsLocked, TimeStaysFree, HoldsBarber,
       Taken, TypeShape, TypeOK
  <2> QED BY <1>2, <2>2, <2>3 DEF Core
<1>4. CASE CheckClosure(s)
  <2>1. LoadedIsCurrent'
    BY <1>1, <1>4 DEF CheckClosure, Proceed, Core, LoadedIsCurrent, HoldsAppointment, locks,
       TypeShape, TypeOK
  <2>2. BarberIsLocked' /\ TimeStaysFree'
    BY <1>1, <1>4 DEF CheckClosure, Proceed, Core, BarberIsLocked, TimeStaysFree, HoldsBarber,
       Taken, locks, TypeShape, TypeOK
  <2> QED BY <1>2, <2>1, <2>2 DEF Core
<1>5. CASE LockBarber(s)
  <2>1. LoadedIsCurrent'
    BY <1>1, <1>5 DEF LockBarber, Proceed, Core, LoadedIsCurrent, HoldsAppointment, TypeShape, TypeOK
  <2>2. BarberIsLocked'
    BY <1>1, <1>5, RequestFacts, SessionAssumption
    DEF LockBarber, Proceed, Core, BarberIsLocked, HoldsBarber, TypeShape, TypeOK
  <2>3. TimeStaysFree'
    BY <1>1, <1>5 DEF LockBarber, Proceed, Core, TimeStaysFree, Taken, TypeShape, TypeOK
  <2> QED BY <1>2, <2>1, <2>2, <2>3 DEF Core
<1>6. CASE CheckConflict(s)
  <2>1. LoadedIsCurrent'
    BY <1>1, <1>6, RequestFacts
    DEF CheckConflict, Proceed, Core, LoadedIsCurrent, HoldsAppointment, locks, TypeShape, TypeOK
  <2>2. BarberIsLocked' /\ TimeStaysFree'
    BY <1>1, <1>6 DEF CheckConflict, Proceed, Core, BarberIsLocked, TimeStaysFree, HoldsBarber,
       Taken, locks, TypeShape, TypeOK
  <2> QED BY <1>2, <2>1, <2>2 DEF Core
<1> QED BY <1>3, <1>4, <1>5, <1>6

\* A session that ends without touching the table keeps the core.
LEMMA CoreFinish ==
  ASSUME TypeShape, Core, NEW s \in Session, Finish(s), UNCHANGED appointments
  PROVE  Core'
<1>1. LoadedIsCurrent'
  BY FinishFacts, RequestFacts DEF Core, LoadedIsCurrent, HoldsAppointment
<1>2. BarberIsLocked'
  BY FinishFacts, RequestFacts DEF Core, BarberIsLocked, HoldsBarber
<1>3. NewRowsUnknown'
  BY FinishFacts DEF Core, NewRowsUnknown, TypeShape, RequestShape
<1>4. TimeStaysFree' /\ NoDoubleBooking' /\ PaidIffCompleted'
  BY FinishFacts DEF Core, TimeStaysFree, Taken, NoDoubleBooking, PaidIffCompleted
<1> QED BY <1>1, <1>2, <1>3, <1>4 DEF Core

\* When session s may write a row: nobody else holds or creates it, nobody else
\* was told its time is free, no other row occupies its time, and its payment
\* fits its status.
Writable(s, a, row) ==
  /\ \A t \in Session \ {s} :
       /\ HoldsAppointment(t) => request[t].appt # a
       /\ request[t].op = "create" => request[t].appt # a
       /\ pc[t] \in {"create", "move"} =>
            ~Occupies(row, request[t].barber, request[t].start, request[t].stop)
  /\ row.status \in Active => ~HasActiveConflict(appointments, row.barber, row.start, row.stop, a)
  /\ row.paid <=> row.status = "completed"

\* A writable row written at the end of a session keeps the core.
LEMMA CoreWrite ==
  ASSUME TypeShape, Core, NEW s \in Session, Finish(s),
         NEW a \in Appointment, NEW row,
         appointments' = [appointments EXCEPT ![a] = row],
         Writable(s, a, row)
  PROVE  Core'
<1>1. appointments'[a] = row /\ \A x \in Appointment \ {a} : appointments'[x] = appointments[x]
  BY DEF TypeShape, TypeOK
<1>2. LoadedIsCurrent'
  BY <1>1, FinishFacts, RequestFacts DEF Writable, Core, LoadedIsCurrent, HoldsAppointment
<1>3. BarberIsLocked'
  BY FinishFacts, RequestFacts DEF Core, BarberIsLocked, HoldsBarber
<1>4. NewRowsUnknown'
  <2>1. \A t \in Session : request[t].op = "create" => request[t].appt \in Appointment
    BY DEF TypeShape, TypeOK, RequestShape, Request
  <2> QED BY <1>1, <2>1, FinishFacts, NoneAssumption DEF Writable, Core, NewRowsUnknown
<1>5. TimeStaysFree'
  BY <1>1, FinishFacts DEF Writable, Core, TimeStaysFree, Taken, HasActiveConflict
<1>6. NoDoubleBooking'
  <2> SUFFICES ASSUME NEW x \in Appointment, NEW y \in Appointment \ {x},
                      appointments'[x].status \in Active,
                      Occupies(appointments'[y], appointments'[x].barber,
                               appointments'[x].start, appointments'[x].stop)
               PROVE  FALSE
    BY DEF NoDoubleBooking, NoOverlap, HasActiveConflict
  <2>1. CASE x = a
    BY <1>1, <2>1 DEF Writable, HasActiveConflict
  <2>2. CASE y = a
    <3>1. Occupies(appointments[x], row.barber, row.start, row.stop) /\ row.status \in Active
      <4>1. appointments[x] \in Row
        BY DEF TypeShape, TypeOK
      <4> QED BY <1>1, <2>2, <4>1 DEF Occupies
    <3> QED BY <2>2, <3>1 DEF Writable, HasActiveConflict
  <2>3. CASE x # a /\ y # a
    BY <1>1, <2>3 DEF Core, NoDoubleBooking, NoOverlap, HasActiveConflict
  <2> QED BY <2>1, <2>2, <2>3
<1>7. PaidIffCompleted'
  BY <1>1 DEF Writable, Core, PaidIffCompleted
<1> QED BY <1>2, <1>3, <1>4, <1>5, <1>6, <1>7 DEF Core

\* Who else may hold the row or the barber of a session about to commit.
LEMMA CommitFacts ==
  ASSUME TypeShape, Core, NEW s \in Session, pc[s] \in {"create", "move", "settle"}
  PROVE  /\ \A t \in Session \ {s} :
              /\ HoldsAppointment(t) => request[t].appt # request[s].appt
              /\ request[t].op = "create" => request[t].appt # request[s].appt
              /\ pc[s] # "settle" /\ pc[t] \in {"create", "move"} =>
                   request[t].barber # request[s].barber
         /\ pc[s] # "settle" => ~Taken(s)
         /\ pc[s] # "create" =>
              /\ loaded[s] = appointments[request[s].appt]
              /\ appointments[request[s].appt].status \in Expected[request[s].op]
<1>1. ASSUME NEW t \in Session \ {s}, HoldsAppointment(t)
      PROVE  request[t].appt # request[s].appt
  <2>1. CASE pc[s] = "create"
    BY <2>1, RequestFacts DEF Core, NewRowsUnknown
  <2>2. CASE pc[s] # "create"
    BY <1>1, <2>2 DEF Core, LoadedIsCurrent, HoldsAppointment
  <2> QED BY <2>1, <2>2
<1>2. ASSUME NEW t \in Session \ {s}, request[t].op = "create"
      PROVE  request[t].appt # request[s].appt
  BY <1>2 DEF Core, NewRowsUnknown
<1>3. ASSUME NEW t \in Session \ {s}, pc[s] # "settle", pc[t] \in {"create", "move"}
      PROVE  request[t].barber # request[s].barber
  BY <1>3 DEF Core, BarberIsLocked, HoldsBarber
<1>4. pc[s] # "settle" => ~Taken(s)
  BY DEF Core, TimeStaysFree
<1>5. pc[s] # "create" => /\ loaded[s] = appointments[request[s].appt]
                         /\ appointments[request[s].appt].status \in Expected[request[s].op]
  BY DEF Core, LoadedIsCurrent, HoldsAppointment
<1> QED BY <1>1, <1>2, <1>3, <1>4, <1>5

\* A flush from a current object writes every column that was asked for.
LEMMA MovedColumns ==
  ASSUME NEW s \in Session, appointments[request[s].appt] \in Row,
         loaded[s] = appointments[request[s].appt]
  PROVE  LET row == appointments[request[s].appt] IN
         MovedRow(s) = [row EXCEPT !.barber = request[s].barber, !.start = request[s].start,
                                   !.stop = request[s].stop]
  BY DEF MovedRow, Column, Row

\* The commits keep the core.
LEMMA CoreCommit ==
  ASSUME TypeShape, Core, NEW s \in Session,
         CommitCreate(s) \/ CommitReschedule(s) \/ CommitStatus(s)
  PROVE  Core'
<1> DEFINE a == request[s].appt
<1>1. CASE CommitCreate(s)
  <2> DEFINE row == NewRow(request[s].barber, request[s].start, request[s].stop)
  <2>1. pc[s] = "create" /\ a \in Appointment /\ Finish(s)
          /\ appointments' = [appointments EXCEPT ![a] = row]
    BY <1>1, RequestFacts DEF CommitCreate
  <2>2. /\ row.barber = request[s].barber /\ row.status = "scheduled" /\ row.paid = FALSE
        /\ ~HasActiveConflict(appointments, row.barber, row.start, row.stop, a)
    BY <2>1, CommitFacts DEF NewRow, Taken
  <2>8. ASSUME NEW t \in Session \ {s}, pc[t] \in {"create", "move"}
        PROVE  ~Occupies(row, request[t].barber, request[t].start, request[t].stop)
    BY <2>1, <2>2, <2>8, CommitFacts DEF Occupies
  <2>9. ASSUME NEW t \in Session \ {s}
        PROVE  /\ HoldsAppointment(t) => request[t].appt # a
               /\ request[t].op = "create" => request[t].appt # a
    BY <2>1, CommitFacts
  <2>10. (row.paid <=> row.status = "completed") /\ row.status \in Active
    BY <2>2 DEF Active
  <2>11. Writable(s, a, row)
    BY <2>2, <2>8, <2>9, <2>10 DEF Writable
  <2> HIDE DEF a, row
  <2> QED BY <2>1, <2>11, CoreWrite
<1>2. CASE CommitReschedule(s)
  <2> DEFINE row == MovedRow(s)
  <2>1. pc[s] = "move" /\ a \in Appointment /\ Finish(s) /\ appointments[a] \in Row
          /\ appointments' = [appointments EXCEPT ![a] = row]
    BY <1>2, RequestFacts DEF CommitReschedule
  <2>0. loaded[s] = appointments[a]
    BY <2>1, CommitFacts
  <2>2. /\ row.barber = request[s].barber /\ row.start = request[s].start
        /\ row.stop = request[s].stop
        /\ row.status = appointments[a].status /\ row.paid = appointments[a].paid
    BY <2>0, <2>1, MovedColumns DEF Row
  <2>3. ~HasActiveConflict(appointments, row.barber, row.start, row.stop, a)
    BY <2>1, <2>2, CommitFacts DEF Taken
  <2>4. row.paid <=> row.status = "completed"
    BY <2>1, <2>2 DEF Core, PaidIffCompleted
  <2>8. ASSUME NEW t \in Session \ {s}, pc[t] \in {"create", "move"}
        PROVE  ~Occupies(row, request[t].barber, request[t].start, request[t].stop)
    BY <2>1, <2>2, <2>8, CommitFacts DEF Occupies
  <2>9. ASSUME NEW t \in Session \ {s}
        PROVE  /\ HoldsAppointment(t) => request[t].appt # a
               /\ request[t].op = "create" => request[t].appt # a
    BY <2>1, CommitFacts
  <2>10. Writable(s, a, row)
    BY <2>3, <2>4, <2>8, <2>9 DEF Writable
  <2> HIDE DEF a, row
  <2> QED BY <2>1, <2>10, CoreWrite
<1>3. CASE CommitStatus(s)
  <2> DEFINE old == appointments[a]
             row == SettledRow(old, request[s].op)
  <2>1. pc[s] = "settle" /\ a \in Appointment /\ Finish(s) /\ old \in Row
          /\ request[s].op \in StaffOps /\ appointments' = [appointments EXCEPT ![a] = row]
    BY <1>3, RequestFacts DEF CommitStatus, TypeShape, TypeOK
  <2>2. old.status \in Expected[request[s].op]
    BY <2>1, CommitFacts
  <2>3. row.barber = old.barber /\ row.start = old.start /\ row.stop = old.stop
    BY <2>1, SettledColumns
  <2>4. row.status \in Active => old.status \in Active
    <3>1. CASE request[s].op = "notes"
      BY <2>1, <3>1, SettledColumns
    <3>2. CASE request[s].op # "notes"
      BY <2>1, <2>2, <3>2, SettledColumns, Lifecycle
    <3> QED BY <3>1, <3>2
  <2>5. old.paid <=> old.status = "completed"
    BY <2>1 DEF Core, PaidIffCompleted
  <2>6. row.paid <=> row.status = "completed"
    <3>1. CASE request[s].op = "notes"
      BY <2>1, <2>5, <3>1, SettledColumns
    <3>2. CASE request[s].op = "complete"
      BY <2>1, <3>2, SettledColumns, Lifecycle
    <3>3. CASE request[s].op \notin {"notes", "complete"}
      <4>1. row.status # "completed" /\ row.paid = old.paid
        BY <2>1, <3>3, SettledColumns, Lifecycle
      <4>2. old.status # "completed"
        BY <2>1, <2>2, <3>3, Lifecycle DEF Active
      <4> QED BY <2>5, <4>1, <4>2
    <3> QED BY <3>1, <3>2, <3>3
  <2>7. row.status \in Active => ~HasActiveConflict(appointments, row.barber, row.start, row.stop, a)
    BY <2>1, <2>3, <2>4 DEF Core, NoDoubleBooking, NoOverlap
  <2>8. ASSUME NEW t \in Session \ {s}, pc[t] \in {"create", "move"}
        PROVE  ~Occupies(row, request[t].barber, request[t].start, request[t].stop)
    <3>1. a # request[t].appt
      BY <2>1, <2>8, CommitFacts, RequestFacts DEF HoldsAppointment
    <3>2. ~Occupies(old, request[t].barber, request[t].start, request[t].stop)
      BY <2>1, <2>8, <3>1 DEF Core, TimeStaysFree, Taken, HasActiveConflict
    <3> QED BY <2>3, <2>4, <3>2 DEF Occupies
  <2>9. ASSUME NEW t \in Session \ {s}
        PROVE  /\ HoldsAppointment(t) => request[t].appt # a
               /\ request[t].op = "create" => request[t].appt # a
    BY <2>1, CommitFacts
  <2>10. Writable(s, a, row)
    BY <2>6, <2>7, <2>8, <2>9 DEF Writable
  <2> HIDE DEF a, old, row
  <2> QED BY <2>1, <2>10, CoreWrite
<1> QED BY <1>1, <1>2, <1>3

\* Every step keeps the core when no lock is granted to an old object.
LEMMA CoreStep ==
  ASSUME TypeShape, Core, [Next]_vars, [FreshGrants]_vars
  PROVE  Core'
<1>1. ASSUME FreshGrants, NEW s \in Session,
             AwaitAppointment(s) \/ AwaitBarber(s) \/ Advance(s) \/ Fail(s)
      PROVE  Core'
  BY <1>1, CoreProceed, CoreCommit, CoreFinish
  DEF AwaitAppointment, AwaitBarber, Advance, Fail, RejectStatus, RejectClosed, RejectInactive,
      RejectConflict, RejectRange, RejectClosure, Refuse, CommitClosure
<1>2. CASE (\E d \in Date : DeleteClosure(d)) \/ (\E b \in Barber : UpdateBarber(b)) \/ Tick
             \/ UNCHANGED vars
  BY <1>2, CoreSteady DEF DeleteClosure, UpdateBarber, Tick, vars, locks
<1> QED BY <1>1, <1>2, CoreArrive DEF Next

\* The inductive invariant holds initially.
LEMMA CoreInit == Init => Core /\ LocksHaveHolders
  BY DEF Init, Core, LocksHaveHolders, LoadedIsCurrent, BarberIsLocked, NewRowsUnknown,
     TimeStaysFree, NoDoubleBooking, NoOverlap, PaidIffCompleted, HoldsAppointment, HoldsBarber,
     NoRequest, Ask, NoRow, Active

\* Every step keeps the inductive invariant.
LEMMA IInvStep == IInv /\ [Next]_vars /\ [FreshGrants]_vars => IInv'
<1>1. IInv' <=> TypeShape' /\ Core' /\ LocksHaveHolders'
  BY DEF IInv, TypeShape, Core
<1> QED BY <1>1, IInvSplit, TypeStep, HoldersStep, CoreStep

\* The inductive invariant of the requests without booking tokens.
THEOREM Inductive ==
  ASSUME "token" \notin Channel
  PROVE  Spec => []IInv
<1>1. Init => IInv
  BY TypeInit, CoreInit, IInvSplit
<1>2. IInv /\ [Next]_vars => IInv'
  BY TokensAbsent, GuardsGrant, IInvSplit, IInvStep
<1> QED BY <1>1, <1>2, PTL DEF Spec

\* The same on every channel, tokens included, as long as no token is granted its lock with
\* an object out of date: stale objects are the only way to a double booking.
THEOREM FreshInductive == Spec /\ [][FreshGrants]_vars => []IInv
<1>1. Init => IInv
  BY TypeInit, CoreInit, IInvSplit
<1> QED BY <1>1, IInvStep, PTL DEF Spec

\* Without booking tokens, no interleaving of bookings, moves and status changes
\* leaves a barber with two active appointments that overlap.
THEOREM NeverDoubleBooked ==
  ASSUME "token" \notin Channel
  PROVE  Spec => []NoDoubleBooking
<1>1. IInv => NoDoubleBooking
  BY DEF IInv
<1> QED BY <1>1, Inductive, PTL

\* Without booking tokens, exactly the completed appointments are paid.
THEOREM PaymentsFit ==
  ASSUME "token" \notin Channel
  PROVE  Spec => []PaidIffCompleted
<1>1. IInv => PaidIffCompleted
  BY DEF IInv
<1> QED BY <1>1, Inductive, PTL

-----------------------------------------------------------------------------
\* The atomic promises.

\* Calendar speaks of the table in the same words.
LEMMA SameWords ==
  /\ Promised!NoRow = NoRow /\ Promised!Instant = Instant
  /\ Promised!Active = Active /\ Promised!Target = Target /\ Promised!Expected = Expected
  /\ \A b, t, u : Promised!NewRow(b, t, u) = NewRow(b, t, u)
  /\ \A table, b, t, u, a :
       Promised!HasActiveConflict(table, b, t, u, a) <=> HasActiveConflict(table, b, t, u, a)
  BY DEF NoRow, Promised!NoRow, Instant, Promised!Instant, Active, Promised!Active,
     Target, Promised!Target, Expected, Promised!Expected, Final, Promised!Final,
     NewRow, Promised!NewRow, HasActiveConflict, Promised!HasActiveConflict,
     Occupies, Promised!Occupies

\* A commit is one step of Calendar; every other step leaves the table alone.
LEMMA CommitRefines ==
  ASSUME TypeShape, Core, NEW s \in Session,
         CommitCreate(s) \/ CommitReschedule(s) \/ CommitStatus(s)
  PROVE  Promised!Next \/ UNCHANGED appointments
<1> DEFINE a == request[s].appt
<1>1. request[s].start \in Instant /\ request[s].stop \in Instant
  BY RequestFacts DEF Request
<1>2. CASE CommitCreate(s)
  <2>1. pc[s] = "create" /\ a \in Appointment /\ appointments[a].status = "none"
    BY <1>2, RequestFacts DEF CommitCreate, Core, NewRowsUnknown
  <2>2. Promised!Book(a, request[s].barber, request[s].start, request[s].stop)
    BY <1>2, <2>1, RequestFacts, CommitFacts, SameWords DEF CommitCreate, Promised!Book, Taken
  <2> QED BY <1>1, <2>1, <2>2, RequestFacts, SameWords DEF Promised!Next
<1>3. CASE CommitReschedule(s)
  <2>1. pc[s] = "move" /\ a \in Appointment /\ appointments[a] \in Row
          /\ request[s].op = "reschedule"
    BY <1>3, RequestFacts DEF CommitReschedule
  <2>2. appointments[a].status \in Active
    BY <2>1, CommitFacts DEF Expected
  <2>3. appointments' = [appointments EXCEPT ![a].barber = request[s].barber,
                                             ![a].start = request[s].start,
                                             ![a].stop = request[s].stop]
    <3>1. MovedRow(s) = [appointments[a] EXCEPT !.barber = request[s].barber,
                                                !.start = request[s].start,
                                                !.stop = request[s].stop]
      BY <2>1, CommitFacts, MovedColumns
    <3> QED BY <1>3, <2>1, <3>1 DEF CommitReschedule, TypeShape, TypeOK
  <2>4. Promised!Move(a, request[s].barber, request[s].start, request[s].stop)
    BY <2>1, <2>2, <2>3, RequestFacts, CommitFacts, SameWords DEF Promised!Move, Taken
  <2> QED BY <1>1, <2>1, <2>4, RequestFacts, SameWords DEF Promised!Next
<1>4. CASE CommitStatus(s)
  <2> DEFINE op == request[s].op
  <2>1. pc[s] = "settle" /\ a \in Appointment /\ appointments[a] \in Row /\ op \in StaffOps
          /\ appointments[a].status \in Expected[op]
          /\ appointments' = [appointments EXCEPT ![a] = SettledRow(appointments[a], op)]
    BY <1>4, RequestFacts, CommitFacts DEF CommitStatus, TypeShape, TypeOK
  <2>2. CASE op = "notes"
    BY <2>1, <2>2, SettledColumns DEF TypeShape, TypeOK
  <2>3. CASE op # "notes"
    <3>1. op \in DOMAIN Target
      BY <2>1, <2>3 DEF Target, StaffOps
    <3>2. SettledRow(appointments[a], op) =
            [appointments[a] EXCEPT !.status = Target[op], !.paid = (op = "complete")]
      <4>1. appointments[a].paid = FALSE
        <5>1. ~appointments[a].paid
          BY <2>1, <2>3, Lifecycle DEF Active, Core, PaidIffCompleted
        <5> QED BY <2>1, <5>1 DEF Row
      <4>2. (IF op = "complete" THEN TRUE ELSE appointments[a].paid) = (op = "complete")
        BY <4>1
      <4> QED BY <2>3, <4>2 DEF SettledRow
    <3>3. Promised!Settle(a, op)
      BY <2>1, <3>2, SameWords DEF Promised!Settle, TypeShape, TypeOK
    <3> QED BY <2>1, <3>1, <3>3, SameWords DEF Promised!Next
  <2> QED BY <2>2, <2>3
<1> QED BY <1>2, <1>3, <1>4

\* Every step of the requests is a step of Calendar or leaves the table alone.
LEMMA StepRefines ==
  ASSUME TypeShape, Core, [Next]_vars
  PROVE  [Promised!Next]_appointments
<1>1. ASSUME NEW s \in Session, Arrive(s)
      PROVE  UNCHANGED appointments
  BY <1>1, ArriveFacts DEF Begin
<1>2. ASSUME NEW s \in Session, AwaitAppointment(s) \/ AwaitBarber(s) \/ Advance(s) \/ Fail(s)
      PROVE  Promised!Next \/ UNCHANGED appointments
  BY <1>2, CommitRefines
  DEF AwaitAppointment, AwaitBarber, Advance, Fail, RejectStatus, RejectClosed, RejectInactive,
      RejectConflict, RejectRange, RejectClosure, Refuse, CommitClosure, LockAppointment,
      CheckClosure, LockBarber, CheckConflict, Proceed
<1>3. CASE (\E d \in Date : DeleteClosure(d)) \/ (\E b \in Barber : UpdateBarber(b)) \/ Tick
             \/ UNCHANGED vars
  BY <1>3 DEF DeleteClosure, UpdateBarber, Tick, vars
<1> QED BY <1>1, <1>2, <1>3 DEF Next

\* Without booking tokens the multi-step, interleaved requests implement the
\* atomic Calendar: bookings, moves and status changes happen at their commits.
THEOREM CalendarImplemented ==
  ASSUME "token" \notin Channel
  PROVE  Spec => ImplementsCalendar
<1>1. Init => Promised!Init
  BY SameWords DEF Init, Promised!Init
<1>2. IInv /\ [Next]_vars => [Promised!Next]_appointments
  BY StepRefines, IInvSplit
<1> QED BY <1>1, <1>2, Inductive, PTL DEF Spec, ImplementsCalendar, Promised!Spec

\* A step of Calendar leaves final statuses alone.
LEMMA SettleKeepsFinal ==
  ASSUME TypeShape, [Promised!Next]_appointments, NEW a \in Appointment,
         appointments[a].status \in Final
  PROVE  appointments'[a].status = appointments[a].status
<1>1. ASSUME NEW x \in Appointment, NEW op \in DOMAIN Target, Promised!Settle(x, op)
      PROVE  appointments'[a].status = appointments[a].status
  <2>1. op \in StaffOps /\ op # "notes"
    BY DEF Target, StaffOps
  <2>2. x # a
    BY <1>1, <2>1, Lifecycle, SameWords DEF Promised!Settle, Active, Final
  <2> QED BY <1>1, <2>2, SameWords DEF Promised!Settle, TypeShape, TypeOK
<1>2. ASSUME NEW x \in Appointment, NEW b \in Barber, NEW start \in Instant, NEW stop \in Instant,
             Promised!Book(x, b, start, stop) \/ Promised!Move(x, b, start, stop)
      PROVE  appointments'[a].status = appointments[a].status
  BY <1>2, SameWords DEF Promised!Book, Promised!Move, Active, Final, TypeShape, TypeOK, Row
<1> QED BY <1>1, <1>2, SameWords DEF Promised!Next

\* Without booking tokens, no appointment leaves a final status, however its
\* requests interleave.
THEOREM FinalIsFinal ==
  ASSUME "token" \notin Channel
  PROVE  Spec => FinalStatesStay
<1>1. IInv /\ [Next]_vars =>
        [\A a \in Appointment :
           appointments[a].status \in Final => appointments'[a].status = appointments[a].status]_vars
  BY StepRefines, SettleKeepsFinal, IInvSplit
<1> QED BY <1>1, Inductive, PTL DEF Spec, FinalStatesStay

\* Both hold on every channel when no token acts on an object out of date.
THEOREM FreshCalendar ==
  Spec /\ [][FreshGrants]_vars => ImplementsCalendar /\ FinalStatesStay
<1>1. Init => Promised!Init
  BY SameWords DEF Init, Promised!Init
<1>2. IInv /\ [Next]_vars => [Promised!Next]_appointments
  BY StepRefines, IInvSplit
<1>3. IInv /\ [Next]_vars =>
        [\A a \in Appointment :
           appointments[a].status \in Final => appointments'[a].status = appointments[a].status]_vars
  BY StepRefines, SettleKeepsFinal, IInvSplit
<1> QED
  BY <1>1, <1>2, <1>3, FreshInductive, PTL
  DEF Spec, ImplementsCalendar, Promised!Spec, FinalStatesStay
-----------------------------------------------------------------------------
\* Requests of which the others know.

\* What a creation or a move writes.
LEMMA BookedRow ==
  ASSUME TypeShape, Core, NEW s \in Session, CommitCreate(s) \/ CommitReschedule(s)
  PROVE  /\ pc[s] \in {"create", "move"} /\ UNCHANGED closures /\ Finish(s)
         /\ request[s].appt \in Appointment
         /\ \A a \in Appointment \ {request[s].appt} : appointments'[a] = appointments[a]
         /\ appointments'[request[s].appt].barber = request[s].barber
         /\ appointments'[request[s].appt].start = request[s].start
<1> DEFINE a == request[s].appt
<1>1. CASE CommitCreate(s)
  <2> DEFINE new == NewRow(request[s].barber, request[s].start, request[s].stop)
  <2>1. /\ pc[s] = "create" /\ UNCHANGED closures /\ Finish(s)
        /\ appointments' = [appointments EXCEPT ![a] = new]
    BY <1>1 DEF CommitCreate
  <2>2. a \in Appointment
    BY <2>1, RequestFacts
  <2>3. new.barber = request[s].barber /\ new.start = request[s].start
    BY DEF NewRow
  <2> HIDE DEF new
  <2> QED
    BY <2>1, <2>2, <2>3 DEF TypeShape, TypeOK
<1>2. CASE CommitReschedule(s)
  <2> DEFINE new == MovedRow(s)
  <2>1. /\ pc[s] = "move" /\ UNCHANGED closures /\ Finish(s)
        /\ appointments' = [appointments EXCEPT ![a] = new]
    BY <1>2 DEF CommitReschedule
  <2>2. a \in Appointment /\ appointments[a] \in Row /\ loaded[s] = appointments[a]
    BY <2>1, RequestFacts, CommitFacts
  <2>3. new.barber = request[s].barber /\ new.start = request[s].start
    BY <2>2, MovedColumns DEF Row
  <2> HIDE DEF new
  <2> QED
    BY <2>1, <2>2, <2>3 DEF TypeShape, TypeOK
<1> QED
  BY <1>1, <1>2

\* A status change makes no row active and moves none.
LEMMA SettledKeepsTime ==
  ASSUME TypeShape, Core, NEW s \in Session, CommitStatus(s)
  PROVE  /\ pc[s] = "settle" /\ UNCHANGED closures /\ Finish(s)
         /\ \A a \in Appointment :
              /\ appointments'[a].barber = appointments[a].barber
              /\ appointments'[a].start = appointments[a].start
              /\ appointments'[a].status \in Active => appointments[a].status \in Active
<1> DEFINE a == request[s].appt  op == request[s].op  new == SettledRow(appointments[a], op)
<1>1. pc[s] = "settle" /\ UNCHANGED closures /\ Finish(s)
  BY DEF CommitStatus
<1>2. a \in Appointment /\ appointments[a] \in Row /\ op \in StaffOps
  BY <1>1, RequestFacts
<1>3. appointments' = [appointments EXCEPT ![a] = new]
  BY <1>2 DEF CommitStatus, TypeShape, TypeOK
<1>4. appointments[a].status \in Expected[op]
  BY <1>1, CommitFacts
<1>5. /\ new.barber = appointments[a].barber /\ new.start = appointments[a].start
      /\ new.status \in Active => appointments[a].status \in Active
  BY <1>2, <1>4, SettledColumns, Lifecycle
<1> HIDE DEF new
<1> QED
  BY <1>1, <1>2, <1>3, <1>5 DEF TypeShape, TypeOK

\* The steps that end a session without writing.
Ended(s) ==
  \/ RejectStatus(s) \/ RejectClosed(s) \/ RejectInactive(s) \/ RejectConflict(s)
  \/ RejectRange(s) \/ RejectClosure(s) \/ Fail(s)

\* The steps of the system, by what they write.
LEMMA StepCases ==
  ASSUME [Next]_vars
  PROVE  \/ \E s \in Session :
              \/ Arrive(s)
              \/ LockAppointment(s) \/ CheckClosure(s) \/ LockBarber(s) \/ CheckConflict(s)
              \/ Ended(s) \/ CommitCreate(s) \/ CommitReschedule(s) \/ CommitStatus(s)
              \/ CommitClosure(s)
         \/ \E d \in Date : DeleteClosure(d)
         \/ \E b \in Barber : UpdateBarber(b)
         \/ Tick \/ UNCHANGED vars
BY DEF Next, AwaitAppointment, AwaitBarber, Advance, Ended

\* A step that only advances its session.
LEMMA ProceedFacts ==
  ASSUME TypeShape, NEW s \in Session,
         LockAppointment(s) \/ CheckClosure(s) \/ LockBarber(s) \/ CheckConflict(s)
  PROVE  /\ UNCHANGED <<appointments, closures, isActive, request>>
         /\ \A t \in Session \ {s} : pc'[t] = pc[t] /\ loaded'[t] = loaded[t]
         /\ \/ pc[s] = "appointment" /\ pc'[s] \in {"closure", "settle"}
            \/ CheckClosure(s) /\ pc[s] = "closure" /\ pc'[s] = "barber"
            \/ LockBarber(s) /\ pc[s] = "barber" /\ pc'[s] = "conflict"
            \/ pc[s] = "conflict" /\ pc'[s] \in {"create", "move"}
BY DEF LockAppointment, CheckClosure, LockBarber, CheckConflict, Proceed, TypeShape, TypeOK

\* A request that ends without writing.
LEMMA EndFacts ==
  ASSUME TypeShape, NEW s \in Session, Ended(s)
  PROVE  UNCHANGED <<appointments, closures, isActive>> /\ pc[s] # "idle" /\ Finish(s)
BY DEF Ended, RejectStatus, RejectClosed, RejectInactive, RejectConflict, RejectRange, RejectClosure,
   Fail, Refuse, Finish
-----------------------------------------------------------------------------
\* What is read under a row lock.

\* A request past the status guard holds its appointment's row lock, even if its object is out
\* of date. If the object was read under the lock it still is the committed row: a token that
\* decides on an older one needs the same lock to write, and nobody knows a row being created.
ReadInv ==
  /\ NewRowsUnknown
  /\ \A s \in Session : HoldsAppointment(s) =>
       /\ appointmentLock[request[s].appt] = s
       /\ request[s].channel # "token" =>
            /\ loaded[s] = appointments[request[s].appt]
            /\ loaded[s].status \in Expected[request[s].op]

\* A request that arrives holds nothing yet and claims no known new row.
LEMMA ReadArrive ==
  ASSUME TypeShape, ReadInv, NEW s \in Session, Arrive(s)
  PROVE  ReadInv'
<1>1. PICK step, r, row :
        /\ Begin(s, step, r, row)
        /\ \/ step = "closure" /\ r.op = "create" /\ Unused(r.appt)
           \/ step = "appointment" /\ r.op # "create" /\ Exists(r.appt)
           \/ step = "close" /\ r.op = "close" /\ r.appt = None
  BY ArriveFacts
<1>2. /\ UNCHANGED <<appointments, appointmentLock>>
      /\ pc'[s] = step /\ request'[s] = r
      /\ \A t \in Session \ {s} :
           pc'[t] = pc[t] /\ request'[t] = request[t] /\ loaded'[t] = loaded[t]
  BY <1>1 DEF Begin, locks, TypeShape, TypeOK
<1>3. NewRowsUnknown'
  <2>1. ASSUME NEW t \in Session \ {s}, request[t].op = "create"
        PROVE  r.appt # request[t].appt
    <3>1. appointments[request[t].appt].status = "none" /\ request[t].appt # None
      BY <2>1 DEF ReadInv, NewRowsUnknown, TypeShape, RequestShape
    <3> QED
      BY <1>1, <2>1, <3>1 DEF Unused, Exists
  <2> QED
    BY <1>1, <1>2, <2>1 DEF ReadInv, NewRowsUnknown, Unused
<1> QED
  BY <1>1, <1>2, <1>3 DEF ReadInv, HoldsAppointment

\* The lock is granted when it is free, and only then an object without a token is read.
LEMMA ReadProceed ==
  ASSUME TypeShape, ReadInv, NEW s \in Session,
         LockAppointment(s) \/ CheckClosure(s) \/ LockBarber(s) \/ CheckConflict(s)
  PROVE  ReadInv'
<1>1. /\ UNCHANGED <<appointments, request>>
      /\ \A t \in Session \ {s} : pc'[t] = pc[t] /\ loaded'[t] = loaded[t]
  BY ProceedFacts
<1>2. NewRowsUnknown'
  BY <1>1 DEF ReadInv, NewRowsUnknown
<1>3. CASE LockAppointment(s)
  <2>1. /\ request[s].appt \in Appointment /\ appointmentLock[request[s].appt] = None
        /\ appointmentLock' = [appointmentLock EXCEPT ![request[s].appt] = s]
        /\ loaded'[s] = RowSeen(s) /\ RowSeen(s).status \in Expected[request[s].op]
    BY <1>3, RequestFacts DEF LockAppointment, Proceed, StatusAllowed, TypeShape, TypeOK
  <2>2. request[s].channel # "token" => RowSeen(s) = appointments[request[s].appt]
    BY DEF RowSeen
  <2>3. appointmentLock'[request[s].appt] = s
    BY <2>1 DEF TypeShape, TypeOK
  <2>4. ASSUME NEW t \in Session \ {s}, HoldsAppointment(t)
        PROVE  appointmentLock'[request[t].appt] = t
    BY <2>1, <2>4, SessionAssumption DEF ReadInv, TypeShape, TypeOK
  <2> QED
    BY <1>1, <1>2, <2>1, <2>2, <2>3, <2>4 DEF ReadInv, HoldsAppointment
<1>4. CASE CheckClosure(s) \/ LockBarber(s) \/ CheckConflict(s)
  <2>1. /\ UNCHANGED <<appointmentLock, loaded>>
        /\ HoldsAppointment(s)' => HoldsAppointment(s)
    BY <1>4, RequestFacts DEF CheckClosure, LockBarber, CheckConflict, Proceed, HoldsAppointment,
       locks, TypeShape, TypeOK
  <2> QED
    BY <1>1, <1>2, <2>1 DEF ReadInv, HoldsAppointment
<1> QED
  BY <1>3, <1>4

\* A commit writes one row, in a transaction that ends with it.
LEMMA CommitWrites ==
  ASSUME TypeShape, NEW s \in Session,
         CommitCreate(s) \/ CommitReschedule(s) \/ CommitStatus(s)
  PROVE  /\ pc[s] \in {"create", "move", "settle"} /\ request[s].appt \in Appointment /\ Finish(s)
         /\ \A a \in Appointment \ {request[s].appt} : appointments'[a] = appointments[a]
  BY RequestFacts DEF CommitCreate, CommitReschedule, CommitStatus, TypeShape, TypeOK

\* What one session writes at its end no other has read under a lock or is creating.
LEMMA ReadEnd ==
  ASSUME TypeShape, ReadInv, NEW s \in Session,
         \/ Ended(s) \/ CommitClosure(s)
         \/ CommitCreate(s) \/ CommitReschedule(s) \/ CommitStatus(s)
  PROVE  ReadInv'
<1>1. /\ Finish(s)
      /\ \A a \in Appointment :
           \/ appointments'[a] = appointments[a]
           \/ pc[s] \in {"create", "move", "settle"} /\ a = request[s].appt
  <2>1. CASE Ended(s)
    BY <2>1, EndFacts
  <2>2. CASE CommitClosure(s)
    BY <2>2 DEF CommitClosure
  <2>3. CASE CommitCreate(s) \/ CommitReschedule(s) \/ CommitStatus(s)
    BY <2>3, CommitWrites
  <2> QED
    BY <2>1, <2>2, <2>3
<1>2. ASSUME NEW t \in Session \ {s}, request[t].op = "create" \/ HoldsAppointment(t)
      PROVE  /\ request[t].appt \in Appointment
             /\ appointments'[request[t].appt] = appointments[request[t].appt]
  <2>1. request[t].appt \in Appointment
    BY <1>2 DEF TypeShape, TypeOK, RequestShape, Request, HoldsAppointment, OpsAt, StaffOps
  <2>2. CASE request[t].op = "create"
    BY <1>1, <2>1, <2>2 DEF ReadInv, NewRowsUnknown
  <2>3. CASE HoldsAppointment(t) /\ pc[s] = "create"
    BY <1>1, <2>1, <2>3, RequestFacts DEF ReadInv, NewRowsUnknown
  <2>4. CASE HoldsAppointment(t) /\ pc[s] # "create"
    BY <1>1, <2>1, <2>4 DEF ReadInv, HoldsAppointment
  <2> QED
    BY <1>2, <2>1, <2>2, <2>3, <2>4
<1>3. NewRowsUnknown'
  BY <1>1, <1>2, FinishFacts, NoneAssumption DEF ReadInv, NewRowsUnknown
<1> QED
  BY <1>1, <1>2, <1>3, FinishFacts DEF ReadInv, HoldsAppointment

\* Every step keeps what was read under a lock true.
LEMMA ReadStep == TypeShape /\ ReadInv /\ [Next]_vars => ReadInv'
<1> SUFFICES ASSUME TypeShape, ReadInv, [Next]_vars
             PROVE  ReadInv'
  OBVIOUS
<1>1. CASE \/ \E d \in Date : DeleteClosure(d)
           \/ \E b \in Barber : UpdateBarber(b)
           \/ Tick \/ UNCHANGED vars
  BY <1>1 DEF DeleteClosure, UpdateBarber, Tick, vars, locks, ReadInv, NewRowsUnknown, HoldsAppointment
<1> QED
  BY <1>1, ReadArrive, ReadProceed, ReadEnd, StepCases

\* On every channel, with tokens acting on objects however old, a request that read its
\* appointment under the row lock commits on the row it read: its guard still holds and a move
\* mixes no two versions of the row.
THEOREM ReadsHold == Spec => LockedReadsHold
<1>1. Init => ReadInv
  BY DEF Init, ReadInv, NewRowsUnknown, HoldsAppointment, NoRequest, Ask
<1>2. ASSUME TypeShape, ReadInv, NEW s \in Session, request[s].channel # "token", CommitReschedule(s)
      PROVE  LET a == request[s].appt IN
             /\ appointments[a].status \in Active
             /\ appointments'[a] = [appointments[a] EXCEPT !.barber = request[s].barber,
                                                           !.start = request[s].start,
                                                           !.stop = request[s].stop]
  <2>1. /\ pc[s] = "move" /\ request[s].op = "reschedule" /\ request[s].appt \in Appointment
        /\ appointments[request[s].appt] \in Row
    BY <1>2, RequestFacts DEF CommitReschedule
  <2>2. /\ loaded[s] = appointments[request[s].appt]
        /\ loaded[s].status \in Expected["reschedule"]
    BY <1>2, <2>1 DEF ReadInv, HoldsAppointment
  <2>3. appointments'[request[s].appt] = MovedRow(s)
    BY <1>2, <2>1 DEF CommitReschedule, TypeShape, TypeOK
  <2> QED
    BY <2>1, <2>2, <2>3, MovedColumns DEF Expected
<1>3. ASSUME TypeShape, ReadInv, NEW s \in Session, request[s].channel # "token", CommitStatus(s)
      PROVE  appointments[request[s].appt].status \in Expected[request[s].op]
  <2>1. pc[s] = "settle"
    BY <1>3, Zenon DEF CommitStatus
  <2>2. HoldsAppointment(s)
    BY <2>1, Zenon DEF HoldsAppointment
  <2> QED
    BY <1>3, <2>2 DEF ReadInv
<1>4. TypeShape /\ ReadInv =>
        [\A s \in Session :
           LET a == request[s].appt
               old == appointments[a] IN
           request[s].channel # "token" =>
             /\ CommitReschedule(s) =>
                  /\ old.status \in Active
                  /\ appointments'[a] = [old EXCEPT !.barber = request[s].barber,
                                                   !.start = request[s].start,
                                                   !.stop = request[s].stop]
             /\ CommitStatus(s) => old.status \in Expected[request[s].op]]_vars
  BY <1>2, <1>3
<1>5. Spec => [](TypeShape /\ ReadInv)
  BY <1>1, TypeInit, TypeStep, ReadStep, PTL DEF Spec
<1> QED
  BY <1>4, <1>5, PTL DEF Spec, LockedReadsHold
-----------------------------------------------------------------------------
\* Closures.

Booking == {"barber", "conflict", "create", "move"}

\* No closure of a date is under way while a booking of that date is past its closure test: the
\* two never overlap from the first test to the commit. Those of different dates may.
ClosuresApart ==
  \A s, q \in Session :
    pc[s] = "close" /\ pc[q] \in Booking =>
      LocalDate(request[s].start) # LocalDate(request[q].start)

\* Both a closure and a booking still rely on a fact.
ClosureInv ==
  /\ ClosedDatesFree
  /\ \A s \in Session, a \in Appointment :
       pc[s] = "close" /\ appointments[a].status \in Active =>
         LocalDate(appointments[a].start) # LocalDate(request[s].start)
  /\ \A s \in Session : pc[s] \in Booking => LocalDate(request[s].start) \notin closures

\* Every step keeps it when no closure overlaps a booking of its date past its test.
LEMMA ClosureStep ==
  ASSUME IInv, ClosureInv, ClosuresApart, [Next]_vars
  PROVE  ClosureInv'
<1>0. TypeShape /\ Core
  BY IInvSplit
<1>1. ASSUME NEW s \in Session, Arrive(s)
      PROVE  ClosureInv'
  <2>1. PICK step, r, row :
          /\ Begin(s, step, r, row)
          /\ \/ step = "closure" /\ r.op = "create" /\ Unused(r.appt)
             \/ step = "appointment" /\ r.op # "create" /\ Exists(r.appt)
             \/ step = "close" /\ r.op = "close" /\ r.appt = None
    BY <1>1, ArriveFacts
  <2>2. /\ UNCHANGED <<appointments, closures>>
        /\ pc'[s] = step /\ \A t \in Session \ {s} : pc'[t] = pc[t] /\ request'[t] = request[t]
    BY <1>0, <2>1 DEF Begin, TypeShape, TypeOK
  <2>3. pc'[s] = "close" =>
          \A a \in Appointment : appointments[a].status \in Active =>
            LocalDate(appointments[a].start) # LocalDate(request'[s].start)
    <3>1. ASSUME NEW u \in Instant, CreateClosure(s, u)
          PROVE  \A a \in Appointment : appointments[a].status \in Active =>
                   LocalDate(appointments[a].start) # LocalDate(request'[s].start)
      <4>1. request'[s].start = u
        BY <1>0, <3>1 DEF CreateClosure, Begin, Ask, TypeShape, TypeOK
      <4> QED
        BY <3>1, <4>1 DEF CreateClosure
    <3>2. (\E u \in Instant : CreateClosure(s, u)) \/ pc'[s] \in {"closure", "appointment"}
      BY <1>0, <1>1 DEF Arrive, OwnerCreate, PublicCreate, Reschedule, OwnerChange, BarberChange,
         TokenChange, Begin, TypeShape, TypeOK
    <3> QED
      BY <3>1, <3>2
  <2> QED
    BY <2>1, <2>2, <2>3 DEF ClosureInv, ClosedDatesFree, Booking
<1>2. ASSUME NEW s \in Session,
             LockAppointment(s) \/ CheckClosure(s) \/ LockBarber(s) \/ CheckConflict(s)
      PROVE  ClosureInv'
  <2>1. CheckClosure(s) => LocalDate(request[s].start) \notin closures
    BY DEF CheckClosure, DateOpen
  <2> QED
    BY <1>0, <1>2, <2>1, ProceedFacts DEF ClosureInv, ClosedDatesFree, Booking
<1>3. ASSUME NEW s \in Session, Ended(s)
      PROVE  ClosureInv'
  BY <1>0, <1>3, EndFacts, FinishFacts DEF ClosureInv, ClosedDatesFree, Booking
<1>4. ASSUME NEW s \in Session, CommitCreate(s) \/ CommitReschedule(s)
      PROVE  ClosureInv'
  <2>1. /\ pc[s] \in {"create", "move"} /\ closures' = closures /\ Finish(s)
        /\ request[s].appt \in Appointment
        /\ \A a \in Appointment \ {request[s].appt} : appointments'[a] = appointments[a]
        /\ appointments'[request[s].appt].start = request[s].start
    BY <1>0, <1>4, BookedRow
  <2>2. pc'[s] = "idle" /\ \A t \in Session \ {s} : pc'[t] = pc[t] /\ request'[t] = request[t]
    BY <1>0, <2>1, FinishFacts
  <2>3. \A t \in Session :
          pc'[t] = "close" => LocalDate(request'[t].start) # LocalDate(request[s].start)
    BY <2>1, <2>2 DEF ClosuresApart, Booking
  <2> QED
    BY <2>1, <2>2, <2>3 DEF ClosureInv, ClosedDatesFree, Booking
<1>5. ASSUME NEW s \in Session, CommitStatus(s)
      PROVE  ClosureInv'
  <2>1. pc'[s] = "idle" /\ \A t \in Session \ {s} : pc'[t] = pc[t] /\ request'[t] = request[t]
    BY <1>0, <1>5, SettledKeepsTime, FinishFacts
  <2> QED
    BY <1>0, <1>5, <2>1, SettledKeepsTime DEF ClosureInv, ClosedDatesFree, Booking
<1>6. ASSUME NEW s \in Session, CommitClosure(s)
      PROVE  ClosureInv'
  <2>1. /\ pc[s] = "close" /\ appointments' = appointments /\ Finish(s)
        /\ closures' = closures \cup {LocalDate(request[s].start)}
    BY <1>6 DEF CommitClosure
  <2>2. pc'[s] = "idle" /\ \A t \in Session \ {s} : pc'[t] = pc[t] /\ request'[t] = request[t]
    BY <1>0, <2>1, FinishFacts
  <2>3. \A t \in Session :
          pc'[t] \in Booking => LocalDate(request'[t].start) # LocalDate(request[s].start)
    BY <2>1, <2>2 DEF ClosuresApart, Booking
  <2>4. ClosedDatesFree'
    BY <2>1 DEF ClosureInv, ClosedDatesFree
  <2>5. ASSUME NEW t \in Session, pc'[t] \in Booking
        PROVE  LocalDate(request'[t].start) \notin closures'
    <3>1. t # s /\ pc[t] \in Booking /\ request'[t] = request[t]
      BY <2>2, <2>5 DEF Booking
    <3> QED
      BY <2>1, <2>3, <2>5, <3>1 DEF ClosureInv
  <2>6. ASSUME NEW t \in Session, pc'[t] = "close"
        PROVE  t # s /\ pc[t] = "close" /\ request'[t] = request[t]
    BY <2>2, <2>6
  <2> QED
    BY <2>1, <2>4, <2>5, <2>6 DEF ClosureInv
<1>7. ASSUME NEW d \in Date, DeleteClosure(d)
      PROVE  ClosureInv'
  BY <1>7 DEF DeleteClosure, ClosureInv, ClosedDatesFree
<1>8. CASE (\E b \in Barber : UpdateBarber(b)) \/ Tick \/ UNCHANGED vars
  BY <1>8 DEF UpdateBarber, Tick, vars, ClosureInv, ClosedDatesFree
<1> QED
  BY <1>1, <1>2, <1>3, <1>4, <1>5, <1>6, <1>7, <1>8, StepCases

\* No active appointment is on a closed date, if no closure overlaps a booking of its date
\* between the tests that each of them makes and its commit, and no token acts on an object out
\* of date. Nothing else can break the promise.
THEOREM ClosedDatesKept ==
  Spec /\ [][FreshGrants]_vars /\ []ClosuresApart => []ClosedDatesFree
<1>1. Init => ClosureInv
  BY DEF Init, ClosureInv, ClosedDatesFree, NoRow, Active, Booking
<1>2. ClosureInv => ClosedDatesFree
  BY DEF ClosureInv
<1>3. IInv /\ ClosureInv /\ ClosuresApart /\ [Next]_vars => ClosureInv'
  BY ClosureStep
<1> QED
  BY <1>1, <1>2, <1>3, FreshInductive, PTL DEF Spec

-----------------------------------------------------------------------------
\* Assignments.

\* No appointment is moved while a professional's request for it waits for its lock.
MovesApart ==
  \A s, q \in Session :
    pc[s] = "appointment" /\ request[s].channel = "barber" /\ pc[q] = "move" =>
      request[q].appt # request[s].appt

\* The assignment that require_assigned_appointment found is still there.
AssignedInv ==
  \A s \in Session :
    pc[s] \in {"appointment", "settle"} /\ request[s].channel = "barber" =>
      appointments[request[s].appt].barber = request[s].barber

\* Every step keeps it when no move overlaps the wait for the lock.
LEMMA AssignedStep ==
  ASSUME IInv, AssignedInv, MovesApart, [Next]_vars
  PROVE  AssignedInv'
<1>0. TypeShape /\ Core
  BY IInvSplit
<1>1. ASSUME NEW s \in Session, Arrive(s)
      PROVE  AssignedInv'
  <2>1. PICK step, r, row : Begin(s, step, r, row)
    BY <1>1, ArriveFacts
  <2>2. /\ appointments' = appointments
        /\ \A t \in Session \ {s} : pc'[t] = pc[t] /\ request'[t] = request[t]
    BY <1>0, <2>1 DEF Begin, TypeShape, TypeOK
  <2>3. pc'[s] = "appointment" /\ request'[s].channel = "barber" =>
          appointments[request'[s].appt].barber = request'[s].barber
    BY <1>0, <1>1 DEF Arrive, OwnerCreate, PublicCreate, Reschedule, OwnerChange, BarberChange,
       TokenChange, CreateClosure, Begin, Ask, TypeShape, TypeOK
  <2>4. pc'[s] # "settle"
    BY <1>0, <1>1 DEF Arrive, OwnerCreate, PublicCreate, Reschedule, OwnerChange, BarberChange,
       TokenChange, CreateClosure, Begin, TypeShape, TypeOK
  <2> QED
    BY <2>2, <2>3, <2>4 DEF AssignedInv
<1>2. ASSUME NEW s \in Session,
             LockAppointment(s) \/ CheckClosure(s) \/ LockBarber(s) \/ CheckConflict(s)
      PROVE  AssignedInv'
  BY <1>0, <1>2, ProceedFacts DEF AssignedInv
<1>3. ASSUME NEW s \in Session, Ended(s) \/ CommitClosure(s)
      PROVE  AssignedInv'
  BY <1>0, <1>3, EndFacts, FinishFacts DEF AssignedInv, CommitClosure
<1>4. ASSUME NEW s \in Session, CommitCreate(s) \/ CommitReschedule(s)
      PROVE  AssignedInv'
  <2>1. /\ pc[s] \in {"create", "move"} /\ Finish(s)
        /\ \A a \in Appointment \ {request[s].appt} : appointments'[a] = appointments[a]
    BY <1>0, <1>4, BookedRow
  <2>2. pc'[s] = "idle" /\ \A t \in Session \ {s} : pc'[t] = pc[t] /\ request'[t] = request[t]
    BY <1>0, <2>1, FinishFacts
  <2>3. ASSUME NEW t \in Session \ {s}, pc[t] \in {"appointment", "settle"}, request[t].channel = "barber"
        PROVE  request[t].appt \in Appointment \ {request[s].appt}
    <3>1. request[t].appt \in Appointment
      BY <1>0, <2>3, RequestFacts
    <3>2. CASE pc[s] = "create"
      BY <1>0, <3>1, <3>2, RequestFacts DEF Core, NewRowsUnknown
    <3>3. CASE pc[s] = "move" /\ pc[t] = "appointment"
      BY <2>3, <3>1, <3>3 DEF MovesApart
    <3>4. CASE pc[s] = "move" /\ pc[t] = "settle"
      BY <1>0, <3>1, <3>4, CommitFacts DEF HoldsAppointment
    <3> QED
      BY <2>1, <2>3, <3>2, <3>3, <3>4
  <2> QED
    BY <2>1, <2>2, <2>3 DEF AssignedInv
<1>5. ASSUME NEW s \in Session, CommitStatus(s)
      PROVE  AssignedInv'
  <2>1. pc'[s] = "idle" /\ \A t \in Session \ {s} : pc'[t] = pc[t] /\ request'[t] = request[t]
    BY <1>0, <1>5, SettledKeepsTime, FinishFacts
  <2>2. \A t \in Session : pc[t] \in {"appointment", "settle"} => request[t].appt \in Appointment
    BY <1>0, RequestFacts
  <2> QED
    BY <1>0, <1>5, <2>1, <2>2, SettledKeepsTime DEF AssignedInv
<1>6. CASE \/ \E d \in Date : DeleteClosure(d)
           \/ \E b \in Barber : UpdateBarber(b)
           \/ Tick \/ UNCHANGED vars
  BY <1>6 DEF DeleteClosure, UpdateBarber, Tick, vars, AssignedInv
<1> QED
  BY <1>1, <1>2, <1>3, <1>4, <1>5, <1>6, StepCases

\* A professional changes only appointments that are theirs at the moment of the change, if
\* none is moved between the test of the assignment and the lock.
THEOREM OwnAppointmentsOnly ==
  Spec /\ [][FreshGrants]_vars /\ []MovesApart => AssignedOnly
<1>1. Init => AssignedInv
  BY DEF Init, AssignedInv
<1>2. IInv /\ AssignedInv /\ MovesApart /\ [Next]_vars => AssignedInv'
  BY AssignedStep
<1>3. AssignedInv =>
        [\A s \in Session :
           (pc[s] = "settle" /\ appointments' # appointments /\ pc'[s] = "idle"
              /\ request[s].channel = "barber")
           => appointments[request[s].appt].barber = request[s].barber]_vars
  BY DEF AssignedInv
<1> QED
  BY <1>1, <1>2, <1>3, FreshInductive, PTL DEF Spec, AssignedOnly
-----------------------------------------------------------------------------
\* Active barbers.

\* The barber of a session past the activity test is still active: UpdateBarber waits for the
\* row lock the session holds.
ActiveInv == \A s \in Session : HoldsBarber(s) => isActive[request[s].barber]

\* A barber whose lock is granted is active. The public booking tests that before it waits for
\* the lock and not again.
ActiveGrants == \A s \in Session : LockBarber(s) => isActive[request[s].barber]

\* The other channels test it under the lock.
LEMMA TestedAtGrant ==
  ASSUME TypeShape, "public" \notin Channel
  PROVE  ActiveGrants
<1>1. \A s \in Session : request[s].channel # "public"
  BY DEF TypeShape, TypeOK, Request
<1> QED
  BY <1>1 DEF ActiveGrants, LockBarber, BarberAccepted

\* Every step keeps it when the barber is active at each grant.
LEMMA ActiveStep ==
  ASSUME IInv, ActiveInv, [Next]_vars, [ActiveGrants]_vars
  PROVE  ActiveInv'
<1>0. TypeShape /\ Core
  BY IInvSplit
<1>1. ASSUME NEW s \in Session, Arrive(s)
      PROVE  ActiveInv'
  <2>1. PICK step, r, row :
          /\ Begin(s, step, r, row)
          /\ step \in {"closure", "appointment", "close"}
    BY <1>1, ArriveFacts
  <2>2. /\ isActive' = isActive /\ pc'[s] = step
        /\ \A t \in Session \ {s} : pc'[t] = pc[t] /\ request'[t] = request[t]
    BY <1>0, <2>1 DEF Begin, TypeShape, TypeOK
  <2> QED
    BY <2>1, <2>2 DEF ActiveInv, HoldsBarber
<1>2. ASSUME ActiveGrants, NEW s \in Session,
             LockAppointment(s) \/ CheckClosure(s) \/ LockBarber(s) \/ CheckConflict(s)
      PROVE  ActiveInv'
  <2>1. LockBarber(s) => isActive[request[s].barber]
    BY <1>2 DEF ActiveGrants
  <2>2. /\ UNCHANGED <<isActive, request>>
        /\ \A t \in Session \ {s} : pc'[t] = pc[t]
        /\ \/ pc'[s] \in {"closure", "settle", "barber"}
           \/ LockBarber(s) /\ pc[s] = "barber" /\ pc'[s] = "conflict"
           \/ pc[s] = "conflict" /\ pc'[s] \in {"create", "move"}
    BY <1>0, <1>2, ProceedFacts
  <2> QED
    BY <2>1, <2>2 DEF ActiveInv, HoldsBarber
<1>3. ASSUME NEW s \in Session,
             \/ Ended(s) \/ CommitCreate(s) \/ CommitReschedule(s) \/ CommitStatus(s)
             \/ CommitClosure(s)
      PROVE  ActiveInv'
  <2>1. Finish(s)
    BY <1>3, <1>0, EndFacts DEF CommitCreate, CommitReschedule, CommitStatus, CommitClosure
  <2>2. pc'[s] = "idle" /\ \A t \in Session \ {s} : pc'[t] = pc[t] /\ request'[t] = request[t]
    BY <1>0, <2>1, FinishFacts
  <2>3. isActive' = isActive
    BY <2>1 DEF Finish
  <2> QED
    BY <2>2, <2>3 DEF ActiveInv, HoldsBarber
<1>4. ASSUME NEW b \in Barber, UpdateBarber(b)
      PROVE  ActiveInv'
  <2>1. /\ barberLock[b] = None /\ UNCHANGED <<pc, request>>
        /\ \A c \in Barber \ {b} : isActive'[c] = isActive[c]
    BY <1>0, <1>4 DEF UpdateBarber, TypeShape, TypeOK
  <2>2. ASSUME NEW s \in Session, HoldsBarber(s)
        PROVE  request[s].barber \in Barber \ {b}
    BY <1>0, <2>1, <2>2, RequestFacts, SessionAssumption DEF Core, BarberIsLocked, HoldsBarber
  <2> QED
    BY <2>1, <2>2 DEF ActiveInv, HoldsBarber
<1>5. CASE (\E d \in Date : DeleteClosure(d)) \/ Tick \/ UNCHANGED vars
  BY <1>5 DEF DeleteClosure, Tick, vars, ActiveInv, HoldsBarber
<1> QED
  BY <1>1, <1>2, <1>3, <1>4, <1>5, StepCases

\* A step that takes time of a barber finds the barber active.
LEMMA TakenWhileActive ==
  ASSUME IInv, ActiveInv, [Next]_vars, NEW a \in Appointment, TakesTime(a)
  PROVE  isActive[appointments'[a].barber]
<1>0. TypeShape /\ Core
  BY IInvSplit
<1>1. ASSUME NEW s \in Session, CommitCreate(s) \/ CommitReschedule(s)
      PROVE  isActive[appointments'[a].barber]
  <2>1. /\ pc[s] \in {"create", "move"}
        /\ \A x \in Appointment \ {request[s].appt} : appointments'[x] = appointments[x]
        /\ appointments'[request[s].appt].barber = request[s].barber
    BY <1>0, <1>1, BookedRow
  <2>2. a = request[s].appt
    BY <2>1 DEF TakesTime, Active
  <2> QED
    BY <2>1, <2>2 DEF ActiveInv, HoldsBarber
<1>2. ASSUME NEW s \in Session, CommitStatus(s)
      PROVE  FALSE
  BY <1>0, <1>2, SettledKeepsTime DEF TakesTime, Active
<1>3. ASSUME appointments' = appointments
      PROVE  FALSE
  BY <1>3 DEF TakesTime, Active
<1>4. ASSUME NEW s \in Session, Arrive(s)
      PROVE  appointments' = appointments
  <2>1. PICK step, r, row : Begin(s, step, r, row)
    BY <1>4, ArriveFacts
  <2> QED
    BY <2>1 DEF Begin
<1>5. ASSUME NEW s \in Session,
             LockAppointment(s) \/ CheckClosure(s) \/ LockBarber(s) \/ CheckConflict(s)
      PROVE  appointments' = appointments
  BY <1>0, <1>5, ProceedFacts
<1>6. ASSUME NEW s \in Session, Ended(s) \/ CommitClosure(s)
      PROVE  appointments' = appointments
  BY <1>0, <1>6, EndFacts DEF CommitClosure
<1>7. (\E d \in Date : DeleteClosure(d)) \/ (\E b \in Barber : UpdateBarber(b)) \/ Tick \/ UNCHANGED vars
        => appointments' = appointments
  BY DEF DeleteClosure, UpdateBarber, Tick, vars
<1> QED
  BY <1>1, <1>2, <1>3, <1>4, <1>5, <1>6, <1>7, StepCases

\* Time is only taken of a barber who is active at the commit, whatever deactivations come in
\* between, if the barber was active when the lock was granted: the lock keeps the answer true.
THEOREM ActiveAtCommit ==
  Spec /\ [][FreshGrants]_vars /\ [][ActiveGrants]_vars => BookedBarberActive
<1>1. Init => ActiveInv
  BY DEF Init, ActiveInv, HoldsBarber
<1>2. IInv /\ ActiveInv /\ [Next]_vars /\ [ActiveGrants]_vars => ActiveInv'
  BY ActiveStep
<1>3. IInv /\ ActiveInv /\ [Next]_vars =>
        [\A a \in Appointment : TakesTime(a) => isActive[appointments'[a].barber]]_vars
  BY TakenWhileActive
<1> QED
  BY <1>1, <1>2, <1>3, FreshInductive, PTL DEF Spec, BookedBarberActive

\* So it is without further condition on the channels that test is_active under the lock: all but
\* the public booking.
THEOREM ActiveOffPublic ==
  ASSUME "public" \notin Channel
  PROVE  Spec /\ [][FreshGrants]_vars => BookedBarberActive
<1>1. IInv => ActiveGrants
  BY IInvSplit, TestedAtGrant
<1>2. Spec /\ [][FreshGrants]_vars => [][ActiveGrants]_vars
  BY <1>1, FreshInductive, PTL
<1> QED
  BY <1>2, ActiveAtCommit, PTL
-----------------------------------------------------------------------------
\* Requests one at a time.

\* At most one request is under way.
Alone == \A s, q \in Session : pc[s] # "idle" /\ pc[q] # "idle" => s = q

\* With one request at a time, the object a booking token brings stays the committed row until
\* its lock is granted.
LEMMA AloneStep ==
  ASSUME TypeShape, FreshGuards, Alone, [Next]_vars
  PROVE  FreshGuards'
<1>1. ASSUME NEW s \in Session, Arrive(s)
      PROVE  FreshGuards'
  <2>1. PICK step, r, row : Begin(s, step, r, row)
    BY <1>1, ArriveFacts
  <2>2. /\ appointments' = appointments
        /\ \A t \in Session \ {s} :
             pc'[t] = pc[t] /\ request'[t] = request[t] /\ loaded'[t] = loaded[t]
    BY <2>1 DEF Begin, TypeShape, TypeOK
  <2>3. pc'[s] = "appointment" /\ request'[s].channel = "token" =>
          loaded'[s] = appointments[request'[s].appt]
    BY <1>1 DEF Arrive, OwnerCreate, PublicCreate, Reschedule, OwnerChange, BarberChange,
       TokenChange, CreateClosure, Begin, Ask, TypeShape, TypeOK
  <2> QED
    BY <2>2, <2>3 DEF FreshGuards, RowSeen
<1>2. ASSUME NEW s \in Session,
             LockAppointment(s) \/ CheckClosure(s) \/ LockBarber(s) \/ CheckConflict(s)
      PROVE  FreshGuards'
  BY <1>2, ProceedFacts DEF FreshGuards, RowSeen
<1>3. ASSUME NEW s \in Session,
             \/ Ended(s) \/ CommitCreate(s) \/ CommitReschedule(s) \/ CommitStatus(s)
             \/ CommitClosure(s)
      PROVE  FreshGuards'
  <2>1. Finish(s) /\ pc[s] # "idle"
    BY <1>3, EndFacts DEF CommitCreate, CommitReschedule, CommitStatus, CommitClosure
  <2>2. pc'[s] = "idle" /\ \A t \in Session \ {s} : pc'[t] = pc[t]
    BY <2>1, FinishFacts
  <2>3. \A t \in Session : pc'[t] # "appointment"
    BY <2>1, <2>2 DEF Alone
  <2> QED
    BY <2>3 DEF FreshGuards
<1>4. CASE \/ \E d \in Date : DeleteClosure(d)
           \/ \E b \in Barber : UpdateBarber(b)
           \/ Tick \/ UNCHANGED vars
  BY <1>4 DEF DeleteClosure, UpdateBarber, Tick, vars, FreshGuards, RowSeen
<1> QED
  BY <1>1, <1>2, <1>3, <1>4, StepCases

\* On every channel, tokens and public bookings included, requests that follow one another keep
\* the inductive invariant, the closed dates and the assignments: whatever goes wrong in this
\* component takes two requests at once.
THEOREM SafeOneByOne == Spec /\ []Alone => []IInv /\ []ClosedDatesFree /\ AssignedOnly
<1>1. Init => FreshGuards
  BY DEF Init, FreshGuards
<1>2. Spec => []TypeShape
  BY TypeInit, TypeStep, PTL DEF Spec
<1>3. TypeShape /\ FreshGuards /\ Alone /\ [Next]_vars => FreshGuards'
  BY AloneStep
<1>4. Spec /\ []Alone => []FreshGuards
  BY <1>1, <1>2, <1>3, PTL DEF Spec
<1>5. Alone => ClosuresApart /\ MovesApart
  BY DEF Alone, ClosuresApart, MovesApart, Booking
<1>6. FreshGuards => FreshGrants
  BY GuardsGrant
<1>7. Spec /\ []Alone => [][FreshGrants]_vars
  BY <1>4, <1>6, PTL
<1> QED
  BY <1>5, <1>7, FreshInductive, ClosedDatesKept, OwnAppointmentsOnly, PTL
=============================================================================
