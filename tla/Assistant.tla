------------------------------- MODULE Assistant -------------------------------
(***************************************************************************)
(* Bookings requested through the assistant, on one local date.  A         *)
(* proposal stores an offered slot and reserves nothing; a confirmation    *)
(* locks the conversation, then the professional, looks at the schedule    *)
(* again and inserts the appointment together with its link to the         *)
(* conversation.  A confirmation of a linked conversation answers with the *)
(* appointment it already made.                                            *)
(*                                                                         *)
(* The other requests of the booking system are steps of Calendar that     *)
(* wait for the professional's row lock.  The rows a confirmation relies   *)
(* on are changed under three regimes: an insertion that refers to the     *)
(* professional (an absence, a first schedule) and an update of the        *)
(* professional wait for the row lock; an update or a deletion of a        *)
(* schedule, a deletion of an absence and a closure do not.                *)
(***************************************************************************)
EXTENDS Availability, FiniteSets

CONSTANTS
  Session,       \* concurrent assistant requests
  Conversation,  \* the identifiers of proposals
  Schedules,     \* the weekday schedules professionals configure
  Absences,      \* the [start, stop) intervals of absences
  Spans,         \* the [start, stop) intervals other requests book
  Others         \* the other requests that take part

ASSUME SessionAssumption == None \notin Session
ASSUME ConversationAssumption == None \notin Conversation
ASSUME SchedulesAssumption == Schedules \subseteq {d \in Schedule : ValidSchedule(d)}
ASSUME IntervalsAssumption ==
  Absences \cup Spans \subseteq {i \in Instant \X Instant : i[1] < i[2]}

VARIABLES
  appointments,      \* the committed appointments table
  byAssistant,       \* history: the rows a confirmation inserted
  conversations,     \* the committed assistant_conversations table
  schedule,          \* the schedule of the date's weekday, if any, per professional
  timeOff,           \* the absences of each professional
  closed,            \* whether the date is in business_closures
  isActive,          \* barbers.is_active
  conversationLock,  \* the session that holds the row lock of a conversation
  barberLock,        \* the session that holds the row lock of a professional
  pc,                \* the step each session waits to take
  request,           \* the conversation confirmed, or the proposal to store
  found,             \* the schedule a revalidation has read
  clock

agenda == <<schedule, timeOff, closed, isActive>>
bookings == <<appointments, byAssistant, conversations>>
locks == <<conversationLock, barberLock>>
sessions == <<pc, request, found>>
vars == <<bookings, agenda, locks, sessions, clock>>

Cal == INSTANCE Calendar WITH book <- appointments

Proposal(b, slot, a) == [barber |-> b, slot |-> slot, appt |-> a]
NoProposal == Proposal(None, <<0, 0>>, None)
Proposals == [barber : Barber \cup {None}, slot : Instant \X Instant, appt : Appointment \cup {None}]
Steps == {"idle", "store", "conversation", "barber", "revalidate", "slots", "closure", "conflict", "create"}

\* The tables, the locks and the sessions have these types.
TypeOK ==
  /\ appointments \in [Appointment -> Row]
  /\ byAssistant \subseteq Appointment
  /\ conversations \in [Conversation -> Proposals]
  /\ schedule \in [Barber -> SUBSET Schedules]
  /\ timeOff \in [Barber -> SUBSET Absences]
  /\ closed \in BOOLEAN
  /\ isActive \in [Barber -> BOOLEAN]
  /\ conversationLock \in [Conversation -> Session \cup {None}]
  /\ barberLock \in [Barber -> Session \cup {None}]
  /\ pc \in [Session -> Steps]
  /\ request \in [Session -> [conv : Conversation \cup {None}, proposal : Proposals]]
  /\ found \in [Session -> SUBSET Schedules]
  /\ clock \in Instant

NoRequest == [conv |-> None, proposal |-> NoProposal]

Init ==
  /\ appointments = [a \in Appointment |-> NoRow]
  /\ byAssistant = {}
  /\ conversations = [c \in Conversation |-> NoProposal]
  /\ schedule \in [Barber -> {{}} \cup {{d} : d \in Schedules}]
  /\ timeOff = [b \in Barber |-> {}]
  /\ closed = FALSE
  /\ isActive = [b \in Barber |-> TRUE]
  /\ conversationLock = [c \in Conversation |-> None]
  /\ barberLock = [b \in Barber |-> None]
  /\ pc = [s \in Session |-> "idle"]
  /\ request = [s \in Session |-> NoRequest]
  /\ found = [s \in Session |-> {}]
  /\ clock = 0

Exists(c) == conversations[c].barber # None
Offered(days, b) == OfferedSlots(days, appointments, b, timeOff[b], closed, clock)

-----------------------------------------------------------------------------
\* The steps of an assistant request.

Begin(s, step, r) ==
  /\ pc[s] = "idle"
  /\ pc' = [pc EXCEPT ![s] = step]
  /\ request' = [request EXCEPT ![s] = r]
  /\ UNCHANGED <<bookings, agenda, locks, found, clock>>

Proceed(s, from, to) ==
  /\ pc[s] = from
  /\ pc' = [pc EXCEPT ![s] = to]
  /\ UNCHANGED <<bookings, agenda, request, clock>>

Free(lock, s) == [x \in DOMAIN lock |-> IF lock[x] = s THEN None ELSE lock[x]]

\* A session that ends releases its row locks.
Finish(s) ==
  /\ pc' = [pc EXCEPT ![s] = "idle"]
  /\ request' = [request EXCEPT ![s] = NoRequest]
  /\ found' = [found EXCEPT ![s] = {}]
  /\ conversationLock' = Free(conversationLock, s)
  /\ barberLock' = Free(barberLock, s)
  /\ UNCHANGED <<agenda, clock>>

Refuse(s) == Finish(s) /\ UNCHANGED bookings

\* The proposal keeps the slot that was offered when it was read.
Propose(s, b) ==
  /\ isActive[b]
  /\ \E slot \in Offered(schedule[b], b) :
       Begin(s, "store", [conv |-> None, proposal |-> Proposal(b, slot, None)])

\* The insertion refers to the professional, and so waits for the row lock.
StoreProposal(s, c) ==
  /\ pc[s] = "store"
  /\ ~Exists(c)
  /\ barberLock[request[s].proposal.barber] = None
  /\ conversations' = [conversations EXCEPT ![c] = request[s].proposal]
  /\ Finish(s)
  /\ UNCHANGED <<appointments, byAssistant>>

\* Every message lists the slots first, which an inactive professional refuses.
Confirm(s, c) ==
  /\ Exists(c)
  /\ isActive[conversations[c].barber]
  /\ Begin(s, "conversation", [conv |-> c, proposal |-> conversations[c]])

\* Faulty variant: the conversation is read without FOR UPDATE.
LockConversationUnlocked(s) ==
  /\ Proceed(s, "conversation", "barber")
  /\ conversationLock[request[s].conv] = None
  /\ conversations[request[s].conv].appt = None
  /\ UNCHANGED <<locks, found>>

LockConversation(s) ==
  LET c == request[s].conv IN
  /\ Proceed(s, "conversation", "barber")
  /\ conversationLock[c] = None
  /\ conversations[c].appt = None
  /\ conversationLock' = [conversationLock EXCEPT ![c] = s]
  /\ UNCHANGED <<barberLock, found>>

\* A linked conversation answers with its appointment and changes nothing.
ReturnBooked(s) ==
  /\ pc[s] = "conversation"
  /\ conversationLock[request[s].conv] = None
  /\ conversations[request[s].conv].appt # None
  /\ Refuse(s)

\* Faulty variant: the professional is read without FOR UPDATE.
LockBarberUnlocked(s) ==
  /\ Proceed(s, "barber", "revalidate")
  /\ UNCHANGED <<locks, found>>

LockBarber(s) ==
  LET b == request[s].proposal.barber IN
  /\ Proceed(s, "barber", "revalidate")
  /\ barberLock[b] = None
  /\ barberLock' = [barberLock EXCEPT ![b] = s]
  /\ UNCHANGED <<conversationLock, found>>

\* The revalidation reads the professional, the closure and the schedule ...
Revalidate(s) ==
  LET b == request[s].proposal.barber IN
  /\ Proceed(s, "revalidate", "slots")
  /\ isActive[b]
  /\ ~closed
  /\ found' = [found EXCEPT ![s] = schedule[b]]
  /\ UNCHANGED locks

\* ... and then the appointments, the absences and the time.
FindSlot(s) ==
  LET p == request[s].proposal IN
  /\ Proceed(s, "slots", "closure")
  /\ p.slot \in OfferedSlots(found[s], appointments, p.barber, timeOff[p.barber], FALSE, clock)
  /\ UNCHANGED <<locks, found>>

RejectSlot(s) ==
  LET p == request[s].proposal IN
  /\ \/ /\ pc[s] = "revalidate"
        /\ closed \/ ~isActive[p.barber]
     \/ /\ pc[s] = "slots"
        /\ p.slot \notin
             OfferedSlots(found[s], appointments, p.barber, timeOff[p.barber], FALSE, clock)
  /\ Refuse(s)

\* AppointmentService.create repeats the closure test and queries conflicts.  Under
\* the row lock the professional is still active and the slot still free.
CheckClosure(s) ==
  /\ Proceed(s, "closure", "conflict")
  /\ ~closed
  /\ UNCHANGED <<locks, found>>

RejectClosed(s) == pc[s] = "closure" /\ closed /\ Refuse(s)

CheckConflict(s) ==
  LET p == request[s].proposal IN
  /\ Proceed(s, "conflict", "create")
  /\ isActive[p.barber]
  /\ ~HasActiveConflict(appointments, p.barber, p.slot[1], p.slot[2], None)
  /\ UNCHANGED <<locks, found>>

Insert(s, a) ==
  LET p == request[s].proposal IN
  /\ pc[s] = "create"
  /\ appointments[a].status = "none"
  /\ appointments' = [appointments EXCEPT ![a] = NewRow(p.barber, p.slot[1], p.slot[2])]
  /\ byAssistant' = byAssistant \cup {a}
  /\ Finish(s)

\* Faulty variant: the row is committed before it is linked.
BookUnlinked(s, a) == Insert(s, a) /\ UNCHANGED conversations

\* Faulty variant: the link names the professional instead of the row.
BookLinkingBarber(s, a) ==
  /\ Insert(s, a)
  /\ conversations' =
       [conversations EXCEPT ![request[s].conv].appt = request[s].proposal.barber]

\* The row and its link are one commit.
BookProposal(s, a) ==
  /\ Insert(s, a)
  /\ conversations' = [conversations EXCEPT ![request[s].conv].appt = a]

\* A lost connection, a stopped worker or a failed insertion undoes the transaction.
Fail(s) == pc[s] # "idle" /\ Refuse(s)

AssistantStep(s) ==
  \/ \E b \in Barber : Propose(s, b)
  \/ \E c \in Conversation : StoreProposal(s, c) \/ Confirm(s, c)
  \/ LockConversation(s) \/ ReturnBooked(s) \/ LockBarber(s)
  \/ Revalidate(s) \/ FindSlot(s) \/ RejectSlot(s)
  \/ CheckClosure(s) \/ RejectClosed(s) \/ CheckConflict(s)
  \/ \E a \in Appointment : BookProposal(s, a)
  \/ Fail(s)

-----------------------------------------------------------------------------
\* The other requests.

OtherBook(b, i) ==
  /\ "book" \in Others
  /\ barberLock[b] = None
  /\ clock < i[1]
  /\ \E a \in Appointment : Cal!Book(a, b, i[1], i[2])
  /\ UNCHANGED <<byAssistant, conversations, agenda, locks, sessions, clock>>

OtherMove(b, i) ==
  /\ "move" \in Others
  /\ barberLock[b] = None
  /\ clock < i[1]
  /\ \E a \in Appointment : Cal!Move(a, b, i[1], i[2])
  /\ UNCHANGED <<byAssistant, conversations, agenda, locks, sessions, clock>>

OtherSettle(op) ==
  /\ "settle" \in Others
  /\ \E a \in Appointment : Cal!Settle(a, op)
  /\ UNCHANGED <<byAssistant, conversations, agenda, locks, sessions, clock>>

\* A first schedule is inserted; a later one is updated in place.
UpsertSchedule(b, d) ==
  /\ "schedule" \in Others
  /\ schedule[b] = {} => barberLock[b] = None
  /\ schedule' = [schedule EXCEPT ![b] = {d}]
  /\ UNCHANGED <<timeOff, closed, isActive, bookings, locks, sessions, clock>>

DeleteSchedule(b) ==
  /\ "schedule" \in Others
  /\ schedule' = [schedule EXCEPT ![b] = {}]
  /\ UNCHANGED <<timeOff, closed, isActive, bookings, locks, sessions, clock>>

CreateTimeOff(b, i) ==
  /\ "absence" \in Others
  /\ barberLock[b] = None
  /\ timeOff' = [timeOff EXCEPT ![b] = @ \cup {i}]
  /\ UNCHANGED <<schedule, closed, isActive, bookings, locks, sessions, clock>>

DeleteTimeOff(b, i) ==
  /\ "absence" \in Others
  /\ i \in timeOff[b]
  /\ timeOff' = [timeOff EXCEPT ![b] = @ \ {i}]
  /\ UNCHANGED <<schedule, closed, isActive, bookings, locks, sessions, clock>>

UpdateBarber(b) ==
  /\ "activity" \in Others
  /\ barberLock[b] = None
  /\ isActive' = [isActive EXCEPT ![b] = ~@]
  /\ UNCHANGED <<schedule, timeOff, closed, bookings, locks, sessions, clock>>

CreateClosure ==
  /\ "closure" \in Others
  /\ ~closed
  /\ \A a \in Appointment : appointments[a].status \notin Active
  /\ closed' = TRUE
  /\ UNCHANGED <<schedule, timeOff, isActive, bookings, locks, sessions, clock>>

DeleteClosure ==
  /\ "closure" \in Others
  /\ closed
  /\ closed' = FALSE
  /\ UNCHANGED <<schedule, timeOff, isActive, bookings, locks, sessions, clock>>

Tick ==
  /\ clock < Horizon
  /\ clock' = clock + 1
  /\ UNCHANGED <<bookings, agenda, locks, sessions>>

OtherStep ==
  \/ \E b \in Barber, i \in Spans : OtherBook(b, i) \/ OtherMove(b, i)
  \/ \E op \in DOMAIN Target : OtherSettle(op)
  \/ \E b \in Barber, d \in Schedules : UpsertSchedule(b, d)
  \/ \E b \in Barber : DeleteSchedule(b) \/ UpdateBarber(b)
  \/ \E b \in Barber, i \in Absences : CreateTimeOff(b, i) \/ DeleteTimeOff(b, i)
  \/ CreateClosure \/ DeleteClosure
  \/ Tick

Next == (\E s \in Session : AssistantStep(s)) \/ OtherStep

Spec == Init /\ [][Next]_vars
-----------------------------------------------------------------------------
\* The slots list_available_slots offers are the slots of the grid that start in
\* the future and at none of whose instants the professional is outside the
\* working window, at the break, absent, booked or closed.
OffersExactlyFree ==
  \A b \in Barber, start, stop \in Instant :
    <<start, stop>> \in Offered(schedule[b], b) <=>
      /\ start > clock
      /\ \E d \in schedule[b], k \in Instant :
           start = d.starts + k * d.length /\ stop = start + d.length
      /\ \A t \in start..(stop - 1) :
           Working(schedule[b], appointments, b, timeOff[b], closed, t)

\* A confirmation, repeated or concurrent, inserts one row per conversation: every
\* row the assistant inserted is the link of exactly one conversation.
ExactlyOnce ==
  /\ \A a \in byAssistant : Cardinality({c \in Conversation : conversations[c].appt = a}) = 1
  /\ \A c \in Conversation : conversations[c].appt \in byAssistant \cup {None}

\* Once confirm has answered with an appointment, the conversation answers with it
\* for ever, whatever becomes of the appointment.
LinkStays ==
  [][\A c \in Conversation : conversations[c].appt # None => UNCHANGED conversations[c]]_vars

\* What confirm has revalidated under the professional's row lock still holds when
\* the row is inserted: no absence, no inactive professional, no other booking.
RevalidationHolds ==
  \A s \in Session : pc[s] \in {"closure", "conflict", "create"} =>
    LET p == request[s].proposal IN
    /\ isActive[p.barber]
    /\ \A i \in timeOff[p.barber] : ~Overlaps(i, p.slot[1], p.slot[2])
    /\ ~HasActiveConflict(appointments, p.barber, p.slot[1], p.slot[2], None)

\* Confirmations and the other requests together keep the promise of the
\* scheduling services: a booking takes free time of one barber.
ImplementsCalendar == Cal!Spec
=============================================================================
