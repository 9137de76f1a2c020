---------------------------- MODULE AssistantProofs ----------------------------
(***************************************************************************)
(* What a confirmation revalidates still holds when it inserts, every      *)
(* proposal becomes at most one appointment, and the assistant implements  *)
(* Calendar, for any number of requests, conversations, professionals and  *)
(* instants.                                                               *)
(***************************************************************************)
EXTENDS Assistant, FiniteSetTheorems, TLAPS

\* The steps under the professional's row lock, under the conversation's, and of a
\* confirmation.
Holding == {"revalidate", "slots", "closure", "conflict", "create"}
Linking == Holding \cup {"barber"}
Confirming == Linking \cup {"conversation"}

\* A request names a professional and an interval, a confirmation also a stored
\* proposal of the professional's.
Shape ==
  /\ \A s \in Session : pc[s] # "idle" =>
       /\ request[s].proposal.barber \in Barber
       /\ request[s].proposal.slot[1] < request[s].proposal.slot[2]
  /\ \A s \in Session : pc[s] = "store" => request[s].proposal.appt = None
  /\ \A s \in Session : pc[s] \in Confirming =>
       /\ request[s].conv \in Conversation
       /\ Exists(request[s].conv)
  /\ \A c \in Conversation : Exists(c) => conversations[c].slot[1] < conversations[c].slot[2]

\* The rows of the assistant and the links of the conversations correspond.
Links ==
  /\ \A c \in Conversation : ~Exists(c) => conversations[c].appt = None
  /\ \A c \in Conversation : conversations[c].appt # None => conversations[c].appt \in byAssistant
  /\ \A a \in byAssistant : \E c \in Conversation : conversations[c].appt = a
  /\ \A c, d \in Conversation :
       conversations[c].appt # None /\ conversations[c].appt = conversations[d].appt => c = d
  /\ \A a \in byAssistant : appointments[a].status # "none"

\* A confirmation holds its row locks, and its conversation is not linked yet.
LocksHeld ==
  /\ \A s \in Session : pc[s] \in Holding => barberLock[request[s].proposal.barber] = s
  /\ \A s \in Session : pc[s] \in Linking => conversationLock[request[s].conv] = s
  /\ \A s \in Session : pc[s] \in Linking => conversations[request[s].conv].appt = None

\* The activity a revalidation has read is protected by the row lock.
ActiveHeld ==
  \A s \in Session : pc[s] = "slots" => isActive[request[s].proposal.barber]

AInv == TypeOK /\ Shape /\ Links /\ LocksHeld /\ ActiveHeld /\ RevalidationHolds

-----------------------------------------------------------------------------
\* Vocabulary.

LEMMA SameWords ==
  /\ Cal!NoRow = NoRow /\ Cal!Instant = Instant
  /\ Cal!Active = Active /\ Cal!Target = Target /\ Cal!Expected = Expected
  /\ \A b, t, u : Cal!NewRow(b, t, u) = NewRow(b, t, u)
  /\ \A table, b, t, u, a :
       Cal!HasActiveConflict(table, b, t, u, a) <=> HasActiveConflict(table, b, t, u, a)
BY DEF NoRow, Cal!NoRow, Instant, Cal!Instant, Active, Cal!Active,
   Target, Cal!Target, Expected, Cal!Expected, Final, Cal!Final,
   NewRow, Cal!NewRow, HasActiveConflict, Cal!HasActiveConflict, Occupies, Cal!Occupies

\* A slot that is offered is an interval of instants, free of bookings and absences.
LEMMA OfferedFree ==
  ASSUME NEW days \in SUBSET Schedules, NEW table, NEW b, NEW absences, NEW shut, NEW now,
         NEW slot \in OfferedSlots(days, table, b, absences, shut, now)
  PROVE  /\ slot \in Instant \X Instant
         /\ slot[1] < slot[2]
         /\ ~HasActiveConflict(table, b, slot[1], slot[2], None)
         /\ \A i \in absences : ~Overlaps(i, slot[1], slot[2])
<1>1. PICK day \in days, t \in Instant :
        /\ t \in SlotStarts(day)
        /\ FreeSlot(day, table, b, absences, now, t)
        /\ slot = <<t, t + day.length>>
  BY DEF OfferedSlots, SlotStarts
<1>2. day \in Schedule
  BY SchedulesAssumption
<1>3. /\ day.length \in Instant \ {0} /\ day.ends \in Instant
      /\ t \in Instant /\ t + day.length <= day.ends
  BY <1>1, <1>2 DEF Schedule, SlotStarts
<1>4. t + day.length \in Instant /\ t < t + day.length
  BY <1>3, TimeAssumption DEF Instant
<1>5. slot[1] = t /\ slot[2] = t + day.length
  BY <1>1
<1> QED
  BY <1>1, <1>3, <1>4, <1>5 DEF FreeSlot

\* A released lock was the session's, and the others' locks stay.
LEMMA FreedLocks ==
  ASSUME NEW K, NEW lock \in [K -> Session \cup {None}], NEW s \in Session
  PROVE  /\ Free(lock, s) \in [K -> Session \cup {None}]
         /\ \A x \in K : lock[x] # s => Free(lock, s)[x] = lock[x]
BY DEF Free

LEMMA SessionFacts ==
  ASSUME AInv, NEW s \in Session
  PROVE  /\ pc[s] \in Steps
         /\ request[s].conv \in Conversation \cup {None}
         /\ request[s].proposal \in Proposals
         /\ request[s].proposal.slot \in Instant \X Instant
         /\ found[s] \in SUBSET Schedules
BY DEF AInv, TypeOK, Proposals

LEMMA TableTypes ==
  /\ NoProposal \in Proposals
  /\ NoRequest \in [conv : Conversation \cup {None}, proposal : Proposals]
  /\ NoRow \in Row
  /\ \A b \in Barber, t, u \in Instant : NewRow(b, t, u) \in Row
<1>1. 0 \in Instant
  BY TimeAssumption DEF Instant
<1>2. NoProposal \in Proposals
  BY <1>1 DEF NoProposal, Proposal, Proposals
<1> QED
  BY <1>1, <1>2 DEF NoRequest, NoRow, NewRow, Row, Status, Active, Final

-----------------------------------------------------------------------------
\* Steps that end a request.

\* The session of a request that ends is idle and the others keep their locks.
LEMMA FinishFacts ==
  ASSUME AInv, NEW s \in Session, Finish(s)
  PROVE  /\ pc' \in [Session -> Steps]
         /\ request' \in [Session -> [conv : Conversation \cup {None}, proposal : Proposals]]
         /\ found' \in [Session -> SUBSET Schedules]
         /\ conversationLock' \in [Conversation -> Session \cup {None}]
         /\ barberLock' \in [Barber -> Session \cup {None}]
         /\ pc'[s] = "idle"
         /\ \A t \in Session \ {s} : pc'[t] = pc[t] /\ request'[t] = request[t]
         /\ \A t \in Session \ {s} :
              pc[t] \in Holding => barberLock'[request[t].proposal.barber] = t
         /\ \A t \in Session \ {s} :
              pc[t] \in Linking => conversationLock'[request[t].conv] = t
<1>1. /\ pc' = [pc EXCEPT ![s] = "idle"] /\ request' = [request EXCEPT ![s] = NoRequest]
      /\ found' = [found EXCEPT ![s] = {}]
      /\ conversationLock' = Free(conversationLock, s) /\ barberLock' = Free(barberLock, s)
  BY DEF Finish
<1>2. /\ conversationLock' \in [Conversation -> Session \cup {None}]
      /\ barberLock' \in [Barber -> Session \cup {None}]
  BY <1>1, FreedLocks DEF AInv, TypeOK
<1>3. /\ pc' \in [Session -> Steps]
      /\ request' \in [Session -> [conv : Conversation \cup {None}, proposal : Proposals]]
      /\ found' \in [Session -> SUBSET Schedules]
  <2>1. "idle" \in Steps /\ {} \in SUBSET Schedules
    BY DEF Steps
  <2> QED
    BY <1>1, <2>1, TableTypes DEF AInv, TypeOK
<1>4. pc'[s] = "idle" /\ \A t \in Session \ {s} : pc'[t] = pc[t] /\ request'[t] = request[t]
  BY <1>1 DEF AInv, TypeOK
<1>5. ASSUME NEW t \in Session \ {s}, pc[t] \in Linking
      PROVE  conversationLock'[request[t].conv] = t
  <2>1. request[t].conv \in Conversation
    BY <1>5 DEF AInv, Shape, Confirming
  <2>2. conversationLock[request[t].conv] = t
    BY <1>5 DEF AInv, LocksHeld
  <2>3. DOMAIN conversationLock = Conversation
    BY DEF AInv, TypeOK
  <2> QED
    BY <1>1, <2>1, <2>2, <2>3 DEF Free
<1>6. ASSUME NEW t \in Session \ {s}, pc[t] \in Holding
      PROVE  barberLock'[request[t].proposal.barber] = t
  <2>1. pc[t] # "idle"
    BY <1>6 DEF Holding
  <2>2. request[t].proposal.barber \in Barber
    BY <2>1 DEF AInv, Shape
  <2>3. barberLock[request[t].proposal.barber] = t
    BY <1>6 DEF AInv, LocksHeld
  <2>4. DOMAIN barberLock = Barber
    BY DEF AInv, TypeOK
  <2> QED
    BY <1>1, <2>2, <2>3, <2>4 DEF Free
<1> QED
  BY <1>2, <1>3, <1>4, <1>5, <1>6

LEMMA IdleIsOutside ==
  /\ "idle" \notin Confirming /\ "idle" \notin Linking /\ "idle" \notin Holding
  /\ "store" \notin Confirming /\ "store" \notin Linking /\ "store" \notin Holding
  /\ Holding \subseteq Linking /\ Linking \subseteq Confirming
BY DEF Confirming, Linking, Holding

LEMMA FinishLocks ==
  ASSUME AInv, NEW s \in Session, Finish(s),
         \A t \in Session \ {s} : pc[t] \in Linking => conversations'[request[t].conv].appt = None
  PROVE  LocksHeld'
<1> SUFFICES ASSUME NEW t \in Session
             PROVE  /\ pc'[t] \in Holding => barberLock'[request'[t].proposal.barber] = t
                    /\ pc'[t] \in Linking => conversationLock'[request'[t].conv] = t
                    /\ pc'[t] \in Linking => conversations'[request'[t].conv].appt = None
  BY DEF LocksHeld
<1>1. CASE t = s
  BY <1>1, FinishFacts, IdleIsOutside
<1>2. CASE t # s
  <2>1. pc'[t] = pc[t] /\ request'[t] = request[t]
    BY <1>2, FinishFacts
  <2>2. /\ pc[t] \in Holding => barberLock'[request[t].proposal.barber] = t
        /\ pc[t] \in Linking => conversationLock'[request[t].conv] = t
    BY <1>2, FinishFacts
  <2> QED
    BY <1>2, <2>1, <2>2
<1> QED
  BY <1>1, <1>2

LEMMA RefuseStep ==
  ASSUME AInv, NEW s \in Session, Refuse(s)
  PROVE  AInv'
<1>1. UNCHANGED <<appointments, byAssistant, conversations, schedule, timeOff, closed, isActive, clock>>
  BY DEF Refuse, Finish, bookings, agenda
<1>2. Finish(s)
  BY DEF Refuse
<1>3. TypeOK'
  BY <1>1, <1>2, FinishFacts DEF AInv, TypeOK
<1>4. pc'[s] = "idle" /\ \A t \in Session \ {s} : pc'[t] = pc[t] /\ request'[t] = request[t]
  BY <1>2, FinishFacts
<1>5. Shape'
  BY <1>1, <1>4, IdleIsOutside DEF AInv, Shape, Exists
<1>6. Links'
  BY <1>1 DEF AInv, Links, Exists
<1>7. LocksHeld'
  <2>1. \A t \in Session \ {s} : pc[t] \in Linking => conversations'[request[t].conv].appt = None
    BY <1>1 DEF AInv, LocksHeld
  <2> QED
    BY <1>2, <2>1, FinishLocks
<1>8. ActiveHeld' /\ RevalidationHolds'
  BY <1>1, <1>4 DEF AInv, ActiveHeld, RevalidationHolds
<1> QED
  BY <1>3, <1>5, <1>6, <1>7, <1>8 DEF AInv

\* A stored proposal is a conversation nobody confirms yet.
LEMMA StoreStep ==
  ASSUME AInv, NEW s \in Session, NEW c \in Conversation, StoreProposal(s, c)
  PROVE  AInv'
<1> DEFINE p == request[s].proposal
<1>1. /\ UNCHANGED <<appointments, byAssistant, schedule, timeOff, closed, isActive, clock>>
      /\ conversations' = [conversations EXCEPT ![c] = p]
      /\ pc[s] = "store" /\ ~Exists(c) /\ Finish(s)
  BY DEF StoreProposal, Finish, agenda
<1>2. /\ p \in Proposals /\ p.barber \in Barber /\ p.slot[1] < p.slot[2] /\ p.appt = None
  BY <1>1, SessionFacts DEF AInv, Shape
<1> HIDE DEF p
<1>3. /\ conversations' \in [Conversation -> Proposals]
      /\ conversations'[c] = p
      /\ \A d \in Conversation \ {c} : conversations'[d] = conversations[d]
  BY <1>1, <1>2 DEF AInv, TypeOK
<1>4. TypeOK'
  BY <1>1, <1>3, FinishFacts DEF AInv, TypeOK
<1>5. pc'[s] = "idle" /\ \A t \in Session \ {s} : pc'[t] = pc[t] /\ request'[t] = request[t]
  BY <1>1, FinishFacts
<1>6. \A t \in Session : pc[t] \in Confirming => request[t].conv \in Conversation \ {c}
  BY <1>1 DEF AInv, Shape
<1>7. Shape'
  <2>1. p.barber # None
    BY <1>2, NoneAssumption
  <2> QED
    BY <1>1, <1>2, <1>3, <1>5, <1>6, <2>1, IdleIsOutside DEF AInv, Shape, Exists
<1>8. Links'
  <2>1. conversations[c].appt = None
    BY <1>1 DEF AInv, Links
  <2>2. \A d \in Conversation : conversations'[d].appt = conversations[d].appt
    BY <1>2, <1>3, <2>1
  <2>3. \A d \in Conversation : ~Exists(d)' => ~Exists(d)
    BY <1>1, <1>2, <1>3, NoneAssumption DEF Exists
  <2> QED
    BY <1>1, <2>2, <2>3 DEF AInv, Links
<1>9. LocksHeld'
  <2>1. \A t \in Session \ {s} : pc[t] \in Linking => conversations'[request[t].conv].appt = None
    BY <1>3, <1>6, IdleIsOutside DEF AInv, LocksHeld
  <2> QED
    BY <1>1, <2>1, FinishLocks
<1>10. ActiveHeld' /\ RevalidationHolds'
  BY <1>1, <1>5 DEF AInv, ActiveHeld, RevalidationHolds
<1> QED
  BY <1>4, <1>7, <1>8, <1>9, <1>10 DEF AInv

\* A booking links its conversation and takes time of a professional nobody else holds.
LEMMA BookStep ==
  ASSUME AInv, NEW s \in Session, NEW a \in Appointment, BookProposal(s, a)
  PROVE  AInv'
<1> DEFINE p == request[s].proposal
           c == request[s].conv
           row == NewRow(p.barber, p.slot[1], p.slot[2])
<1>1. /\ UNCHANGED <<schedule, timeOff, closed, isActive, clock>>
      /\ pc[s] = "create" /\ appointments[a].status = "none" /\ Finish(s)
      /\ appointments' = [appointments EXCEPT ![a] = row]
      /\ byAssistant' = byAssistant \cup {a}
      /\ conversations' = [conversations EXCEPT ![c].appt = a]
  BY DEF BookProposal, Insert, Finish, agenda
<1>2. /\ pc[s] \in Holding /\ pc[s] \in Linking /\ pc[s] \in Confirming /\ pc[s] # "idle"
  BY <1>1 DEF Holding, Linking, Confirming
<1>3. /\ p \in Proposals /\ p.slot \in Instant \X Instant
      /\ p.barber \in Barber
      /\ c \in Conversation /\ Exists(c) /\ conversations[c].appt = None
      /\ barberLock[p.barber] = s /\ conversationLock[c] = s
  BY <1>2, SessionFacts DEF AInv, Shape, LocksHeld
<1>4. row \in Row /\ row.barber = p.barber /\ row.status = "scheduled"
  BY <1>3, TableTypes DEF NewRow
<1> HIDE DEF p, c, row
<1>5. /\ appointments' \in [Appointment -> Row]
      /\ appointments'[a] = row
      /\ \A x \in Appointment \ {a} : appointments'[x] = appointments[x]
  BY <1>1, <1>4 DEF AInv, TypeOK
<1>6. /\ conversations' \in [Conversation -> Proposals]
      /\ conversations'[c].appt = a
      /\ conversations'[c].barber = conversations[c].barber
      /\ conversations'[c].slot = conversations[c].slot
      /\ \A d \in Conversation \ {c} : conversations'[d] = conversations[d]
  <2>1. conversations[c] \in Proposals
    BY <1>3 DEF AInv, TypeOK
  <2>2. [conversations[c] EXCEPT !.appt = a] \in Proposals
    BY <2>1 DEF Proposals
  <2>3. conversations' = [conversations EXCEPT ![c] = [conversations[c] EXCEPT !.appt = a]]
    BY <1>1, <1>3 DEF AInv, TypeOK
  <2>4. /\ conversations' \in [Conversation -> Proposals]
        /\ conversations'[c] = [conversations[c] EXCEPT !.appt = a]
        /\ \A d \in Conversation \ {c} : conversations'[d] = conversations[d]
    BY <1>3, <2>2, <2>3 DEF AInv, TypeOK
  <2> QED
    BY <2>1, <2>4 DEF Proposals
<1>7. TypeOK'
  BY <1>1, <1>5, <1>6, FinishFacts DEF AInv, TypeOK
<1>8. pc'[s] = "idle" /\ \A t \in Session \ {s} : pc'[t] = pc[t] /\ request'[t] = request[t]
  BY <1>1, FinishFacts
<1>9. \A d \in Conversation : Exists(d)' <=> Exists(d)
  BY <1>6 DEF Exists
<1>10. Shape'
  <2>1. \A d \in Conversation : conversations'[d].slot = conversations[d].slot
    BY <1>6
  <2> QED
    BY <1>8, <1>9, <2>1, IdleIsOutside DEF AInv, Shape
<1>11. Links'
  <2>1. a \notin byAssistant /\ a # None
    BY <1>1, NoneAssumption DEF AInv, Links
  <2>2. \A d \in Conversation \ {c} : conversations'[d].appt = conversations[d].appt
    BY <1>6
  <2>3. \A d \in Conversation : ~Exists(d)' => conversations'[d].appt = None
    BY <1>3, <1>9, <2>2 DEF AInv, Links
  <2>4. \A d \in Conversation : conversations'[d].appt # None => conversations'[d].appt \in byAssistant'
    BY <1>1, <1>6, <2>2 DEF AInv, Links
  <2>5. \A x \in byAssistant' : \E d \in Conversation : conversations'[d].appt = x
    <3> SUFFICES ASSUME NEW x \in byAssistant, x # a
                 PROVE  \E d \in Conversation : conversations'[d].appt = x
      BY <1>1, <1>3, <1>6
    <3>1. PICK d \in Conversation : conversations[d].appt = x
      BY DEF AInv, Links
    <3>2. x # None
      BY NoneAssumption DEF AInv, TypeOK
    <3>3. d # c
      BY <1>3, <3>1, <3>2
    <3> QED
      BY <2>2, <3>1, <3>3
  <2>6. \A d, e \in Conversation :
          conversations'[d].appt # None /\ conversations'[d].appt = conversations'[e].appt => d = e
    <3>1. \A d \in Conversation \ {c} : conversations'[d].appt # a
      BY <2>1, <2>2 DEF AInv, Links
    <3> QED
      BY <1>6, <2>2, <3>1 DEF AInv, Links
  <2>7. \A x \in byAssistant' : appointments'[x].status # "none"
    BY <1>1, <1>4, <1>5 DEF AInv, Links, TypeOK
  <2> QED
    BY <2>3, <2>4, <2>5, <2>6, <2>7 DEF Links
<1>12. LocksHeld'
  <2>1. \A t \in Session \ {s} : pc[t] \in Linking => conversations'[request[t].conv].appt = None
    <3> SUFFICES ASSUME NEW t \in Session \ {s}, pc[t] \in Linking
                 PROVE  conversations'[request[t].conv].appt = None
      OBVIOUS
    <3>1. conversationLock[request[t].conv] = t /\ conversations[request[t].conv].appt = None
      BY DEF AInv, LocksHeld
    <3>2. request[t].conv \in Conversation \ {c}
      BY <1>3, <3>1, IdleIsOutside DEF AInv, Shape
    <3> QED
      BY <1>6, <3>1, <3>2
  <2> QED
    BY <1>1, <2>1, FinishLocks
<1>13. RevalidationHolds'
  <2> SUFFICES ASSUME NEW t \in Session \ {s}, pc[t] \in {"closure", "conflict", "create"}
               PROVE  LET q == request[t].proposal IN
                      /\ isActive[q.barber]
                      /\ \A i \in timeOff[q.barber] : ~Overlaps(i, q.slot[1], q.slot[2])
                      /\ ~HasActiveConflict(appointments', q.barber, q.slot[1], q.slot[2], None)
    BY <1>1, <1>8 DEF RevalidationHolds
  <2> DEFINE q == request[t].proposal
  <2>1. barberLock[q.barber] = t
    BY DEF AInv, LocksHeld, Holding
  <2>2. q.barber # p.barber
    BY <1>3, <2>1
  <2>3. /\ isActive[q.barber]
        /\ \A i \in timeOff[q.barber] : ~Overlaps(i, q.slot[1], q.slot[2])
        /\ ~HasActiveConflict(appointments, q.barber, q.slot[1], q.slot[2], None)
    BY DEF AInv, RevalidationHolds
  <2> HIDE DEF q
  <2>4. \A x \in Appointment :
          Occupies(appointments'[x], q.barber, q.slot[1], q.slot[2])
            => Occupies(appointments[x], q.barber, q.slot[1], q.slot[2])
    BY <1>4, <1>5, <2>2 DEF Occupies
  <2>5. ~HasActiveConflict(appointments', q.barber, q.slot[1], q.slot[2], None)
    BY <2>3, <2>4 DEF HasActiveConflict
  <2> QED
    BY <2>3, <2>5 DEF q
<1>14. ActiveHeld'
  BY <1>1, <1>8 DEF AInv, ActiveHeld
<1> QED
  BY <1>7, <1>10, <1>11, <1>12, <1>13, <1>14 DEF AInv

-----------------------------------------------------------------------------
\* Steps that begin a request.

LEMMA BeginStep ==
  ASSUME AInv, NEW s \in Session, NEW step \in {"store", "conversation"},
         NEW r \in [conv : Conversation \cup {None}, proposal : Proposals],
         Begin(s, step, r),
         r.proposal.barber \in Barber, r.proposal.slot[1] < r.proposal.slot[2],
         step = "store" => r.proposal.appt = None,
         step = "conversation" => r.conv \in Conversation /\ Exists(r.conv)
  PROVE  AInv'
<1>1. /\ UNCHANGED <<appointments, byAssistant, conversations, schedule, timeOff, closed, isActive>>
      /\ UNCHANGED <<conversationLock, barberLock, found, clock>>
      /\ pc' = [pc EXCEPT ![s] = step] /\ request' = [request EXCEPT ![s] = r]
  BY DEF Begin, bookings, agenda, locks
<1>2. TypeOK'
  BY <1>1 DEF AInv, TypeOK, Steps
<1>3. /\ pc'[s] = step /\ request'[s] = r
      /\ \A t \in Session \ {s} : pc'[t] = pc[t] /\ request'[t] = request[t]
  BY <1>1 DEF AInv, TypeOK
<1>4. Shape'
  <2>1. step # "idle"
    OBVIOUS
  <2>2. step \in Confirming => step = "conversation"
    BY IdleIsOutside
  <2> QED
    BY <1>1, <1>3, <2>1, <2>2 DEF AInv, Shape, Exists
<1>5. Links'
  BY <1>1 DEF AInv, Links, Exists
<1>6. LocksHeld'
  <2>1. step \notin Linking /\ step \notin Holding
    BY DEF Linking, Holding
  <2> QED
    BY <1>1, <1>3, <2>1 DEF AInv, LocksHeld
<1>7. ActiveHeld' /\ RevalidationHolds'
  BY <1>1, <1>3 DEF AInv, ActiveHeld, RevalidationHolds
<1> QED
  BY <1>2, <1>4, <1>5, <1>6, <1>7 DEF AInv

LEMMA ProposeStep ==
  ASSUME AInv, NEW s \in Session, NEW b \in Barber, Propose(s, b)
  PROVE  AInv'
<1>1. PICK slot \in Offered(schedule[b], b) :
        Begin(s, "store", [conv |-> None, proposal |-> Proposal(b, slot, None)])
  BY DEF Propose
<1>2. schedule[b] \in SUBSET Schedules
  BY DEF AInv, TypeOK
<1>3. slot \in Instant \X Instant /\ slot[1] < slot[2]
  BY <1>1, <1>2, OfferedFree DEF Offered
<1> DEFINE r == [conv |-> None, proposal |-> Proposal(b, slot, None)]
<1>4. /\ r \in [conv : Conversation \cup {None}, proposal : Proposals]
      /\ r.proposal.barber = b /\ r.proposal.slot = slot /\ r.proposal.appt = None
  BY <1>3 DEF Proposal, Proposals
<1> QED
  BY <1>1, <1>3, <1>4, BeginStep

LEMMA ConfirmStep ==
  ASSUME AInv, NEW s \in Session, NEW c \in Conversation, Confirm(s, c)
  PROVE  AInv'
<1> DEFINE r == [conv |-> c, proposal |-> conversations[c]]
<1>1. Exists(c) /\ Begin(s, "conversation", r)
  BY DEF Confirm
<1>2. conversations[c] \in Proposals
  BY DEF AInv, TypeOK
<1>3. conversations[c].barber \in Barber /\ conversations[c].slot[1] < conversations[c].slot[2]
  BY <1>1, <1>2 DEF AInv, Shape, Exists, Proposals
<1>4. /\ r \in [conv : Conversation \cup {None}, proposal : Proposals]
      /\ r.proposal = conversations[c] /\ r.conv = c
  BY <1>2
<1> QED
  BY <1>1, <1>3, <1>4, BeginStep

-----------------------------------------------------------------------------
\* Steps of a confirmation.

LEMMA ProceedFacts ==
  ASSUME AInv, NEW s \in Session, NEW from, NEW to \in Holding \cup {"barber"}, Proceed(s, from, to)
  PROVE  /\ UNCHANGED <<appointments, byAssistant, conversations, schedule, timeOff, closed>>
         /\ UNCHANGED <<isActive, request, clock>>
         /\ pc' \in [Session -> Steps]
         /\ pc[s] = from /\ pc'[s] = to
         /\ \A t \in Session \ {s} : pc'[t] = pc[t]
<1>1. to \in Steps
  BY DEF Holding, Steps
<1> QED
  BY <1>1 DEF AInv, TypeOK, Proceed, bookings, agenda

\* A confirmation that goes on keeps the shape of its request.
LEMMA ProceedShape ==
  ASSUME AInv, NEW s \in Session, NEW from \in Confirming, NEW to \in Holding \cup {"barber"},
         Proceed(s, from, to)
  PROVE  Shape' /\ Links'
<1>1. /\ UNCHANGED <<appointments, byAssistant, conversations, request>>
      /\ pc[s] = from /\ pc'[s] = to /\ \A t \in Session \ {s} : pc'[t] = pc[t]
  BY ProceedFacts
<1>2. Links'
  BY <1>1 DEF AInv, Links, Exists
<1>3. from # "idle" /\ to # "store"
  BY DEF Confirming, Linking, Holding
<1>4. \A t \in Session : /\ pc'[t] # "idle" => pc[t] # "idle"
                         /\ pc'[t] = "store" => pc[t] = "store"
                         /\ pc'[t] \in Confirming => pc[t] \in Confirming
  BY <1>1, <1>3
<1>5. Shape'
  BY <1>1, <1>4 DEF AInv, Shape, Exists
<1> QED
  BY <1>2, <1>5

LEMMA LockConversationStep ==
  ASSUME AInv, NEW s \in Session, LockConversation(s)
  PROVE  AInv'
<1> DEFINE c == request[s].conv
<1>1. /\ Proceed(s, "conversation", "barber")
      /\ conversationLock[c] = None /\ conversations[c].appt = None
      /\ conversationLock' = [conversationLock EXCEPT ![c] = s]
      /\ UNCHANGED <<barberLock, found>>
  BY DEF LockConversation
<1>2. "conversation" \in Confirming
  BY DEF Confirming
<1>3. /\ UNCHANGED <<appointments, byAssistant, conversations, schedule, timeOff, closed>>
      /\ UNCHANGED <<isActive, request, clock>>
      /\ pc' \in [Session -> Steps]
      /\ pc[s] = "conversation" /\ pc'[s] = "barber"
      /\ \A t \in Session \ {s} : pc'[t] = pc[t]
  BY <1>1, ProceedFacts
<1>4. c \in Conversation
  BY <1>2, <1>3 DEF AInv, Shape
<1> HIDE DEF c
<1>5. TypeOK'
  BY <1>1, <1>3, <1>4 DEF AInv, TypeOK
<1>6. LocksHeld'
  <2>1. conversationLock'[c] = s
    BY <1>1, <1>4 DEF AInv, TypeOK
  <2>2. \A t \in Session \ {s} : pc[t] \in Linking => conversationLock'[request[t].conv] = t
    <3> SUFFICES ASSUME NEW t \in Session \ {s}, pc[t] \in Linking
                 PROVE  conversationLock'[request[t].conv] = t
      OBVIOUS
    <3>1. conversationLock[request[t].conv] = t
      BY DEF AInv, LocksHeld
    <3>2. request[t].conv \in Conversation
      BY IdleIsOutside DEF AInv, Shape
    <3>3. request[t].conv # c
      BY <1>1, <3>1, SessionAssumption
    <3> QED
      BY <1>1, <3>1, <3>2, <3>3 DEF AInv, TypeOK
  <2>3. "barber" \notin Holding
    BY DEF Holding
  <2> QED
    BY <1>1, <1>3, <2>1, <2>2, <2>3 DEF AInv, LocksHeld, c
<1>7. ActiveHeld' /\ RevalidationHolds'
  BY <1>3 DEF AInv, ActiveHeld, RevalidationHolds
<1> QED
  BY <1>1, <1>2, <1>5, <1>6, <1>7, ProceedShape DEF AInv, Holding

LEMMA LockBarberStep ==
  ASSUME AInv, NEW s \in Session, LockBarber(s)
  PROVE  AInv'
<1> DEFINE b == request[s].proposal.barber
<1>1. /\ Proceed(s, "barber", "revalidate")
      /\ barberLock[b] = None
      /\ barberLock' = [barberLock EXCEPT ![b] = s]
      /\ UNCHANGED <<conversationLock, found>>
  BY DEF LockBarber
<1>2. /\ "barber" \in Confirming /\ "barber" \in Linking
      /\ "revalidate" \in Holding /\ "revalidate" \in Linking
  BY DEF Confirming, Linking, Holding
<1>3. /\ UNCHANGED <<appointments, byAssistant, conversations, schedule, timeOff, closed>>
      /\ UNCHANGED <<isActive, request, clock>>
      /\ pc' \in [Session -> Steps]
      /\ pc[s] = "barber" /\ pc'[s] = "revalidate"
      /\ \A t \in Session \ {s} : pc'[t] = pc[t]
  BY <1>1, <1>2, ProceedFacts
<1>4. b \in Barber
  BY <1>3 DEF AInv, Shape
<1> HIDE DEF b
<1>5. TypeOK'
  BY <1>1, <1>3, <1>4 DEF AInv, TypeOK
<1>6. LocksHeld'
  <2>1. barberLock'[b] = s
    BY <1>1, <1>4 DEF AInv, TypeOK
  <2>2. \A t \in Session \ {s} : pc[t] \in Holding => barberLock'[request[t].proposal.barber] = t
    <3> SUFFICES ASSUME NEW t \in Session \ {s}, pc[t] \in Holding
                 PROVE  barberLock'[request[t].proposal.barber] = t
      OBVIOUS
    <3>1. barberLock[request[t].proposal.barber] = t
      BY DEF AInv, LocksHeld
    <3>2. request[t].proposal.barber \in Barber
      BY IdleIsOutside DEF AInv, Shape
    <3>3. request[t].proposal.barber # b
      BY <1>1, <3>1, SessionAssumption
    <3> QED
      BY <1>1, <3>1, <3>2, <3>3 DEF AInv, TypeOK
  <2> QED
    BY <1>1, <1>2, <1>3, <2>1, <2>2 DEF AInv, LocksHeld, b
<1>7. ActiveHeld' /\ RevalidationHolds'
  BY <1>3 DEF AInv, ActiveHeld, RevalidationHolds
<1> QED
  BY <1>1, <1>2, <1>5, <1>6, <1>7, ProceedShape DEF AInv

\* Steps under both locks: what they add is the activity, then the free slot.
LEMMA HoldingStep ==
  ASSUME AInv, NEW s \in Session, NEW from \in Holding, NEW to \in Holding,
         Proceed(s, from, to), UNCHANGED locks,
         found' \in [Session -> SUBSET Schedules],
         to = "slots" => isActive[request[s].proposal.barber],
         to \in {"closure", "conflict", "create"} =>
           LET p == request[s].proposal IN
           /\ isActive[p.barber]
           /\ \A i \in timeOff[p.barber] : ~Overlaps(i, p.slot[1], p.slot[2])
           /\ ~HasActiveConflict(appointments, p.barber, p.slot[1], p.slot[2], None)
  PROVE  AInv'
<1>1. /\ UNCHANGED <<appointments, byAssistant, conversations, schedule, timeOff, closed>>
      /\ UNCHANGED <<isActive, request, clock, conversationLock, barberLock>>
      /\ pc' \in [Session -> Steps]
      /\ pc[s] = from /\ pc'[s] = to
      /\ \A t \in Session \ {s} : pc'[t] = pc[t]
  BY ProceedFacts DEF locks
<1>2. TypeOK'
  BY <1>1 DEF AInv, TypeOK
<1>3. from \in Linking /\ to \in Linking /\ from \in Confirming
  BY DEF Linking, Confirming
<1>4. LocksHeld'
  BY <1>1, <1>3 DEF AInv, LocksHeld
<1>5. ActiveHeld' /\ RevalidationHolds'
  BY <1>1 DEF AInv, ActiveHeld, RevalidationHolds
<1> QED
  BY <1>2, <1>3, <1>4, <1>5, ProceedShape DEF AInv

LEMMA RevalidateStep ==
  ASSUME AInv, NEW s \in Session, Revalidate(s)
  PROVE  AInv'
<1>1. /\ Proceed(s, "revalidate", "slots") /\ UNCHANGED locks
      /\ isActive[request[s].proposal.barber]
      /\ found' = [found EXCEPT ![s] = schedule[request[s].proposal.barber]]
  BY DEF Revalidate
<1>2. request[s].proposal.barber \in Barber
  BY <1>1 DEF AInv, Shape, Proceed
<1>3. found' \in [Session -> SUBSET Schedules]
  BY <1>1, <1>2 DEF AInv, TypeOK
<1>4. "revalidate" \in Holding /\ "slots" \in Holding
  BY DEF Holding
<1> QED
  BY <1>1, <1>3, <1>4, HoldingStep

LEMMA FindSlotStep ==
  ASSUME AInv, NEW s \in Session, FindSlot(s)
  PROVE  AInv'
<1> DEFINE p == request[s].proposal
<1>1. /\ Proceed(s, "slots", "closure") /\ UNCHANGED locks /\ found' = found
      /\ p.slot \in OfferedSlots(found[s], appointments, p.barber, timeOff[p.barber], FALSE, clock)
  BY DEF FindSlot
<1>2. found[s] \in SUBSET Schedules /\ found' \in [Session -> SUBSET Schedules]
  BY <1>1 DEF AInv, TypeOK
<1>3. /\ \A i \in timeOff[p.barber] : ~Overlaps(i, p.slot[1], p.slot[2])
      /\ ~HasActiveConflict(appointments, p.barber, p.slot[1], p.slot[2], None)
  BY <1>1, <1>2, OfferedFree
<1>4. isActive[p.barber]
  BY <1>1 DEF AInv, ActiveHeld, Proceed
<1>5. "slots" \in Holding /\ "closure" \in Holding
  BY DEF Holding
<1> QED
  BY <1>1, <1>2, <1>3, <1>4, <1>5, HoldingStep

LEMMA CheckStep ==
  ASSUME AInv, NEW s \in Session, CheckClosure(s) \/ CheckConflict(s)
  PROVE  AInv'
<1>1. PICK from \in {"closure", "conflict"}, to \in {"conflict", "create"} :
        Proceed(s, from, to) /\ UNCHANGED locks /\ found' = found
  BY DEF CheckClosure, CheckConflict
<1>2. found' \in [Session -> SUBSET Schedules]
  BY <1>1 DEF AInv, TypeOK
<1>3. pc[s] \in {"closure", "conflict"}
  BY <1>1 DEF Proceed
<1>4. LET p == request[s].proposal IN
      /\ isActive[p.barber]
      /\ \A i \in timeOff[p.barber] : ~Overlaps(i, p.slot[1], p.slot[2])
      /\ ~HasActiveConflict(appointments, p.barber, p.slot[1], p.slot[2], None)
  BY <1>3 DEF AInv, RevalidationHolds
<1>5. from \in Holding /\ to \in Holding
  BY DEF Holding
<1> QED
  BY <1>1, <1>2, <1>4, <1>5, HoldingStep

LEMMA AssistantStepKeeps ==
  ASSUME AInv, NEW s \in Session, AssistantStep(s)
  PROVE  AInv'
<1>1. CASE ReturnBooked(s) \/ RejectSlot(s) \/ RejectClosed(s) \/ Fail(s)
  BY <1>1, RefuseStep DEF ReturnBooked, RejectSlot, RejectClosed, Fail
<1>2. CASE \E b \in Barber : Propose(s, b)
  BY <1>2, ProposeStep
<1>3. CASE \E c \in Conversation : StoreProposal(s, c) \/ Confirm(s, c)
  BY <1>3, StoreStep, ConfirmStep
<1>4. CASE LockConversation(s) \/ LockBarber(s) \/ Revalidate(s) \/ FindSlot(s)
  BY <1>4, LockConversationStep, LockBarberStep, RevalidateStep, FindSlotStep
<1>5. CASE CheckClosure(s) \/ CheckConflict(s)
  BY <1>5, CheckStep
<1>6. CASE \E a \in Appointment : BookProposal(s, a)
  BY <1>6, BookStep
<1> QED
  BY <1>1, <1>2, <1>3, <1>4, <1>5, <1>6 DEF AssistantStep

-----------------------------------------------------------------------------
\* The other requests.

\* A change of the appointments that takes no time of a locked professional.
LEMMA TableStep ==
  ASSUME AInv, appointments' \in [Appointment -> Row],
         UNCHANGED <<byAssistant, conversations, agenda, locks, sessions, clock>>,
         \A a \in Appointment : appointments[a].status # "none" => appointments'[a].status # "none",
         \A a \in Appointment, b \in Barber, t, u \in Instant :
           /\ barberLock[b] # None
           /\ Occupies(appointments'[a], b, t, u)
           => Occupies(appointments[a], b, t, u)
  PROVE  AInv'
<1>1. /\ UNCHANGED <<byAssistant, conversations, schedule, timeOff, closed, isActive, clock>>
      /\ UNCHANGED <<conversationLock, barberLock, pc, request, found>>
  BY DEF agenda, locks, sessions
<1>2. TypeOK'
  BY <1>1 DEF AInv, TypeOK
<1>3. Shape' /\ LocksHeld' /\ ActiveHeld'
  BY <1>1 DEF AInv, Shape, LocksHeld, ActiveHeld, Exists
<1>4. Links'
  <2>1. \A a \in byAssistant : appointments'[a].status # "none"
    BY DEF AInv, Links, TypeOK
  <2> QED
    BY <1>1, <2>1 DEF AInv, Links, Exists
<1>5. RevalidationHolds'
  <2> SUFFICES ASSUME NEW s \in Session, pc[s] \in {"closure", "conflict", "create"}
               PROVE  LET p == request[s].proposal IN
                      ~HasActiveConflict(appointments', p.barber, p.slot[1], p.slot[2], None)
    BY <1>1 DEF AInv, RevalidationHolds
  <2> DEFINE p == request[s].proposal
  <2>1. barberLock[p.barber] # None
    BY SessionAssumption DEF AInv, LocksHeld, Holding
  <2>2. p.barber \in Barber
    BY DEF AInv, Shape
  <2>3. p.slot[1] \in Instant /\ p.slot[2] \in Instant
    BY SessionFacts
  <2>4. ~HasActiveConflict(appointments, p.barber, p.slot[1], p.slot[2], None)
    BY DEF AInv, RevalidationHolds
  <2> HIDE DEF p
  <2>5. ~HasActiveConflict(appointments', p.barber, p.slot[1], p.slot[2], None)
    BY <2>1, <2>2, <2>3, <2>4 DEF HasActiveConflict
  <2> QED
    BY <2>5 DEF p
<1> QED
  BY <1>2, <1>3, <1>4, <1>5 DEF AInv

\* A change of what the professionals offer that leaves a locked professional
\* active and adds no absence.
LEMMA AgendaStep ==
  ASSUME AInv, UNCHANGED <<bookings, locks, sessions>>,
         schedule' \in [Barber -> SUBSET Schedules],
         timeOff' \in [Barber -> SUBSET Absences],
         closed' \in BOOLEAN, isActive' \in [Barber -> BOOLEAN], clock' \in Instant,
         \A b \in Barber :
           barberLock[b] # None => isActive'[b] = isActive[b] /\ timeOff'[b] \subseteq timeOff[b]
  PROVE  AInv'
<1>1. UNCHANGED <<appointments, byAssistant, conversations, conversationLock, barberLock,
                  pc, request, found>>
  BY DEF bookings, locks, sessions
<1>2. TypeOK'
  BY <1>1 DEF AInv, TypeOK
<1>3. Shape' /\ Links' /\ LocksHeld'
  BY <1>1 DEF AInv, Shape, Links, LocksHeld, Exists
<1>4. \A s \in Session : pc[s] \in Holding =>
        LET b == request[s].proposal.barber IN
        isActive'[b] = isActive[b] /\ timeOff'[b] \subseteq timeOff[b]
  <2> SUFFICES ASSUME NEW s \in Session, pc[s] \in Holding
               PROVE  LET b == request[s].proposal.barber IN
                      isActive'[b] = isActive[b] /\ timeOff'[b] \subseteq timeOff[b]
    OBVIOUS
  <2>1. barberLock[request[s].proposal.barber] # None
    BY SessionAssumption DEF AInv, LocksHeld
  <2>2. request[s].proposal.barber \in Barber
    BY IdleIsOutside DEF AInv, Shape
  <2> QED
    BY <2>1, <2>2
<1>5. ActiveHeld'
  BY <1>1, <1>4 DEF AInv, ActiveHeld, Holding
<1>6. RevalidationHolds'
  BY <1>1, <1>4 DEF AInv, RevalidationHolds, Holding
<1> QED
  BY <1>2, <1>3, <1>5, <1>6 DEF AInv

LEMMA OtherBookStep ==
  ASSUME AInv, NEW b \in Barber, NEW i \in Spans, OtherBook(b, i)
  PROVE  AInv'
<1>1. PICK a \in Appointment : Cal!Book(a, b, i[1], i[2])
  BY DEF OtherBook
<1>2. i[1] \in Instant /\ i[2] \in Instant
  BY IntervalsAssumption
<1> DEFINE row == NewRow(b, i[1], i[2])
<1>3. row \in Row /\ row.barber = b /\ row.status # "none"
  BY <1>2, TableTypes DEF NewRow
<1>4. appointments' = [appointments EXCEPT ![a] = row]
  BY <1>1, SameWords DEF Cal!Book
<1> HIDE DEF row
<1>5. /\ appointments' \in [Appointment -> Row]
      /\ appointments'[a] = row
      /\ \A x \in Appointment \ {a} : appointments'[x] = appointments[x]
  BY <1>3, <1>4 DEF AInv, TypeOK
<1>6. barberLock[b] = None
  BY DEF OtherBook
<1>7. \A x \in Appointment, c \in Barber, t, u \in Instant :
        barberLock[c] # None /\ Occupies(appointments'[x], c, t, u)
          => Occupies(appointments[x], c, t, u)
  BY <1>3, <1>5, <1>6 DEF Occupies
<1>8. \A x \in Appointment : appointments[x].status # "none" => appointments'[x].status # "none"
  BY <1>3, <1>5
<1> QED
  BY <1>5, <1>7, <1>8, TableStep DEF OtherBook

LEMMA OtherMoveStep ==
  ASSUME AInv, NEW b \in Barber, NEW i \in Spans, OtherMove(b, i)
  PROVE  AInv'
<1>1. PICK a \in Appointment : Cal!Move(a, b, i[1], i[2])
  BY DEF OtherMove
<1>2. i[1] \in Instant /\ i[2] \in Instant
  BY IntervalsAssumption
<1> DEFINE row == [appointments[a] EXCEPT !.barber = b, !.start = i[1], !.stop = i[2]]
<1>3. appointments[a] \in Row
  BY DEF AInv, TypeOK
<1>4. row \in Row /\ row.barber = b /\ row.status = appointments[a].status
  BY <1>2, <1>3 DEF Row
<1>5. appointments' = [appointments EXCEPT ![a] = row]
  BY <1>1 DEF Cal!Move, AInv, TypeOK
<1> HIDE DEF row
<1>6. /\ appointments' \in [Appointment -> Row]
      /\ appointments'[a] = row
      /\ \A x \in Appointment \ {a} : appointments'[x] = appointments[x]
  BY <1>4, <1>5 DEF AInv, TypeOK
<1>7. barberLock[b] = None
  BY DEF OtherMove
<1>8. \A x \in Appointment, c \in Barber, t, u \in Instant :
        barberLock[c] # None /\ Occupies(appointments'[x], c, t, u)
          => Occupies(appointments[x], c, t, u)
  BY <1>4, <1>6, <1>7 DEF Occupies
<1>9. \A x \in Appointment : appointments[x].status # "none" => appointments'[x].status # "none"
  BY <1>4, <1>6
<1> QED
  BY <1>6, <1>8, <1>9, TableStep DEF OtherMove

\* What a status change expects is active, and what it leaves behind is a row.
LEMMA SettledStatus ==
  ASSUME NEW op \in DOMAIN Target
  PROVE  Expected[op] \subseteq Active /\ Target[op] \in Status \ {"none"}
BY DEF Target, Expected, Status, Active, Final

LEMMA OtherSettleStep ==
  ASSUME AInv, NEW op \in DOMAIN Target, OtherSettle(op)
  PROVE  AInv'
<1>1. PICK a \in Appointment : Cal!Settle(a, op)
  BY DEF OtherSettle
<1> DEFINE row == [appointments[a] EXCEPT !.status = Target[op], !.paid = (op = "complete")]
<1>2. appointments[a] \in Row /\ appointments[a].status \in Active
  BY <1>1, SettledStatus, SameWords DEF Cal!Settle, AInv, TypeOK
<1>3. /\ row \in Row /\ row.status # "none"
      /\ row.barber = appointments[a].barber
      /\ row.start = appointments[a].start /\ row.stop = appointments[a].stop
  BY <1>2, SettledStatus DEF Row
<1>4. appointments' = [appointments EXCEPT ![a] = row]
  BY <1>1, SameWords DEF Cal!Settle, AInv, TypeOK
<1> HIDE DEF row
<1>5. /\ appointments' \in [Appointment -> Row]
      /\ appointments'[a] = row
      /\ \A x \in Appointment \ {a} : appointments'[x] = appointments[x]
  BY <1>3, <1>4 DEF AInv, TypeOK
<1>6. \A x \in Appointment, c \in Barber, t, u \in Instant :
        barberLock[c] # None /\ Occupies(appointments'[x], c, t, u)
          => Occupies(appointments[x], c, t, u)
  BY <1>2, <1>3, <1>5 DEF Occupies
<1>7. \A x \in Appointment : appointments[x].status # "none" => appointments'[x].status # "none"
  BY <1>3, <1>5
<1> QED
  BY <1>5, <1>6, <1>7, TableStep DEF OtherSettle

LEMMA ScheduleStep ==
  ASSUME AInv, NEW b \in Barber,
         DeleteSchedule(b) \/ \E d \in Schedules : UpsertSchedule(b, d)
  PROVE  AInv'
<1>1. /\ UNCHANGED <<bookings, locks, sessions>>
      /\ UNCHANGED <<timeOff, closed, isActive, clock>>
      /\ \E days \in SUBSET Schedules : schedule' = [schedule EXCEPT ![b] = days]
  BY DEF DeleteSchedule, UpsertSchedule
<1>2. schedule' \in [Barber -> SUBSET Schedules]
  BY <1>1 DEF AInv, TypeOK
<1> QED
  BY <1>1, <1>2, AgendaStep DEF AInv, TypeOK

LEMMA TimeOffStep ==
  ASSUME AInv, NEW b \in Barber, NEW i \in Absences, CreateTimeOff(b, i) \/ DeleteTimeOff(b, i)
  PROVE  AInv'
<1>1. /\ UNCHANGED <<bookings, locks, sessions>>
      /\ UNCHANGED <<schedule, closed, isActive, clock>>
  BY DEF CreateTimeOff, DeleteTimeOff
<1>2. \/ barberLock[b] = None /\ timeOff' = [timeOff EXCEPT ![b] = @ \cup {i}]
      \/ timeOff' = [timeOff EXCEPT ![b] = @ \ {i}]
  BY DEF CreateTimeOff, DeleteTimeOff
<1>3. timeOff' \in [Barber -> SUBSET Absences]
  BY <1>2 DEF AInv, TypeOK
<1>4. \A c \in Barber : barberLock[c] # None => timeOff'[c] \subseteq timeOff[c]
  BY <1>2 DEF AInv, TypeOK
<1> QED
  BY <1>1, <1>3, <1>4, AgendaStep DEF AInv, TypeOK

LEMMA UpdateBarberStep ==
  ASSUME AInv, NEW b \in Barber, UpdateBarber(b)
  PROVE  AInv'
<1>1. /\ UNCHANGED <<bookings, locks, sessions>>
      /\ UNCHANGED <<schedule, timeOff, closed, clock>>
      /\ barberLock[b] = None /\ isActive' = [isActive EXCEPT ![b] = ~@]
  BY DEF UpdateBarber
<1>2. isActive' \in [Barber -> BOOLEAN] /\ \A c \in Barber \ {b} : isActive'[c] = isActive[c]
  BY <1>1 DEF AInv, TypeOK
<1>3. \A c \in Barber : barberLock[c] # None => isActive'[c] = isActive[c]
  BY <1>1, <1>2
<1> QED
  BY <1>1, <1>2, <1>3, AgendaStep DEF AInv, TypeOK

LEMMA DateStep ==
  ASSUME AInv, CreateClosure \/ DeleteClosure \/ Tick
  PROVE  AInv'
<1>1. UNCHANGED <<bookings, locks, sessions>> /\ UNCHANGED <<schedule, timeOff, isActive>>
  BY DEF CreateClosure, DeleteClosure, Tick, agenda
<1>2. closed' \in BOOLEAN
  BY DEF CreateClosure, DeleteClosure, Tick, agenda, AInv, TypeOK
<1>3. clock' \in Instant
  BY TimeAssumption DEF CreateClosure, DeleteClosure, Tick, AInv, TypeOK, Instant
<1> QED
  BY <1>1, <1>2, <1>3, AgendaStep DEF AInv, TypeOK

LEMMA StepAInv == AInv /\ [Next]_vars => AInv'
<1> SUFFICES ASSUME AInv, [Next]_vars
             PROVE  AInv'
  OBVIOUS
<1>1. CASE \E s \in Session : AssistantStep(s)
  BY <1>1, AssistantStepKeeps
<1>2. CASE OtherStep
  <2>1. CASE \E b \in Barber, i \in Spans : OtherBook(b, i) \/ OtherMove(b, i)
    BY <2>1, OtherBookStep, OtherMoveStep
  <2>2. CASE \E op \in DOMAIN Target : OtherSettle(op)
    BY <2>2, OtherSettleStep
  <2>3. CASE (\E b \in Barber, d \in Schedules : UpsertSchedule(b, d))
             \/ \E b \in Barber : DeleteSchedule(b)
    BY <2>3, ScheduleStep
  <2>4. CASE \E b \in Barber : UpdateBarber(b)
    BY <2>4, UpdateBarberStep
  <2>5. CASE \E b \in Barber, i \in Absences : CreateTimeOff(b, i) \/ DeleteTimeOff(b, i)
    BY <2>5, TimeOffStep
  <2>6. CASE CreateClosure \/ DeleteClosure \/ Tick
    BY <2>6, DateStep
  <2> QED
    BY <1>2, <2>1, <2>2, <2>3, <2>4, <2>5, <2>6 DEF OtherStep
<1>3. CASE UNCHANGED vars
  <2>1. /\ UNCHANGED <<bookings, locks, sessions>>
        /\ UNCHANGED <<schedule, timeOff, closed, isActive, clock>>
    BY <1>3 DEF vars, agenda
  <2> QED
    BY <2>1, AgendaStep DEF AInv, TypeOK
<1> QED
  BY <1>1, <1>2, <1>3 DEF Next

LEMMA InitAInv == Init => AInv
<1> SUFFICES ASSUME Init
             PROVE  AInv
  OBVIOUS
<1>1. TypeOK
  <2>1. 0 \in Instant
    BY TimeAssumption DEF Instant
  <2>2. schedule \in [Barber -> SUBSET Schedules]
    BY DEF Init
  <2> QED
    BY <2>1, <2>2, TableTypes DEF Init, TypeOK, Steps
<1>2. \A c \in Conversation : ~Exists(c) /\ conversations[c].appt = None
  BY DEF Init, Exists, NoProposal, Proposal
<1>3. \A s \in Session : pc[s] = "idle"
  BY DEF Init
<1>4. Shape /\ LocksHeld /\ ActiveHeld /\ RevalidationHolds
  BY <1>2, <1>3, IdleIsOutside DEF Shape, LocksHeld, ActiveHeld, RevalidationHolds
<1>5. Links
  BY <1>2 DEF Links, Init
<1> QED
  BY <1>1, <1>4, <1>5 DEF AInv

-----------------------------------------------------------------------------
\* The results.

\* The locks of the confirmations, the links and what a revalidation has found are
\* kept by every step.
THEOREM AssistantInductive == Spec => []AInv
<1> QED
  BY InitAInv, StepAInv, PTL DEF Spec

\* The tables, the locks and the sessions keep their types.
THEOREM AssistantTypes == Spec => []TypeOK
<1>1. AInv => TypeOK
  BY DEF AInv
<1> QED
  BY <1>1, AssistantInductive, PTL

\* Between the revalidation of _confirm and its insertion nothing it has checked can
\* go wrong: no absence, no inactive professional, no other booking of the time.
THEOREM RevalidationProtected == Spec => []RevalidationHolds
<1>1. AInv => RevalidationHolds
  BY DEF AInv
<1> QED
  BY <1>1, AssistantInductive, PTL

\* Repeated and concurrent confirmations of one conversation insert one appointment,
\* and the appointments of two conversations are different.
THEOREM BookedOnce == Spec => []ExactlyOnce
<1>1. AInv => ExactlyOnce
  <2> SUFFICES ASSUME AInv
               PROVE  ExactlyOnce
    OBVIOUS
  <2>1. ASSUME NEW a \in byAssistant
        PROVE  Cardinality({c \in Conversation : conversations[c].appt = a}) = 1
    <3>1. a # None
      BY NoneAssumption DEF AInv, TypeOK
    <3>2. PICK c \in Conversation : conversations[c].appt = a
      BY DEF AInv, Links
    <3>3. \A d \in Conversation : conversations[d].appt = a => d = c
      BY <3>1, <3>2 DEF AInv, Links
    <3>4. {d \in Conversation : conversations[d].appt = a} = {c}
      BY <3>2, <3>3
    <3> QED
      BY <3>4, FS_Singleton
  <2>2. \A c \in Conversation : conversations[c].appt \in byAssistant \cup {None}
    BY DEF AInv, Links
  <2> QED
    BY <2>1, <2>2 DEF ExactlyOnce
<1> QED
  BY <1>1, AssistantInductive, PTL

LEMMA LinkStep ==
  ASSUME AInv, [Next]_vars, NEW c \in Conversation, conversations[c].appt # None
  PROVE  UNCHANGED conversations[c]
<1>1. ASSUME NEW s \in Session, NEW d \in Conversation, StoreProposal(s, d)
      PROVE  UNCHANGED conversations[c]
  <2>1. d # c
    BY <1>1 DEF StoreProposal, AInv, Links
  <2> QED
    BY <1>1, <2>1 DEF StoreProposal, AInv, TypeOK
<1>2. ASSUME NEW s \in Session, NEW a \in Appointment, BookProposal(s, a)
      PROVE  UNCHANGED conversations[c]
  <2>1. pc[s] \in Linking
    BY <1>2 DEF BookProposal, Insert, Linking, Holding
  <2>2. request[s].conv # c
    BY <2>1 DEF AInv, LocksHeld
  <2> QED
    BY <1>2, <2>2 DEF BookProposal, AInv, TypeOK
<1>3. ASSUME NEW s \in Session, AssistantStep(s),
             ~\E d \in Conversation : StoreProposal(s, d),
             ~\E a \in Appointment : BookProposal(s, a)
      PROVE  UNCHANGED conversations
  BY <1>3
  DEF AssistantStep, Propose, Confirm, Begin, LockConversation, ReturnBooked, LockBarber, Revalidate,
      FindSlot, RejectSlot, CheckClosure, RejectClosed, CheckConflict, Fail, Refuse, Proceed, bookings
<1>4. CASE OtherStep \/ UNCHANGED vars
  BY <1>4
  DEF OtherStep, OtherBook, OtherMove, OtherSettle, UpsertSchedule, DeleteSchedule, CreateTimeOff,
      DeleteTimeOff, UpdateBarber, CreateClosure, DeleteClosure, Tick, bookings, vars
<1> QED
  BY <1>1, <1>2, <1>3, <1>4 DEF Next

\* A conversation that was answered with an appointment is answered with it for ever,
\* however its confirmations and the other requests interleave.
THEOREM LinksStay == Spec => LinkStays
<1>1. AInv /\ [Next]_vars =>
        [\A c \in Conversation : conversations[c].appt # None => UNCHANGED conversations[c]]_vars
  BY LinkStep
<1> QED
  BY <1>1, AssistantInductive, PTL DEF Spec, LinkStays

\* What a confirmation inserts is one booking of Calendar.
LEMMA BookRefines ==
  ASSUME AInv, NEW s \in Session, NEW a \in Appointment, BookProposal(s, a)
  PROVE  Cal!Next
<1> DEFINE p == request[s].proposal
<1>1. /\ pc[s] = "create" /\ appointments[a].status = "none"
      /\ appointments' = [appointments EXCEPT ![a] = NewRow(p.barber, p.slot[1], p.slot[2])]
  BY DEF BookProposal, Insert
<1>2. p.barber \in Barber /\ p.slot[1] < p.slot[2]
  BY <1>1 DEF AInv, Shape
<1>3. p.slot[1] \in Instant /\ p.slot[2] \in Instant
  BY SessionFacts
<1>4. ~HasActiveConflict(appointments, p.barber, p.slot[1], p.slot[2], None)
  BY <1>1 DEF AInv, RevalidationHolds
<1> HIDE DEF p
<1>5. ~HasActiveConflict(appointments, p.barber, p.slot[1], p.slot[2], a)
  BY <1>4, NoneAssumption DEF HasActiveConflict
<1>6. Cal!Book(a, p.barber, p.slot[1], p.slot[2])
  BY <1>1, <1>2, <1>5, SameWords DEF Cal!Book
<1> QED
  BY <1>2, <1>3, <1>6, SameWords DEF Cal!Next

LEMMA StepRefines ==
  ASSUME AInv, [Next]_vars
  PROVE  [Cal!Next]_appointments
<1>1. ASSUME NEW s \in Session, AssistantStep(s),
             ~\E a \in Appointment : BookProposal(s, a)
      PROVE  UNCHANGED appointments
  BY <1>1
  DEF AssistantStep, Propose, StoreProposal, Confirm, Begin, LockConversation, ReturnBooked, LockBarber,
      Revalidate, FindSlot, RejectSlot, CheckClosure, RejectClosed, CheckConflict, Fail, Refuse,
      Proceed, bookings
<1>2. ASSUME NEW b \in Barber, NEW i \in Spans, OtherBook(b, i) \/ OtherMove(b, i)
      PROVE  Cal!Next
  <2>1. i[1] \in Instant /\ i[2] \in Instant
    BY IntervalsAssumption
  <2> QED
    BY <1>2, <2>1, SameWords DEF OtherBook, OtherMove, Cal!Next
<1>3. ASSUME NEW op \in DOMAIN Target, OtherSettle(op)
      PROVE  Cal!Next
  BY <1>3, SameWords DEF OtherSettle, Cal!Next
<1>4. ASSUME OtherStep \/ UNCHANGED vars,
             ~\E b \in Barber, i \in Spans : OtherBook(b, i) \/ OtherMove(b, i),
             ~\E op \in DOMAIN Target : OtherSettle(op)
      PROVE  UNCHANGED appointments
  BY <1>4
  DEF OtherStep, UpsertSchedule, DeleteSchedule, CreateTimeOff, DeleteTimeOff, UpdateBarber,
      CreateClosure, DeleteClosure, Tick, bookings, vars
<1> QED
  BY <1>1, <1>2, <1>3, <1>4, BookRefines DEF Next

\* Confirmations, which revalidate and insert in several steps, and the requests they
\* interleave with implement the atomic Calendar: a confirmation books free time.
THEOREM AssistantImplementsCalendar == Spec => ImplementsCalendar
<1>1. Init => Cal!Init
  BY SameWords DEF Init, Cal!Init
<1>2. AInv /\ [Next]_vars => [Cal!Next]_appointments
  BY StepRefines
<1> QED
  BY <1>1, <1>2, AssistantInductive, PTL DEF Spec, ImplementsCalendar, Cal!Spec
-----------------------------------------------------------------------------
\* The slots that are offered.

\* A professional has at most one schedule for the date, and bookings take some time.
OneSchedule == \A b \in Barber : \A d, e \in schedule[b] : d = e
TakesTime(row) == row.status \in Active => row.start < row.stop
OfferInv == OneSchedule /\ \A a \in Appointment : TakesTime(appointments[a])

\* The slots of a grid are whole multiples of its length after the first.
LEMMA GridSlots ==
  ASSUME NEW x \in Nat, NEW n \in Nat \ {0}
  PROVE  x % n = 0 <=> \E k \in 0..x : x = k * n
<1>1. x = n * (x \div n) + (x % n) /\ x \div n \in Nat /\ x % n \in 0..(n - 1)
  OBVIOUS
<1>2. ASSUME x % n = 0
      PROVE  \E k \in 0..x : x = k * n
  <2> DEFINE q == x \div n
  <2>1. q \in Nat /\ x = n * q
    BY <1>1, <1>2
  <2> HIDE DEF q
  <2>2. q <= x /\ x = q * n
    BY <2>1
  <2> QED
    BY <2>1, <2>2
<1>3. ASSUME NEW k \in 0..x, x = k * n
      PROVE  x % n = 0
  BY <1>3
<1> QED
  BY <1>2, <1>3

\* Two intervals that take some time do not overlap if and only if no instant of one is in the other.
LEMMA NoCommonInstant ==
  ASSUME NEW i, i[1] \in Int, i[2] \in Int, i[1] < i[2],
         NEW start \in Int, NEW stop \in Int, start < stop
  PROVE  ~Overlaps(i, start, stop) <=> \A t \in start..(stop - 1) : t < i[1] \/ i[2] <= t
<1>1. ASSUME ~Overlaps(i, start, stop), NEW t \in start..(stop - 1)
      PROVE  t < i[1] \/ i[2] <= t
  BY <1>1 DEF Overlaps
<1>2. ASSUME Overlaps(i, start, stop), \A t \in start..(stop - 1) : t < i[1] \/ i[2] <= t
      PROVE  FALSE
  <2>1. CASE start >= i[1]
    BY <1>2, <2>1 DEF Overlaps
  <2>2. CASE start < i[1]
    BY <1>2, <2>2 DEF Overlaps
  <2> QED
    BY <2>1, <2>2
<1> QED
  BY <1>1, <1>2

\* A professional works at all instants of an interval.
Works(days, table, b, absences, shut, start, stop) ==
  \A t \in start..(stop - 1) : Working(days, table, b, absences, shut, t)

\* A slot of the grid is free exactly if the professional works at each of its instants.
LEMMA FreeIsWorking ==
  ASSUME NEW days \in SUBSET Schedules, \A d, e \in days : d = e, NEW day \in days,
         NEW table \in [Appointment -> Row], \A a \in Appointment : TakesTime(table[a]),
         NEW b \in Barber, NEW absences \in SUBSET Absences, NEW shut \in BOOLEAN, NEW now,
         NEW start \in Instant, NEW stop \in Instant, stop = start + day.length
  PROVE  /\ start >= day.starts /\ stop <= day.ends /\ ~shut /\ FreeSlot(day, table, b, absences, now, start)
         <=> /\ start > now
             /\ Works(days, table, b, absences, shut, start, stop)
<1> DEFINE span == start..(stop - 1)
<1>1. /\ Instant \subseteq Int /\ day.starts \in Int /\ day.ends \in Int
      /\ day.length \in Nat \ {0} /\ start \in Int /\ stop \in Int /\ start < stop
  BY SchedulesAssumption, TimeAssumption DEF Schedule, Instant
<1>2. \A i \in absences \cup day.breaks : i[1] \in Int /\ i[2] \in Int /\ i[1] < i[2]
  <2>1. Absences \subseteq {i \in Instant \X Instant : i[1] < i[2]}
    BY IntervalsAssumption
  <2>2. \A i \in absences : i \in Instant \X Instant /\ i[1] < i[2]
    BY <2>1
  <2>3. day \in Schedule /\ ValidSchedule(day)
    BY SchedulesAssumption
  <2>4. \A i \in day.breaks : i \in Instant \X Instant /\ i[1] < i[2]
    BY <2>3 DEF Schedule, ValidSchedule
  <2> QED
    BY <1>1, <2>2, <2>4
<1>3. \A i \in absences \cup day.breaks :
        ~Overlaps(i, start, stop) <=> \A t \in span : t < i[1] \/ i[2] <= t
  BY <1>1, <1>2, NoCommonInstant
<1>4. ~HasActiveConflict(table, b, start, stop, None) <=>
        \A a \in Appointment : table[a].barber = b /\ table[a].status \in Active =>
          \A t \in span : t < table[a].start \/ table[a].stop <= t
  <2>1. ASSUME NEW a \in Appointment, table[a].barber = b, table[a].status \in Active
        PROVE  ~Occupies(table[a], b, start, stop) <=>
                 \A t \in span : t < table[a].start \/ table[a].stop <= t
    <3> DEFINE i == <<table[a].start, table[a].stop>>
    <3>1. i[1] \in Int /\ i[2] \in Int /\ i[1] < i[2]
      BY <1>1, <2>1 DEF Row, TakesTime
    <3>2. Overlaps(i, start, stop) <=> Occupies(table[a], b, start, stop)
      BY <2>1 DEF Overlaps, Occupies
    <3>3. ~Overlaps(i, start, stop) <=> \A t \in span : t < i[1] \/ i[2] <= t
      BY <1>1, <3>1, NoCommonInstant
    <3> QED
      BY <3>2, <3>3
  <2>2. Appointment \ {None} = Appointment
    BY NoneAssumption
  <2> QED
    BY <2>1, <2>2 DEF HasActiveConflict, Occupies
<1>5. \A t \in span : Working(days, table, b, absences, shut, t) <=>
        /\ ~shut /\ day.starts <= t /\ t < day.ends
        /\ \A i \in absences \cup day.breaks : t < i[1] \/ i[2] <= t
        /\ \A a \in Appointment :
             table[a].barber = b /\ table[a].status \in Active => t < table[a].start \/ table[a].stop <= t
  BY DEF Working
<1>6. start >= day.starts /\ stop <= day.ends <=> \A t \in span : day.starts <= t /\ t < day.ends
  <2>1. start \in span /\ stop - 1 \in span
    BY <1>1
  <2> QED
    BY <1>1, <2>1
<1>7. FreeSlot(day, table, b, absences, now, start) <=>
        /\ start > now /\ ~HasActiveConflict(table, b, start, stop, None)
        /\ \A i \in absences \cup day.breaks : ~Overlaps(i, start, stop)
  BY DEF FreeSlot
<1>8. span # {}
  BY <1>1
<1> HIDE DEF span
<1> QED
  BY <1>3, <1>4, <1>5, <1>6, <1>7, <1>8 DEF span, Works

\* The two definitions of what is offered agree.
LEMMA OffersExact ==
  ASSUME TypeOK, OfferInv
  PROVE  OffersExactlyFree
<1> SUFFICES ASSUME NEW b \in Barber, NEW start \in Instant, NEW stop \in Instant
             PROVE  <<start, stop>> \in Offered(schedule[b], b) <=>
                      /\ start > clock
                      /\ \E d \in schedule[b], k \in Instant :
                           start = d.starts + k * d.length /\ stop = start + d.length
                      /\ \A t \in start..(stop - 1) :
                           Working(schedule[b], appointments, b, timeOff[b], closed, t)
  BY DEF OffersExactlyFree
<1> DEFINE days == schedule[b]
           works == Works(days, appointments, b, timeOff[b], closed, start, stop)
           free(d) == FreeSlot(d, appointments, b, timeOff[b], clock, start)
<1>1. /\ days \in SUBSET Schedules /\ (\A d, e \in days : d = e)
      /\ appointments \in [Appointment -> Row] /\ (\A a \in Appointment : TakesTime(appointments[a]))
      /\ timeOff[b] \in SUBSET Absences /\ closed \in BOOLEAN
  BY DEF TypeOK, OfferInv, OneSchedule
<1>2. \A d \in days : d.starts \in Nat /\ d.ends \in Nat /\ d.length \in Nat \ {0}
  BY <1>1, SchedulesAssumption, TimeAssumption DEF Schedule, Instant
<1>3. start \in Nat /\ start <= Horizon /\ stop \in Nat /\ Horizon \in Nat
  BY TimeAssumption DEF Instant
<1>4. <<start, stop>> \in Offered(days, b) <=>
        \E d \in days : start \in SlotStarts(d) /\ stop = start + d.length /\ ~closed /\ free(d)
  BY DEF Offered, OfferedSlots
<1>5. ASSUME NEW d \in days, stop = start + d.length
      PROVE  start >= d.starts /\ stop <= d.ends /\ ~closed /\ free(d) <=> start > clock /\ works
  <2> DEFINE table == appointments
             absences == timeOff[b]
             shut == closed
             now == clock
  <2>1. /\ days \in SUBSET Schedules /\ (\A e, f \in days : e = f) /\ d \in days
        /\ table \in [Appointment -> Row] /\ (\A a \in Appointment : TakesTime(table[a]))
        /\ absences \in SUBSET Absences /\ shut \in BOOLEAN
    BY <1>1
  <2> HIDE DEF days, table, absences, shut, now
  <2>2. start >= d.starts /\ stop <= d.ends /\ ~shut /\ FreeSlot(d, table, b, absences, now, start)
        <=> start > now /\ Works(days, table, b, absences, shut, start, stop)
    BY <2>1, <1>5, FreeIsWorking
  <2> QED
    BY <2>2 DEF table, absences, shut, now
<1>6. ASSUME NEW d \in days, start >= d.starts
      PROVE  (start - d.starts) % d.length = 0 <=> \E k \in Instant : start = d.starts + k * d.length
  <2> DEFINE x == start - d.starts
  <2>1. x \in Nat /\ x <= Horizon
    BY <1>2, <1>3, <1>6
  <2>2. x % d.length = 0 <=> \E k \in 0..x : x = k * d.length
    BY <1>2, <2>1, GridSlots
  <2>3. \A k \in Nat : x = k * d.length => k <= x
    <3> SUFFICES ASSUME NEW k \in Nat, x = k * d.length
                 PROVE  k <= x
      OBVIOUS
    <3> DEFINE n == d.length
    <3>1. n \in Nat \ {0}
      BY <1>2
    <3> HIDE DEF n
    <3>2. k <= k * n
      BY <3>1
    <3> QED
      BY <3>2 DEF n
  <2>4. \A k \in Nat : x = k * d.length <=> start = d.starts + k * d.length
    <3> SUFFICES ASSUME NEW k \in Nat
                 PROVE  x = k * d.length <=> start = d.starts + k * d.length
      OBVIOUS
    <3> DEFINE m == k * d.length
    <3>1. m \in Nat
      BY <1>2
    <3> HIDE DEF m
    <3>2. x = m <=> start = d.starts + m
      BY <1>2, <1>3, <3>1
    <3> QED
      BY <3>2 DEF m
  <2> DEFINE mult(k) == k * d.length
  <2> HIDE DEF x, mult
  <2>5. /\ (x % d.length = 0 <=> \E k \in 0..x : x = mult(k))
        /\ (\A k \in Nat : x = mult(k) => k <= x)
        /\ (\A k \in Nat : x = mult(k) <=> start = d.starts + mult(k))
    BY <2>2, <2>3, <2>4 DEF mult
  <2>6. x % d.length = 0 <=> \E k \in Instant : start = d.starts + mult(k)
    <3>1. 0..x \subseteq Instant /\ Instant \subseteq Nat
      BY <2>1, TimeAssumption DEF Instant
    <3>2. \A k \in Instant : x = mult(k) => k \in 0..x
      BY <2>1, <2>5, <3>1
    <3> QED
      BY <2>5, <3>1, <3>2
  <2> QED
    BY <2>6 DEF x, mult
<1>7. ASSUME NEW d \in days, NEW k \in Instant, start = d.starts + k * d.length
      PROVE  start >= d.starts
  <2> DEFINE m == k * d.length
  <2>1. m \in Nat
    BY <1>2, TimeAssumption DEF Instant
  <2> HIDE DEF m
  <2>2. start = d.starts + m
    BY <1>7 DEF m
  <2> QED
    BY <1>2, <2>1, <2>2
<1>8. \A d \in days : stop = start + d.length =>
        (start \in SlotStarts(d) <=>
           start >= d.starts /\ stop <= d.ends /\ (start - d.starts) % d.length = 0)
  BY DEF SlotStarts
<1> HIDE DEF days, works, free
<1> QED
  BY <1>4, <1>5, <1>6, <1>7, <1>8 DEF days, works, Works
\* Every booking, move and status change leaves intervals that take some time.
LEMMA TableKeepsTime ==
  ASSUME AInv, OfferInv, NEW a \in Appointment, NEW row \in Row, TakesTime(row),
         appointments' = [appointments EXCEPT ![a] = row]
  PROVE  \A x \in Appointment : TakesTime(appointments'[x])
BY DEF AInv, TypeOK, OfferInv

\* No step gives a professional two schedules, or a booking no time.
LEMMA OfferStep ==
  ASSUME AInv, OfferInv, [Next]_vars
  PROVE  OfferInv'
<1>1. ASSUME appointments' = appointments
      PROVE  \A x \in Appointment : TakesTime(appointments'[x])
  BY <1>1 DEF OfferInv
<1>2. ASSUME schedule' = schedule
      PROVE  OneSchedule'
  BY <1>2 DEF OfferInv, OneSchedule
<1>3. CASE \E s \in Session : AssistantStep(s)
  <2> PICK s \in Session : AssistantStep(s)
    BY <1>3
  <2>1. schedule' = schedule
    BY DEF AssistantStep, Propose, StoreProposal, Confirm, LockConversation, ReturnBooked, LockBarber,
       Revalidate, FindSlot, RejectSlot, CheckClosure, RejectClosed, CheckConflict, BookProposal, Insert,
       Fail, Refuse, Finish, Begin, Proceed, agenda
  <2>2. CASE \E a \in Appointment : BookProposal(s, a)
    <3> DEFINE p == request[s].proposal
               row == NewRow(p.barber, p.slot[1], p.slot[2])
    <3>1. PICK a \in Appointment :
            pc[s] = "create" /\ appointments' = [appointments EXCEPT ![a] = row]
      BY <2>2 DEF BookProposal, Insert
    <3>2. p.barber \in Barber /\ p.slot[1] \in Instant /\ p.slot[2] \in Instant /\ p.slot[1] < p.slot[2]
      BY <3>1, SessionFacts DEF AInv, Shape
    <3>3. row \in Row /\ TakesTime(row)
      BY <3>2, TableTypes DEF TakesTime, NewRow
    <3> HIDE DEF row
    <3>4. \A x \in Appointment : TakesTime(appointments'[x])
      BY <3>1, <3>3, TableKeepsTime
    <3> QED
      BY <1>2, <2>1, <3>4 DEF OfferInv
  <2>3. CASE ~\E a \in Appointment : BookProposal(s, a)
    <3>1. appointments' = appointments
      BY <2>3 DEF AssistantStep, Propose, StoreProposal, Confirm, LockConversation, ReturnBooked,
         LockBarber, Revalidate, FindSlot, RejectSlot, CheckClosure, RejectClosed, CheckConflict,
         Fail, Refuse, Begin, Proceed, bookings
    <3> QED
      BY <1>1, <1>2, <2>1, <3>1 DEF OfferInv
  <2> QED
    BY <2>2, <2>3
<1>4. CASE \E b \in Barber, i \in Spans : OtherBook(b, i) \/ OtherMove(b, i)
  <2> PICK b \in Barber, i \in Spans : OtherBook(b, i) \/ OtherMove(b, i)
    BY <1>4
  <2>1. i[1] \in Instant /\ i[2] \in Instant /\ i[1] < i[2]
    BY IntervalsAssumption
  <2>2. schedule' = schedule
    BY DEF OtherBook, OtherMove, agenda
  <2>3. CASE OtherBook(b, i)
    <3>1. PICK a \in Appointment : appointments' = [appointments EXCEPT ![a] = NewRow(b, i[1], i[2])]
      BY <2>3, SameWords DEF OtherBook, Cal!Book
    <3>2. NewRow(b, i[1], i[2]) \in Row /\ TakesTime(NewRow(b, i[1], i[2]))
      BY <2>1, TableTypes DEF TakesTime, NewRow
    <3>3. \A x \in Appointment : TakesTime(appointments'[x])
      BY <3>1, <3>2, TableKeepsTime
    <3> QED
      BY <1>2, <2>2, <3>3 DEF OfferInv
  <2>4. CASE OtherMove(b, i)
    <3>1. PICK a \in Appointment : Cal!Move(a, b, i[1], i[2])
      BY <2>4 DEF OtherMove
    <3> DEFINE row == [appointments[a] EXCEPT !.barber = b, !.start = i[1], !.stop = i[2]]
    <3>2. appointments[a] \in Row
      BY DEF AInv, TypeOK
    <3>3. row \in Row /\ TakesTime(row)
      BY <2>1, <3>2 DEF Row, TakesTime
    <3>4. appointments' = [appointments EXCEPT ![a] = row]
      BY <3>1 DEF Cal!Move, AInv, TypeOK
    <3> HIDE DEF row
    <3>5. \A x \in Appointment : TakesTime(appointments'[x])
      BY <3>3, <3>4, TableKeepsTime
    <3> QED
      BY <1>2, <2>2, <3>5 DEF OfferInv
  <2> QED
    BY <2>3, <2>4
<1>5. CASE \E op \in DOMAIN Target : OtherSettle(op)
  <2> PICK op \in DOMAIN Target : OtherSettle(op)
    BY <1>5
  <2>1. PICK a \in Appointment : Cal!Settle(a, op)
    BY DEF OtherSettle
  <2> DEFINE row == [appointments[a] EXCEPT !.status = Target[op], !.paid = (op = "complete")]
  <2>2. appointments[a] \in Row /\ appointments[a].status \in Active /\ TakesTime(appointments[a])
    BY <2>1, SettledStatus, SameWords DEF Cal!Settle, AInv, TypeOK, OfferInv
  <2>3. row \in Row /\ TakesTime(row)
    BY <2>2, SettledStatus DEF Row, TakesTime
  <2>4. appointments' = [appointments EXCEPT ![a] = row]
    BY <2>1, SameWords DEF Cal!Settle, AInv, TypeOK
  <2> HIDE DEF row
  <2>5. \A x \in Appointment : TakesTime(appointments'[x])
    BY <2>3, <2>4, TableKeepsTime
  <2>6. schedule' = schedule
    BY DEF OtherSettle, agenda
  <2> QED
    BY <1>2, <2>5, <2>6 DEF OfferInv
<1>6. CASE \E b \in Barber : DeleteSchedule(b) \/ \E d \in Schedules : UpsertSchedule(b, d)
  <2> PICK b \in Barber : DeleteSchedule(b) \/ \E d \in Schedules : UpsertSchedule(b, d)
    BY <1>6
  <2>1. appointments' = appointments
    BY DEF DeleteSchedule, UpsertSchedule, bookings
  <2>2. schedule' \in [Barber -> SUBSET Schedules] /\ \A c \in Barber \ {b} : schedule'[c] = schedule[c]
    BY DEF DeleteSchedule, UpsertSchedule, AInv, TypeOK
  <2>3. \A x, y \in schedule'[b] : x = y
    <3>1. CASE DeleteSchedule(b)
      BY <3>1 DEF DeleteSchedule, AInv, TypeOK
    <3>2. CASE \E d \in Schedules : UpsertSchedule(b, d)
      BY <3>2 DEF UpsertSchedule, AInv, TypeOK
    <3> QED
      BY <3>1, <3>2
  <2>4. OneSchedule'
    BY <2>2, <2>3 DEF OneSchedule, OfferInv
  <2> QED
    BY <1>1, <2>1, <2>4 DEF OfferInv
<1>7. CASE \/ \E b \in Barber : UpdateBarber(b)
           \/ \E b \in Barber, i \in Absences : CreateTimeOff(b, i) \/ DeleteTimeOff(b, i)
           \/ CreateClosure \/ DeleteClosure \/ Tick \/ UNCHANGED vars
  <2>1. appointments' = appointments /\ schedule' = schedule
    BY <1>7 DEF UpdateBarber, CreateTimeOff, DeleteTimeOff, CreateClosure, DeleteClosure, Tick, vars,
       bookings, agenda
  <2> QED
    BY <1>1, <1>2, <2>1 DEF OfferInv
<1> QED
  BY <1>3, <1>4, <1>5, <1>6, <1>7 DEF Next, OtherStep

\* Whatever schedules, absences, closures and bookings change, the slots that are offered are
\* the slots of the grid at whose instants the professional works.
THEOREM OffersCorrect == Spec => []OffersExactlyFree
<1>1. Init => OfferInv
  <2> SUFFICES ASSUME Init
               PROVE  OfferInv
    OBVIOUS
  <2>1. OneSchedule
    BY DEF Init, OneSchedule
  <2>2. \A a \in Appointment : TakesTime(appointments[a])
    BY DEF Init, TakesTime, NoRow, Active
  <2> QED
    BY <2>1, <2>2 DEF OfferInv
<1>2. AInv /\ OfferInv /\ [Next]_vars => OfferInv'
  BY OfferStep
<1>3. AInv /\ OfferInv => OffersExactlyFree
  BY OffersExact DEF AInv
<1> QED
  BY <1>1, <1>2, <1>3, AssistantInductive, PTL DEF Spec
=============================================================================
