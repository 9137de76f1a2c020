---------------------------- MODULE CustomersProofs ----------------------------
(***************************************************************************)
(* The customers and what is reported on their visits.  Redemptions are    *)
(* counted and covered and bookings leave no orphans, for any number of    *)
(* sessions, customers, phones, targets and visits.  The report reconciles *)
(* whatever the visits, the expenses and the range.  Its sums run over     *)
(* finite sets; facts about all of them follow from a smallest set for     *)
(* which the fact would fail.                                              *)
(***************************************************************************)
EXTENDS Customers, Report, FiniteSetTheorems, WellFoundedInduction, TLAPS

CustomersRequest ==
  [customer : Customer \cup {None}, phone : Telephone \cup {None},
   seen : CustomerRow \cup Program \cup {None}, row : CustomerRow \cup Program \cup {None}]

Tables == CustomersTypeOK /\ job \in [Session -> CustomersRequest \cup {None}]

\* An edit writes the rewards it read, if any, and an insertion none.
Editing(s) ==
  pc[s] \in {"check", "insert", "update"} =>
    /\ job[s] \in CustomersRequest /\ job[s].row \in CustomerRow
    /\ job[s].customer = None => job[s].row.rewards = 0 /\ pc[s] # "update"
    /\ job[s].customer # None =>
         /\ job[s].customer \in Known /\ job[s].seen \in CustomerRow
         /\ job[s].row.rewards = job[s].seen.rewards /\ pc[s] # "insert"

Booking(s) ==
  pc[s] \in {"find", "flush", "appoint"} =>
    /\ job[s] \in CustomersRequest /\ job[s].row \in CustomerRow /\ job[s].row.rewards = 0
    /\ pc[s] = "appoint" => job[s].customer \in Customer

\* A redemption holds the lock of the row it read, and a target that the business had.
Redeeming(s) ==
  pc[s] \in {"lock", "redeem"} =>
    /\ job[s] \in CustomersRequest /\ job[s].customer \in Known
    /\ job[s].seen \in Program /\ least <= job[s].seen.target
    /\ pc[s] = "redeem" =>
         lock[job[s].customer] = s /\ job[s].row = customers[job[s].customer]

Programming(s) ==
  pc[s] = "program" => job[s] \in CustomersRequest /\ job[s].seen \in Program /\ job[s].row \in Program

Requests == \A s \in Session : Editing(s) /\ Booking(s) /\ Redeeming(s) /\ Programming(s)

Rewards ==
  /\ RedemptionsCounted
  /\ \A c \in Customer \ Known : granted[c] = 0
  /\ least <= program.target

CustomersInv == Tables /\ Requests /\ Rewards /\ RewardsCovered /\ NoOrphanCustomers
-----------------------------------------------------------------------------

\* An edit that writes the changed columns stores a customer row, and spares the counter.
LEMMA FlushedCustomer ==
  ASSUME NEW stored \in CustomerRow, NEW seen \in CustomerRow, NEW assigned \in CustomerRow,
         assigned.rewards = seen.rewards
  PROVE  /\ Flushed(stored, seen, assigned) \in CustomerRow
         /\ Flushed(stored, seen, assigned).rewards = stored.rewards
<1>1. DOMAIN assigned = {"phone", "rewards"}
  BY DEF CustomerRow
<1>2. Flushed(stored, seen, assigned) =
        [phone |-> IF assigned.phone # seen.phone THEN assigned.phone ELSE stored.phone,
         rewards |-> stored.rewards]
  BY <1>1 DEF Flushed, CustomerRow
<1> QED
  BY <1>2 DEF CustomerRow

\* A write of the changed loyalty columns stores a program.
LEMMA FlushedProgram ==
  ASSUME NEW stored \in Program, NEW seen \in Program, NEW assigned \in Program
  PROVE  Flushed(stored, seen, assigned) \in Program
<1>1. DOMAIN assigned = {"enabled", "target"}
  BY DEF Program
<1>2. Flushed(stored, seen, assigned) =
        [enabled |-> IF assigned.enabled # seen.enabled THEN assigned.enabled ELSE stored.enabled,
         target |-> IF assigned.target # seen.target THEN assigned.target ELSE stored.target]
  BY <1>1 DEF Flushed, Program
<1> QED
  BY <1>2 DEF Program

\* A visit count that earns one more reward at a target covers it at any lower target.
LEMMA OneMoreCovered ==
  ASSUME NEW served \in Nat, NEW rewards \in Nat, NEW target \in Nat \ {0}, NEW lowest \in Nat,
         served \div target > rewards, lowest <= target
  PROVE  (rewards + 1) * lowest <= served
<1>1. served \div target \in Nat /\ served >= target * (served \div target)
  BY SMT
<1>2. target * (served \div target) >= target * (rewards + 1)
  <2> DEFINE q == served \div target
  <2>1. q \in Nat /\ q >= rewards + 1
    BY <1>1, SMT
  <2> HIDE DEF q
  <2>2. target * q >= target * (rewards + 1)
    BY <2>1, SMT
  <2> QED
    BY <2>2 DEF q
<1>3. target * (rewards + 1) >= lowest * (rewards + 1)
  BY SMT
<1>4. lowest * (rewards + 1) = (rewards + 1) * lowest
  BY SMT
<1> DEFINE a == target * (served \div target)
           b == target * (rewards + 1)
           d == lowest * (rewards + 1)
<1>5. a \in Int /\ b \in Int /\ d \in Int
  BY <1>1, SMT
<1> HIDE DEF a, b, d
<1>6. served >= a /\ a >= b /\ b >= d
  BY <1>1, <1>2, <1>3 DEF a, b, d
<1>7. d <= served
  BY <1>5, <1>6, SMT
<1> QED
  BY <1>4, <1>7 DEF d

\* Initially nothing is redeemed, registered or requested.
LEMMA CustomersInitially == CustomersInit => CustomersInv
<1> SUFFICES ASSUME CustomersInit PROVE CustomersInv
  OBVIOUS
<1> PICK offer \in Program : NoCustomers(offer)
  BY DEF CustomersInit
<1> USE DEF CustomersInit, NoCustomers, BackendInit
<1>1. Tables
  BY CustomerAssumption, SessionAssumption DEF Tables, CustomersTypeOK, Program
<1>2. Requests
  BY DEF Requests, Editing, Booking, Redeeming, Programming
<1>3. Known = {}
  BY DEF Known
<1>4. least \in Nat /\ least <= program.target
  BY CustomerAssumption DEF Program
<1>5. Rewards
  BY <1>3, <1>4 DEF Rewards, RedemptionsCounted
<1>6. RewardsCovered
  BY <1>4, SMT DEF RewardsCovered
<1>7. NoOrphanCustomers
  BY DEF NoOrphanCustomers
<1> QED
  BY <1>1, <1>2, <1>5, <1>6, <1>7 DEF CustomersInv

\* The requests of other sessions keep what they know.
LEMMA OtherRequest ==
  ASSUME CustomersInv, NEW r \in Session,
         pc'[r] = pc[r], job'[r] = job[r],
         Known \subseteq Known', least' \in Nat, least' <= least,
         pc[r] = "redeem" => lock'[job[r].customer] = lock[job[r].customer]
                               /\ customers'[job[r].customer] = customers[job[r].customer]
  PROVE  Editing(r)' /\ Booking(r)' /\ Redeeming(r)' /\ Programming(r)'
<1>1. Editing(r) /\ Booking(r) /\ Redeeming(r) /\ Programming(r)
  BY DEF CustomersInv, Requests
<1>2. least \in Nat /\ \A x \in Program : x.target \in Nat
  BY CustomerAssumption DEF CustomersInv, Tables, CustomersTypeOK, Program
<1>3. Editing(r)'
  BY <1>1 DEF Editing
<1>4. Booking(r)'
  BY <1>1 DEF Booking
<1>5. Redeeming(r)'
  BY <1>1, <1>2 DEF Redeeming
<1>6. Programming(r)'
  BY <1>1 DEF Programming
<1> QED
  BY <1>3, <1>4, <1>5, <1>6

\* A session that answered has nothing to know.
LEMMA IdleRequest ==
  ASSUME NEW s \in Session, pc'[s] = "idle"
  PROVE  Editing(s)' /\ Booking(s)' /\ Redeeming(s)' /\ Programming(s)'
BY DEF Editing, Booking, Redeeming, Programming

\* A step that leaves the tables and lets its session know something new.
LEMMA QuietStep ==
  ASSUME CustomersInv, NEW s \in Session,
         UNCHANGED <<customers, program, booked, completed, loyaltyHistory>>,
         \A r \in Session \ {s} : pc'[r] = pc[r] /\ job'[r] = job[r],
         \A r \in Session \ {s} : \A c \in Customer : lock[c] = r => lock'[c] = r,
         CustomersTypeOK', job' \in [Session -> CustomersRequest \cup {None}],
         Editing(s)' /\ Booking(s)' /\ Redeeming(s)' /\ Programming(s)'
  PROVE  CustomersInv'
<1>1. Tables'
  BY DEF Tables
<1>2. Known' = Known /\ least' = least /\ least \in Nat
  BY CustomerAssumption DEF Known, loyaltyHistory, CustomersInv, Tables, CustomersTypeOK
<1>3. ASSUME NEW r \in Session \ {s}
      PROVE  Editing(r)' /\ Booking(r)' /\ Redeeming(r)' /\ Programming(r)'
  <2>1. pc[r] = "redeem" => job[r].customer \in Customer /\ lock[job[r].customer] = r
    BY DEF CustomersInv, Requests, Redeeming, Known
  <2>2. pc[r] = "redeem" => lock'[job[r].customer] = lock[job[r].customer]
    BY <2>1
  <2>3. customers' = customers /\ least' <= least
    BY <1>2, SMT
  <2> QED
    BY <1>2, <2>2, <2>3, OtherRequest
<1>4. Requests'
  BY <1>3 DEF Requests
<1>5. Rewards' /\ RewardsCovered' /\ NoOrphanCustomers'
  BY <1>2 DEF CustomersInv, Rewards, RedemptionsCounted, RewardsCovered, NoOrphanCustomers, loyaltyHistory
<1> QED
  BY <1>1, <1>4, <1>5 DEF CustomersInv

\* The points a request can be at.
CustomersStep == {"idle", "check", "insert", "update", "find", "flush", "appoint", "lock", "redeem", "program"}

\* A request that begins takes no lock and changes no table.
LEMMA BeginQuiet ==
  ASSUME CustomersInv, NEW s \in Session, NEW step \in CustomersStep, NEW request \in CustomersRequest, Serve(s, step, request),
         /\ Editing(s)' /\ Booking(s)' /\ Redeeming(s)' /\ Programming(s)'
  PROVE  CustomersInv'
<1>1. /\ pc' = [pc EXCEPT ![s] = step] /\ job' = [job EXCEPT ![s] = request]
      /\ UNCHANGED <<lock, customers, program, booked, completed, loyaltyHistory>>
  BY DEF Serve, Begin
<1>2. CustomersTypeOK /\ job \in [Session -> CustomersRequest \cup {None}]
  BY DEF CustomersInv, Tables
<1>3. CustomersTypeOK'
  BY <1>1, <1>2 DEF CustomersTypeOK, CustomersStep, loyaltyHistory
<1>5. job' \in [Session -> CustomersRequest \cup {None}]
  BY <1>1, <1>2
<1>6. \A r \in Session \ {s} : pc'[r] = pc[r] /\ job'[r] = job[r]
  BY <1>1, <1>2 DEF CustomersTypeOK
<1> QED
  BY <1>1, <1>3, <1>5, <1>6, QuietStep

\* What the begin of any request leaves as it was.
LEMMA Served ==
  ASSUME CustomersInv, NEW s \in Session, NEW step \in CustomersStep, NEW request, Serve(s, step, request)
  PROVE  /\ pc'[s] = step /\ job'[s] = request
         /\ UNCHANGED <<customers, program, least>> /\ Known' = Known
BY DEF Serve, Begin, CustomersInv, Tables, CustomersTypeOK, loyaltyHistory, Known

\* A request that begins knows what it just read.
LEMMA CallBegins ==
  ASSUME CustomersInv, NEW s \in Session, NEW t \in Telephone,
         BeginRegister(s, t) \/ BeginBooking(s, t) \/ \E c \in Customer : BeginEdit(s, c, t)
  PROVE  CustomersInv'
<1> USE DEF Editing, Booking, Redeeming, Programming
<1>1. CustomersTypeOK
  BY DEF CustomersInv, Tables
<1>2. NewRow(t) \in CustomerRow /\ NewRow(t).rewards = 0
  BY DEF NewRow, CustomerRow
<1>3. CASE BeginRegister(s, t)
  <2>1. Task(None, t, None, NewRow(t)) \in CustomersRequest
    BY <1>2 DEF Task, CustomersRequest
  <2>2. Serve(s, "check", Task(None, t, None, NewRow(t))) /\ "check" \in CustomersStep
    BY <1>3 DEF BeginRegister, CustomersStep
  <2>3. pc'[s] = "check" /\ job'[s] = Task(None, t, None, NewRow(t))
    BY <2>2, Served
  <2>4. Editing(s)' /\ Booking(s)' /\ Redeeming(s)' /\ Programming(s)'
    BY <2>1, <2>3, <1>2 DEF Task
  <2> QED
    BY <2>1, <2>2, <2>4, BeginQuiet
<1>4. ASSUME NEW c \in Customer, BeginEdit(s, c, t) PROVE CustomersInv'
  <2> DEFINE row == [customers[c] EXCEPT !.phone = t]
             request == Task(c, t, customers[c], row)
  <2>1. c \in Known /\ customers[c] \in CustomerRow
    BY <1>4, <1>1 DEF BeginEdit, Known, CustomersTypeOK
  <2>2. row \in CustomerRow /\ row.rewards = customers[c].rewards
    BY <2>1 DEF CustomerRow
  <2>3. request \in CustomersRequest
    BY <2>1, <2>2 DEF Task, CustomersRequest
  <2>4. Serve(s, "check", request) /\ "check" \in CustomersStep
    BY <1>4 DEF BeginEdit, CustomersStep
  <2>5. pc'[s] = "check" /\ job'[s] = request /\ Known' = Known
    BY <2>4, Served
  <2>6. c # None
    BY CustomerAssumption
  <2>7. request.customer = c /\ request.seen = customers[c] /\ request.row = row
    BY DEF Task
  <2> HIDE DEF request, row
  <2>8. Editing(s)' /\ Booking(s)' /\ Redeeming(s)' /\ Programming(s)'
    BY <2>1, <2>2, <2>3, <2>5, <2>6, <2>7
  <2> QED
    BY <2>3, <2>4, <2>8, BeginQuiet DEF request
<1>5. CASE BeginBooking(s, t)
  <2>1. Task(None, t, None, NewRow(t)) \in CustomersRequest
    BY <1>2 DEF Task, CustomersRequest
  <2>2. Serve(s, "find", Task(None, t, None, NewRow(t))) /\ "find" \in CustomersStep
    BY <1>5 DEF BeginBooking, CustomersStep
  <2>3. pc'[s] = "find" /\ job'[s] = Task(None, t, None, NewRow(t))
    BY <2>2, Served
  <2>4. Editing(s)' /\ Booking(s)' /\ Redeeming(s)' /\ Programming(s)'
    BY <2>1, <2>3, <1>2 DEF Task
  <2> QED
    BY <2>1, <2>2, <2>4, BeginQuiet
<1> QED
  BY <1>3, <1>4, <1>5

\* The same for the requests about rewards and the loyalty program.
LEMMA LoyaltyBegins ==
  ASSUME CustomersInv, NEW s \in Session,
         \/ \E c \in Customer : BeginRedeem(s, c)
         \/ \E enabled \in BOOLEAN, target \in Target : BeginProgram(s, enabled, target)
  PROVE  CustomersInv'
<1> USE DEF Editing, Booking, Redeeming, Programming
<1>1. CustomersTypeOK /\ least <= program.target
  BY DEF CustomersInv, Tables, Rewards
<1>2. ASSUME NEW c \in Customer, BeginRedeem(s, c) PROVE CustomersInv'
  <2>1. Task(c, None, program, None) \in CustomersRequest
    BY <1>1 DEF Task, CustomersRequest, CustomersTypeOK
  <2>2. c \in Known /\ Serve(s, "lock", Task(c, None, program, None)) /\ "lock" \in CustomersStep
    BY <1>2 DEF BeginRedeem, CustomersStep
  <2>3. /\ pc'[s] = "lock" /\ job'[s] = Task(c, None, program, None)
        /\ Known' = Known /\ least' = least
    BY <2>2, Served
  <2>4. Editing(s)' /\ Booking(s)' /\ Redeeming(s)' /\ Programming(s)'
    BY <2>1, <2>2, <2>3, <1>1 DEF Task, CustomersTypeOK
  <2> QED
    BY <2>1, <2>2, <2>4, BeginQuiet
<1>3. ASSUME NEW enabled \in BOOLEAN, NEW target \in Target, BeginProgram(s, enabled, target)
      PROVE  CustomersInv'
  <2> DEFINE request == Task(None, None, program, [enabled |-> enabled, target |-> target])
  <2>1. request \in CustomersRequest /\ [enabled |-> enabled, target |-> target] \in Program
    BY <1>1 DEF Task, CustomersRequest, CustomersTypeOK, Program
  <2>2. Serve(s, "program", request) /\ "program" \in CustomersStep
    BY <1>3 DEF BeginProgram, CustomersStep
  <2>3. pc'[s] = "program" /\ job'[s] = request
    BY <2>2, Served
  <2>4. Editing(s)' /\ Booking(s)' /\ Redeeming(s)' /\ Programming(s)'
    BY <2>1, <2>3, <1>1 DEF Task, CustomersTypeOK
  <2> QED
    BY <2>1, <2>2, <2>4, BeginQuiet
<1> QED
  BY <1>2, <1>3

\* A refused or failed request changes no table.
LEMMA RejectStep ==
  ASSUME CustomersInv, NEW s \in Session, Reject(s)
  PROVE  CustomersInv'
<1>1. CustomersTypeOK /\ job \in [Session -> CustomersRequest \cup {None}]
  BY DEF CustomersInv, Tables
<1>2. /\ pc' = [pc EXCEPT ![s] = "idle"] /\ job' = [job EXCEPT ![s] = None]
      /\ lock' = [x \in DOMAIN lock |-> IF lock[x] = s THEN None ELSE lock[x]]
      /\ UNCHANGED <<customers, program, booked, completed, loyaltyHistory>>
  BY DEF Reject, Release, Answer
<1>3. CustomersTypeOK'
  BY <1>1, <1>2 DEF CustomersTypeOK, loyaltyHistory
<1>4. job' \in [Session -> CustomersRequest \cup {None}]
  BY <1>1, <1>2
<1>5. \A r \in Session \ {s} : pc'[r] = pc[r] /\ job'[r] = job[r]
  BY <1>1, <1>2 DEF CustomersTypeOK
<1>6. \A r \in Session \ {s} : \A c \in Customer : lock[c] = r => lock'[c] = r
  BY <1>1, <1>2 DEF CustomersTypeOK
<1>7. pc'[s] = "idle"
  BY <1>1, <1>2 DEF CustomersTypeOK
<1> QED
  BY <1>2, <1>3, <1>4, <1>5, <1>6, <1>7, IdleRequest, QuietStep

\* A request goes on, perhaps with more locks and knowledge.
LEMMA GoOn ==
  ASSUME CustomersInv, NEW s \in Session, NEW step \in CustomersStep, NEW request \in CustomersRequest,
         pc' = [pc EXCEPT ![s] = step], job' = [job EXCEPT ![s] = request],
         lock' = lock \/ \E x \in Customer \cup Telephone : Available(s, x) /\ Hold(s, x),
         UNCHANGED <<customers, program, booked, completed, loyaltyHistory>>,
         Editing(s)' /\ Booking(s)' /\ Redeeming(s)' /\ Programming(s)'
  PROVE  CustomersInv'
<1>1. CustomersTypeOK /\ job \in [Session -> CustomersRequest \cup {None}]
  BY DEF CustomersInv, Tables
<1>2. lock' \in [Customer \cup Telephone -> Session \cup {None}]
  BY <1>1 DEF CustomersTypeOK, Hold
<1>3. CustomersTypeOK'
  BY <1>1, <1>2 DEF CustomersTypeOK, CustomersStep, loyaltyHistory
<1>4. job' \in [Session -> CustomersRequest \cup {None}]
  BY <1>1
<1>5. \A r \in Session \ {s} : pc'[r] = pc[r] /\ job'[r] = job[r]
  BY <1>1 DEF CustomersTypeOK
<1>6. \A r \in Session \ {s} : \A c \in Customer : lock[c] = r => lock'[c] = r
  BY <1>1, SessionAssumption DEF CustomersTypeOK, Hold, Available
<1> QED
  BY <1>3, <1>4, <1>5, <1>6, QuietStep

\* The checks, the flush and the row lock, one case each.
LEMMA GoOnStep ==
  ASSUME CustomersInv, NEW s \in Session,
         CheckPhone(s) \/ FindCustomer(s) \/ FlushCustomer(s) \/ LockCustomer(s)
  PROVE  CustomersInv'
<1> DEFINE j == job[s]
           Knows == Editing(s)' /\ Booking(s)' /\ Redeeming(s)' /\ Programming(s)'
<1>1. /\ CustomersTypeOK /\ job \in [Session -> CustomersRequest \cup {None}]
      /\ Editing(s) /\ Booking(s) /\ Redeeming(s) /\ Programming(s)
  BY DEF CustomersInv, Tables, Requests
<1>2. job = [job EXCEPT ![s] = j]
  BY <1>1
<1>3. CASE CheckPhone(s)
  <2> DEFINE step == IF j.customer = None THEN "insert" ELSE "update"
  <2>1. /\ pc[s] = "check" /\ pc' = [pc EXCEPT ![s] = step] /\ job' = job /\ lock' = lock
        /\ UNCHANGED <<customers, program, booked, completed, loyaltyHistory>>
    BY <1>3 DEF CheckPhone
  <2>2. j \in CustomersRequest /\ step \in CustomersStep
    BY <1>1, <2>1 DEF Editing, CustomersStep
  <2>3. pc'[s] = step /\ job'[s] = j /\ Known' = Known
    BY <1>1, <2>1 DEF CustomersTypeOK, Known
  <2>4. Knows
    BY <1>1, <2>1, <2>3 DEF Editing, Booking, Redeeming, Programming
  <2>5. job' = [job EXCEPT ![s] = j]
    BY <1>2, <2>1
  <2> HIDE DEF step, j
  <2> QED
    BY <2>1, <2>2, <2>4, <2>5, GoOn
<1>4. CASE FindCustomer(s)
  <2>1. /\ pc[s] = "find" /\ lock' = lock
        /\ UNCHANGED <<customers, program, booked, completed, loyaltyHistory>>
    BY <1>4 DEF FindCustomer
  <2>2. j \in CustomersRequest /\ j.row \in CustomerRow /\ j.row.rewards = 0
    BY <1>1, <2>1 DEF Booking
  <2>3. CASE WithPhone(j.phone) = {}
    <3>1. pc' = [pc EXCEPT ![s] = "flush"] /\ job' = job /\ "flush" \in CustomersStep
      BY <1>4, <2>3 DEF FindCustomer, CustomersStep
    <3>2. pc'[s] = "flush" /\ job'[s] = j
      BY <1>1, <3>1 DEF CustomersTypeOK
    <3>3. Knows
      BY <2>2, <3>2 DEF Editing, Booking, Redeeming, Programming
    <3>4. job' = [job EXCEPT ![s] = j]
      BY <1>2, <3>1
    <3> QED
      BY <2>1, <2>2, <3>1, <3>3, <3>4, GoOn
  <2>4. CASE WithPhone(j.phone) # {}
    <3>1. PICK c \in WithPhone(j.phone) : job' = [job EXCEPT ![s].customer = c]
      BY <1>4, <2>4 DEF FindCustomer
    <3> DEFINE request == [j EXCEPT !.customer = c]
    <3>2. c \in Customer
      BY DEF WithPhone, Known
    <3>3. request \in CustomersRequest /\ request.row = j.row /\ request.customer = c
      BY <2>2, <3>2 DEF CustomersRequest
    <3>4. job' = [job EXCEPT ![s] = request]
      BY <3>1
    <3> HIDE DEF request
    <3>5. pc' = [pc EXCEPT ![s] = "appoint"] /\ "appoint" \in CustomersStep
      BY <1>4, <2>4 DEF FindCustomer, CustomersStep
    <3>6. pc'[s] = "appoint" /\ job'[s] = request
      BY <1>1, <3>4, <3>5 DEF CustomersTypeOK
    <3>7. Knows
      BY <2>2, <3>2, <3>3, <3>6 DEF Editing, Booking, Redeeming, Programming
    <3> QED
      BY <2>1, <3>3, <3>4, <3>5, <3>7, GoOn
  <2> QED
    BY <2>3, <2>4
<1>5. CASE FlushCustomer(s)
  <2>1. /\ pc[s] = "flush" /\ Available(s, j.phone) /\ Hold(s, j.phone)
        /\ pc' = [pc EXCEPT ![s] = "appoint"] /\ "appoint" \in CustomersStep
        /\ UNCHANGED <<customers, program, booked, completed, loyaltyHistory>>
    BY <1>5 DEF FlushCustomer, Goto, CustomersStep
  <2>2. j \in CustomersRequest /\ j.row \in CustomerRow /\ j.row.rewards = 0
    BY <1>1, <2>1 DEF Booking
  <2>3. PICK c \in First(Fresh) : job' = [job EXCEPT ![s].customer = c]
    BY <1>5 DEF FlushCustomer
  <2> DEFINE request == [j EXCEPT !.customer = c]
  <2>4. c \in Customer
    BY DEF First, Fresh
  <2>5. request \in CustomersRequest /\ request.row = j.row /\ request.customer = c
    BY <2>2, <2>4 DEF CustomersRequest
  <2>6. job' = [job EXCEPT ![s] = request]
    BY <2>3
  <2> HIDE DEF request
  <2>7. pc'[s] = "appoint" /\ job'[s] = request
    BY <1>1, <2>1, <2>6 DEF CustomersTypeOK
  <2>8. Knows
    BY <2>2, <2>4, <2>5, <2>7 DEF Editing, Booking, Redeeming, Programming
  <2>9. lock' = lock \/ \E x \in Customer \cup Telephone : Available(s, x) /\ Hold(s, x)
    <3>1. j.phone \in Telephone \/ j.phone = None
      BY <2>2 DEF CustomersRequest
    <3>2. CASE j.phone = None
      BY <1>1, <2>1, <3>2, CustomerAssumption DEF Hold, CustomersTypeOK
    <3> QED
      BY <2>1, <3>1, <3>2
  <2> QED
    BY <2>1, <2>5, <2>6, <2>8, <2>9, GoOn
<1>6. CASE LockCustomer(s)
  <2> DEFINE c == j.customer
             request == [j EXCEPT !.row = customers[c]]
  <2>1. /\ pc[s] = "lock" /\ Available(s, c) /\ Hold(s, c)
        /\ pc' = [pc EXCEPT ![s] = "redeem"] /\ "redeem" \in CustomersStep
        /\ UNCHANGED <<customers, program, booked, completed, loyaltyHistory>>
    BY <1>6 DEF LockCustomer, Goto, CustomersStep
  <2>2. j \in CustomersRequest /\ c \in Known /\ j.seen \in Program /\ least <= j.seen.target
    BY <1>1, <2>1 DEF Redeeming
  <2>3. c \in Customer /\ customers[c] \in CustomerRow
    BY <1>1, <2>2 DEF Known, CustomersTypeOK
  <2>4. /\ request \in CustomersRequest /\ request.customer = c /\ request.seen = j.seen
        /\ request.row = customers[c]
    BY <2>2, <2>3 DEF CustomersRequest
  <2>5. job' = [job EXCEPT ![s] = request]
    BY <1>6 DEF LockCustomer
  <2>6. lock'[c] = s
    BY <1>1, <2>1, <2>3 DEF Hold, CustomersTypeOK
  <2>7. least' = least /\ Known' = Known
    BY <2>1 DEF loyaltyHistory, Known
  <2> HIDE DEF request, c
  <2>8. pc'[s] = "redeem" /\ job'[s] = request
    BY <1>1, <2>1, <2>5 DEF CustomersTypeOK
  <2>9. Knows
    BY <2>1, <2>2, <2>4, <2>6, <2>7, <2>8 DEF Editing, Booking, Redeeming, Programming
  <2> QED
    BY <2>1, <2>3, <2>4, <2>5, <2>9, GoOn
<1> QED
  BY <1>3, <1>4, <1>5, <1>6

\* A commit that answers its session leaves the others what they know, if it changes no
\* customer that another session has locked.
LEMMA CommitStep ==
  ASSUME CustomersInv, NEW s \in Session, Release(s), Answer(s),
         customers' \in [Customer -> CustomerRow \cup {None}], program' \in Program,
         booked' \subseteq Customer, walkins' \subseteq Customer, completed' = completed,
         granted' \in [Customer -> Nat], least' \in Target, least' <= least,
         Known \subseteq Known',
         \A c \in Known : lock[c] \notin {None, s} => customers'[c] = customers[c],
         Rewards', RewardsCovered', NoOrphanCustomers'
  PROVE  CustomersInv'
<1>1. CustomersTypeOK /\ job \in [Session -> CustomersRequest \cup {None}]
  BY DEF CustomersInv, Tables
<1>2. /\ pc' = [pc EXCEPT ![s] = "idle"] /\ job' = [job EXCEPT ![s] = None]
      /\ lock' = [x \in DOMAIN lock |-> IF lock[x] = s THEN None ELSE lock[x]]
  BY DEF Release, Answer
<1>3. lock' \in [Customer \cup Telephone -> Session \cup {None}]
  BY <1>1, <1>2 DEF CustomersTypeOK
<1>4. CustomersTypeOK'
  BY <1>1, <1>2, <1>3 DEF CustomersTypeOK
<1>5. Tables'
  BY <1>1, <1>2, <1>4 DEF Tables
<1>6. ASSUME NEW r \in Session \ {s}
      PROVE  Editing(r)' /\ Booking(r)' /\ Redeeming(r)' /\ Programming(r)'
  <2>1. pc'[r] = pc[r] /\ job'[r] = job[r]
    BY <1>1, <1>2 DEF CustomersTypeOK
  <2>2. pc[r] = "redeem" => job[r].customer \in Known /\ lock[job[r].customer] = r
    BY DEF CustomersInv, Requests, Redeeming
  <2>3. pc[r] = "redeem" => lock'[job[r].customer] = lock[job[r].customer]
    BY <1>1, <1>2, <2>2 DEF CustomersTypeOK, Known
  <2>4. pc[r] = "redeem" => customers'[job[r].customer] = customers[job[r].customer]
    BY <2>2, SessionAssumption
  <2>5. least' \in Nat
    BY CustomerAssumption
  <2> QED
    BY <2>1, <2>3, <2>4, <2>5, OtherRequest
<1>7. pc'[s] = "idle"
  BY <1>1, <1>2 DEF CustomersTypeOK
<1>8. Requests'
  BY <1>6, <1>7, IdleRequest DEF Requests
<1> QED
  BY <1>5, <1>8 DEF CustomersInv

\* A commit that registers a customer without rewards, or none, and redeems nothing.
LEMMA InsertionStep ==
  ASSUME CustomersInv, NEW s \in Session, Release(s), Answer(s),
         NEW c \in Customer \ Known, NEW row \in CustomerRow, row.rewards = 0,
         customers' = [customers EXCEPT ![c] = row],
         UNCHANGED <<program, completed, granted, least>>,
         booked' \subseteq Customer, walkins' \subseteq Customer, NoOrphanCustomers'
  PROVE  CustomersInv'
<1>1. CustomersTypeOK /\ Rewards /\ RewardsCovered
  BY DEF CustomersInv, Tables
<1>2. customers' \in [Customer -> CustomerRow \cup {None}]
  BY <1>1 DEF CustomersTypeOK
<1>3. row # None /\ customers'[c] = row /\ \A x \in Customer \ {c} : customers'[x] = customers[x]
  BY <1>1, CustomerAssumption DEF CustomersTypeOK
<1>4. Known' = Known \cup {c}
  BY <1>3 DEF Known
<1>5. \A x \in Known : customers'[x] = customers[x]
  BY <1>3 DEF Known
<1>6. Rewards'
  BY <1>1, <1>3, <1>4 DEF Rewards, RedemptionsCounted
<1>7. RewardsCovered'
  BY <1>1 DEF RewardsCovered
<1>8. least' <= least
  BY <1>1, CustomerAssumption DEF CustomersTypeOK
<1> QED
  BY <1>1, <1>2, <1>4, <1>5, <1>6, <1>7, <1>8, CommitStep DEF CustomersTypeOK

\* The commits, one case each.
LEMMA WriteStep ==
  ASSUME CustomersInv, NEW s \in Session,
         InsertCustomer(s) \/ EditCustomer(s) \/ Appoint(s) \/ Redeem(s) \/ UpdateProgram(s)
  PROVE  CustomersInv'
<1> DEFINE j == job[s]
           c == j.customer
<1>1. /\ CustomersTypeOK /\ job \in [Session -> CustomersRequest \cup {None}]
      /\ Editing(s) /\ Booking(s) /\ Redeeming(s) /\ Programming(s)
      /\ Rewards /\ RewardsCovered /\ NoOrphanCustomers
  BY DEF CustomersInv, Tables, Requests
<1>2. least \in Nat /\ least <= least
  BY <1>1, CustomerAssumption DEF CustomersTypeOK
<1>3. CASE InsertCustomer(s)
  <2>1. PICK d \in First(Fresh) : customers' = [customers EXCEPT ![d] = j.row]
    BY <1>3 DEF InsertCustomer
  <2>2. d \in Customer \ Known
    BY DEF First, Fresh
  <2>3. /\ pc[s] = "insert" /\ Release(s) /\ Answer(s)
        /\ UNCHANGED <<program, booked, completed, loyaltyHistory>>
    BY <1>3 DEF InsertCustomer
  <2>4. j.row \in CustomerRow /\ j.row.rewards = 0
    BY <1>1, <2>3 DEF Editing
  <2>5. /\ UNCHANGED <<program, completed, granted, least>>
        /\ booked' \subseteq Customer /\ walkins' \subseteq Customer /\ NoOrphanCustomers'
    BY <1>1, <2>3 DEF loyaltyHistory, CustomersTypeOK, NoOrphanCustomers
  <2> HIDE DEF j
  <2> QED
    BY <2>1, <2>2, <2>3, <2>4, <2>5, InsertionStep
<1>4. CASE EditCustomer(s)
  <2> DEFINE row == Flushed(customers[c], j.seen, j.row)
  <2>1. /\ pc[s] = "update" /\ Available(s, c) /\ Release(s) /\ Answer(s)
        /\ customers' = [customers EXCEPT ![c] = row]
        /\ UNCHANGED <<program, booked, completed, loyaltyHistory>>
    BY <1>4 DEF EditCustomer
  <2>2. /\ c \in Known /\ j.seen \in CustomerRow /\ j.row \in CustomerRow
        /\ j.row.rewards = j.seen.rewards
    BY <1>1, <2>1 DEF Editing
  <2>3. c \in Customer /\ customers[c] \in CustomerRow
    BY <1>1, <2>2 DEF Known, CustomersTypeOK
  <2>4. row \in CustomerRow /\ row.rewards = customers[c].rewards
    BY <2>2, <2>3, FlushedCustomer
  <2> HIDE DEF row, c, j
  <2>5. customers'[c] = row /\ \A x \in Customer \ {c} : customers'[x] = customers[x]
    BY <1>1, <2>1, <2>3 DEF CustomersTypeOK
  <2>6. Known' = Known
    BY <2>2, <2>4, <2>5, CustomerAssumption DEF Known
  <2>7. customers' \in [Customer -> CustomerRow \cup {None}]
    BY <1>1, <2>1, <2>4 DEF CustomersTypeOK
  <2>8. Rewards'
    BY <1>1, <2>1, <2>4, <2>5, <2>6 DEF Rewards, RedemptionsCounted, loyaltyHistory
  <2>9. RewardsCovered' /\ NoOrphanCustomers'
    BY <1>1, <2>1 DEF RewardsCovered, NoOrphanCustomers, loyaltyHistory
  <2>10. \A x \in Known : lock[x] \notin {None, s} => customers'[x] = customers[x]
    BY <2>1, <2>5 DEF Available, Known
  <2>11. /\ program' \in Program /\ booked' \subseteq Customer /\ walkins' \subseteq Customer
         /\ completed' = completed /\ granted' \in [Customer -> Nat]
         /\ least' \in Target /\ least' <= least
    BY <1>1, <1>2, <2>1 DEF CustomersTypeOK, loyaltyHistory
  <2> QED
    BY <2>1, <2>6, <2>7, <2>8, <2>9, <2>10, <2>11, CommitStep
<1>5. CASE Appoint(s)
  <2>1. /\ pc[s] = "appoint" /\ Release(s) /\ Answer(s) /\ booked' = booked \cup {c}
        /\ UNCHANGED <<program, completed, granted, least>>
    BY <1>5 DEF Appoint
  <2>2. c \in Customer /\ j.row \in CustomerRow /\ j.row.rewards = 0
    BY <1>1, <2>1 DEF Booking
  <2>3. walkins' \subseteq walkins \cup {c}
    BY <1>5 DEF Appoint
  <2>4. booked' \subseteq Customer /\ walkins' \subseteq Customer /\ NoOrphanCustomers'
    BY <1>1, <2>1, <2>2, <2>3 DEF NoOrphanCustomers, CustomersTypeOK
  <2>5. CASE c \in Known
    <3>1. customers' = customers
      BY <1>5, <2>5 DEF Appoint
    <3>2. Known' = Known
      BY <3>1 DEF Known
    <3>3. Rewards' /\ RewardsCovered'
      BY <1>1, <2>1, <3>1, <3>2 DEF Rewards, RedemptionsCounted, RewardsCovered
    <3>4. /\ customers' \in [Customer -> CustomerRow \cup {None}] /\ program' \in Program
          /\ granted' \in [Customer -> Nat] /\ least' \in Target /\ least' <= least
      BY <1>1, <1>2, <2>1, <3>1 DEF CustomersTypeOK
    <3> QED
      BY <2>1, <2>4, <3>1, <3>2, <3>3, <3>4, CommitStep
  <2>6. CASE c \notin Known
    <3>1. customers' = [customers EXCEPT ![c] = j.row]
      BY <1>5, <2>6 DEF Appoint
    <3> HIDE DEF c, j
    <3> QED
      BY <2>1, <2>2, <2>4, <2>6, <3>1, InsertionStep
  <2> QED
    BY <2>5, <2>6
<1>6. CASE Redeem(s)
  <2> DEFINE row == [customers[c] EXCEPT !.rewards = j.row.rewards + 1]
  <2>1. /\ pc[s] = "redeem" /\ RewardDue(s) /\ Release(s) /\ Answer(s)
        /\ customers' = [customers EXCEPT ![c] = row]
        /\ granted' = [granted EXCEPT ![c] = @ + 1]
        /\ UNCHANGED <<program, booked, completed, least, walkins>>
    BY <1>6 DEF Redeem
  <2>2. /\ c \in Known /\ j.seen \in Program /\ least <= j.seen.target
        /\ lock[c] = s /\ j.row = customers[c]
    BY <1>1, <2>1 DEF Redeeming
  <2>3. c \in Customer /\ customers[c] \in CustomerRow
    BY <1>1, <2>2 DEF Known, CustomersTypeOK
  <2>4. customers[c].rewards = granted[c]
    BY <1>1, <2>2 DEF Rewards, RedemptionsCounted
  <2>5. row \in CustomerRow /\ row.rewards = granted[c] + 1
    BY <2>2, <2>3, <2>4 DEF CustomerRow
  <2>6. completed[c] \div j.seen.target > granted[c]
    BY <2>1, <2>2, <2>4 DEF RewardDue
  <2>7. j.seen.target \in Nat \ {0} /\ completed[c] \in Nat /\ granted[c] \in Nat
    BY <1>1, <2>2, <2>3, CustomerAssumption DEF Program, CustomersTypeOK
  <2>8. (granted[c] + 1) * least <= completed[c]
    BY <1>2, <2>2, <2>6, <2>7, OneMoreCovered
  <2> HIDE DEF row, c, j
  <2>9. /\ customers'[c] = row /\ \A x \in Customer \ {c} : customers'[x] = customers[x]
        /\ granted'[c] = granted[c] + 1 /\ \A x \in Customer \ {c} : granted'[x] = granted[x]
    BY <1>1, <2>1, <2>3 DEF CustomersTypeOK
  <2>10. Known' = Known
    BY <2>2, <2>5, <2>9, CustomerAssumption DEF Known
  <2>11. Rewards'
    BY <1>1, <2>1, <2>2, <2>5, <2>9, <2>10 DEF Rewards, RedemptionsCounted, Known
  <2>12. RewardsCovered'
    BY <1>1, <2>1, <2>8, <2>9 DEF RewardsCovered
  <2>13. NoOrphanCustomers'
    BY <1>1, <2>1 DEF NoOrphanCustomers
  <2>14. \A x \in Known : lock[x] \notin {None, s} => customers'[x] = customers[x]
    BY <2>2, <2>9 DEF Known
  <2>15. /\ customers' \in [Customer -> CustomerRow \cup {None}]
         /\ granted' \in [Customer -> Nat]
    <3>1. customers' = [customers EXCEPT ![c] = row] /\ row \in CustomerRow
      BY <2>1, <2>5
    <3>2. granted' = [granted EXCEPT ![c] = @ + 1] /\ granted[c] + 1 \in Nat
      BY <2>1, <2>7
    <3>3. customers \in [Customer -> CustomerRow \cup {None}] /\ granted \in [Customer -> Nat]
      BY <1>1 DEF CustomersTypeOK
    <3>4. customers' \in [Customer -> CustomerRow \cup {None}]
      BY <3>1, <3>3
    <3>5. granted' \in [Customer -> Nat]
      BY <3>2, <3>3
    <3> QED
      BY <3>4, <3>5
  <2>16. /\ program' \in Program /\ booked' \subseteq Customer /\ walkins' \subseteq Customer
         /\ completed' = completed /\ least' \in Target /\ least' <= least
    BY <1>1, <1>2, <2>1 DEF CustomersTypeOK
  <2> QED
    BY <2>1, <2>10, <2>11, <2>12, <2>13, <2>14, <2>15, <2>16, CommitStep
<1>7. CASE UpdateProgram(s)
  <2> DEFINE stored == Flushed(program, j.seen, j.row)
  <2>1. /\ pc[s] = "program" /\ Release(s) /\ Answer(s) /\ program' = stored
        /\ least' = IF stored.target < least THEN stored.target ELSE least
        /\ UNCHANGED <<customers, booked, completed, granted, walkins>>
    BY <1>7 DEF UpdateProgram
  <2>2. stored \in Program
    BY <1>1, <2>1, FlushedProgram DEF Programming, CustomersTypeOK
  <2> HIDE DEF stored
  <2>3. stored.target \in Target /\ stored.target \in Nat
    BY <2>2, CustomerAssumption DEF Program
  <2>4. least' \in Target /\ least' \in Nat /\ least' <= least /\ least' <= program'.target
    BY <1>1, <1>2, <2>1, <2>3 DEF CustomersTypeOK
  <2>5. Known' = Known
    BY <2>1 DEF Known
  <2>6. Rewards'
    BY <1>1, <2>1, <2>4, <2>5 DEF Rewards, RedemptionsCounted
  <2>7. RewardsCovered'
    <3> SUFFICES ASSUME NEW x \in Customer PROVE granted[x] * least' <= completed[x]
      BY <2>1 DEF RewardsCovered
    <3>1. granted[x] \in Nat /\ completed[x] \in Nat /\ granted[x] * least <= completed[x]
      BY <1>1 DEF CustomersTypeOK, RewardsCovered
    <3>2. granted[x] * least' <= granted[x] * least
      BY <1>2, <2>4, <3>1, SMT
    <3> QED
      BY <1>2, <2>4, <3>1, <3>2, SMT
  <2>8. NoOrphanCustomers'
    BY <1>1, <2>1 DEF NoOrphanCustomers
  <2>9. /\ customers' \in [Customer -> CustomerRow \cup {None}] /\ program' \in Program
        /\ booked' \subseteq Customer /\ walkins' \subseteq Customer
        /\ granted' \in [Customer -> Nat]
    BY <1>1, <2>1, <2>2 DEF CustomersTypeOK
  <2> QED
    BY <2>1, <2>4, <2>5, <2>6, <2>7, <2>8, <2>9, CommitStep
<1> QED
  BY <1>3, <1>4, <1>5, <1>6, <1>7

\* A visit is booked or completed elsewhere: every request keeps what it knows.
LEMMA VisitStep ==
  ASSUME CustomersInv, NEW c \in Customer, BookVisit(c) \/ CompleteVisit(c)
  PROVE  CustomersInv'
<1>1. CustomersTypeOK /\ Requests /\ Rewards /\ RewardsCovered /\ NoOrphanCustomers
  BY DEF CustomersInv, Tables
<1>2. /\ UNCHANGED <<pc, job, lock, customers, program, loyaltyHistory>>
      /\ booked \subseteq booked' /\ booked' \subseteq Customer
      /\ completed' \in [Customer -> Nat] /\ \A x \in Customer : completed'[x] >= completed[x]
  BY <1>1 DEF BookVisit, CompleteVisit, CustomersTypeOK
<1>3. Tables'
  BY <1>2 DEF CustomersInv, Tables, CustomersTypeOK, loyaltyHistory
<1>4. Known' = Known
  BY <1>2 DEF Known
<1>5. Requests'
  BY <1>1, <1>2, <1>4 DEF Requests, Editing, Booking, Redeeming, Programming, loyaltyHistory
<1>6. Rewards'
  BY <1>1, <1>2, <1>4 DEF Rewards, RedemptionsCounted, loyaltyHistory
<1>7. RewardsCovered'
  <2> SUFFICES ASSUME NEW x \in Customer PROVE granted[x] * least <= completed'[x]
    BY <1>2 DEF RewardsCovered, loyaltyHistory
  <2>1. least \in Nat /\ granted[x] \in Nat /\ completed[x] \in Nat /\ completed'[x] \in Nat
    BY <1>1, <1>2, CustomerAssumption DEF CustomersTypeOK
  <2>2. granted[x] * least <= completed[x] /\ completed'[x] >= completed[x]
    BY <1>1, <1>2 DEF RewardsCovered
  <2> DEFINE owed == granted[x] * least
  <2>3. owed \in Int
    BY <2>1, SMT
  <2> HIDE DEF owed
  <2>4. owed <= completed'[x]
    BY <2>1, <2>2, <2>3, SMT DEF owed
  <2> QED
    BY <2>4 DEF owed
<1>8. NoOrphanCustomers'
  BY <1>1, <1>2 DEF NoOrphanCustomers, loyaltyHistory
<1> QED
  BY <1>3, <1>5, <1>6, <1>7, <1>8 DEF CustomersInv

\* The strengthened invariant is inductive.
LEMMA CustomersStepKeeps == CustomersInv /\ [CustomersNext]_customerVars => CustomersInv'
<1> SUFFICES ASSUME CustomersInv, [CustomersNext]_customerVars PROVE CustomersInv'
  OBVIOUS
<1>1. ASSUME NEW s \in Session, NEW t \in Telephone,
             BeginRegister(s, t) \/ BeginBooking(s, t) \/ \E c \in Customer : BeginEdit(s, c, t)
      PROVE  CustomersInv'
  BY <1>1, CallBegins
<1>2. ASSUME NEW s \in Session,
             \/ \E c \in Customer : BeginRedeem(s, c)
             \/ \E enabled \in BOOLEAN, target \in Target : BeginProgram(s, enabled, target)
      PROVE  CustomersInv'
  BY <1>2, LoyaltyBegins
<1>3. ASSUME NEW s \in Session,
             CheckPhone(s) \/ FindCustomer(s) \/ FlushCustomer(s) \/ LockCustomer(s)
      PROVE  CustomersInv'
  BY <1>3, GoOnStep
<1>4. ASSUME NEW s \in Session,
             InsertCustomer(s) \/ EditCustomer(s) \/ Appoint(s) \/ Redeem(s) \/ UpdateProgram(s)
      PROVE  CustomersInv'
  BY <1>4, WriteStep
<1>5. ASSUME NEW s \in Session, RejectPhone(s) \/ RejectRedeem(s) \/ AbortCustomers(s)
      PROVE  CustomersInv'
  BY <1>5, RejectStep DEF RejectPhone, RejectRedeem, AbortCustomers
<1>6. ASSUME NEW c \in Customer, BookVisit(c) \/ CompleteVisit(c)
      PROVE  CustomersInv'
  BY <1>6, VisitStep
<1>7. CASE UNCHANGED customerVars
  BY <1>7 DEF customerVars, loyaltyHistory, CustomersInv, Tables, CustomersTypeOK, Requests, Editing, Booking,
     Redeeming, Programming, Rewards, RedemptionsCounted, RewardsCovered, NoOrphanCustomers, Known
<1> QED
  BY <1>1, <1>2, <1>3, <1>4, <1>5, <1>6, <1>7 DEF CustomersNext

\* The strengthened invariant holds in every reachable state.
LEMMA CustomersInvariant == CustomersSpec => []CustomersInv
BY CustomersInitially, CustomersStepKeeps, PTL DEF CustomersSpec

\* The tables, locks, requests and histories of the customers have their types.
THEOREM CustomersTyped == CustomersSpec => []CustomersTypeOK
<1>1. CustomersInv => CustomersTypeOK
  BY DEF CustomersInv, Tables
<1> QED
  BY <1>1, CustomersInvariant, PTL

\* The customer's counter is the number of accepted redemptions, although edits and
\* redemptions overlap.
THEOREM RedemptionsAreCounted == CustomersSpec => []RedemptionsCounted
<1>1. CustomersInv => RedemptionsCounted
  BY DEF CustomersInv, Rewards
<1> QED
  BY <1>1, CustomersInvariant, PTL

\* Rewards never exceed what the completed visits earn at the most generous target.
THEOREM RewardsAreCovered == CustomersSpec => []RewardsCovered
<1>1. CustomersInv => RewardsCovered
  BY DEF CustomersInv
<1> QED
  BY <1>1, CustomersInvariant, PTL

\* A customer whom a public booking registered has an appointment.
THEOREM BookingsLeaveNoOrphans == CustomersSpec => []NoOrphanCustomers
<1>1. CustomersInv => NoOrphanCustomers
  BY DEF CustomersInv
<1> QED
  BY <1>1, CustomersInvariant, PTL

-----------------------------------------------------------------------------
\* Sums.

\* A set of subsets of a finite set has a smallest member: induction over finite sets, without
\* an operator parameter.
LEMMA Smallest ==
  ASSUME NEW S, IsFiniteSet(S), NEW B \in SUBSET SUBSET S, B # {}
  PROVE  \E T \in B : \A U \in B : U \subseteq T => U = T
<1> DEFINE R == StrictSubsetOrdering(S)
<1>1. IsWellFoundedOn(R, FiniteSubsetsOf(S))
  BY FS_StrictSubsetOrderingWellFounded
<1>2. B \subseteq FiniteSubsetsOf(S)
  BY FS_Subset DEF FiniteSubsetsOf
<1>3. \E T \in B : \A U \in B : ~ (<<U, T>> \in R)
  <2> HIDE DEF R
  <2> QED
    BY <1>1, <1>2, WFMin
<1>4. PICK T \in B : \A U \in B : <<U, T>> \notin R
  BY <1>3
<1>5. \A U \in B : U \subseteq T => U = T
  BY <1>4 DEF StrictSubsetOrdering
<1> QED
  BY <1>5

\* The recursion by which a sum over a finite set is defined.
Pick(T) == CHOOSE x \in T : TRUE
Adds(f, S, g) == g = [T \in SUBSET S |-> IF T = {} THEN 0 ELSE f[Pick(T)] + g[T \ {Pick(T)}]]

\* Two such functions agree where both are defined.
LEMMA AddsOnce ==
  ASSUME NEW f, NEW S, NEW R, NEW g, NEW h, Adds(f, S, g), Adds(f, R, h),
         NEW W \in SUBSET S, W \in SUBSET R, IsFiniteSet(W)
  PROVE  g[W] = h[W]
<1> DEFINE B == {T \in SUBSET W : g[T] # h[T]}
<1> SUFFICES ASSUME B # {} PROVE FALSE
  OBVIOUS
<1>0. B \in SUBSET SUBSET W /\ B # {}
  OBVIOUS
<1>1. PICK T \in B : \A U \in B : U \subseteq T => U = T
  <2> HIDE DEF B
  <2> QED
    BY <1>0, Smallest
<1>2. g[T] = IF T = {} THEN 0 ELSE f[Pick(T)] + g[T \ {Pick(T)}]
  BY DEF Adds
<1>3. h[T] = IF T = {} THEN 0 ELSE f[Pick(T)] + h[T \ {Pick(T)}]
  BY DEF Adds
<1>4. T # {} => Pick(T) \in T
  BY DEF Pick
<1> QED
  BY <1>1, <1>2, <1>3, <1>4

\* There is one for every finite set.
LEMMA AddsDefined ==
  ASSUME NEW f, NEW S, IsFiniteSet(S)
  PROVE  \E g : Adds(f, S, g)
<1> DEFINE B == {T \in SUBSET S : ~\E g : Adds(f, T, g)}
<1> SUFFICES ASSUME B # {} PROVE FALSE
  OBVIOUS
<1>0. B \in SUBSET SUBSET S /\ B # {}
  OBVIOUS
<1>1. PICK T \in B : \A U \in B : U \subseteq T => U = T
  <2> HIDE DEF B
  <2> QED
    BY <1>0, Smallest
<1> DEFINE below == {U \in SUBSET T : U # T}
           sum == [U \in below |-> CHOOSE g : Adds(f, U, g)]
<1>2. \A U \in below : Adds(f, U, sum[U])
  BY <1>1
<1>3. \A U \in SUBSET T : IsFiniteSet(U)
  BY <1>1, FS_Subset
<1>4. ASSUME NEW U \in below, U # {}
      PROVE  sum[U][U] = f[Pick(U)] + sum[U \ {Pick(U)}][U \ {Pick(U)}]
  <2> DEFINE V == U \ {Pick(U)}
  <2>1. V \in below /\ V \in SUBSET U /\ V \in SUBSET V /\ IsFiniteSet(V)
    BY <1>3
  <2>2. Adds(f, U, sum[U]) /\ Adds(f, V, sum[V])
    BY <1>2, <2>1
  <2>3. sum[U][V] = sum[V][V]
    <3> HIDE DEF V, sum, below
    <3> QED
      BY <2>1, <2>2, AddsOnce
  <2>4. sum[U][U] = f[Pick(U)] + sum[U][V]
    <3> HIDE DEF sum, below
    <3> QED
      BY <1>4, <2>2 DEF Adds
  <2> QED
    BY <2>3, <2>4
<1>5. {} \in below => sum[{}][{}] = 0
  <2> HIDE DEF sum, below
  <2> QED
    BY <1>2 DEF Adds
<1> DEFINE last == T \ {Pick(T)}
           total == [U \in SUBSET T |-> IF U # T THEN sum[U][U]
                                        ELSE IF T = {} THEN 0 ELSE f[Pick(T)] + sum[last][last]]
<1> HIDE DEF sum
<1>6. ASSUME NEW U \in SUBSET T
      PROVE  total[U] = IF U = {} THEN 0 ELSE f[Pick(U)] + total[U \ {Pick(U)}]
  <2>1. U # {} => Pick(U) \in U
    BY DEF Pick
  <2>2. CASE U = {}
    BY <2>2, <1>5
  <2>3. CASE U # {} /\ U # T
    BY <2>1, <2>3, <1>4
  <2>4. CASE U # {} /\ U = T
    BY <2>1, <2>4
  <2> QED
    BY <2>2, <2>3, <2>4
<1>7. Adds(f, T, total)
  BY <1>6 DEF Adds
<1> QED
  BY <1>1, <1>7

\* The library's sum obeys the recursion.
LEMMA SumStep ==
  ASSUME NEW f, NEW S, IsFiniteSet(S)
  PROVE  SumFunctionOnSet(f, S) =
           IF S = {} THEN 0 ELSE f[Pick(S)] + SumFunctionOnSet(f, S \ {Pick(S)})
<1>1. ASSUME NEW T, IsFiniteSet(T)
      PROVE  \E g : Adds(f, T, g) /\ SumFunctionOnSet(f, T) = g[T]
  <2> DEFINE g == CHOOSE g : Adds(f, T, g)
  <2>1. Adds(f, T, g)
    BY <1>1, AddsDefined
  <2>2. SumFunctionOnSet(f, T) = g[T]
    BY DEF SumFunctionOnSet, FoldFunctionOnSet, MapThenFoldSet, Adds, Pick
  <2> QED
    BY <2>1, <2>2
<1>2. PICK g : Adds(f, S, g) /\ SumFunctionOnSet(f, S) = g[S]
  BY <1>1
<1> DEFINE V == S \ {Pick(S)}
<1>3. IsFiniteSet(V)
  BY FS_Subset
<1>4. PICK h : Adds(f, V, h) /\ SumFunctionOnSet(f, V) = h[V]
  BY <1>1, <1>3
<1>5. g[V] = h[V]
  <2>1. V \in SUBSET S /\ V \in SUBSET V
    OBVIOUS
  <2> HIDE DEF V
  <2> QED
    BY <1>2, <1>3, <1>4, <2>1, AddsOnce
<1>6. g[S] = IF S = {} THEN 0 ELSE f[Pick(S)] + g[V]
  BY <1>2 DEF Adds
<1> QED
  BY <1>2, <1>4, <1>5, <1>6

\* A sum of integers is an integer.
LEMMA SumInt ==
  ASSUME NEW f, NEW S, IsFiniteSet(S), \A x \in S : f[x] \in Int
  PROVE  SumFunctionOnSet(f, S) \in Int
<1> DEFINE B == {T \in SUBSET S : SumFunctionOnSet(f, T) \notin Int}
<1> SUFFICES ASSUME B # {} PROVE FALSE
  BY Zenon
<1>1. B \in SUBSET SUBSET S /\ B # {}
  BY Zenon
<1>2. PICK T \in B : \A U \in B : U \subseteq T => U = T
  <2> HIDE DEF B
  <2> QED
    BY <1>1, Smallest
<1>3. T \in SUBSET S /\ SumFunctionOnSet(f, T) \notin Int /\ IsFiniteSet(T)
  BY FS_Subset
<1>4. SumFunctionOnSet(f, T) = IF T = {} THEN 0 ELSE f[Pick(T)] + SumFunctionOnSet(f, T \ {Pick(T)})
  BY <1>3, SumStep
<1>5. T # {}
  BY <1>3, <1>4
<1>6. Pick(T) \in T
  BY <1>5 DEF Pick
<1>7. SumFunctionOnSet(f, T \ {Pick(T)}) \in Int
  <2>1. T \ {Pick(T)} \in SUBSET S /\ T \ {Pick(T)} \subseteq T /\ T \ {Pick(T)} # T
    BY <1>3, <1>6
  <2> QED
    BY <2>1, <1>2
<1> QED
  BY <1>3, <1>4, <1>5, <1>6, <1>7

\* The order of the additions does not matter.
LEMMA SumAny ==
  ASSUME NEW f, NEW S, IsFiniteSet(S), \A x \in S : f[x] \in Int, NEW y \in S
  PROVE  /\ SumFunctionOnSet(f, S) = f[y] + SumFunctionOnSet(f, S \ {y})
         /\ SumFunctionOnSet(f, S \ {y}) \in Int
<1> DEFINE Ok(T, x) == SumFunctionOnSet(f, T) = f[x] + SumFunctionOnSet(f, T \ {x})
           B == {T \in SUBSET S : \E x \in T : ~Ok(T, x)}
<1>0. SumFunctionOnSet(f, S \ {y}) \in Int
  BY SumInt, FS_Subset
<1> SUFFICES ASSUME B # {} PROVE FALSE
  BY <1>0
<1>1. B \in SUBSET SUBSET S /\ B # {}
  BY Zenon
<1>2. PICK T \in B : \A U \in B : U \subseteq T => U = T
  <2> HIDE DEF B
  <2> QED
    BY <1>1, Smallest
<1>3. T \in SUBSET S /\ IsFiniteSet(T)
  BY FS_Subset
<1>4. PICK x \in T : ~Ok(T, x)
  BY Zenon
<1> DEFINE p == Pick(T)
<1>5. p \in T /\ Ok(T, p)
  BY <1>3, <1>4, SumStep DEF Pick
<1>6. x # p
  BY <1>4, <1>5
<1>7. ASSUME NEW U \in SUBSET T, U # T, NEW z \in U
      PROVE  Ok(U, z)
  <2>1. U \notin B
    BY <1>2, <1>7
  <2>2. U \in SUBSET S
    BY <1>3
  <2> HIDE DEF Ok
  <2> QED
    BY <2>1, <2>2
<1>8. Ok(T \ {p}, x) /\ Ok(T \ {x}, p)
  <2>1. T \ {p} \in SUBSET T /\ T \ {p} # T /\ x \in T \ {p}
    BY <1>4, <1>5, <1>6
  <2>2. T \ {x} \in SUBSET T /\ T \ {x} # T /\ p \in T \ {x}
    BY <1>4, <1>5, <1>6
  <2> HIDE DEF Ok, p
  <2> QED
    BY <2>1, <2>2, <1>7
<1>9. (T \ {p}) \ {x} = (T \ {x}) \ {p}
  OBVIOUS
<1> DEFINE rest == SumFunctionOnSet(f, (T \ {p}) \ {x})
<1>10. f[p] \in Int /\ f[x] \in Int
  BY <1>3, <1>4, <1>5
<1>11. rest \in Int
  <2>1. IsFiniteSet((T \ {p}) \ {x}) /\ (T \ {p}) \ {x} \subseteq S
    BY <1>3, FS_Subset
  <2> QED
    BY <2>1, SumInt
<1>12. SumFunctionOnSet(f, T) = f[p] + (f[x] + rest)
  BY <1>5, <1>8
<1>13. f[x] + SumFunctionOnSet(f, T \ {x}) = f[x] + (f[p] + rest)
  BY <1>8, <1>9
<1>14. f[p] + (f[x] + rest) = f[x] + (f[p] + rest)
  <2> HIDE DEF rest, p
  <2> QED
    BY <1>10, <1>11
<1> QED
  BY <1>4, <1>12, <1>13, <1>14

\* Functions that agree have the same sum.
LEMMA SumSame ==
  ASSUME NEW f, NEW g, NEW S, IsFiniteSet(S), \A x \in S : f[x] = g[x]
  PROVE  SumFunctionOnSet(f, S) = SumFunctionOnSet(g, S)
<1> DEFINE B == {T \in SUBSET S : SumFunctionOnSet(f, T) # SumFunctionOnSet(g, T)}
<1> SUFFICES ASSUME B # {} PROVE FALSE
  BY Zenon
<1>1. B \in SUBSET SUBSET S /\ B # {}
  BY Zenon
<1>2. PICK T \in B : \A U \in B : U \subseteq T => U = T
  <2> HIDE DEF B
  <2> QED
    BY <1>1, Smallest
<1>3. T \in SUBSET S /\ IsFiniteSet(T) /\ SumFunctionOnSet(f, T) # SumFunctionOnSet(g, T)
  BY FS_Subset
<1>4. /\ SumFunctionOnSet(f, T) = IF T = {} THEN 0 ELSE f[Pick(T)] + SumFunctionOnSet(f, T \ {Pick(T)})
      /\ SumFunctionOnSet(g, T) = IF T = {} THEN 0 ELSE g[Pick(T)] + SumFunctionOnSet(g, T \ {Pick(T)})
  BY <1>3, SumStep
<1>5. T # {} /\ Pick(T) \in T
  BY <1>3, <1>4 DEF Pick
<1>6. T \ {Pick(T)} \in SUBSET S /\ T \ {Pick(T)} \notin B
  BY <1>2, <1>3, <1>5
<1> QED
  BY <1>3, <1>4, <1>5, <1>6

\* The sum over two disjoint sets.
LEMMA SumUnion ==
  ASSUME NEW f, NEW R, NEW S, IsFiniteSet(R), IsFiniteSet(S), R \cap S = {},
         \A x \in R \cup S : f[x] \in Int
  PROVE  SumFunctionOnSet(f, R \cup S) = SumFunctionOnSet(f, R) + SumFunctionOnSet(f, S)
<1> DEFINE Ok(T) == SumFunctionOnSet(f, R \cup T) = SumFunctionOnSet(f, R) + SumFunctionOnSet(f, T)
           B == {T \in SUBSET S : ~Ok(T)}
<1> SUFFICES ASSUME B # {} PROVE FALSE
  BY Zenon
<1>1. B \in SUBSET SUBSET S /\ B # {}
  BY Zenon
<1>2. PICK T \in B : \A U \in B : U \subseteq T => U = T
  <2> HIDE DEF B
  <2> QED
    BY <1>1, Smallest
<1>3. T \in SUBSET S /\ IsFiniteSet(T) /\ ~Ok(T) /\ IsFiniteSet(R \cup T)
  BY FS_Subset, FS_Union
<1>4. SumFunctionOnSet(f, R) \in Int
  BY SumInt
<1>5. T # {}
  <2> SUFFICES ASSUME T = {} PROVE FALSE
    OBVIOUS
  <2>1. R \cup T = R /\ SumFunctionOnSet(f, T) = 0
    BY <1>3, SumStep
  <2> QED
    BY <1>3, <1>4, <2>1
<1>6. PICK x \in T : TRUE
  BY <1>5
<1>7. T \ {x} \in SUBSET S /\ Ok(T \ {x})
  <2>1. T \ {x} \in SUBSET S /\ T \ {x} \notin B
    BY <1>2, <1>3, <1>6
  <2> HIDE DEF Ok
  <2> QED
    BY <2>1
<1>8. /\ SumFunctionOnSet(f, T) = f[x] + SumFunctionOnSet(f, T \ {x})
      /\ SumFunctionOnSet(f, T \ {x}) \in Int
  BY <1>3, <1>6, SumAny
<1>9. SumFunctionOnSet(f, R \cup T) = f[x] + SumFunctionOnSet(f, (R \cup T) \ {x})
  BY <1>3, <1>6, SumAny
<1>10. (R \cup T) \ {x} = R \cup (T \ {x})
  BY <1>3, <1>6
<1>11. f[x] \in Int
  BY <1>3, <1>6
<1> DEFINE r == SumFunctionOnSet(f, R)  u == SumFunctionOnSet(f, T \ {x})
<1>12. SumFunctionOnSet(f, R \cup T) = f[x] + (r + u) /\ SumFunctionOnSet(f, T) = f[x] + u
  BY <1>7, <1>8, <1>9, <1>10
<1>13. f[x] + (r + u) = r + (f[x] + u)
  <2> HIDE DEF r, u
  <2> QED
    BY <1>4, <1>8, <1>11 DEF r, u
<1> QED
  BY <1>3, <1>12, <1>13

\* The sum of a difference of three columns.
LEMMA SumDifference ==
  ASSUME NEW f, NEW g, NEW h, NEW t, NEW S, IsFiniteSet(S),
         \A x \in S : /\ f[x] \in Int /\ g[x] \in Int /\ h[x] \in Int
                      /\ t[x] = f[x] - g[x] - h[x]
  PROVE  SumFunctionOnSet(t, S) =
           SumFunctionOnSet(f, S) - SumFunctionOnSet(g, S) - SumFunctionOnSet(h, S)
<1> DEFINE Ok(T) == SumFunctionOnSet(t, T) =
                      SumFunctionOnSet(f, T) - SumFunctionOnSet(g, T) - SumFunctionOnSet(h, T)
           B == {T \in SUBSET S : ~Ok(T)}
<1> SUFFICES ASSUME B # {} PROVE FALSE
  BY Zenon
<1>1. B \in SUBSET SUBSET S /\ B # {}
  BY Zenon
<1>2. PICK T \in B : \A U \in B : U \subseteq T => U = T
  <2> HIDE DEF B
  <2> QED
    BY <1>1, Smallest
<1>3. T \in SUBSET S /\ IsFiniteSet(T) /\ ~Ok(T)
  BY FS_Subset
<1>4. T # {}
  <2> SUFFICES ASSUME T = {} PROVE FALSE
    OBVIOUS
  <2>1. /\ SumFunctionOnSet(t, T) = 0 /\ SumFunctionOnSet(f, T) = 0
        /\ SumFunctionOnSet(g, T) = 0 /\ SumFunctionOnSet(h, T) = 0
    BY <1>3, SumStep
  <2> QED
    BY <1>3, <2>1
<1>5. PICK x \in T : TRUE
  BY <1>4
<1>6. Ok(T \ {x})
  <2>1. T \ {x} \in SUBSET S /\ T \ {x} \notin B
    BY <1>2, <1>3, <1>5
  <2> HIDE DEF Ok
  <2> QED
    BY <2>1
<1>7. f[x] \in Int /\ g[x] \in Int /\ h[x] \in Int /\ t[x] = f[x] - g[x] - h[x]
  BY <1>3, <1>5
<1>8. \A y \in T : f[y] \in Int /\ g[y] \in Int /\ h[y] \in Int /\ t[y] \in Int
  BY <1>3
<1>9. /\ SumFunctionOnSet(f, T) = f[x] + SumFunctionOnSet(f, T \ {x})
      /\ SumFunctionOnSet(f, T \ {x}) \in Int
      /\ SumFunctionOnSet(g, T) = g[x] + SumFunctionOnSet(g, T \ {x})
      /\ SumFunctionOnSet(g, T \ {x}) \in Int
      /\ SumFunctionOnSet(h, T) = h[x] + SumFunctionOnSet(h, T \ {x})
      /\ SumFunctionOnSet(h, T \ {x}) \in Int
      /\ SumFunctionOnSet(t, T) = t[x] + SumFunctionOnSet(t, T \ {x})
  <2>1. ASSUME NEW v, \A y \in T : v[y] \in Int
        PROVE  /\ SumFunctionOnSet(v, T) = v[x] + SumFunctionOnSet(v, T \ {x})
               /\ SumFunctionOnSet(v, T \ {x}) \in Int
    BY <1>3, <1>5, <2>1, SumAny
  <2> QED
    BY <1>8, <2>1
<1> QED
  BY <1>3, <1>6, <1>7, <1>9

\* A sum of natural numbers is one, and bounds its terms.
LEMMA SumNat ==
  ASSUME NEW f, NEW S, IsFiniteSet(S), \A x \in S : f[x] \in Nat
  PROVE  /\ SumFunctionOnSet(f, S) \in Nat
         /\ \A x \in S : f[x] <= SumFunctionOnSet(f, S)
<1> DEFINE B == {T \in SUBSET S : SumFunctionOnSet(f, T) \notin Nat}
<1>0. \A T \in SUBSET S : SumFunctionOnSet(f, T) \in Nat
  <2> SUFFICES ASSUME B # {} PROVE FALSE
    BY Zenon
  <2>1. B \in SUBSET SUBSET S /\ B # {}
    BY Zenon
  <2>2. PICK T \in B : \A U \in B : U \subseteq T => U = T
    <3> HIDE DEF B
    <3> QED
      BY <2>1, Smallest
  <2>3. T \in SUBSET S /\ SumFunctionOnSet(f, T) \notin Nat /\ IsFiniteSet(T)
    BY FS_Subset
  <2>4. SumFunctionOnSet(f, T) = IF T = {} THEN 0 ELSE f[Pick(T)] + SumFunctionOnSet(f, T \ {Pick(T)})
    BY <2>3, SumStep
  <2>5. T # {} /\ Pick(T) \in T
    BY <2>3, <2>4 DEF Pick
  <2>6. T \ {Pick(T)} \in SUBSET S /\ T \ {Pick(T)} \notin B
    BY <2>2, <2>3, <2>5
  <2>7. SumFunctionOnSet(f, T \ {Pick(T)}) \in Nat
    BY <2>6
  <2> QED
    BY <2>3, <2>4, <2>5, <2>7
<1>1. ASSUME NEW x \in S
      PROVE  f[x] <= SumFunctionOnSet(f, S)
  <2>1. SumFunctionOnSet(f, S) = f[x] + SumFunctionOnSet(f, S \ {x})
    BY SumAny
  <2>2. S \ {x} \in SUBSET S
    OBVIOUS
  <2>3. SumFunctionOnSet(f, S \ {x}) \in Nat
    BY <1>0, <2>2
  <2> QED
    BY <2>1, <2>3
<1> QED
  BY <1>0, <1>1

\* A sum of ones counts.
LEMMA SumOnes ==
  ASSUME NEW f, NEW S, IsFiniteSet(S), \A x \in S : f[x] = 1
  PROVE  SumFunctionOnSet(f, S) = Cardinality(S)
<1> DEFINE B == {T \in SUBSET S : SumFunctionOnSet(f, T) # Cardinality(T)}
<1> SUFFICES ASSUME B # {} PROVE FALSE
  BY Zenon
<1>1. B \in SUBSET SUBSET S /\ B # {}
  BY Zenon
<1>2. PICK T \in B : \A U \in B : U \subseteq T => U = T
  <2> HIDE DEF B
  <2> QED
    BY <1>1, Smallest
<1>3. T \in SUBSET S /\ IsFiniteSet(T) /\ SumFunctionOnSet(f, T) # Cardinality(T)
  BY FS_Subset
<1>4. SumFunctionOnSet(f, T) = IF T = {} THEN 0 ELSE f[Pick(T)] + SumFunctionOnSet(f, T \ {Pick(T)})
  BY <1>3, SumStep
<1>5. T # {} /\ Pick(T) \in T
  BY <1>3, <1>4, FS_EmptySet DEF Pick
<1>6. T \ {Pick(T)} \in SUBSET S /\ T \ {Pick(T)} \notin B
  BY <1>2, <1>3, <1>5
<1>7. Cardinality(T \ {Pick(T)}) = Cardinality(T) - 1 /\ Cardinality(T) \in Nat
  BY <1>3, <1>5, FS_RemoveElement, FS_CardinalityType
<1> QED
  BY <1>3, <1>4, <1>5, <1>6, <1>7

\* The members of a set with a value of a key.
Fiber(S, key, k) == {x \in S : key[x] = k}

\* A breakdown by a key adds up to the whole.
LEMMA SumFibers ==
  ASSUME NEW f, NEW S, IsFiniteSet(S), NEW key, NEW K, IsFiniteSet(K), NEW t,
         \A x \in S : f[x] \in Int /\ key[x] \in K,
         \A k \in K : t[k] = SumFunctionOnSet(f, Fiber(S, key, k))
  PROVE  SumFunctionOnSet(t, K) = SumFunctionOnSet(f, S)
<1> DEFINE At(J) == {x \in S : key[x] \in J}
           B == {J \in SUBSET K : SumFunctionOnSet(t, J) # SumFunctionOnSet(f, At(J))}
<1>0. \A J : IsFiniteSet(At(J)) /\ At(J) \subseteq S
  BY FS_Subset
<1>1. \A J \in SUBSET K : SumFunctionOnSet(t, J) = SumFunctionOnSet(f, At(J))
  <2> SUFFICES ASSUME B # {} PROVE FALSE
    BY Zenon
  <2>1. B \in SUBSET SUBSET K /\ B # {}
    BY Zenon
  <2>2. PICK J \in B : \A I \in B : I \subseteq J => I = J
    <3> HIDE DEF B
    <3> QED
      BY <2>1, Smallest
  <2>3. J \in SUBSET K /\ IsFiniteSet(J) /\ SumFunctionOnSet(t, J) # SumFunctionOnSet(f, At(J))
    BY FS_Subset
  <2> DEFINE k == Pick(J)  one == {x \in S : key[x] = k}
  <2>4. SumFunctionOnSet(t, J) = IF J = {} THEN 0 ELSE t[k] + SumFunctionOnSet(t, J \ {k})
    BY <2>3, SumStep
  <2>5. J # {}
    <3> SUFFICES ASSUME J = {} PROVE FALSE
      OBVIOUS
    <3>1. At(J) = {}
      OBVIOUS
    <3>2. SumFunctionOnSet(f, At(J)) = 0
      BY <3>1, <1>0, SumStep
    <3> QED
      BY <2>3, <2>4, <3>2
  <2>6. k \in J
    BY <2>5 DEF Pick
  <2>7. SumFunctionOnSet(t, J \ {k}) = SumFunctionOnSet(f, At(J \ {k}))
    <3>1. J \ {k} \in SUBSET K /\ J \ {k} \notin B
      BY <2>2, <2>3, <2>6
    <3> QED
      BY <3>1
  <2>8. At(J) = one \cup At(J \ {k}) /\ one \cap At(J \ {k}) = {}
    BY <2>6
  <2>9. IsFiniteSet(one) /\ \A x \in one \cup At(J \ {k}) : f[x] \in Int
    BY FS_Subset
  <2>10. SumFunctionOnSet(f, At(J)) = SumFunctionOnSet(f, one) + SumFunctionOnSet(f, At(J \ {k}))
    <3> DEFINE rest == At(J \ {k})
    <3>1. IsFiniteSet(rest)
      BY <1>0
    <3> HIDE DEF rest, one
    <3> QED
      BY <2>8, <2>9, <3>1, SumUnion DEF rest
  <2>11. t[k] = SumFunctionOnSet(f, one)
    BY <2>3, <2>6 DEF Fiber
  <2> QED
    BY <2>3, <2>4, <2>5, <2>7, <2>10, <2>11
<1>2. At(K) = S
  OBVIOUS
<1> QED
  BY <1>1, <1>2

\* The members of the fibers of a key are counted once.
LEMMA CountFibers ==
  ASSUME NEW S, IsFiniteSet(S), NEW key, NEW K, IsFiniteSet(K), NEW t,
         \A x \in S : key[x] \in K,
         \A k \in K : t[k] = Cardinality(Fiber(S, key, k))
  PROVE  SumFunctionOnSet(t, K) = Cardinality(S)
<1> DEFINE one == [x \in S |-> 1]
<1>1. \A x \in S : one[x] \in Int /\ one[x] = 1
  OBVIOUS
<1>2. SumFunctionOnSet(one, S) = Cardinality(S)
  BY <1>1, SumOnes
<1>3. ASSUME NEW k \in K
      PROVE  t[k] = SumFunctionOnSet(one, Fiber(S, key, k))
  <2> DEFINE those == Fiber(S, key, k)
  <2>1. IsFiniteSet(those) /\ \A x \in those : one[x] = 1
    BY FS_Subset DEF Fiber
  <2>2. SumFunctionOnSet(one, those) = Cardinality(those)
    <3> HIDE DEF those, one
    <3> QED
      BY <2>1, SumOnes
  <2> QED
    BY <2>2
<1>4. SumFunctionOnSet(t, K) = SumFunctionOnSet(one, S)
  <2> HIDE DEF one
  <2> QED
    BY <1>1, <1>3, SumFibers
<1> QED
  BY <1>2, <1>4

-----------------------------------------------------------------------------
\* The report.

Sources == visits \in Visits /\ bills \in Bills /\ rates \in Rates

Amounts == [v \in visits |-> Amount(v)]
Shares == [v \in visits |-> Commission(v)]
Costs == [b \in bills |-> b.amount]

\* A whole percentage of a number is a number.
LEMMA ShareIsNat == \A n, r \in Nat : (n * r) \div 100 \in Nat
<1> SUFFICES ASSUME NEW n \in Nat, NEW r \in Nat PROVE (n * r) \div 100 \in Nat
  OBVIOUS
<1>1. n * r \in Nat
  OBVIOUS
<1>2. \A m \in Nat : m \div 100 \in Nat
  OBVIOUS
<1> QED
  BY <1>1, <1>2

\* What the columns hold.
LEMMA TableFacts ==
  ASSUME Sources
  PROVE  /\ IsFiniteSet(visits) /\ IsFiniteSet(bills)
         /\ \A v \in visits : v.starts \in Int /\ Amounts[v] \in Nat /\ Shares[v] \in Nat
         /\ \A b \in bills : b.day \in Int /\ Costs[b] \in Nat
<1>1. IsFiniteSet(visits) /\ IsFiniteSet(bills)
  BY MoneyAssumption DEF Sources
<1>2. ASSUME NEW v \in visits
      PROVE  v.starts \in Int /\ Amount(v) \in Nat
  BY MoneyAssumption DEF Sources, Amount
<1>3. \A b : Rate(b) \in Nat
  BY MoneyAssumption DEF Sources, Rate
<1>4. \A v \in visits : Commission(v) \in Nat
  BY <1>2, <1>3, ShareIsNat DEF Commission
<1>5. \A b \in bills : b.day \in Int /\ b.amount \in Nat
  BY MoneyAssumption DEF Sources
<1> QED
  BY <1>1, <1>2, <1>4, <1>5 DEF Amounts, Shares, Costs

\* The sums over a part of a table are sums of its columns.
LEMMA ColumnSums ==
  ASSUME Sources
  PROVE  /\ \A S \in SUBSET visits :
              /\ IsFiniteSet(S)
              /\ Revenue(S) = SumFunctionOnSet(Amounts, S) /\ Revenue(S) \in Nat
              /\ Commissions(S) = SumFunctionOnSet(Shares, S) /\ Commissions(S) \in Nat
         /\ \A S \in SUBSET bills :
              IsFiniteSet(S) /\ Spent(S) = SumFunctionOnSet(Costs, S) /\ Spent(S) \in Nat
<1>1. ASSUME NEW S \in SUBSET visits
      PROVE  /\ IsFiniteSet(S)
             /\ Revenue(S) = SumFunctionOnSet(Amounts, S) /\ Revenue(S) \in Nat
             /\ Commissions(S) = SumFunctionOnSet(Shares, S) /\ Commissions(S) \in Nat
  <2> DEFINE f == [v \in S |-> Amount(v)]  g == [v \in S |-> Commission(v)]
  <2>1. IsFiniteSet(S)
    BY TableFacts, FS_Subset
  <2>2. \A v \in S : f[v] = Amounts[v] /\ g[v] = Shares[v] /\ Amounts[v] \in Nat /\ Shares[v] \in Nat
    BY TableFacts DEF Amounts, Shares
  <2>3. Revenue(S) = SumFunctionOnSet(f, S) /\ Commissions(S) = SumFunctionOnSet(g, S)
    BY DEF Revenue, Commissions, SumFunction
  <2> HIDE DEF f, g
  <2>4. SumFunctionOnSet(f, S) = SumFunctionOnSet(Amounts, S)
    BY <2>1, <2>2, SumSame
  <2>5. SumFunctionOnSet(g, S) = SumFunctionOnSet(Shares, S)
    BY <2>1, <2>2, SumSame
  <2>6. SumFunctionOnSet(Amounts, S) \in Nat
    BY <2>1, <2>2, SumNat
  <2>7. SumFunctionOnSet(Shares, S) \in Nat
    BY <2>1, <2>2, SumNat
  <2> QED
    BY <2>1, <2>3, <2>4, <2>5, <2>6, <2>7
<1>2. ASSUME NEW S \in SUBSET bills
      PROVE  IsFiniteSet(S) /\ Spent(S) = SumFunctionOnSet(Costs, S) /\ Spent(S) \in Nat
  <2> DEFINE f == [b \in S |-> b.amount]
  <2>1. IsFiniteSet(S)
    BY TableFacts, FS_Subset
  <2>2. \A b \in S : f[b] = Costs[b] /\ Costs[b] \in Nat
    BY TableFacts DEF Costs
  <2>3. Spent(S) = SumFunctionOnSet(f, S)
    BY DEF Spent, SumFunction
  <2> HIDE DEF f
  <2>4. SumFunctionOnSet(f, S) = SumFunctionOnSet(Costs, S)
    BY <2>1, <2>2, SumSame
  <2>5. SumFunctionOnSet(Costs, S) \in Nat
    BY <2>1, <2>2, SumNat
  <2> QED
    BY <2>1, <2>3, <2>4, <2>5
<1> QED
  BY <1>1, <1>2

\* The values of a key are finitely many.
LEMMA KeysFinite ==
  ASSUME NEW S, IsFiniteSet(S), NEW key
  PROVE  IsFiniteSet({key[x] : x \in S})
<1> DEFINE K == {key[x] : x \in S}
<1>1. [x \in S |-> key[x]] \in Surjection(S, K)
  BY DEF Surjection
<1> QED
  BY <1>1, FS_Surjection

\* The revenue, the commissions and the number of visits of each value of a key add up.
LEMMA VisitsByKey ==
  ASSUME Sources, NEW S \in SUBSET visits, NEW key, NEW K, IsFiniteSet(K), NEW t,
         \A v \in S : key[v] \in K
  PROVE  /\ (\A k \in K : t[k] = Revenue(Fiber(S, key, k))) =>
               SumFunctionOnSet(t, K) = Revenue(S)
         /\ (\A k \in K : t[k] = Commissions(Fiber(S, key, k))) =>
               SumFunctionOnSet(t, K) = Commissions(S)
         /\ (\A k \in K : t[k] = Cardinality(Fiber(S, key, k))) =>
               SumFunctionOnSet(t, K) = Cardinality(S)
<1>1. IsFiniteSet(S) /\ \A v \in S : Amounts[v] \in Int /\ Shares[v] \in Int
  BY TableFacts, FS_Subset
<1>2. \A k : Fiber(S, key, k) \in SUBSET visits
  BY DEF Fiber
<1>3. /\ Revenue(S) = SumFunctionOnSet(Amounts, S) /\ Commissions(S) = SumFunctionOnSet(Shares, S)
      /\ \A k \in K :
           /\ Revenue(Fiber(S, key, k)) = SumFunctionOnSet(Amounts, Fiber(S, key, k))
           /\ Commissions(Fiber(S, key, k)) = SumFunctionOnSet(Shares, Fiber(S, key, k))
  BY <1>2, ColumnSums
<1>4. ASSUME \A k \in K : t[k] = Revenue(Fiber(S, key, k))
      PROVE  SumFunctionOnSet(t, K) = Revenue(S)
  BY <1>1, <1>3, <1>4, SumFibers
<1>5. ASSUME \A k \in K : t[k] = Commissions(Fiber(S, key, k))
      PROVE  SumFunctionOnSet(t, K) = Commissions(S)
  BY <1>1, <1>3, <1>5, SumFibers
<1>6. ASSUME \A k \in K : t[k] = Cardinality(Fiber(S, key, k))
      PROVE  SumFunctionOnSet(t, K) = Cardinality(S)
  BY <1>1, <1>6, CountFibers
<1> QED
  BY <1>4, <1>5, <1>6

\* A breakdown of the report adds up.
LEMMA BreakdownAddsUp ==
  ASSUME Sources, NEW S \in SUBSET visits, NEW key
  PROVE  LET rows == Breakdown(key, S)
         IN /\ SumFunction([k \in DOMAIN rows |-> rows[k].total]) = Revenue(S)
            /\ SumFunction([k \in DOMAIN rows |-> rows[k].appointments]) = Cardinality(S)
<1> DEFINE K == {key[v] : v \in S}
           rows == Breakdown(key, S)
           t == [k \in DOMAIN rows |-> rows[k].total]
           n == [k \in DOMAIN rows |-> rows[k].appointments]
<1>1. IsFiniteSet(K) /\ \A v \in S : key[v] \in K
  BY ColumnSums, KeysFinite
<1>2. DOMAIN rows = K /\ \A k \in K :
         /\ t[k] = Revenue(Fiber(S, key, k))
         /\ n[k] = Cardinality(Fiber(S, key, k))
  BY DEF Breakdown, Fiber
<1>3. SumFunction(t) = SumFunctionOnSet(t, K) /\ SumFunction(n) = SumFunctionOnSet(n, K)
  BY <1>2 DEF SumFunction
<1> HIDE DEF t, n, K
<1>4. SumFunctionOnSet(t, K) = Revenue(S) /\ SumFunctionOnSet(n, K) = Cardinality(S)
  BY <1>1, <1>2, VisitsByKey
<1> QED
  BY <1>3, <1>4 DEF t, n

\* A local day is in a range exactly when the instant lies between the midnights of the range.
LEMMA DaysOfRange ==
  ASSUME NEW t \in Int, NEW from \in Int, NEW to \in Int
  PROVE  /\ LocalDay(t) \in Int
         /\ Midnight(from) <= t /\ t < Midnight(to + 1) <=> LocalDay(t) \in from..to
<1> DEFINE L == DayLength  u == t + ZoneOffset  q == u \div L
<1>1. L \in Int /\ L > 0 /\ u \in Int
  BY ReportAssumption
<1>2. q \in Int /\ q * L <= u /\ u < (q + 1) * L
  <2> HIDE DEF L, u
  <2>1. q \in Int /\ L * q <= u /\ u < L * q + L
    BY <1>1
  <2>2. L * q = q * L /\ (q + 1) * L = q * L + L
    BY <1>1, <2>1
  <2> QED
    BY <1>1, <2>1, <2>2
<1>3. ASSUME NEW a \in Int, NEW b \in Int
      PROVE  (a <= b => a * L <= b * L) /\ a * L \in Int
  <2> HIDE DEF L
  <2>1. a <= b => (b - a) * L >= 0
    BY <1>1
  <2>2. (b - a) * L = b * L - a * L
    BY <1>1
  <2> QED
    BY <1>1, <2>1, <2>2
<1>4. from * L <= u <=> from <= q
  <2>1. from <= q => from * L <= q * L
    BY <1>2, <1>3
  <2>2. q + 1 <= from => (q + 1) * L <= from * L
    BY <1>2, <1>3
  <2>3. from * L \in Int /\ q * L \in Int /\ (q + 1) * L \in Int
    BY <1>2, <1>3
  <2> HIDE DEF q, L, u
  <2> QED
    BY <1>1, <1>2, <2>1, <2>2, <2>3
<1>5. u < (to + 1) * L <=> q <= to
  <2>1. q <= to => (q + 1) * L <= (to + 1) * L
    BY <1>2, <1>3
  <2>2. to + 1 <= q => (to + 1) * L <= q * L
    BY <1>2, <1>3
  <2>3. (to + 1) * L \in Int /\ q * L \in Int /\ (q + 1) * L \in Int
    BY <1>2, <1>3
  <2> HIDE DEF q, L, u
  <2> QED
    BY <1>1, <1>2, <2>1, <2>2, <2>3
<1>6. Midnight(from) <= t <=> from * L <= u
  <2>1. from * L \in Int
    BY <1>3
  <2> HIDE DEF L
  <2> QED
    BY <2>1, ReportAssumption DEF Midnight, L
<1>7. t < Midnight(to + 1) <=> u < (to + 1) * L
  <2>1. (to + 1) * L \in Int
    BY <1>3
  <2> HIDE DEF L
  <2> QED
    BY <2>1, ReportAssumption DEF Midnight, L
<1>8. LocalDay(t) = q
  BY DEF LocalDay
<1> QED
  BY <1>2, <1>4, <1>5, <1>6, <1>7, <1>8

\* The completed visits and the expenses of a range.
DoneIn(from, to) == {v \in VisitsIn(from, to) : v.status = "completed"}

\* The daily rows are those of the range, and add up.
LEMMA DaysAddUp ==
  ASSUME Sources, NEW from \in Int, NEW to \in Int
  PROVE  LET done == DoneIn(from, to)
             due == BillsIn(from, to)
             rows == Daily(from, to, done, due)
         IN /\ DOMAIN rows = from..to
            /\ SumFunction([d \in DOMAIN rows |-> rows[d].result]) =
                 Revenue(done) - Commissions(done) - Spent(due)
            /\ SumFunction([d \in DOMAIN rows |-> rows[d].appointments]) = Cardinality(done)
<1> DEFINE done == DoneIn(from, to)
           due == BillsIn(from, to)
           rows == Daily(from, to, done, due)
           K == from..to
           result == [d \in DOMAIN rows |-> rows[d].result]
           number == [d \in DOMAIN rows |-> rows[d].appointments]
           day == [v \in done |-> LocalDay(v.starts)]
           month == [b \in due |-> b.day]
           revenue == [d \in K |-> Revenue(Fiber(done, day, d))]
           shares == [d \in K |-> Commissions(Fiber(done, day, d))]
           costs == [d \in K |-> Spent(Fiber(due, month, d))]
<1>1. done \in SUBSET visits /\ due \in SUBSET bills /\ IsFiniteSet(K)
  BY FS_Interval DEF DoneIn, VisitsIn, BillsIn
<1>2. \A v \in done : day[v] = LocalDay(v.starts) /\ day[v] \in K
  BY <1>1, TableFacts, DaysOfRange DEF DoneIn, VisitsIn
<1>3. \A b \in due : month[b] = b.day /\ month[b] \in K
  BY DEF BillsIn
<1>4. \A d : /\ {v \in done : LocalDay(v.starts) = d} = Fiber(done, day, d)
             /\ {b \in due : b.day = d} = Fiber(due, month, d)
  BY <1>2, <1>3 DEF Fiber
<1>5. DOMAIN rows = K
  <2>1. K \cup {LocalDay(v.starts) : v \in done} \cup {b.day : b \in due} = K
    BY <1>2, <1>3
  <2> HIDE DEF K, done, due
  <2> QED
    BY <2>1 DEF Daily, K
<1>6. \A d \in K : /\ result[d] = revenue[d] - shares[d] - costs[d]
                   /\ number[d] = Cardinality(Fiber(done, day, d))
  <2> SUFFICES ASSUME NEW d \in K
               PROVE  /\ result[d] = revenue[d] - shares[d] - costs[d]
                      /\ number[d] = Cardinality(Fiber(done, day, d))
    OBVIOUS
  <2> DEFINE of == {v \in done : LocalDay(v.starts) = d}  bill == {b \in due : b.day = d}
  <2>1. rows[d] = [appointments |-> Cardinality(of), revenue |-> Revenue(of), expense |-> Spent(bill),
                   result |-> Revenue(of) - Commissions(of) - Spent(bill)]
    <3>1. d \in DOMAIN rows
      BY <1>5
    <3> HIDE DEF K, done, due
    <3> QED
      BY <3>1 DEF Daily
  <2>2. of = Fiber(done, day, d) /\ bill = Fiber(due, month, d)
    BY <1>4
  <2>3. revenue[d] = Revenue(of) /\ shares[d] = Commissions(of) /\ costs[d] = Spent(bill)
    <3> HIDE DEF K, of, bill
    <3> QED
      BY <2>2, Zenon
  <2>4. result[d] = rows[d].result /\ number[d] = rows[d].appointments
    <3>1. d \in DOMAIN rows
      BY <1>5
    <3> HIDE DEF rows
    <3> QED
      BY <3>1
  <2>5. rows[d].result = Revenue(of) - Commissions(of) - Spent(bill) /\ rows[d].appointments = Cardinality(of)
    <3> HIDE DEF rows, of, bill
    <3> QED
      BY <2>1
  <2>6. result[d] = revenue[d] - shares[d] - costs[d]
    <3> HIDE DEF rows, of, bill, result, revenue, shares, costs
    <3> QED
      BY <2>3, <2>4, <2>5
  <2> QED
    BY <2>2, <2>4, <2>5, <2>6, Zenon
<1>7. \A d \in K : /\ revenue[d] = Revenue(Fiber(done, day, d))
                   /\ shares[d] = Commissions(Fiber(done, day, d))
                   /\ costs[d] = Spent(Fiber(due, month, d))
  BY Zenon
<1> HIDE DEF revenue, shares, costs
<1>8. \A d \in K : revenue[d] \in Int /\ shares[d] \in Int /\ costs[d] \in Int
  <2> SUFFICES ASSUME NEW d \in K
               PROVE  revenue[d] \in Int /\ shares[d] \in Int /\ costs[d] \in Int
    OBVIOUS
  <2> DEFINE of == Fiber(done, day, d)  bill == Fiber(due, month, d)
  <2>1. of \in SUBSET visits /\ bill \in SUBSET bills
    BY <1>1 DEF Fiber
  <2>2. revenue[d] = Revenue(of) /\ shares[d] = Commissions(of) /\ costs[d] = Spent(bill)
    BY <1>7
  <2> HIDE DEF of, bill, K
  <2> QED
    BY <2>1, <2>2, ColumnSums
<1>9. SumFunction(result) = SumFunctionOnSet(result, K) /\ SumFunction(number) = SumFunctionOnSet(number, K)
  BY <1>5 DEF SumFunction
<1> HIDE DEF rows, done, due, K, day, month, result, number
<1>10. /\ SumFunctionOnSet(revenue, K) = Revenue(done)
       /\ SumFunctionOnSet(shares, K) = Commissions(done)
       /\ SumFunctionOnSet(number, K) = Cardinality(done)
  <2>1. done \in SUBSET visits /\ IsFiniteSet(K) /\ \A v \in done : day[v] \in K
    BY <1>1, <1>2
  <2>2. \A k \in K : revenue[k] = Revenue(Fiber(done, day, k))
    BY <1>7
  <2>3. \A k \in K : shares[k] = Commissions(Fiber(done, day, k))
    BY <1>7
  <2>4. \A k \in K : number[k] = Cardinality(Fiber(done, day, k))
    BY <1>6
  <2>5. SumFunctionOnSet(revenue, K) = Revenue(done)
    BY <2>1, <2>2, VisitsByKey
  <2>6. SumFunctionOnSet(shares, K) = Commissions(done)
    BY <2>1, <2>3, VisitsByKey
  <2>7. SumFunctionOnSet(number, K) = Cardinality(done)
    BY <2>1, <2>4, VisitsByKey
  <2> QED
    BY <2>5, <2>6, <2>7
<1>11. SumFunctionOnSet(costs, K) = Spent(due)
  <2> DEFINE f == Costs
  <2>1. \A d \in K : costs[d] = SumFunctionOnSet(f, Fiber(due, month, d))
    <3>1. \A d : Fiber(due, month, d) \in SUBSET bills
      BY <1>1 DEF Fiber
    <3> QED
      BY <1>7, <3>1, ColumnSums
  <2>2. IsFiniteSet(due) /\ IsFiniteSet(K) /\ Spent(due) = SumFunctionOnSet(f, due)
    BY <1>1, ColumnSums
  <2>3. \A b \in due : f[b] \in Int /\ month[b] \in K
    BY <1>1, <1>3, TableFacts
  <2> HIDE DEF f
  <2>4. SumFunctionOnSet(costs, K) = SumFunctionOnSet(f, due)
    BY <2>1, <2>2, <2>3, SumFibers
  <2> QED
    BY <2>2, <2>4
<1>12. SumFunctionOnSet(result, K) =
         SumFunctionOnSet(revenue, K) - SumFunctionOnSet(shares, K) - SumFunctionOnSet(costs, K)
  <2>1. \A d \in K : /\ revenue[d] \in Int /\ shares[d] \in Int /\ costs[d] \in Int
                     /\ result[d] = revenue[d] - shares[d] - costs[d]
    BY <1>6, <1>8
  <2> QED
    BY <1>1, <2>1, SumDifference
<1> QED
  BY <1>5, <1>9, <1>10, <1>11, <1>12 DEF rows, done, due, K, result, number

\* The professionals' commissions add up to the commissions of the visits.
LEMMA CommissionsAddUp ==
  ASSUME Sources, NEW done \in SUBSET visits
  PROVE  SumFunction([b \in {v.barber : v \in done} |-> CommissionOf(b, done)]) = Commissions(done)
<1> DEFINE K == {v.barber : v \in done}
           key == BarberOf(done)
           t == [b \in K |-> CommissionOf(b, done)]
<1>1. K = {key[v] : v \in done} /\ \A v \in done : key[v] \in K
  BY DEF BarberOf
<1>2. IsFiniteSet(K)
  <2> HIDE DEF K
  <2> QED
    BY <1>1, ColumnSums, KeysFinite
<1>3. \A b \in K : t[b] = Commissions(Fiber(done, key, b))
  <2> SUFFICES ASSUME NEW b \in K PROVE t[b] = Commissions(Fiber(done, key, b))
    OBVIOUS
  <2>1. Fiber(done, key, b) = {v \in done : v.barber = b}
    BY DEF Fiber, BarberOf
  <2> QED
    BY <2>1 DEF CommissionOf
<1>4. SumFunction(t) = SumFunctionOnSet(t, K)
  BY DEF SumFunction
<1> HIDE DEF t, K, key
<1>5. SumFunctionOnSet(t, K) = Commissions(done)
  BY <1>1, <1>2, <1>3, VisitsByKey
<1> QED
  BY <1>4, <1>5 DEF t, K

\* The average of whole cents does not exceed the revenue.
LEMMA AverageFits ==
  ASSUME NEW total \in Nat, NEW n \in Nat \ {0}
  PROVE  (total \div n) * n <= total
<1>1. total \div n \in Nat /\ n * (total \div n) <= total
  BY SMT
<1> DEFINE q == total \div n
<1>2. q * n = n * q
  <2> HIDE DEF q
  <2> QED
    BY <1>1 DEF q
<1> QED
  BY <1>1, <1>2

\* Every report of the tables reconciles.
LEMMA Reconciled ==
  ASSUME Sources, NEW from \in Int, NEW to \in Int,
         report = Financial(from, to), portfolio = Portfolio
  PROVE  ReportReconciles
<1> DEFINE listed == VisitsIn(from, to)
           done == DoneIn(from, to)
           due == BillsIn(from, to)
           commission == SumFunction([b \in {v.barber : v \in done} |-> CommissionOf(b, done)])
<1>1. done = {v \in listed : v.status = "completed"}
  BY DEF DoneIn
<1>2. done \in SUBSET visits /\ due \in SUBSET bills /\ IsFiniteSet(done)
  <2>1. done \in SUBSET visits /\ due \in SUBSET bills
    BY DEF DoneIn, VisitsIn, BillsIn
  <2> QED
    BY <2>1, ColumnSums
<1>3. /\ report.from = from /\ report.to = to
      /\ report.revenue = Revenue(done)
      /\ report.result = Revenue(done) - commission - Spent(due)
      /\ report.ticket = IF done = {} THEN 0 ELSE Revenue(done) \div Cardinality(done)
      /\ report.by_barber = Breakdown(BarberOf(done), done)
      /\ report.by_service = Breakdown(ServiceOf(done), done)
      /\ report.by_payment = Breakdown(PaymentOf(done), done)
      /\ report.daily = Daily(from, to, done, due)
      /\ report.count["completed"] = Cardinality(done)
  BY <1>1 DEF Financial
<1> HIDE DEF listed, done, due, commission
<1>4. commission = Commissions(done)
  BY <1>2, CommissionsAddUp DEF commission
<1>5. ASSUME NEW rows \in {report.by_barber, report.by_service, report.by_payment}
      PROVE  /\ SumFunction([k \in DOMAIN rows |-> rows[k].total]) = report.revenue
             /\ SumFunction([k \in DOMAIN rows |-> rows[k].appointments]) = report.count["completed"]
  <2>1. ASSUME NEW key, rows = Breakdown(key, done)
        PROVE  /\ SumFunction([k \in DOMAIN rows |-> rows[k].total]) = Revenue(done)
               /\ SumFunction([k \in DOMAIN rows |-> rows[k].appointments]) = Cardinality(done)
    BY <1>2, <2>1, BreakdownAddsUp
  <2>2. \E key : rows = Breakdown(key, done)
    BY <1>3
  <2> QED
    BY <1>3, <2>1, <2>2
<1>6. /\ DOMAIN report.daily = report.from..report.to
      /\ SumFunction([d \in DOMAIN report.daily |-> report.daily[d].result]) = report.result
      /\ SumFunction([d \in DOMAIN report.daily |-> report.daily[d].appointments]) =
           report.count["completed"]
  <2> DEFINE rows == Daily(from, to, done, due)
  <2>1. /\ DOMAIN rows = from..to
        /\ SumFunction([d \in DOMAIN rows |-> rows[d].result]) =
             Revenue(done) - Commissions(done) - Spent(due)
        /\ SumFunction([d \in DOMAIN rows |-> rows[d].appointments]) = Cardinality(done)
    BY DaysAddUp DEF done, due
  <2>2. report.daily = rows
    BY <1>3
  <2> HIDE DEF rows
  <2> QED
    BY <1>3, <1>4, <2>1, <2>2
<1>7. report.ticket * report.count["completed"] <= report.revenue
  <2>1. Revenue(done) \in Nat /\ Cardinality(done) \in Nat
    BY <1>2, ColumnSums, FS_CardinalityType
  <2>2. CASE done = {}
    <3>1. report.ticket = 0 /\ report.count["completed"] = 0
      BY <1>3, <2>2, FS_EmptySet
    <3> QED
      BY <1>3, <2>1, <3>1
  <2>3. CASE done # {}
    <3>1. Cardinality(done) # 0
      BY <1>2, <2>3, FS_EmptySet
    <3>2. (Revenue(done) \div Cardinality(done)) * Cardinality(done) <= Revenue(done)
      BY <2>1, <3>1, AverageFits
    <3> QED
      BY <1>3, <2>3, <3>2
  <2> QED
    BY <2>2, <2>3
<1> DEFINE of(c) == {v \in {v \in visits : v.customer = c} : v.status = "completed"}
           K == {v.customer : v \in visits}
<1>8. DOMAIN portfolio = K /\ \A c \in K : portfolio[c].spent = Revenue(of(c))
  BY DEF Portfolio
<1>9. ASSUME NEW v \in visits
      PROVE  portfolio[v.customer].spent >= IF v.status = "completed" THEN Amount(v) ELSE 0
  <2> DEFINE those == of(v.customer)
  <2>1. those \in SUBSET visits /\ IsFiniteSet(those) /\ portfolio[v.customer].spent = Revenue(those)
    <3>1. those \in SUBSET visits /\ v.customer \in K
      OBVIOUS
    <3>2. IsFiniteSet(those)
      BY <3>1, ColumnSums
    <3> QED
      BY <3>1, <3>2, <1>8
  <2>2. v.status = "completed" => v \in those
    OBVIOUS
  <2> HIDE DEF those
  <2>3. Revenue(those) \in Nat /\ Revenue(those) = SumFunctionOnSet(Amounts, those)
    BY <2>1, ColumnSums
  <2>4. \A w \in those : Amounts[w] \in Nat
    BY <2>1, TableFacts
  <2>5. \A w \in those : Amounts[w] <= SumFunctionOnSet(Amounts, those)
    BY <2>1, <2>4, SumNat
  <2>6. Amounts[v] = Amount(v) /\ Amounts[v] \in Nat
    BY TableFacts DEF Amounts
  <2> QED
    BY <2>1, <2>2, <2>3, <2>5, <2>6
<1>10. ASSUME \A v \in visits : LocalDay(v.starts) \in from..to
       PROVE  SumFunction([c \in DOMAIN portfolio |-> portfolio[c].spent]) = Revenue(done)
  <2> DEFINE key == [v \in done |-> v.customer]
             t == [c \in DOMAIN portfolio |-> portfolio[c].spent]
  <2>1. done = {v \in visits : v.status = "completed"}
    BY <1>10, TableFacts, DaysOfRange DEF done, DoneIn, VisitsIn
  <2>2. IsFiniteSet(K)
    <3> DEFINE customer == [v \in visits |-> v.customer]
    <3>1. K = {customer[v] : v \in visits}
      OBVIOUS
    <3> HIDE DEF K, customer
    <3> QED
      BY <3>1, TableFacts, KeysFinite
  <2>3. \A v \in done : key[v] \in K
    BY <1>2
  <2>4. \A c \in K : t[c] = Revenue(Fiber(done, key, c))
    <3> SUFFICES ASSUME NEW c \in K PROVE t[c] = Revenue(Fiber(done, key, c))
      OBVIOUS
    <3>1. of(c) = Fiber(done, key, c)
      BY <2>1 DEF Fiber
    <3>2. t[c] = portfolio[c].spent
      BY <1>8
    <3> QED
      BY <3>1, <3>2, <1>8, Zenon
  <2>5. SumFunction(t) = SumFunctionOnSet(t, K)
    BY <1>8 DEF SumFunction
  <2> HIDE DEF t, K, key
  <2>6. SumFunctionOnSet(t, K) = Revenue(done)
    BY <1>2, <2>2, <2>3, <2>4, VisitsByKey
  <2> QED
    BY <2>5, <2>6 DEF t
<1> HIDE DEF of, K
<1> QED
  BY <1>3, <1>5, <1>6, <1>7, <1>9, <1>10 DEF ReportReconciles

\* A report, once there is one, is that of some range, read with the portfolio.
ReportInv ==
  /\ Sources
  /\ report # Nothing =>
       \E from, to \in Int : report = Financial(from, to) /\ portfolio = Portfolio

LEMMA ReportBegins == ReportInit => ReportInv
BY DEF ReportInit, ReportInv, Sources

LEMMA ReportStepKeeps == ReportInv /\ [ReportNext]_reportVars => ReportInv'
<1> SUFFICES ASSUME ReportInv, [ReportNext]_reportVars
             PROVE  ReportInv'
  OBVIOUS
<1>1. Dates \subseteq Int
  <2>1. \A v \in visits : LocalDay(v.starts) \in Int
    BY TableFacts, DaysOfRange DEF ReportInv
  <2>2. \A b \in bills : b.day \in Int
    BY TableFacts DEF ReportInv
  <2> QED
    BY <2>1, <2>2 DEF Dates
<1>2. ASSUME NEW from \in Dates, NEW to \in Dates, AskReport(from, to)
      PROVE  ReportInv'
  <2>1. from \in Int /\ to \in Int
    BY <1>1
  <2>2. report' = Financial(from, to)' /\ portfolio' = Portfolio' /\ Sources'
    BY <1>2 DEF AskReport, ReportInv, Sources, Financial, Portfolio, VisitsIn, BillsIn, CommissionOf,
       Commissions, Commission, Rate, Daily
  <2> QED
    BY <2>1, <2>2 DEF ReportInv
<1>3. CASE UNCHANGED reportVars
  <2>1. ASSUME NEW from \in Int, NEW to \in Int
        PROVE  Financial(from, to)' = Financial(from, to) /\ Portfolio' = Portfolio
    BY <1>3 DEF reportVars, Financial, Portfolio, VisitsIn, BillsIn, CommissionOf, Commissions,
       Commission, Rate, Daily
  <2>2. /\ Sources' /\ report' = report /\ portfolio' = portfolio
    BY <1>3 DEF reportVars, ReportInv, Sources
  <2> QED
    BY <2>1, <2>2 DEF ReportInv
<1> QED
  BY <1>2, <1>3 DEF ReportNext

LEMMA ReportHolds == ReportInv => ReportReconciles
<1>1. ReportInv /\ report = Nothing => ReportReconciles
  BY DEF ReportReconciles
<1> QED
  BY <1>1, Reconciled DEF ReportInv

\* Whatever the visits, the prices, the percentages, the expenses and the range, every breakdown
\* of the report adds up to its totals to the cent, its days are those of the range, and the
\* portfolio spends what the report of all days earns.
THEOREM ReportsReconcile == ReportSpec => []ReportReconciles
BY ReportBegins, ReportStepKeeps, ReportHolds, PTL DEF ReportSpec
=============================================================================
