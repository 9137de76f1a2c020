------------------------------ MODULE Customers -------------------------------
(***************************************************************************)
(* The customers of a business and their loyalty rewards.  Owners register  *)
(* and edit customers, a public booking registers the phone it does not    *)
(* know and books in the same transaction, and a reward is redeemed under  *)
(* the customer's row lock with a target that was read before it.  The     *)
(* unique index of phones makes a second insertion wait for the first.     *)
(* Appointments are the Scheduling module's: here a customer has some or   *)
(* none, and a number of completed ones that only grows.                   *)
(***************************************************************************)
EXTENDS Backend

CONSTANTS
  Customer,   \* customer identifiers, numbers
  Telephone,
  Target,     \* completed visits that may earn a reward
  MaxVisits,  \* bound: completed visits of a customer
  MaxServed   \* bound: requests

CustomerRow == [phone : Telephone, rewards : Nat]
Program == [enabled : BOOLEAN, target : Target]

ASSUME CustomerAssumption ==
  /\ None \notin Customer \cup Telephone /\ Customer \cap Telephone = {}
  /\ None \notin CustomerRow
  /\ Customer \subseteq Nat
  /\ Target \subseteq Nat \ {0} /\ Target # {}
  /\ MaxVisits \in Nat /\ MaxServed \in Nat

VARIABLES
  customers,  \* the customers table; None for identifiers not in use
  program,    \* the loyalty columns of the business
  booked,     \* customers with an appointment
  completed,  \* the completed appointments of each customer
  granted,    \* history: the redemptions that were answered as accepted
  least,      \* history: the least target the business had
  walkins     \* history: customers registered by a public booking

loyaltyHistory == <<granted, least, walkins>>
customerVars == <<pc, job, lock, clock, asked, customers, program, booked, completed, loyaltyHistory>>

CustomersTypeOK ==
  /\ pc \in [Session -> {"idle", "check", "insert", "update", "find", "flush", "appoint",
                         "lock", "redeem", "program"}]
  /\ lock \in [Customer \cup Telephone -> Session \cup {None}]
  /\ customers \in [Customer -> CustomerRow \cup {None}]
  /\ program \in Program
  /\ booked \subseteq Customer /\ walkins \subseteq Customer
  /\ completed \in [Customer -> Nat] /\ granted \in [Customer -> Nat]
  /\ least \in Target

NoCustomers(offer) ==
  /\ customers = [c \in Customer |-> None]
  /\ program = offer
  /\ booked = {} /\ completed = [c \in Customer |-> 0]
  /\ granted = [c \in Customer |-> 0] /\ least = offer.target /\ walkins = {}

CustomersInit == BackendInit(Customer \cup Telephone) /\ \E offer \in Program : NoCustomers(offer)

Known == {c \in Customer : customers[c] # None}
WithPhone(t) == {c \in Known : customers[c].phone = t}

\* An identifier that no row and no uncommitted insertion has.
Fresh == {c \in Customer \ Known : \A s \in Serving : job[s].customer # c}

Serve(s, step, request) ==
  /\ asked < MaxServed
  /\ Begin(s, step, request)
  /\ UNCHANGED <<lock, clock, customers, program, booked, completed, loyaltyHistory>>

Task(c, t, seen, row) == [customer |-> c, phone |-> t, seen |-> seen, row |-> row]
NewRow(t) == [phone |-> t, rewards |-> 0]

BeginRegister(s, t) == Serve(s, "check", Task(None, t, None, NewRow(t)))

BeginEdit(s, c, t) ==
  c \in Known /\ Serve(s, "check", Task(c, t, customers[c], [customers[c] EXCEPT !.phone = t]))

BeginBooking(s, t) == Serve(s, "find", Task(None, t, None, NewRow(t)))

\* The loyalty columns are read before the customer is locked.
BeginRedeem(s, c) == c \in Known /\ Serve(s, "lock", Task(c, None, program, None))

BeginProgram(s, enabled, target) ==
  Serve(s, "program", Task(None, None, program, [enabled |-> enabled, target |-> target]))

Reject(s) ==
  /\ Release(s) /\ Answer(s)
  /\ UNCHANGED <<clock, asked, customers, program, booked, completed, loyaltyHistory>>

\* The phone may belong to the customer that is edited.
PhoneTaken(s) == WithPhone(job[s].phone) \ {job[s].customer} # {}

CheckPhone(s) ==
  /\ pc[s] = "check" /\ ~PhoneTaken(s)
  /\ pc' = [pc EXCEPT ![s] = IF job[s].customer = None THEN "insert" ELSE "update"]
  /\ UNCHANGED <<job, lock, clock, asked, customers, program, booked, completed, loyaltyHistory>>

\* The query before the write, or the unique index at the write.
RejectPhone(s) ==
  /\ \/ pc[s] = "check"
     \/ pc[s] \in {"insert", "update", "flush"} /\ Available(s, job[s].phone)
  /\ PhoneTaken(s)
  /\ Reject(s)

\* Another session that inserted the phone and has not committed is waited for.
InsertCustomer(s) ==
  /\ pc[s] = "insert" /\ Available(s, job[s].phone) /\ ~PhoneTaken(s)
  /\ \E c \in First(Fresh) : customers' = [customers EXCEPT ![c] = job[s].row]
  /\ Release(s) /\ Answer(s)
  /\ UNCHANGED <<clock, asked, program, booked, completed, loyaltyHistory>>

\* Faulty variant: an edit writes every column it read.
EditCustomerWhole(s) == LET c == job[s].customer IN
  /\ pc[s] = "update" /\ Available(s, c) /\ Available(s, job[s].phone) /\ ~PhoneTaken(s)
  /\ customers' = [customers EXCEPT ![c] = job[s].row]
  /\ Release(s) /\ Answer(s)
  /\ UNCHANGED <<clock, asked, program, booked, completed, loyaltyHistory>>

EditCustomer(s) == LET c == job[s].customer IN
  /\ pc[s] = "update" /\ Available(s, c) /\ Available(s, job[s].phone) /\ ~PhoneTaken(s)
  /\ customers' = [customers EXCEPT ![c] = Flushed(@, job[s].seen, job[s].row)]
  /\ Release(s) /\ Answer(s)
  /\ UNCHANGED <<clock, asked, program, booked, completed, loyaltyHistory>>

FindCustomer(s) == LET found == WithPhone(job[s].phone) IN
  /\ pc[s] = "find"
  /\ IF found = {} THEN pc' = [pc EXCEPT ![s] = "flush"] /\ UNCHANGED job
     ELSE /\ pc' = [pc EXCEPT ![s] = "appoint"]
          /\ \E c \in found : job' = [job EXCEPT ![s].customer = c]
  /\ UNCHANGED <<lock, clock, asked, customers, program, booked, completed, loyaltyHistory>>

\* Faulty variant: the new customer is committed before the appointment is tried.
FlushCustomerCommitted(s) ==
  /\ Goto(s, "flush", "appoint") /\ Available(s, job[s].phone) /\ ~PhoneTaken(s)
  /\ \E c \in First(Fresh) :
       /\ job' = [job EXCEPT ![s].customer = c]
       /\ customers' = [customers EXCEPT ![c] = job[s].row]
       /\ walkins' = walkins \cup {c}
  /\ UNCHANGED <<lock, clock, asked, program, booked, completed, granted, least>>

\* The insertion is flushed, not committed: others that insert the phone wait.
FlushCustomer(s) ==
  /\ Goto(s, "flush", "appoint") /\ Available(s, job[s].phone) /\ ~PhoneTaken(s)
  /\ Hold(s, job[s].phone)
  /\ \E c \in First(Fresh) : job' = [job EXCEPT ![s].customer = c]
  /\ UNCHANGED <<clock, asked, customers, program, booked, completed, loyaltyHistory>>

\* AppointmentService.create accepts and commits: the customer, if new, and the appointment,
\* whose foreign key waits for the lock of an existing customer.
Appoint(s) == LET c == job[s].customer IN
  /\ pc[s] = "appoint"
  /\ IF c \in Known THEN Available(s, c) /\ UNCHANGED <<customers, walkins>>
     ELSE /\ customers' = [customers EXCEPT ![c] = job[s].row]
          /\ walkins' = walkins \cup {c}
  /\ booked' = booked \cup {c}
  /\ Release(s) /\ Answer(s)
  /\ UNCHANGED <<clock, asked, program, completed, granted, least>>

\* An owner books for a known customer; an appointment is completed.
BookVisit(c) ==
  /\ c \in Known \ booked /\ lock[c] = None
  /\ booked' = booked \cup {c}
  /\ UNCHANGED <<pc, job, lock, clock, asked, customers, program, completed, loyaltyHistory>>

CompleteVisit(c) ==
  /\ c \in booked /\ completed[c] < MaxVisits
  /\ completed' = [completed EXCEPT ![c] = @ + 1]
  /\ UNCHANGED <<pc, job, lock, clock, asked, customers, program, booked, loyaltyHistory>>

LockCustomer(s) == LET c == job[s].customer IN
  /\ Goto(s, "lock", "redeem")
  /\ Available(s, c) /\ Hold(s, c)
  /\ job' = [job EXCEPT ![s].row = customers[c]]
  /\ UNCHANGED <<clock, asked, customers, program, booked, completed, loyaltyHistory>>

\* Faulty variant: a reward more than was earned.
RewardDueOneMore(s) ==
  /\ job[s].seen.enabled
  /\ completed[job[s].customer] \div job[s].seen.target >= job[s].row.rewards

\* The completed appointments are counted under the lock.
RewardDue(s) ==
  /\ job[s].seen.enabled
  /\ completed[job[s].customer] \div job[s].seen.target > job[s].row.rewards

Redeem(s) == LET c == job[s].customer IN
  /\ pc[s] = "redeem" /\ RewardDue(s)
  /\ customers' = [customers EXCEPT ![c].rewards = job[s].row.rewards + 1]
  /\ granted' = [granted EXCEPT ![c] = @ + 1]
  /\ Release(s) /\ Answer(s)
  /\ UNCHANGED <<clock, asked, program, booked, completed, least, walkins>>

RejectRedeem(s) == pc[s] = "redeem" /\ ~RewardDue(s) /\ Reject(s)

UpdateProgram(s) == LET stored == Flushed(program, job[s].seen, job[s].row) IN
  /\ pc[s] = "program"
  /\ program' = stored
  /\ least' = IF stored.target < least THEN stored.target ELSE least
  /\ Release(s) /\ Answer(s)
  /\ UNCHANGED <<clock, asked, customers, booked, completed, granted, walkins>>

\* The appointment is refused, the connection or the worker is lost: a rollback.
AbortCustomers(s) == pc[s] # "idle" /\ Reject(s)

CustomersNext ==
  \/ \E s \in Session, t \in Telephone :
       BeginRegister(s, t) \/ BeginBooking(s, t) \/ \E c \in Customer : BeginEdit(s, c, t)
  \/ \E s \in Session :
       \/ \E c \in Customer : BeginRedeem(s, c)
       \/ \E enabled \in BOOLEAN, target \in Target : BeginProgram(s, enabled, target)
       \/ CheckPhone(s) \/ RejectPhone(s) \/ InsertCustomer(s) \/ EditCustomer(s)
       \/ FindCustomer(s) \/ FlushCustomer(s) \/ Appoint(s)
       \/ LockCustomer(s) \/ Redeem(s) \/ RejectRedeem(s) \/ UpdateProgram(s) \/ AbortCustomers(s)
  \/ \E c \in Customer : BookVisit(c) \/ CompleteVisit(c)

CustomersSpec == CustomersInit /\ [][CustomersNext]_customerVars

\* Rewards never exceed what the completed visits earn at the most generous target the
\* business had, although the target is read before the lock and may change meanwhile.
RewardsCovered == \A c \in Customer : granted[c] * least <= completed[c]

\* The customer's counter is the number of accepted redemptions: neither a second
\* redemption nor an edit of the customer overwrites one.
RedemptionsCounted == \A c \in Known : customers[c].rewards = granted[c]

\* A customer whom a public booking registered has the appointment of that booking: a
\* refused, failed or overtaken booking leaves no customer behind.
NoOrphanCustomers == walkins \subseteq booked
=============================================================================
