--------------------------- MODULE AppointmentTable ---------------------------
(***************************************************************************)
(* The appointments table of the booking system: the columns the           *)
(* scheduling rules read, the statuses of the lifecycle and the overlap    *)
(* test every conflict query uses.  A row of an appointment that was never *)
(* inserted is NoRow.  Time is a sequence of instants; a calendar date of  *)
(* the business is a block of DayLength instants.                          *)
(***************************************************************************)
EXTENDS Naturals

CONSTANTS
  Appointment,  \* the identifiers a request may draw for a new row
  Barber,       \* the professionals of one business
  None,         \* the absence of a barber, a session or an appointment
  Horizon,      \* bound: the last instant
  DayLength     \* how many instants a local calendar date has

ASSUME TimeAssumption == Horizon \in Nat /\ DayLength \in Nat \ {0}
ASSUME NoneAssumption == None \notin Barber /\ None \notin Appointment

Instant == 0..Horizon
LocalDate(t) == t \div DayLength
Date == {LocalDate(t) : t \in Instant}

Active == {"scheduled", "confirmed"}
Final == {"cancelled", "completed", "no_show"}
Status == Active \cup Final \cup {"none"}

Row == [status : Status, barber : Barber \cup {None},
        start : Instant, stop : Instant, paid : BOOLEAN]
NoRow == [status |-> "none", barber |-> None, start |-> 0, stop |-> 0, paid |-> FALSE]
NewRow(b, start, stop) ==
  [status |-> "scheduled", barber |-> b, start |-> start, stop |-> stop, paid |-> FALSE]

\* Faulty variant: a completed, paid appointment can still be cancelled.
ExpectedRefund ==
  [confirm |-> {"scheduled"}, cancel |-> Active \cup {"completed"}, complete |-> Active,
   no_show |-> Active, reschedule |-> Active, notes |-> Active \cup Final]

\* The statuses an operation accepts, and the one it leaves behind.
Expected ==
  [confirm |-> {"scheduled"}, cancel |-> Active, complete |-> Active, no_show |-> Active,
   reschedule |-> Active, notes |-> Active \cup Final]
Target ==
  [confirm |-> "confirmed", cancel |-> "cancelled", complete |-> "completed",
   no_show |-> "no_show"]

\* A row occupies its barber's time while it is scheduled or confirmed.
Occupies(row, b, start, stop) ==
  /\ row.barber = b
  /\ row.status \in Active
  /\ row.start < stop
  /\ row.stop > start

\* The rows of a table that keep barber b from taking [start, stop).
HasActiveConflict(table, b, start, stop, excluded) ==
  \E a \in Appointment \ {excluded} : Occupies(table[a], b, start, stop)

\* Two different rows of a table never occupy the same time of one barber.
NoOverlap(table) ==
  \A a \in Appointment : table[a].status \in Active =>
    ~HasActiveConflict(table, table[a].barber, table[a].start, table[a].stop, a)
=============================================================================
