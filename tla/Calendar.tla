------------------------------- MODULE Calendar -------------------------------
(***************************************************************************)
(* What the scheduling services promise of the appointments table, as if   *)
(* every request were one atomic step: a booking takes free time of one    *)
(* barber, a move takes other free time and keeps the status, and a status *)
(* change follows the lifecycle and records the payment together with the  *)
(* completion.                                                             *)
(***************************************************************************)
EXTENDS AppointmentTable

VARIABLE book

Init == book = [a \in Appointment |-> NoRow]

Book(a, b, start, stop) ==
  /\ book[a].status = "none"
  /\ start < stop
  /\ ~HasActiveConflict(book, b, start, stop, a)
  /\ book' = [book EXCEPT ![a] = NewRow(b, start, stop)]

Move(a, b, start, stop) ==
  /\ book[a].status \in Active
  /\ start < stop
  /\ ~HasActiveConflict(book, b, start, stop, a)
  /\ book' = [book EXCEPT ![a].barber = b, ![a].start = start, ![a].stop = stop]

Settle(a, op) ==
  /\ book[a].status \in Expected[op]
  /\ book' = [book EXCEPT ![a].status = Target[op], ![a].paid = (op = "complete")]

Next ==
  \E a \in Appointment :
    \/ \E b \in Barber, start, stop \in Instant : Book(a, b, start, stop) \/ Move(a, b, start, stop)
    \/ \E op \in DOMAIN Target : Settle(a, op)

Spec == Init /\ [][Next]_book
=============================================================================
