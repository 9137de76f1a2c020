----------------------------- MODULE Availability -----------------------------
(***************************************************************************)
(* The slots a professional offers on one local date: the grid of the      *)
(* weekly schedule, less the break, the absences, the active appointments  *)
(* and everything that does not lie in the future.                         *)
(***************************************************************************)
EXTENDS AppointmentTable

\* A weekday's schedule; breaks holds at most one interval.
Schedule ==
  [starts : Instant, ends : Instant, length : Instant \ {0}, breaks : SUBSET (Instant \X Instant)]
ValidSchedule(day) ==
  /\ day.starts < day.ends
  /\ \A i, j \in day.breaks : i = j
  /\ \A i \in day.breaks : day.starts <= i[1] /\ i[1] < i[2] /\ i[2] <= day.ends

Overlaps(interval, start, stop) == interval[1] < stop /\ interval[2] > start

\* Faulty variant: the last slot may end after the working window.
SlotStartsUnbounded(day) ==
  {t \in Instant : t >= day.starts /\ t < day.ends /\ (t - day.starts) % day.length = 0}

\* The starts the loop visits: one slot after the other from the first
\* working instant, as long as a whole slot fits.
SlotStarts(day) ==
  {t \in Instant : t >= day.starts /\ t + day.length <= day.ends /\ (t - day.starts) % day.length = 0}

\* Faulty variant: a break only blocks the slots that start within it.
FreeSlotBreakStart(day, table, b, absences, now, start) ==
  LET stop == start + day.length IN
  /\ start > now
  /\ ~HasActiveConflict(table, b, start, stop, None)
  /\ ~\E i \in absences : Overlaps(i, start, stop)
  /\ ~\E i \in day.breaks : i[1] <= start /\ start < i[2]

FreeSlot(day, table, b, absences, now, start) ==
  LET stop == start + day.length IN
  /\ start > now
  /\ ~HasActiveConflict(table, b, start, stop, None)
  /\ ~\E i \in absences \cup day.breaks : Overlaps(i, start, stop)

\* days holds the weekday's schedule, if there is one.
OfferedSlots(days, table, b, absences, closed, now) ==
  UNION {{<<t, t + day.length>> :
            t \in {u \in SlotStarts(day) : ~closed /\ FreeSlot(day, table, b, absences, now, u)}} :
         day \in days}

\* What the documentation promises, instant by instant: a slot lies within the
\* working window, starts in the future, and at none of its instants is the
\* professional busy, absent or at a break.
Working(days, table, b, absences, closed, t) ==
  /\ ~closed
  /\ \E day \in days :
       /\ day.starts <= t /\ t < day.ends
       /\ \A i \in day.breaks : t < i[1] \/ i[2] <= t
  /\ \A i \in absences : t < i[1] \/ i[2] <= t
  /\ \A a \in Appointment :
       table[a].barber = b /\ table[a].status \in Active => t < table[a].start \/ table[a].stop <= t
=============================================================================
