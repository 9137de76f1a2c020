SPECIFICATION Spec
CONSTANTS
  Appointment = {a1, a2}
  Barber = {b1}
  None = none
  Session = {s1, s2}
  Conversation = {c1, c2}
  Horizon = 3
  DayLength = 4
  Schedules <- OneDay
  Absences <- OneAbsence
  Spans <- OneSpan
  Others = {"book", "settle", "schedule", "absence", "activity"}
SYMMETRY Symmetric
INVARIANT TypeOK ExactlyOnce RevalidationHolds
PROPERTY LinkStays ImplementsCalendar
CHECK_DEADLOCK FALSE
