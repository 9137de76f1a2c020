SPECIFICATION Spec
CONSTANTS
  Appointment = {a1}
  Barber = {b1}
  None = none
  Session = {s1}
  Conversation = {c1}
  Horizon = 5
  DayLength = 6
  Schedules <- ManyDays
  Absences <- SomeAbsences
  Spans <- SomeSpans
  Others = {"book", "move", "settle", "schedule", "absence", "closure"}
INVARIANT OffersExactlyFree
CHECK_DEADLOCK FALSE
