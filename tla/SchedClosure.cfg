SPECIFICATION Spec
CONSTANTS
  Appointment = {a1, a2}
  Barber = {b1}
  Session = {s1, s2}
  None = None
  Horizon = 1
  DayLength = 2
  Intervals <- OneInterval
  Channel = {"owner"}
SYMMETRY Symmetric
INVARIANTS
  ClosedDatesFree
