SPECIFICATION Spec
CONSTANTS
  Appointment = {a1, a2}
  Barber = {b1, b2}
  Session = {s1}
  None = None
  Horizon = 3
  DayLength = 2
  Intervals <- ThreeIntervals
  Channel = {"owner", "barber", "public", "token"}
SYMMETRY Symmetric
INVARIANTS
  TypeOK
  NoDoubleBooking
  ClosedDatesFree
PROPERTIES
  AssignedOnly
