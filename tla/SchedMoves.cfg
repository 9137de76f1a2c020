SPECIFICATION Spec
CONSTANTS
  Appointment = {a1}
  Barber = {b1}
  Session = {s1, s2}
  None = None
  Horizon = 3
  DayLength = 4
  Intervals <- FutureIntervals
  Channel = {"owner", "barber", "public", "token"}
SYMMETRY Symmetric
PROPERTIES
  LockedReadsHold
