SPECIFICATION Spec
CONSTANTS
  Appointment = {a1, a2}
  Barber = {b1}
  Session = {s1, s2}
  None = None
  Horizon = 2
  DayLength = 3
  Intervals <- TwoIntervals
  Channel = {"owner", "barber", "public"}
SYMMETRY Symmetric
INVARIANTS
  IInv
  NoDoubleBooking
  PaidIffCompleted
PROPERTIES
  FinalStatesStay
  ImplementsCalendar
