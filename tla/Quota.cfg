SPECIFICATION Spec
CONSTANTS
  Session = {s1, s2}
  None = none
  Window = {"minute", "hour"}
  Length <- ShortLengths
  Limit <- SmallLimits
  Horizon = 9
SYMMETRY Symmetric
INVARIANT TypeOK CountsAdmissions BurstBounded
PROPERTY RetryAfterExact
CHECK_DEADLOCK FALSE
