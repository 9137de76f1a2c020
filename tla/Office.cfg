SPECIFICATION OfficeSpec
CONSTANTS
  s1 = s1
  s2 = s2
  p1 = p1
  p2 = p2
  a1 = a1
  v1 = v1
  v2 = v2
  o1 = o1
  b1 = b1
  l1 = l1
  l2 = l2
  None = None
  Session = {s1, s2}
  Horizon = 4
  Phone = {p1, p2}
  Address = {a1}
  LimitOf <- LimitsOf
  WindowOf <- WindowsOf
  Cooldown = 1
  CodeLife = 2
  SendWindow = 2
  SendLimit = 2
  GuessLimit = 2
  Day = 2
  MaxWait = 1
  MaxRequests = 3
  Account = {o1, b1}
  Professional = {b1}
  Managed = {o1, b1}
  LoginLimit = 2
  LockTime = 2
  ResetCooldown = 1
  ResetLife = 1
  ResetGuesses = 2
  MaxSignIns = 5
  User = {1, 2, 3}
  Barber = {b1}
  Email = {v1, v2}
  EmailLife = 1
  MaxManagement = 5
  Customer = {1, 2}
  Telephone = {v1, v2}
  Target = {1, 2}
  MaxVisits = 4
  MaxServed = 3
  Entry = {1, 2, 3}
  Label = {l1, l2}
  KeyOf <- Casefold
  MonthLength <- TwoMonths
  MonthDay = {3}
  MaxLedger = 4
  AlertCooldown = 2
  MaxRestarts = 1
  MaxActivity = 3
  Nothing = Nothing
  Visits <- FewVisits
  Bills <- FewBills
  Rates <- FewRates
  LoyaltyTarget = 2
  DayLength = 4
  ZoneOffset = 1
  Areas = {"recovery", "owner", "professional", "orderly", "accounts", "e-mails apart", "customers", "expenses", "activity", "alerts", "report"}
  LastIn <- LastInstants
  MostIn <- MostRequests
SYMMETRY Symmetric
INVARIANTS
  OfficeTypeOK DeliveredCodeLives SendsCounted GuessesBounded OnePrimaryOwner EmailProvenApart
  RewardsCovered RedemptionsCounted NoOrphanCustomers CopiesUnique AuditedOrReported
  SavedAnswerKept AttemptsPaced ReportReconciles
PROPERTIES RecoveryImplementsOneTimeCode ResetImplementsOneTimeCode OrderlyTokensStayRefused
CHECK_DEADLOCK FALSE
