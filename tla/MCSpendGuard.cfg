SPECIFICATION Spec
CHECK_DEADLOCK FALSE
CONSTANTS
  Payments = {p1, p2, p3}
  Recipients = {api}
  Policies <- TwoPolicies
  ConfigPolicy <- Open
  Requirements <- NativeAsks
  AutoRetry = TRUE
  MaxAutoApprove = 1
  HasApprover = TRUE
  DayLength = 2
  SessionDuration = 2
  MaxTime = 2
  MaxInFlight = 2
SYMMETRY Symmetry
INVARIANT DailySpentIsRecorded
INVARIANT OverspendBounded
PROPERTY SigningIsAllowed
