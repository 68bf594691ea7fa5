SPECIFICATION FairSpec
CONSTANTS
  Accounts = {a1}
  Genesis = a1
  Roots = {r1}
  ZeroRoot = zero
  MaxBatches = 3
  MaxHash = 5
  MaxNow = 1
  Withdrawals = {w1}
  ZeroMessage = zeroMessage
  NoBatch = noBatch
  MaxFaults = 1
PROPERTY CommitsRecover
CHECK_DEADLOCK FALSE
