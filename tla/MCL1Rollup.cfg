SPECIFICATION BridgeSpec
CONSTANTS
  Accounts = {a1, a2}
  Genesis = a1
  Roots = {r1}
  ZeroRoot = zero
  MaxBatches = 2
  MaxHash = 2
  MaxNow = 2
  Contents = {c1}
  Values = {1}
  L2Blocks = {1}
  MaxWithdrawals = 2
  MaxDeposits = 1
  MaxBalance = 2
  MaxDepth = 2
INVARIANT HashChain
INVARIANT PaidOnce
PROPERTY HistoryIsFinal
