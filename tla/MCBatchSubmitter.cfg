SPECIFICATION FairSpec
CONSTANTS
  Accounts = {a1}
  Genesis = a1
  Roots = {r1}
  ZeroRoot = zero
  MaxBatches = 3
  MaxHash = 5
  MaxNow = 1
  Withdrawals = {w1}
  ZeroMessage = zeroMessage
  NoBatch = noBatch
  MaxFaults = 2
INVARIANT RootsAgreeUnlessReverted
INVARIANT PostedOnce
PROPERTY ImplementsRollupChain
PROPERTY EveryBatchCommitted
PROPERTY EveryWithdrawalPosted
CHECK_DEADLOCK FALSE
