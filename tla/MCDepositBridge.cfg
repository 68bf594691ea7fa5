SPECIFICATION DepositFairSpec
CONSTANTS
  Payloads = {p1}
  MaxBlockRange = 2
  NonceStride = 10
  MaxBlock = 4
  MaxLogs = 2
  MaxTime = 1
  MaxCrashes = 1
PROPERTY EveryScannedDepositCredited
PROPERTY ImplementsStream
CHECK_DEADLOCK FALSE
