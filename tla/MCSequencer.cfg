SPECIFICATION FairSpec
CHECK_DEADLOCK FALSE
CONSTANTS
  Txs = {1, 3}
  Gas <- MCGas
  Word = 8
  MaxBlockSize = 2
  MaxBlockGas = 3
  MaxSubmitted = 3
  Handles = {h1, h2}
  FirstHandle = h1
  L1Configured = FALSE
  DropsSequencer = TRUE
  DropsHandles = TRUE
  ShutsHandles = TRUE
  ShutsSequencer = TRUE
INVARIANT FirstComeFirstServed
INVARIANT ClosedMeansStopped
PROPERTY FittingTransactionsIncluded
PROPERTY ShutdownsReturn
