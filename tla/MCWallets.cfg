SPECIFICATION Spec
CHECK_DEADLOCK FALSE
CONSTANTS
  Escrows = {e1}
  Accounts = {alice, bob}
  Pages = {page1, page2}
  Duration = 1
  MaxEscrowTime = 2
  MaxSecondCopies = 1
  WalletAccounts = {w1, w2}
  OwnAccount = own
  Nobody = nobody
  Controllers <- AllAccounts
  NoAddress = nobody
  MaxVersion = 1
  Sends = {1, 2, 3}
  Values = {2}
  Limits <- DefaultOrNone
  OwnLimits <- NoDeployments
  Receivers = {shop, deploy}
  Deployment = deploy
  SessionLength = 0
  AgentDay = 1
  MaxAgentTime = 1
  MaxUnderway = 2
  MaxOutside = 2
  X402Requests = {r1}
  Asked <- AskedAmounts
  Configs <- SolanaConfigs
  MaxX402Time = 1
  Signings = {s1, s2}
  KeyAccounts = {k1, k2}
  NoKey = nokey
  Validities = {0}
  DefaultValidity = 1
  MaxSignTime = 1
  MaxReloads = 1
INVARIANT SettledOnce
INVARIANT OfferedIsAccepted
INVARIANT AcceptedIsAttested
INVARIANT AgentSpendBounded
INVARIANT NothingToForget
INVARIANT PayerSigns
INVARIANT NoncesDiffer
