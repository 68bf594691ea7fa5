SPECIFICATION Spec
CHECK_DEADLOCK FALSE
CONSTANTS
  Accounts = {a, b}
  NoOne = none
  Deployer = b
  Depositors = {a}
  Recipients = {b}
  Arbiters = {a}
  Refusing = {b}
  Tokens = {tok}
  Ether = eth
  Services = {svc}
  Amounts = {3}
  Durations = {0,1}
  MaxDuration = 1
  Denominator = 4
  MaxFeeBps = 2
  BpsChoices = {2,3}
  MaxBlock = 1
  MaxCreates = 2
  MaxNonce = 1
  MaxDonation = 1
INVARIANT Accounted
INVARIANT ReplaySafe
PROPERTY ImplementsVault
