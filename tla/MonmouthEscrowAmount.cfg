SPECIFICATION Spec
CONSTANTS
  Accounts = {a, b}
  NoOne = none
  Deployer = b
  Depositors = {a}
  Recipients = {b}
  Arbiters = {a, none}
  Refusing = {}
  Tokens = {}
  Ether = eth
  Services = {svc}
  Amounts = {2}
  Durations = {0, 1}
  MaxDuration = 1
  Denominator = 4
  MaxFeeBps = 2
  BpsChoices = {0}
  MaxBlock = 1
  MaxCreates = 2
  MaxNonce = 0
  MaxDonation = 0
INVARIANT AmountIsInEscrow
