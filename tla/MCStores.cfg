SPECIFICATION Spec
CHECK_DEADLOCK FALSE
CONSTANTS
  Activities = {a1, a2}
  Agent <- OneAgent
  At <- OneTime
  Kind <- OwnKind
  AppStatuses = {"pending"}
  Tabs = {t1, t2}
  MaxKey = 2
  MaxRepeats = 1
  USDC = USDC
  MEME = MEME
  x1 = x1
  x2 = x2
  x3 = x3
  url1 = url1
  url2 = url2
  Symbols = {USDC, MEME}
  Addresses = {x1, x2, x3}
  CommonTokens <- BuiltIn
  Urls = {url1, url2}
  List <- ListAt
  Blocked = {}
  UserTokens <- UsersTokens
  TTL = 1
  MaxLists = 1
  MaxClock = 1
  SolSymbols = {USDC, MEME}
  Mints = {x1, x2, x3}
  SolCommon <- SolBuiltIn
  Jupiter <- JupiterList
  ChainSymbol <- SelfNamed
  SolUserTokens <- UsersMints
  SolTTL = 1
  MaxSolClock = 1
SYMMETRY Symmetry
INVARIANT MigratedIsKept
INVARIANT CopiesBounded
INVARIANT MarkedWasSent
INVARIANT TrustIsListed
INVARIANT VerifiedIsGenuine
INVARIANT ListedStaysVerified
