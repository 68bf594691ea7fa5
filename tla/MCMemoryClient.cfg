SPECIFICATION FairSpec
CONSTANTS
  a = a
  b = b
  c = c
  Activities = {a, b}
  Agent <- MCAgent
  At <- MCAt
  Kind <- MCKind
  AutoSave = TRUE
  AppStatuses = {"pending"}
  MaxId = 2
  MaxFailures = 1
  Calls = {c1, c2}
  AutoSync = TRUE
INVARIANT IdsUnique
INVARIANT SyncedWasSent
PROPERTY ConfirmedNotResent
PROPERTY EveryActivitySynced
