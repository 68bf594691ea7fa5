----------------------------- MODULE AgentWallet ------------------------------
(***************************************************************************)
(* AgentWallet: the guardrails of a wallet on a chain adapter.  A          *)
(* transaction is checked when it is sent and counted when the adapter has *)
(* answered; any number of others are checked, sent and counted meanwhile. *)
(* Everything the wallet decides by is saved under one key of localStorage *)
(* whenever it changes, and wins over the configuration at the next start. *)
(***************************************************************************)
EXTENDS ChainAdapter, FiniteSets

CONSTANTS
  Limits,         \* what the owner may set
  OwnLimits,      \* what the configuration says
  Receivers,      \* recipients with what is asked of them, a deployment among them
  Deployment,
  SessionLength,
  AgentDay,       \* length of a day
  MaxAgentTime,   \* bound on the clock
  MaxUnderway,    \* bound on transactions the application sends at once
  MaxOutside      \* bound on what is recorded from outside

ASSUME AgentWalletAssumption ==
  /\ IsFiniteSet(Sends)
  /\ Limits \subseteq [maxPerTransaction: Nat, maxPerDay: Nat, refused: SUBSET Receivers]
  /\ OwnLimits \in Limits
  /\ SessionLength \in Nat /\ MaxAgentTime \in Nat /\ MaxOutside \in Nat
  /\ AgentDay \in Nat \ {0} /\ MaxUnderway \in Nat \ {0}

VARIABLES
  walletTime,
  loadedAt,   \* when the page was: the default sessions begin then
  limits, sessionEnd,
  dailySpent, lastSpendDay,
  savedState, \* what localStorage holds, or Unsaved
  \* History, read by no action:
  refusedSave, \* the last save was refused
  forgotten,   \* a wallet was started from less than its predecessor knew
  counted,     \* day -> what the wallet's own transactions added on it
  outside      \* day -> what recordSpend was told from outside

walletHistory == <<refusedSave, forgotten, counted, outside>>
agentVars == <<adapterVars, walletTime, loadedAt, limits, sessionEnd, dailySpent, lastSpendDay, savedState, walletHistory>>

CurrentDay == walletTime \div AgentDay
AgentDays == 0 .. MaxAgentTime \div AgentDay

Unsaved == [spent |-> 0]
Memory == [limits |-> limits, sessionEnd |-> sessionEnd, spent |-> dailySpent, day |-> lastSpendDay]

AgentTypeOK ==
  /\ AdapterTypeOK
  /\ walletTime \in 0 .. MaxAgentTime /\ loadedAt \in 0 .. walletTime
  /\ limits \in Limits /\ sessionEnd \in Nat
  /\ dailySpent \in Nat /\ lastSpendDay \in AgentDays
  /\ savedState \in [limits: Limits, sessionEnd: Nat, spent: Nat, day: AgentDays] \cup {Unsaved}
  /\ refusedSave \in BOOLEAN /\ forgotten \in BOOLEAN
  /\ counted \in [AgentDays -> Nat] /\ outside \in [AgentDays -> Nat]

AgentInit(kinds) ==
  /\ AdapterInit(kinds)
  /\ walletTime = 0 /\ loadedAt = 0
  /\ limits = OwnLimits /\ sessionEnd = SessionLength
  /\ dailySpent = 0 /\ lastSpendDay = 0
  /\ savedState = Unsaved /\ refusedSave = FALSE /\ forgotten = FALSE
  /\ counted = [d \in AgentDays |-> 0] /\ outside = [d \in AgentDays |-> 0]

-----------------------------------------------------------------------------
(* Counting *)

SaveRefused == UNCHANGED savedState /\ refusedSave' = TRUE

\* persistState: localStorage may refuse.
PersistState == (savedState' = Memory' /\ refusedSave' = FALSE) \/ SaveRefused

NotSaved == UNCHANGED <<savedState, refusedSave>>

NewDay == CurrentDay # lastSpendDay

SpentToday == IF NewDay THEN 0 ELSE dailySpent

\* checkDayReset.
CheckDayReset ==
  /\ dailySpent' = SpentToday /\ lastSpendDay' = CurrentDay
  /\ IF NewDay THEN PersistState ELSE NotSaved

\* Mutant: a spend is counted but not saved.
CountInMemory(value) ==
  /\ dailySpent' = SpentToday + value /\ lastSpendDay' = CurrentDay
  /\ NotSaved

\* recordSpend.
Count(value) ==
  /\ dailySpent' = SpentToday + value /\ lastSpendDay' = CurrentDay
  /\ PersistState

\* Mutant: what was spent before is left out.
AloneWithinDayLimit(value) == value <= limits.maxPerDay

WithinDayLimit(value) == SpentToday + value <= limits.maxPerDay

\* validateTransaction: what it looks at before the day.
FirstChecks(to, value) ==
  /\ walletTime <= sessionEnd
  /\ to = Deployment => to \notin limits.refused
  /\ value <= limits.maxPerTransaction

ValidateTransaction(to, value) == FirstChecks(to, value) /\ WithinDayLimit(value) /\ to \notin limits.refused

-----------------------------------------------------------------------------
(* The calls *)

OtherVars == <<walletTime, loadedAt, limits, sessionEnd, forgotten, counted, outside>>

\* sendTransaction; without a sender the adapter throws.
SendTransaction(s, to, value) ==
  /\ sends[s] = Ended("new") /\ Cardinality({t \in Sends : Underway(t)}) < MaxUnderway
  /\ UNCHANGED OtherVars
  /\ IF FirstChecks(to, value) THEN CheckDayReset ELSE UNCHANGED <<dailySpent, lastSpendDay>> /\ NotSaved
  /\ IF ValidateTransaction(to, value) /\ Address # Nobody THEN Submit(s, value) ELSE UNCHANGED adapterVars

SendReturns(s) ==
  /\ Answered(s)
  /\ UNCHANGED <<walletTime, loadedAt, limits, sessionEnd, forgotten, outside>>
  /\ Count(sends[s].value)
  /\ counted' = [counted EXCEPT ![CurrentDay] = @ + sends[s].value]

\* recordSpend, "for external transaction tracking".
RecordSpend(value) ==
  /\ \A d \in AgentDays : outside[d] + value <= MaxOutside
  /\ UNCHANGED <<adapterVars, walletTime, loadedAt, limits, sessionEnd, forgotten, counted>>
  /\ Count(value)
  /\ outside' = [outside EXCEPT ![CurrentDay] = @ + value]

\* getDailySpent, getRemainingDailyBudget, getState.
ReadDailySpent == UNCHANGED <<adapterVars, OtherVars>> /\ CheckDayReset

UpdateLimits(new) ==
  /\ limits' = new
  /\ UNCHANGED <<sessionEnd, dailySpent, lastSpendDay>>
  /\ PersistState
  /\ UNCHANGED <<adapterVars, walletTime, loadedAt, forgotten, counted, outside>>

ProlongSession ==
  /\ sessionEnd' = walletTime + SessionLength
  /\ UNCHANGED <<limits, dailySpent, lastSpendDay>>
  /\ PersistState
  /\ UNCHANGED <<adapterVars, walletTime, loadedAt, forgotten, counted, outside>>

ClearSavedState ==
  /\ savedState' = Unsaved /\ refusedSave' = FALSE
  /\ UNCHANGED <<adapterVars, dailySpent, lastSpendDay, OtherVars>>

RestoredLimits == IF savedState = Unsaved THEN OwnLimits ELSE savedState.limits

\* The constructor, in a page that is loaded again or in the same one once
\* nothing is underway.  What was underway when the page went is never counted.
NewWallet(load) ==
  /\ load \/ \A s \in Sends : ~Underway(s)
  /\ loadedAt' = IF load THEN walletTime ELSE loadedAt
  /\ limits' = RestoredLimits
  /\ sessionEnd' = IF savedState = Unsaved THEN loadedAt' + SessionLength ELSE savedState.sessionEnd
  /\ dailySpent' = savedState.spent
  /\ lastSpendDay' = IF savedState = Unsaved THEN CurrentDay ELSE savedState.day
  /\ forgotten' = (forgotten \/ (Memory # savedState /\ (dailySpent > 0 \/ refusedSave)))
  /\ sends' = [s \in Sends |-> IF Underway(s) THEN Ended("done") ELSE sends[s]]
  /\ adapterOn' = FALSE
  /\ UNCHANGED <<adapter, wallet, walletTime, savedState, refusedSave, counted, outside>>

AgentTick ==
  /\ walletTime < MaxAgentTime /\ walletTime' = walletTime + 1
  /\ UNCHANGED <<adapterVars, loadedAt, limits, sessionEnd, dailySpent, lastSpendDay, savedState, walletHistory>>

AgentStep ==
  \/ AdapterStep /\ UNCHANGED <<walletTime, loadedAt, limits, sessionEnd, dailySpent, lastSpendDay, savedState, walletHistory>>
  \/ \E s \in Sends : SendReturns(s) \/ \E to \in Receivers, value \in Values : SendTransaction(s, to, value)
  \/ \E value \in Values : RecordSpend(value)
  \/ \E new \in Limits : UpdateLimits(new)
  \/ \E load \in BOOLEAN : NewWallet(load)
  \/ ReadDailySpent \/ ProlongSession \/ ClearSavedState \/ AgentTick

AgentSpec(kinds) == AgentInit(kinds) /\ [][AgentStep]_agentVars

-----------------------------------------------------------------------------
(* Properties *)

\* As long as no start has forgotten anything, the counter is what was counted on
\* its day: across days, overlapping transactions and starts from a saved state.
AgentSpendCounted == ~forgotten => dailySpent = counted[lastSpendDay] + outside[lastSpendDay]

\* Transactions that overlap are validated against the same counter: a day
\* exceeds its limit by less than one transaction for each other that can be
\* underway.  For limits that differ only in whom they refuse.
AgentSpendBounded ==
  ~forgotten =>
    \A d \in AgentDays :
      counted[d] <= OwnLimits.maxPerDay + (MaxUnderway - 1) * OwnLimits.maxPerTransaction

\* Whatever changed, a start finds the limits, the session and the counter as the
\* wallet left them, unless localStorage refused or was cleared: a reload neither
\* loosens a limit nor revives a session.
NothingToForget == refusedSave \/ savedState \in {Unsaved, Memory}
=============================================================================
