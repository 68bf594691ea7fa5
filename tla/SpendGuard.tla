----------------------------- MODULE SpendGuard -----------------------------
(***************************************************************************)
(* The guardrails of a MonmouthWallet and the payments that go through     *)
(* them: PolicyEnforcer, MonmouthWallet, X402Client and PaymentRouter.     *)
(*                                                                         *)
(* JavaScript runs one piece of code between two awaits at a time, so a    *)
(* step is such a piece: any number of other payments may be validated,    *)
(* sent and recorded between the pieces of one.  The wallet checks a       *)
(* payment before it is sent and counts it after it has succeeded.         *)
(***************************************************************************)
EXTENDS Integers, FiniteSets

CONSTANTS
  Payments,       \* each is made once; bounds how many
  Recipients,
  Policies,       \* the policies the owner may set
  ConfigPolicy,   \* the one in the configuration
  Requirements,   \* what servers ask for in a 402 answer
  AutoRetry,
  MaxAutoApprove,
  HasApprover,    \* onPaymentRequired is configured
  DayLength,
  SessionDuration,
  MaxTime,        \* bound on the clock
  MaxInFlight     \* bound on payments the application makes at once

Policy == [maxPerTransaction: Nat, maxPerDay: Nat, refused: SUBSET Recipients]
Requirement == [to: Recipients, amount: Nat, native: BOOLEAN, expiry: Nat]

ASSUME SpendAssumption ==
  /\ IsFiniteSet(Payments)
  /\ Policies \subseteq Policy /\ ConfigPolicy \in Policies
  /\ Requirements \subseteq Requirement
  /\ AutoRetry \in BOOLEAN /\ HasApprover \in BOOLEAN
  /\ MaxAutoApprove \in Nat /\ SessionDuration \in Nat /\ MaxTime \in Nat
  /\ DayLength \in Nat \ {0} /\ MaxInFlight \in Nat \ {0}

VARIABLES
  now,            \* Date.now()
  policy,
  sessionExpiry,
  spent,          \* dailySpent and lastSpendDay
  connected,
  stored,         \* what localStorage holds, or Nothing
  pay,            \* payment -> where it is
  \* History, read by no action:
  recorded,       \* day -> what has been counted on it
  settled,        \* day -> what has left the wallet on it
  unsaved,        \* localStorage has not the counter of today
  lapses          \* how many pages started without the counter of their day

losses == <<unsaved, lapses>>
vars == <<now, policy, sessionExpiry, spent, connected, stored, pay, recorded, settled, losses>>

Today == now \div DayLength
Days == 0 .. MaxTime \div DayLength

Spent == [amount: Nat, day: Days]
Nothing == [amount |-> 0]
Idle(stage) == [stage |-> stage, kind |-> "none"]
Active == [stage: {"fetching", "approving", "signing", "sending"},
           kind: {"x402", "demo", "direct"}, req: Requirement \cup {Nothing},
           approved: BOOLEAN, aborted: BOOLEAN, out: BOOLEAN]

TypeOK ==
  /\ now \in 0 .. MaxTime
  /\ policy \in Policies
  /\ sessionExpiry \in Nat
  /\ spent \in Spent
  /\ connected \in BOOLEAN
  /\ stored \in [spent: Spent, connected: BOOLEAN] \cup {Nothing}
  /\ pay \in [Payments -> Active \cup {Idle("new"), Idle("done")}]
  /\ recorded \in [Days -> Nat]
  /\ settled \in [Days -> Nat]
  /\ unsaved \in BOOLEAN /\ lapses \in Nat

Init ==
  /\ now = 0
  /\ policy = ConfigPolicy
  /\ sessionExpiry = SessionDuration
  /\ spent = [amount |-> 0, day |-> 0]
  /\ connected = FALSE
  /\ stored = Nothing
  /\ pay = [p \in Payments |-> Idle("new")]
  /\ recorded = [d \in Days |-> 0]
  /\ settled = [d \in Days |-> 0]
  /\ unsaved = FALSE /\ lapses = 0

InFlight == {p \in Payments : pay[p] \in Active}
MayStart(p) == pay[p] = Idle("new") /\ Cardinality(InFlight) < MaxInFlight

-----------------------------------------------------------------------------
(* The enforcer *)

\* maybeResetDaily.
Fresh == IF Today > spent.day THEN [amount |-> 0, day |-> Today] ELSE spent

\* Mutant: what was spent today is left out.
AloneWithinDay(value) == value <= policy.maxPerDay

WithinDay(value) == Fresh.amount + value <= policy.maxPerDay

\* validate: the checks before the day is looked at, and the last one.
Basics(to, value) ==
  /\ now < sessionExpiry
  /\ to \notin policy.refused
  /\ value <= policy.maxPerTransaction

Allowed(to, value) == Basics(to, value) /\ WithinDay(value)

\* Also a validation that refuses resets the day, if it gets that far.
SpentAfterValidate(to, value) == IF Basics(to, value) THEN Fresh ELSE spent

Snapshot == [spent |-> spent, connected |-> connected]

\* persistState: without localStorage, or if it refuses, nothing is said.
PersistWallet(state) ==
  \/ stored' = state /\ unsaved' = FALSE
  \/ UNCHANGED stored /\ unsaved' = (unsaved \/ state.spent # spent)

\* recordTransaction.
Record(amount) ==
  LET counted == [Fresh EXCEPT !.amount = @ + amount]
  IN  /\ spent' = counted
      /\ PersistWallet([Snapshot EXCEPT !.spent = counted])
      /\ recorded' = [recorded EXCEPT ![counted.day] = @ + amount]
      /\ UNCHANGED lapses

NoRecord == UNCHANGED <<stored, recorded, losses>>

-----------------------------------------------------------------------------
(* Payments for an API: X402Client *)

New(kind, stage, req) ==
  [stage |-> stage, kind |-> kind, req |-> req, approved |-> FALSE, aborted |-> FALSE, out |-> FALSE]

\* validatePayment: the value of a payment in a token is 0.
Charge(req) == IF req.native THEN req.amount ELSE 0

\* Mutant: createPayment trusts the first validation.
NoSecondValidation(req) == req.expiry >= now /\ connected

\* createPayment, up to the await of the signature.
MayCreate(req) ==
  /\ req.expiry >= now
  /\ connected
  /\ Allowed(req.to, Charge(req))

CreatePayment(payment) ==
  IF MayCreate(payment.req) THEN [payment EXCEPT !.stage = "signing"] ELSE Idle("done")

\* A limit of 0 asks for no approval at all.
NeedsApproval(req) == MaxAutoApprove > 0 /\ req.amount > MaxAutoApprove

\* From the requirements to the next await, or the end.
Consider(p, payment) ==
  LET req == payment.req
      allowed == AutoRetry /\ Allowed(req.to, Charge(req))
  IN
  /\ spent' = IF AutoRetry THEN SpentAfterValidate(req.to, Charge(req)) ELSE spent
  /\ pay' = [pay EXCEPT ![p] =
               IF allowed /\ ~NeedsApproval(req) THEN CreatePayment(payment)
               ELSE IF allowed /\ HasApprover THEN [payment EXCEPT !.stage = "approving"]
               ELSE Idle("done")]

Fetch(p) ==
  /\ MayStart(p)
  /\ pay' = [pay EXCEPT ![p] = New("x402", "fetching", Nothing)]
  /\ UNCHANGED <<now, policy, sessionExpiry, spent, connected, stored, recorded, settled, losses>>

PaymentRequired(p, req) ==
  /\ pay[p] \in Active /\ pay[p].stage = "fetching"
  /\ Consider(p, New("x402", "fetching", req))
  /\ NoRecord
  /\ UNCHANGED <<now, policy, sessionExpiry, connected, settled>>

\* handleDemoUrl: no server, the same checks.
FetchDemo(p, req) ==
  /\ MayStart(p)
  /\ Consider(p, New("demo", "fetching", req))
  /\ NoRecord
  /\ UNCHANGED <<now, policy, sessionExpiry, connected, settled>>

Approve(p) ==
  /\ pay[p] \in Active /\ pay[p].stage = "approving"
  /\ spent' = IF pay[p].req.expiry >= now /\ connected
              THEN SpentAfterValidate(pay[p].req.to, Charge(pay[p].req)) ELSE spent
  /\ pay' = [pay EXCEPT ![p] = CreatePayment([pay[p] EXCEPT !.approved = TRUE])]
  /\ NoRecord
  /\ UNCHANGED <<now, policy, sessionExpiry, connected, settled>>

\* The signature is there: the request is repeated with it, unless the timer of
\* the fetch has run out; a simulated payment is counted at once.
Signed(p) ==
  /\ pay[p] \in Active /\ pay[p].stage = "signing"
  /\ IF pay[p].kind = "demo"
     THEN Record(pay[p].req.amount) /\ pay' = [pay EXCEPT ![p] = Idle("done")]
     ELSE /\ pay' = [pay EXCEPT ![p] = IF @.aborted THEN Idle("done") ELSE [@ EXCEPT !.stage = "sending"]]
          /\ NoRecord /\ UNCHANGED spent
  /\ UNCHANGED <<now, policy, sessionExpiry, connected, settled>>

\* The 30 seconds of the fetch are over while the client waits for somebody else.
Abort(p) ==
  /\ pay[p] \in Active /\ pay[p].stage \in {"approving", "signing"} /\ pay[p].kind = "x402"
  /\ pay' = [pay EXCEPT ![p].aborted = TRUE]
  /\ UNCHANGED <<now, policy, sessionExpiry, spent, connected, stored, recorded, settled, losses>>

-----------------------------------------------------------------------------
(* Payments to an address: PaymentRouter, or the application's own sending *)

\* Validation and, if it passes, the call of sendTransaction.
PayDirect(p, to, amount) ==
  /\ MayStart(p)
  /\ spent' = SpentAfterValidate(to, amount)
  /\ IF Allowed(to, amount)
     THEN pay' = [pay EXCEPT ![p] = New("direct", "sending", [to |-> to, amount |-> amount,
                                                             native |-> TRUE, expiry |-> now])]
     ELSE UNCHANGED pay
  /\ NoRecord
  /\ UNCHANGED <<now, policy, sessionExpiry, connected, settled>>

\* No await between check and count: a simulated transfer, or an escrow of the
\* EscrowClient, which wants a connected wallet.
PayAtOnce(p, to, amount, escrow) ==
  /\ MayStart(p)
  /\ escrow => connected
  /\ Allowed(to, amount)
  /\ Record(amount)
  /\ pay' = [pay EXCEPT ![p] = Idle("done")]
  /\ UNCHANGED <<now, policy, sessionExpiry, connected, settled>>

-----------------------------------------------------------------------------
(* The other side, and the end of a payment *)

Sending(p) == pay[p] \in Active /\ pay[p].stage = "sending"

\* The server, or the chain, takes the money.
Settle(p) ==
  /\ Sending(p) /\ ~pay[p].out
  /\ pay' = [pay EXCEPT ![p].out = TRUE]
  /\ settled' = [settled EXCEPT ![Today] = @ + pay[p].req.amount]
  /\ UNCHANGED <<now, policy, sessionExpiry, spent, connected, stored, recorded, losses>>

\* An answer other than 402, or the hash of the transaction.
Succeed(p) ==
  /\ Sending(p)
  /\ pay[p].kind = "direct" => pay[p].out
  /\ Record(pay[p].req.amount)
  /\ pay' = [pay EXCEPT ![p] = Idle("done")]
  /\ UNCHANGED <<now, policy, sessionExpiry, connected, settled>>

\* The first answer is not 402; nobody approves or signs; the second answer is
\* 402, is lost or comes too late; sendTransaction rejects.
Fail(p) ==
  /\ pay[p] \in Active
  /\ pay' = [pay EXCEPT ![p] = Idle("done")]
  /\ UNCHANGED <<now, policy, sessionExpiry, spent, connected, stored, recorded, settled, losses>>

-----------------------------------------------------------------------------
(* The wallet *)

UpdatePolicy(new) ==
  /\ policy' = new
  /\ PersistWallet(Snapshot)
  /\ UNCHANGED <<now, sessionExpiry, spent, connected, pay, recorded, settled, lapses>>

ExtendSession ==
  /\ sessionExpiry' = now + SessionDuration
  /\ PersistWallet(Snapshot)
  /\ UNCHANGED <<now, policy, spent, connected, pay, recorded, settled, lapses>>

\* setConnectedAddress and clearConnection.
SetConnected(on) ==
  /\ connected' = on
  /\ PersistWallet([Snapshot EXCEPT !.connected = on])
  /\ UNCHANGED <<now, policy, sessionExpiry, spent, pay, recorded, settled, lapses>>

\* getDailySpent, getRemainingDailyBudget, getState.
GetDailySpent ==
  /\ spent' = Fresh
  /\ UNCHANGED <<now, policy, sessionExpiry, connected, stored, pay, recorded, settled, losses>>

ClearPersistedState ==
  /\ stored' = Nothing
  /\ unsaved' = (unsaved \/ Fresh.amount > 0)
  /\ UNCHANGED <<now, policy, sessionExpiry, spent, connected, pay, recorded, settled, lapses>>

\* Mutant: the counter starts again with the page.
SpentForgotten == [amount |-> 0, day |-> Today]

SpentRestored == IF stored = Nothing THEN [amount |-> 0, day |-> Today] ELSE stored.spent

\* The page is loaded again: the constructor takes the configured policy and
\* restores the rest; payments in flight are gone.
Reload ==
  /\ policy' = ConfigPolicy
  /\ sessionExpiry' = now + SessionDuration
  /\ spent' = SpentRestored
  /\ connected' = (stored # Nothing /\ stored.connected)
  /\ pay' = [p \in Payments |-> IF p \in InFlight THEN Idle("done") ELSE pay[p]]
  /\ lapses' = (IF unsaved THEN lapses + 1 ELSE lapses)
  /\ unsaved' = FALSE
  /\ UNCHANGED <<now, stored, recorded, settled>>

Tick ==
  /\ now < MaxTime
  /\ now' = now + 1
  /\ UNCHANGED <<policy, sessionExpiry, spent, connected, stored, pay, recorded, settled, losses>>

PaymentStep(p) ==
  \/ Fetch(p)
  \/ \E req \in Requirements :
       \/ PaymentRequired(p, req)
       \/ FetchDemo(p, req)
       \/ PayDirect(p, req.to, req.amount)
       \/ \E escrow \in BOOLEAN : PayAtOnce(p, req.to, req.amount, escrow)
  \/ Approve(p) \/ Signed(p) \/ Abort(p) \/ Settle(p) \/ Succeed(p) \/ Fail(p)

Next ==
  \/ \E p \in Payments : PaymentStep(p)
  \/ \E new \in Policies : UpdatePolicy(new)
  \/ \E on \in BOOLEAN : SetConnected(on)
  \/ ExtendSession
  \/ GetDailySpent
  \/ ClearPersistedState
  \/ Reload
  \/ Tick

Spec == Init /\ [][Next]_vars

-----------------------------------------------------------------------------
(* Properties *)

\* What the enforcer says was spent on its day was counted on that day; it is all
\* of it as long as no page started without the counter of its day, which only a
\* refused save or a cleared state can bring about: across days, reloads of an old
\* state and payments that are validated on one day and counted on the next.
DailySpentIsRecorded ==
  /\ spent.amount <= recorded[spent.day]
  /\ lapses = 0 => spent.amount = recorded[spent.day]

\* However payments interleave, a day exceeds its limit by less than one
\* transaction for each other payment that can be in flight: a payment that was
\* allowed earlier is the only way past the check.  Each page that starts without
\* the counter of its day adds as much once more.  Asserted for runs with one
\* policy and native payments; with one payment at a time it is the daily limit.
OverspendBounded ==
  \A d \in Days :
    recorded[d] <= (lapses + 1) * (ConfigPolicy.maxPerDay + (MaxInFlight - 1) * ConfigPolicy.maxPerTransaction)

\* A signature is asked for only under guardrails that allow the payment at that
\* moment, whatever the owner changed or other payments spent during approval.
SigningIsAllowed ==
  [][\A p \in Payments :
       pay'[p].stage = "signing" /\ pay[p].stage # "signing" =>
         Allowed(pay'[p].req.to, Charge(pay'[p].req))]_vars

\* "Daily spending limit" of the guardrails, of what the wallet itself counts.
WithinDailyLimit == \A d \in Days : recorded[d] <= ConfigPolicy.maxPerDay

\* The same of what has left the wallet.
SettledWithinDailyLimit == \A d \in Days : settled[d] <= ConfigPolicy.maxPerDay

\* "No auto-approve by default": above the limit nothing is signed unapproved.
NoAutoApprove ==
  \A p \in InFlight :
    pay[p].stage = "signing" /\ pay[p].req.amount > MaxAutoApprove => pay[p].approved
=============================================================================
