-------------------------- MODULE SpendGuardProofs --------------------------
(***************************************************************************)
(* The guardrails are well typed, count what was recorded on the day they  *)
(* say, and let a signature be asked for only while they allow it: for any *)
(* number of payments, policies, requirements and days.                    *)
(***************************************************************************)
EXTENDS SpendGuard, FiniteSetTheorems, TLAPS

\* A time up to the bound is on a day up to the last.
LEMMA DayOf ==
  ASSUME NEW n \in Nat, NEW m \in Nat, n <= m, NEW d \in Nat \ {0}
  PROVE  n \div d \in 0 .. m \div d
<1>1. n \div d \in Nat /\ m \div d \in Nat
  BY SMT
<1>2. n \div d <= m \div d
  BY SMT
<1> QED BY <1>1, <1>2

\* A counter that is not of a later day and says no more than was recorded on its own.
NotMore(count) == count.day <= Today /\ count.amount <= recorded[count.day]

\* A counter that says all that was recorded on its day, with nothing recorded later.
Agrees(count) ==
  /\ count.amount = recorded[count.day]
  /\ \A d \in Days : d > count.day => recorded[d] = 0

\* Days to come are empty, so a reset is right; the counter that a reload would take
\* back says no more than was recorded either, and all of it when every save was taken.
IInv ==
  /\ TypeOK
  /\ NotMore(spent) /\ NotMore(SpentRestored)
  /\ \A d \in Days : d > Today => recorded[d] = 0
  /\ lapses = 0 => Agrees(spent) /\ (~unsaved => Agrees(SpentRestored))

\* Today is a day.
LEMMA TodayIsDay == ASSUME SpendAssumption, TypeOK PROVE Today \in Days
BY DayOf DEF SpendAssumption, TypeOK, Today, Days

\* The counters and the days are of their types.
LEMMA CounterTypes ==
  ASSUME SpendAssumption, TypeOK
  PROVE  /\ Today \in Days /\ Days \subseteq Nat /\ recorded \in [Days -> Nat]
         /\ spent \in Spent /\ SpentRestored \in Spent
         /\ unsaved \in BOOLEAN /\ lapses \in Nat
<1>1. Today \in Days /\ Days \subseteq Nat
  BY TodayIsDay DEF Days
<1>2. SpentRestored \in Spent
  <2>1. CASE stored = Nothing
    BY <1>1, <2>1 DEF SpentRestored, Spent
  <2>2. CASE stored # Nothing
    BY <2>2 DEF SpentRestored, TypeOK
  <2> QED BY <2>1, <2>2
<1> QED BY <1>1, <1>2 DEF TypeOK

\* The counter after a reset is of today, and as right as the one before.
LEMMA FreshAgrees ==
  ASSUME SpendAssumption, IInv
  PROVE  /\ Fresh \in Spent /\ Fresh.day = Today /\ NotMore(Fresh)
         /\ lapses = 0 => Agrees(Fresh)
<1>1. /\ Today \in Days /\ Days \subseteq Nat /\ recorded \in [Days -> Nat]
      /\ spent \in Spent /\ spent.day \in Days /\ spent.day <= Today
  BY CounterTypes DEF IInv, Spent, NotMore
<1>2. CASE Today > spent.day
  <2>1. Fresh = [amount |-> 0, day |-> Today]
    BY <1>2 DEF Fresh
  <2>2. lapses = 0 => recorded[Today] = 0 /\ \A d \in Days : d > Today => recorded[d] = 0
    BY <1>1, <1>2 DEF IInv, Agrees
  <2> QED BY <1>1, <2>1, <2>2 DEF Agrees, NotMore, Spent
<1>3. CASE ~(Today > spent.day)
  <2>0. Today \in Nat /\ spent.day \in Nat
    BY <1>1
  <2>1. Fresh = spent /\ spent.day = Today
    BY <1>1, <1>3, <2>0 DEF Fresh
  <2> QED BY <1>1, <2>1 DEF IInv
<1> QED BY <1>2, <1>3

\* A snapshot of the memory is not Nothing.
LEMMA SnapshotIsSomething == \A x, y : [spent |-> x, connected |-> y] # Nothing
<1> SUFFICES ASSUME NEW x, NEW y, [spent |-> x, connected |-> y] = Nothing PROVE FALSE
  OBVIOUS
<1>1. DOMAIN [spent |-> x, connected |-> y] = {"spent", "connected"}
  OBVIOUS
<1>2. DOMAIN Nothing = {"amount"}
  BY DEF Nothing
<1>3. "connected" \in DOMAIN Nothing
  BY <1>1
<1> QED BY <1>2, <1>3

\* A save is taken, and a reload would take the counter back, or it is refused, and
\* a counter that differs from the one in memory is then not stored.
LEMMA Persisted ==
  ASSUME NEW count, NEW on, PersistWallet([spent |-> count, connected |-> on]), UNCHANGED now
  PROVE  \/ /\ stored' = [spent |-> count, connected |-> on] /\ SpentRestored' = count /\ unsaved' = FALSE
         \/ /\ stored' = stored /\ SpentRestored' = SpentRestored
            /\ unsaved' = (unsaved \/ count # spent)
<1>1. CASE stored' = [spent |-> count, connected |-> on] /\ unsaved' = FALSE
  <2>1. stored' # Nothing
    BY <1>1, SnapshotIsSomething
  <2> QED BY <1>1, <2>1 DEF SpentRestored
<1>2. CASE UNCHANGED stored /\ unsaved' = (unsaved \/ count # spent)
  BY <1>2 DEF SpentRestored, Today
<1> QED BY <1>1, <1>2 DEF PersistWallet

\* The types that recording and persisting leave to prove are those of pay.
PayOK == pay \in [Payments -> Active \cup {Idle("new"), Idle("done")}]

\* Recording an amount keeps the counters right.
LEMMA RecordKeeps ==
  ASSUME SpendAssumption, IInv, NEW amount \in Nat, Record(amount),
         UNCHANGED <<now, policy, sessionExpiry, connected, settled>>, PayOK'
  PROVE  IInv'
<1>1. /\ Fresh \in Spent /\ Fresh.day = Today /\ Fresh.amount \in Nat /\ NotMore(Fresh)
      /\ lapses = 0 => Agrees(Fresh)
  BY FreshAgrees DEF Spent
<1>2. /\ Today \in Days /\ Days \subseteq Nat /\ recorded \in [Days -> Nat]
      /\ spent \in Spent /\ SpentRestored \in Spent
      /\ unsaved \in BOOLEAN /\ lapses \in Nat /\ Today' = Today
  BY CounterTypes DEF IInv, Today
<1>3. PICK counted \in Spent :
        /\ counted = [Fresh EXCEPT !.amount = @ + amount]
        /\ counted.day = Today /\ counted.amount = Fresh.amount + amount
  <2>1. [Fresh EXCEPT !.amount = @ + amount] \in Spent
    BY <1>1 DEF Spent
  <2> QED BY <1>1, <2>1 DEF Spent
<1>4. /\ spent' = counted /\ lapses' = lapses
      /\ recorded' = [recorded EXCEPT ![Today] = @ + amount]
      /\ PersistWallet([spent |-> counted, connected |-> connected])
  <2>1. [Snapshot EXCEPT !.spent = counted] = [spent |-> counted, connected |-> connected]
    BY DEF Snapshot
  <2> QED BY <1>3, <2>1 DEF Record
<1>5. /\ recorded' \in [Days -> Nat] /\ recorded'[Today] = recorded[Today] + amount
      /\ \A d \in Days : recorded[d] <= recorded'[d]
      /\ \A d \in Days : d > Today => recorded'[d] = 0
  <2>1. recorded' \in [Days -> Nat] /\ recorded'[Today] = recorded[Today] + amount
        /\ \A d \in Days \ {Today} : recorded'[d] = recorded[d]
    BY <1>2, <1>4
  <2>2. \A d \in Days : d > Today => d # Today
    BY <1>2
  <2> QED BY <1>2, <2>1, <2>2 DEF IInv
<1>6. /\ counted.day <= Today' /\ counted.amount <= recorded'[counted.day]
      /\ lapses = 0 => /\ counted.amount = recorded'[counted.day]
                          /\ \A d \in Days : d > counted.day => recorded'[d] = 0
  <2>1. Fresh.amount <= recorded[Today] /\ (lapses = 0 => Fresh.amount = recorded[Today])
    BY <1>1 DEF NotMore, Agrees
  <2>2. Today \in Nat /\ recorded[Today] \in Nat
    BY <1>2
  <2> QED BY <1>1, <1>2, <1>3, <1>5, <2>1, <2>2
<1>7. \/ /\ stored' = [spent |-> counted, connected |-> connected] /\ SpentRestored' = counted /\ unsaved' = FALSE
      \/ /\ stored' = stored /\ SpentRestored' = SpentRestored
         /\ unsaved' = (unsaved \/ counted # spent)
  BY <1>4, Persisted
<1>8. TypeOK'
  <2>1. unsaved' \in BOOLEAN /\ lapses' \in Nat
    BY <1>2, <1>4, <1>7
  <2>2. stored' \in [spent: Spent, connected: BOOLEAN] \cup {Nothing}
    BY <1>3, <1>7 DEF IInv, TypeOK
  <2> QED BY <1>4, <1>5, <2>1, <2>2 DEF IInv, TypeOK, PayOK
<1>9. NotMore(SpentRestored)'
  <2>1. CASE SpentRestored' = counted
    BY <1>6, <2>1 DEF NotMore
  <2>2. CASE SpentRestored' = SpentRestored
    <3>1. SpentRestored.day \in Days /\ SpentRestored.amount \in Nat
      BY <1>2 DEF Spent
    <3>2. /\ recorded[SpentRestored.day] \in Nat /\ recorded'[SpentRestored.day] \in Nat
          /\ recorded[SpentRestored.day] <= recorded'[SpentRestored.day]
      BY <1>2, <1>5, <3>1
    <3> QED BY <1>2, <2>2, <3>1, <3>2 DEF IInv, NotMore
  <2> QED BY <1>7, <2>1, <2>2
<1>10. ASSUME lapses = 0, ~unsaved' PROVE Agrees(SpentRestored)'
  <2>1. CASE SpentRestored' = counted
    BY <1>6, <1>10, <2>1 DEF Agrees
  <2>2. CASE SpentRestored' = SpentRestored /\ ~unsaved /\ counted = spent
    <3>1. spent.day = Today /\ Fresh = spent /\ amount = 0
      <4>1. spent.day = Today
        BY <1>3, <2>2
      <4>2. Fresh = spent
        BY <1>2, <4>1 DEF Fresh
      <4>3. counted.amount = Fresh.amount
        BY <2>2, <4>2
      <4> QED BY <1>1, <1>3, <4>1, <4>2, <4>3
    <3>2. recorded' = recorded
      BY <1>2, <1>4, <3>1
    <3> QED BY <1>10, <2>2, <3>2 DEF IInv, Agrees
  <2> QED BY <1>2, <1>7, <1>10, <2>1, <2>2
<1>11. NotMore(spent)' /\ (lapses' = 0 => Agrees(spent)' /\ (~unsaved' => Agrees(SpentRestored)'))
  BY <1>4, <1>6, <1>10 DEF NotMore, Agrees
<1> QED BY <1>2, <1>5, <1>8, <1>9, <1>11 DEF IInv

\* Steps that record nothing and either keep the counter or reset it.
LEMMA QuietKeeps ==
  ASSUME SpendAssumption, IInv, spent' \in {spent, Fresh}, PayOK',
         UNCHANGED <<now, policy, sessionExpiry, connected, stored, recorded, losses>>,
         settled' \in [Days -> Nat]
  PROVE  IInv'
<1>1. spent' \in Spent /\ NotMore(spent') /\ (lapses = 0 => Agrees(spent'))
  BY FreshAgrees DEF IInv, TypeOK
<1>2. TypeOK'
  BY <1>1 DEF IInv, TypeOK, PayOK, losses
<1>3. Today' = Today /\ SpentRestored' = SpentRestored /\ unsaved' = unsaved /\ lapses' = lapses
  BY DEF Today, SpentRestored, losses
<1> QED BY <1>1, <1>2, <1>3 DEF IInv, Agrees, NotMore

\* A payment that is under way has a requirement with a natural amount.
LEMMA NewIsActive ==
  ASSUME NEW kind \in {"x402", "demo", "direct"},
         NEW stage \in {"fetching", "approving", "signing", "sending"},
         NEW req \in Requirement \cup {Nothing}
  PROVE  New(kind, stage, req) \in Active
BY DEF New, Active

\* Creating a payment leaves it signing or done.
LEMMA CreateType ==
  ASSUME NEW payment \in Active
  PROVE  CreatePayment(payment) \in Active \cup {Idle("new"), Idle("done")}
BY DEF CreatePayment, Active

\* What becomes of a payment whose requirements are known.
LEMMA ConsiderKeeps ==
  ASSUME SpendAssumption, IInv, NEW p \in Payments, NEW payment \in Active,
         Consider(p, payment)
  PROVE  spent' \in {spent, Fresh} /\ PayOK'
<1>1. spent' \in {spent, Fresh}
  BY DEF Consider, SpentAfterValidate
<1>2. [payment EXCEPT !.stage = "approving"] \in Active
  BY DEF Active
<1>3. CreatePayment(payment) \in Active \cup {Idle("new"), Idle("done")}
  BY CreateType
<1> QED BY <1>1, <1>2, <1>3 DEF Consider, IInv, TypeOK, PayOK
-----------------------------------------------------------------------------
\* The requirements that servers choose from are requirements.
LEMMA RequirementType ==
  ASSUME SpendAssumption, NEW req \in Requirements
  PROVE  /\ req \in Requirement /\ req.to \in Recipients /\ req.amount \in Nat
BY DEF SpendAssumption, Requirement

\* The invariant holds at the start.
LEMMA InitInv == ASSUME SpendAssumption, Init PROVE IInv
<1>1. 0 \in Days
  <2>1. 0 \div DayLength = 0
    BY DEF SpendAssumption
  <2> QED BY <2>1, DayOf DEF Days, SpendAssumption
<1>2. TypeOK
  <2>1. now \in 0 .. MaxTime /\ policy \in Policies /\ sessionExpiry \in Nat
    BY SMT DEF Init, SpendAssumption
  <2>4. connected \in BOOLEAN /\ stored = Nothing /\ unsaved \in BOOLEAN /\ lapses \in Nat
    BY DEF Init
  <2>2. spent \in Spent /\ recorded \in [Days -> Nat] /\ settled \in [Days -> Nat]
    BY <1>1 DEF Init, Spent
  <2>3. pay \in [Payments -> Active \cup {Idle("new"), Idle("done")}]
    BY DEF Init
  <2> QED BY <2>1, <2>2, <2>3, <2>4 DEF TypeOK
<1>3. Today = 0 /\ Days \subseteq Nat
  BY DEF Init, Today, Days, SpendAssumption
<1>4. spent = [amount |-> 0, day |-> 0] /\ SpentRestored = spent /\ \A d \in Days : recorded[d] = 0
  BY <1>3 DEF Init, SpentRestored
<1> QED BY <1>1, <1>2, <1>3, <1>4 DEF IInv, Agrees, NotMore

\* Steps of payments keep the invariant.
LEMMA PaymentInv ==
  ASSUME SpendAssumption, IInv, NEW p \in Payments, PaymentStep(p)
  PROVE  IInv'
<1> USE DEF PayOK, losses
<1>1. settled \in [Days -> Nat] /\ PayOK /\ Idle("done") \in {Idle("new"), Idle("done")}
  BY DEF IInv, TypeOK
<1>2. CASE Fetch(p)
  <2>1. New("x402", "fetching", Nothing) \in Active
    BY NewIsActive
  <2> QED BY <1>1, <1>2, <2>1, QuietKeeps DEF Fetch
<1>3. ASSUME NEW req \in Requirements, PaymentRequired(p, req) PROVE IInv'
  <2>1. New("x402", "fetching", req) \in Active
    BY RequirementType, NewIsActive
  <2>2. spent' \in {spent, Fresh} /\ PayOK'
    BY <1>3, <2>1, ConsiderKeeps DEF PaymentRequired
  <2> QED BY <1>1, <1>3, <2>2, QuietKeeps DEF PaymentRequired, NoRecord
<1>4. ASSUME NEW req \in Requirements, FetchDemo(p, req) PROVE IInv'
  <2>1. New("demo", "fetching", req) \in Active
    BY RequirementType, NewIsActive
  <2>2. spent' \in {spent, Fresh} /\ PayOK'
    BY <1>4, <2>1, ConsiderKeeps DEF FetchDemo
  <2> QED BY <1>1, <1>4, <2>2, QuietKeeps DEF FetchDemo, NoRecord
<1>5. ASSUME NEW req \in Requirements, PayDirect(p, req.to, req.amount) PROVE IInv'
  <2>1. now \in Nat
    BY DEF IInv, TypeOK, SpendAssumption
  <2>2. [to |-> req.to, amount |-> req.amount, native |-> TRUE, expiry |-> now] \in Requirement
    BY <2>1, RequirementType DEF Requirement
  <2>3. New("direct", "sending", [to |-> req.to, amount |-> req.amount,
                                  native |-> TRUE, expiry |-> now]) \in Active
    BY <2>2, NewIsActive
  <2>4. spent' \in {spent, Fresh} /\ PayOK'
    BY <1>1, <1>5, <2>3 DEF PayDirect, SpentAfterValidate
  <2> QED BY <1>1, <1>5, <2>4, QuietKeeps DEF PayDirect, NoRecord
<1>6. ASSUME NEW req \in Requirements, NEW escrow \in BOOLEAN,
             PayAtOnce(p, req.to, req.amount, escrow)
      PROVE  IInv'
  <2>1. PayOK' /\ req.amount \in Nat
    BY <1>1, <1>6, RequirementType DEF PayAtOnce
  <2> QED BY <1>6, <2>1, RecordKeeps DEF PayAtOnce
<1>7. CASE Approve(p)
  <2>1. [pay[p] EXCEPT !.approved = TRUE] \in Active
    BY <1>7 DEF Approve, Active
  <2>2. CreatePayment([pay[p] EXCEPT !.approved = TRUE]) \in Active \cup {Idle("new"), Idle("done")}
    BY <2>1, CreateType
  <2>3. spent' \in {spent, Fresh} /\ PayOK'
    BY <1>1, <1>7, <2>2 DEF Approve, SpentAfterValidate
  <2> QED BY <1>1, <1>7, <2>3, QuietKeeps DEF Approve, NoRecord
<1>8. CASE Signed(p)
  <2>1. pay[p] \in Active /\ [pay[p] EXCEPT !.stage = "sending"] \in Active
    BY <1>8 DEF Signed, Active
  <2>2. PayOK'
    BY <1>1, <1>8, <2>1 DEF Signed
  <2>3. CASE pay[p].kind = "demo"
    <3>1. pay[p].req.amount \in Nat
      BY <2>1 DEF Active, Requirement, Nothing
    <3> QED BY <1>8, <2>2, <2>3, <3>1, RecordKeeps DEF Signed
  <2>4. CASE pay[p].kind # "demo"
    BY <1>1, <1>8, <2>2, <2>4, QuietKeeps DEF Signed, NoRecord
  <2> QED BY <2>3, <2>4
<1>9. CASE Abort(p)
  <2>1. [pay[p] EXCEPT !.aborted = TRUE] \in Active
    BY <1>9 DEF Abort, Active
  <2>2. PayOK'
    BY <1>1, <1>9, <2>1 DEF Abort
  <2> QED BY <1>1, <1>9, <2>2, QuietKeeps DEF Abort
<1>10. CASE Settle(p)
  <2>11. pay[p] \in Active
    BY <1>10 DEF Settle, Sending
  <2>12. [pay[p] EXCEPT !.out = TRUE] \in Active
    BY <2>11 DEF Active
  <2>13. pay[p].req.amount \in Nat
    BY <2>11 DEF Active, Requirement, Nothing
  <2>1. pay[p] \in Active /\ [pay[p] EXCEPT !.out = TRUE] \in Active /\ pay[p].req.amount \in Nat
    BY <2>11, <2>12, <2>13
  <2>2. Today \in Days
    BY TodayIsDay DEF IInv
  <2>3. PayOK' /\ settled' \in [Days -> Nat]
    BY <1>1, <1>10, <2>1, <2>2 DEF Settle
  <2> QED BY <1>10, <2>3, QuietKeeps DEF Settle
<1>11. CASE Succeed(p)
  <2>1. pay[p].req.amount \in Nat /\ PayOK'
    BY <1>1, <1>11 DEF Succeed, Sending, Active, Requirement, Nothing
  <2> QED BY <1>11, <2>1, RecordKeeps DEF Succeed
<1>12. CASE Fail(p)
  <2>1. PayOK'
    BY <1>1, <1>12 DEF Fail
  <2> QED BY <1>1, <1>12, <2>1, QuietKeeps DEF Fail
<1> QED BY <1>2, <1>3, <1>4, <1>5, <1>6, <1>7, <1>8, <1>9, <1>10, <1>11, <1>12 DEF PaymentStep

\* Steps that save the counter as it is.
LEMMA StoreKeeps ==
  ASSUME SpendAssumption, IInv, UNCHANGED <<now, spent, pay, recorded, settled, lapses>>,
         policy' \in Policies, sessionExpiry' \in Nat, connected' \in BOOLEAN,
         PersistWallet([spent |-> spent, connected |-> connected'])
  PROVE  IInv'
<1>1. \/ /\ stored' = [spent |-> spent, connected |-> connected'] /\ SpentRestored' = spent /\ unsaved' = FALSE
      \/ /\ stored' = stored /\ SpentRestored' = SpentRestored /\ unsaved' = (unsaved \/ spent # spent)
  BY Persisted
<1>2. TypeOK'
  <2>1. unsaved' \in BOOLEAN /\ lapses' \in Nat /\ spent \in Spent
    BY <1>1 DEF IInv, TypeOK
  <2>2. stored' \in [spent: Spent, connected: BOOLEAN] \cup {Nothing}
    BY <1>1, <2>1 DEF IInv, TypeOK
  <2> QED BY <2>1, <2>2 DEF IInv, TypeOK
<1>3. Today' = Today
  BY DEF Today
<1> QED BY <1>1, <1>2, <1>3 DEF IInv, Agrees, NotMore

\* Clearing leaves a counter to restart with that is right if nothing was spent today.
LEMMA ClearInv == ASSUME SpendAssumption, IInv, ClearPersistedState PROVE IInv'
<1>1. /\ Today \in Days /\ Days \subseteq Nat /\ recorded \in [Days -> Nat] /\ Today' = Today
      /\ unsaved \in BOOLEAN
  BY CounterTypes DEF IInv, Today, ClearPersistedState
<1>2. SpentRestored' = [amount |-> 0, day |-> Today]
  BY <1>1 DEF ClearPersistedState, SpentRestored
<1>3. TypeOK'
  BY <1>1 DEF ClearPersistedState, IInv, TypeOK
<1>4. ASSUME lapses = 0, ~unsaved' PROVE Agrees([amount |-> 0, day |-> Today])
  <2>1. Fresh.amount \in Nat /\ Fresh.day = Today /\ Agrees(Fresh)
    BY <1>4, FreshAgrees DEF Spent
  <2>2. ~(Fresh.amount > 0)
    BY <1>4 DEF ClearPersistedState
  <2> QED BY <2>1, <2>2 DEF Agrees
<1>5. NotMore([amount |-> 0, day |-> Today])
  BY <1>1 DEF NotMore
<1>6. UNCHANGED <<spent, recorded, lapses>>
  BY DEF ClearPersistedState
<1> QED BY <1>1, <1>2, <1>3, <1>4, <1>5, <1>6 DEF IInv, Agrees, NotMore

\* A reload takes back a counter that is right, or starts one.
LEMMA ReloadInv == ASSUME SpendAssumption, IInv, Reload PROVE IInv'
<1>1. /\ SpentRestored \in Spent /\ unsaved \in BOOLEAN /\ lapses \in Nat
  BY CounterTypes DEF IInv
<1>2. /\ Today' = Today /\ spent' = SpentRestored /\ SpentRestored' = SpentRestored
      /\ unsaved' = FALSE /\ lapses' \in Nat /\ (lapses' = 0 => lapses = 0 /\ ~unsaved)
      /\ UNCHANGED <<now, stored, recorded, settled>>
  BY <1>1 DEF Reload, Today, SpentRestored
<1>3. policy' \in Policies /\ sessionExpiry' \in Nat /\ connected' \in BOOLEAN
  <2>1. stored # Nothing => stored.connected \in BOOLEAN
    BY DEF IInv, TypeOK
  <2> QED BY <2>1 DEF Reload, IInv, TypeOK, SpendAssumption
<1>4. PayOK'
  BY DEF Reload, IInv, TypeOK, PayOK
<1>5. TypeOK'
  BY <1>1, <1>2, <1>3, <1>4 DEF IInv, TypeOK, PayOK
<1> QED BY <1>2, <1>5 DEF IInv, Agrees, NotMore

\* When time passes nothing is recorded, and a counter to restart with is of the new day.
LEMMA TickInv == ASSUME SpendAssumption, IInv, Tick PROVE IInv'
<1>1. /\ Today \in Days /\ Days \subseteq Nat /\ recorded \in [Days -> Nat]
      /\ spent.day \in Nat /\ SpentRestored.day \in Nat
  BY CounterTypes DEF IInv, Spent
<1>2. TypeOK' /\ UNCHANGED <<spent, stored, recorded, losses>>
  BY DEF Tick, IInv, TypeOK, SpendAssumption, losses
<1>3. Today' \in Days /\ Today <= Today'
  <2>1. now \in Nat /\ now' = now + 1 /\ DayLength \in Nat \ {0}
    BY DEF Tick, IInv, TypeOK, SpendAssumption
  <2>2. now \div DayLength <= (now + 1) \div DayLength
    BY <2>1
  <2>3. now + 1 \in Nat /\ now + 1 <= MaxTime /\ MaxTime \in Nat
    BY <2>1 DEF Tick, SpendAssumption
  <2>4. (now + 1) \div DayLength \in 0 .. MaxTime \div DayLength
    BY <2>1, <2>3, DayOf
  <2>5. Today = now \div DayLength /\ Today' = (now + 1) \div DayLength
    BY <2>1 DEF Today
  <2> QED BY <2>2, <2>4, <2>5 DEF Days
<1>4. \A d \in Days : d > Today' => recorded[d] = 0
  BY <1>1, <1>3 DEF IInv
<1>5. NotMore(SpentRestored)' /\ (Agrees(SpentRestored) => Agrees(SpentRestored)')
  <2>1. CASE stored # Nothing
    <3>1. SpentRestored' = SpentRestored
      BY <1>2, <2>1 DEF SpentRestored
    <3> QED BY <1>1, <1>2, <1>3, <3>1 DEF IInv, NotMore, Agrees
  <2>2. CASE stored = Nothing
    <3>1. SpentRestored = [amount |-> 0, day |-> Today] /\ SpentRestored' = [amount |-> 0, day |-> Today']
      BY <1>2, <2>2 DEF SpentRestored
    <3>2. recorded[Today'] \in Nat /\ (Today' # Today => recorded[Today'] = 0)
      BY <1>1, <1>3 DEF IInv
    <3> QED BY <1>1, <1>2, <1>3, <1>4, <3>1, <3>2 DEF NotMore, Agrees
  <2> QED BY <2>1, <2>2
<1>6. NotMore(spent)' /\ (Agrees(spent) => Agrees(spent)')
  BY <1>1, <1>2, <1>3 DEF IInv, NotMore, Agrees
<1> QED BY <1>2, <1>4, <1>5, <1>6 DEF IInv, losses

\* Every step keeps the invariant.
LEMMA NextInv == ASSUME SpendAssumption, IInv, [Next]_vars PROVE IInv'
<1>1. /\ now \in Nat /\ policy \in Policies /\ sessionExpiry \in Nat /\ connected \in BOOLEAN
      /\ settled \in [Days -> Nat] /\ PayOK /\ now + SessionDuration \in Nat
  BY DEF IInv, TypeOK, PayOK, SpendAssumption
<1>2. ASSUME NEW p \in Payments, PaymentStep(p) PROVE IInv'
  BY <1>2, PaymentInv
<1>3. ASSUME NEW new \in Policies, UpdatePolicy(new) PROVE IInv'
  BY <1>1, <1>3, StoreKeeps DEF UpdatePolicy, Snapshot
<1>4. ASSUME NEW on \in BOOLEAN, SetConnected(on) PROVE IInv'
  <2>1. PersistWallet([spent |-> spent, connected |-> connected'])
    BY <1>4 DEF SetConnected, Snapshot
  <2> QED BY <1>1, <1>4, <2>1, StoreKeeps DEF SetConnected
<1>5. CASE ExtendSession
  BY <1>1, <1>5, StoreKeeps DEF ExtendSession, Snapshot
<1>6. CASE GetDailySpent
  BY <1>1, <1>6, QuietKeeps DEF GetDailySpent, PayOK
<1>7. CASE UNCHANGED vars
  BY <1>1, <1>7, QuietKeeps DEF vars, PayOK
<1> QED BY <1>2, <1>3, <1>4, <1>5, <1>6, <1>7, ClearInv, ReloadInv, TickInv DEF Next

\* The invariant holds of every behaviour.
THEOREM Invariant == Spec => []IInv
<1>1. Init => IInv
  BY InitInv, SpendAssumption
<1>2. IInv /\ [Next]_vars => IInv'
  BY NextInv, SpendAssumption
<1> QED BY <1>1, <1>2, PTL DEF Spec

\* The wallet and its payments are well typed.
THEOREM TypeCorrect == Spec => []TypeOK
<1>1. IInv => TypeOK
  BY DEF IInv
<1> QED BY <1>1, Invariant, PTL

\* The counter of the enforcer never says more than was recorded on its day, and all of
\* it until a page starts without the counter of its day, which takes a save that was
\* refused or a state that was cleared: across days, reloads and payments that overlap
\* (recordTransaction, maybeResetDaily, persistState, restoreState).
THEOREM CounterExact == Spec => []DailySpentIsRecorded
<1>1. IInv => DailySpentIsRecorded
  BY DEF IInv, Agrees, NotMore, DailySpentIsRecorded
<1> QED BY <1>1, Invariant, PTL
-----------------------------------------------------------------------------
\* What a step promises of the payments it brings to signing.
SigningStep ==
  \A p \in Payments :
    pay'[p].stage = "signing" /\ pay[p].stage # "signing" =>
      Allowed(pay'[p].req.to, Charge(pay'[p].req))

\* A step that changes one payment promises it if that payment is not brought
\* to signing, or is allowed.
LEMMA OnePayment ==
  ASSUME PayOK, NEW p \in Payments, NEW value,
         value.stage = "signing" =>
           pay[p].stage = "signing" \/ Allowed(value.req.to, Charge(value.req)),
         pay' = [pay EXCEPT ![p] = value]
  PROVE  SigningStep
<1> SUFFICES ASSUME NEW q \in Payments, pay'[q].stage = "signing", pay[q].stage # "signing"
             PROVE  Allowed(pay'[q].req.to, Charge(pay'[q].req))
  BY DEF SigningStep
<1>1. CASE q = p
  <2>1. pay'[q] = value
    BY <1>1 DEF PayOK
  <2> QED BY <1>1, <2>1
<1>2. CASE q # p
  BY <1>2 DEF PayOK
<1> QED BY <1>1, <1>2

\* What createPayment leaves signing is allowed.
LEMMA CreatedIsAllowed ==
  ASSUME NEW payment \in Active, CreatePayment(payment).stage = "signing"
  PROVE  Allowed(CreatePayment(payment).req.to, Charge(CreatePayment(payment).req))
<1>1. MayCreate(payment.req)
  BY DEF CreatePayment, Idle
<1>2. CreatePayment(payment).req = payment.req
  BY <1>1 DEF CreatePayment, Active
<1> QED BY <1>1, <1>2 DEF MayCreate

\* The requirements of a payment lead to signing only if they are allowed.
LEMMA ConsiderSigns ==
  ASSUME PayOK, NEW p \in Payments, NEW payment \in Active, Consider(p, payment)
  PROVE  SigningStep
<1>1. PICK value \in {CreatePayment(payment), [payment EXCEPT !.stage = "approving"], Idle("done")} :
        pay' = [pay EXCEPT ![p] = value]
  BY DEF Consider
<1>2. [payment EXCEPT !.stage = "approving"].stage = "approving" /\ Idle("done").stage = "done"
  BY DEF Active, Idle
<1>3. value.stage = "signing" => Allowed(value.req.to, Charge(value.req))
  BY <1>1, <1>2, CreatedIsAllowed
<1> QED BY <1>1, <1>3, OnePayment

\* Every step keeps the promise.
LEMMA NextSigns == ASSUME SpendAssumption, IInv, [Next]_vars PROVE SigningStep
<1>1. PayOK /\ Idle("done").stage = "done"
  BY DEF IInv, TypeOK, PayOK, Idle
<1>2. ASSUME UNCHANGED pay PROVE SigningStep
  BY <1>2 DEF SigningStep
<1>3. ASSUME NEW p \in Payments, pay' = [pay EXCEPT ![p] = Idle("done")] PROVE SigningStep
  BY <1>1, <1>3, OnePayment
<1>4. ASSUME NEW p \in Payments, PaymentStep(p) PROVE SigningStep
  <2>1. CASE Fetch(p)
    <3>1. New("x402", "fetching", Nothing).stage = "fetching"
      BY DEF New
    <3> QED BY <1>1, <2>1, <3>1, OnePayment DEF Fetch
  <2>2. ASSUME NEW req \in Requirements, PaymentRequired(p, req) \/ FetchDemo(p, req)
        PROVE  SigningStep
    <3>1. New("x402", "fetching", req) \in Active /\ New("demo", "fetching", req) \in Active
      BY RequirementType, NewIsActive
    <3> QED BY <1>1, <2>2, <3>1, ConsiderSigns DEF PaymentRequired, FetchDemo
  <2>3. ASSUME NEW req \in Requirements, PayDirect(p, req.to, req.amount) PROVE SigningStep
    <3>1. \A r : New("direct", "sending", r).stage = "sending"
      BY DEF New
    <3> QED BY <1>1, <1>2, <2>3, <3>1, OnePayment DEF PayDirect
  <2>4. ASSUME NEW req \in Requirements, NEW escrow \in BOOLEAN,
               PayAtOnce(p, req.to, req.amount, escrow)
        PROVE  SigningStep
    BY <1>3, <2>4 DEF PayAtOnce
  <2>5. CASE Approve(p)
    <3>1. [pay[p] EXCEPT !.approved = TRUE] \in Active
      BY <2>5 DEF Approve, Active
    <3> QED BY <1>1, <2>5, <3>1, OnePayment, CreatedIsAllowed DEF Approve
  <2>6. CASE Signed(p)
    <3>1. [pay[p] EXCEPT !.stage = "sending"].stage = "sending"
      BY <2>6 DEF Signed, Active
    <3>2. PICK value \in {Idle("done"), [pay[p] EXCEPT !.stage = "sending"]} :
            pay' = [pay EXCEPT ![p] = value]
      BY <1>1, <2>6 DEF Signed, PayOK
    <3> QED BY <1>1, <3>1, <3>2, OnePayment
  <2>7. CASE Abort(p) \/ Settle(p)
    <3>1. PICK value : pay' = [pay EXCEPT ![p] = value] /\ value.stage = pay[p].stage
      <4>1. CASE Abort(p)
        <5>1. [pay[p] EXCEPT !.aborted = TRUE].stage = pay[p].stage
          BY <4>1 DEF Abort, Active
        <5> QED BY <4>1, <5>1 DEF Abort
      <4>2. CASE Settle(p)
        <5>1. [pay[p] EXCEPT !.out = TRUE].stage = pay[p].stage
          BY <4>2 DEF Settle, Sending, Active
        <5> QED BY <4>2, <5>1 DEF Settle
      <4> QED BY <2>7, <4>1, <4>2
    <3> QED BY <1>1, <3>1, OnePayment
  <2>8. CASE Succeed(p) \/ Fail(p)
    BY <1>3, <2>8 DEF Succeed, Fail
  <2> QED BY <1>4, <2>1, <2>2, <2>3, <2>4, <2>5, <2>6, <2>7, <2>8 DEF PaymentStep
<1>5. CASE Reload
  <2>1. \A p \in Payments : pay'[p] = Idle("done") \/ pay'[p] = pay[p]
    BY <1>5 DEF Reload
  <2> QED BY <1>1, <2>1 DEF SigningStep
<1>6. ASSUME NEW new \in Policies, UpdatePolicy(new) PROVE SigningStep
  BY <1>2, <1>6 DEF UpdatePolicy
<1>7. ASSUME NEW on \in BOOLEAN, SetConnected(on) PROVE SigningStep
  BY <1>2, <1>7 DEF SetConnected
<1>8. CASE ExtendSession \/ GetDailySpent \/ ClearPersistedState \/ Tick \/ UNCHANGED vars
  BY <1>2, <1>8 DEF ExtendSession, GetDailySpent, ClearPersistedState, Tick, vars
<1> QED BY <1>4, <1>5, <1>6, <1>7, <1>8 DEF Next

\* No signature is asked for that the guardrails of that moment refuse, whatever
\* happened while the client waited for the server or for approval (createPayment).
THEOREM Guarded == Spec => SigningIsAllowed
<1>1. IInv /\ [Next]_vars => [SigningStep]_vars
  BY NextSigns, SpendAssumption
<1> QED BY <1>1, Invariant, PTL DEF Spec, SigningIsAllowed, SigningStep

-----------------------------------------------------------------------------
(* Payments that overlap *)

\* What was checked before it is counted: when `counted` is the count of a day and S are
\* those that are allowed and not yet counted, each of at most `most`, there is room
\* for all of them below `limit` and one payment for each other of `many`, if one of
\* them is counted in full.
HasRoom(counted, S, charge, limit, most, many) ==
  IF S = {} THEN counted <= limit + (many - 1) * most
  ELSE \E s \in S :
         counted + charge[s] + (Cardinality(S) - 1) * most <= limit + (many - 1) * most

\* Lemma: multiplication is monotone.
LEMMA Times ==
  ASSUME NEW a \in Int, NEW b \in Int, NEW m \in Nat, a <= b
  PROVE  a * m \in Int /\ b * m \in Int /\ a * m <= b * m /\ (a + 1) * m = a * m + m
<1>1. (b - a) * m = b * m - a * m
  BY SMT
<1>2. \A x, y \in Nat : x * y >= 0
  BY SMT
<1>3. (b - a) * m >= 0
  BY <1>2
<1> QED BY <1>1, <1>3

\* Lemma: one payment less needs room for one less.
LEMMA Fewer ==
  ASSUME NEW most \in Nat
  PROVE  \A k, n \in Nat : k < n => /\ (k - 1) * most + most <= (n - 1) * most /\ (k - 1) * most + most = k * most
                                   /\ (k - 1) * most \in Int /\ k * most \in Int /\ (n - 1) * most \in Int
<1> SUFFICES ASSUME NEW k \in Nat, NEW n \in Nat, k < n
             PROVE  /\ (k - 1) * most + most <= (n - 1) * most /\ (k - 1) * most + most = k * most
                    /\ (k - 1) * most \in Int /\ k * most \in Int /\ (n - 1) * most \in Int
  OBVIOUS
<1>1. k - 1 \in Int /\ k \in Int /\ n - 1 \in Int /\ k <= n - 1 /\ k - 1 <= k /\ (k - 1) + 1 = k
  OBVIOUS
<1>2. k * most \in Int /\ (n - 1) * most \in Int /\ k * most <= (n - 1) * most
  BY <1>1, Times
<1>3. ((k - 1) + 1) * most = (k - 1) * most + most /\ (k - 1) * most \in Int
  BY <1>1, Times
<1> QED BY <1>1, <1>2, <1>3

\* Charges of at most `most`.
Charged(S, charge, most) ==
  IsFiniteSet(S) /\ \A s \in S : charge[s] \in Nat /\ charge[s] <= most

\* Lemma: who have room are within the bound.
LEMMA RoomBounds ==
  ASSUME NEW S, NEW charge, NEW counted \in Nat, NEW limit \in Nat, NEW most \in Nat, NEW many \in Nat \ {0},
         Charged(S, charge, most), HasRoom(counted, S, charge, limit, most, many)
  PROVE  counted <= limit + (many - 1) * most
<1>1. CASE S = {}
  BY <1>1 DEF HasRoom
<1>2. CASE S # {}
  <2>1. PICK s \in S : counted + charge[s] + (Cardinality(S) - 1) * most <= limit + (many - 1) * most
    BY <1>2 DEF HasRoom
  <2>2. Cardinality(S) \in Nat /\ Cardinality(S) # 0
    BY <1>2, FS_EmptySet, FS_CardinalityType DEF Charged
  <2>3. 0 <= Cardinality(S) - 1 /\ Cardinality(S) - 1 \in Int
    BY <2>2
  <2> DEFINE n == Cardinality(S) - 1
  <2>4. 0 * most <= n * most /\ 0 * most = 0 /\ n * most \in Int
    <3> HIDE DEF n
    <3>1. n \in Int /\ 0 <= n
      BY <2>3 DEF n
    <3> QED BY <3>1, Times
  <2>5. (many - 1) * most \in Int
    BY Times
  <2>6. charge[s] \in Nat
    BY DEF Charged
  <2> QED BY <2>1, <2>4, <2>5, <2>6
<1> QED BY <1>1, <1>2

\* Lemma: who are some of those that have room have it.
LEMMA RoomShrinks ==
  ASSUME NEW S, NEW charge, NEW counted \in Nat, NEW limit \in Nat, NEW most \in Nat, NEW many \in Nat \ {0},
         Charged(S, charge, most), HasRoom(counted, S, charge, limit, most, many), NEW T \in SUBSET S
  PROVE  HasRoom(counted, T, charge, limit, most, many)
<1>1. CASE T = {}
  BY <1>1, RoomBounds DEF HasRoom
<1>2. CASE T = S
  BY <1>2
<1>3. CASE T # {} /\ T # S
  <2>1. PICK s \in S : counted + charge[s] + (Cardinality(S) - 1) * most <= limit + (many - 1) * most
    BY <1>3 DEF HasRoom
  <2>2. PICK t \in T : TRUE
    BY <1>3
  <2>3. /\ Cardinality(S) \in Nat /\ Cardinality(T) \in Nat /\ Cardinality(T) < Cardinality(S)
        /\ charge[s] \in Nat /\ charge[t] \in Nat /\ charge[t] <= most
    BY <1>3, FS_Subset, FS_CardinalityType DEF Charged
  <2>4. /\ (Cardinality(T) - 1) * most + most <= (Cardinality(S) - 1) * most
        /\ (Cardinality(T) - 1) * most \in Int /\ (Cardinality(S) - 1) * most \in Int
    BY <2>3, Fewer
  <2>5. (many - 1) * most \in Int
    BY Times
  <2>6. counted + charge[t] + (Cardinality(T) - 1) * most <= limit + (many - 1) * most
    BY <2>1, <2>3, <2>4, <2>5
  <2> QED BY <1>3, <2>6 DEF HasRoom
<1> QED BY <1>1, <1>2, <1>3

\* Lemma: one of those that have room is counted.
LEMMA RoomCounted ==
  ASSUME NEW S, NEW charge, NEW counted \in Nat, NEW limit \in Nat, NEW most \in Nat, NEW many \in Nat \ {0},
         Charged(S, charge, most), HasRoom(counted, S, charge, limit, most, many), NEW p \in S
  PROVE  HasRoom(counted + charge[p], S \ {p}, charge, limit, most, many)
<1>1. PICK s \in S : counted + charge[s] + (Cardinality(S) - 1) * most <= limit + (many - 1) * most
  BY DEF HasRoom
<1>2. /\ Cardinality(S) \in Nat /\ Cardinality(S \ {p}) \in Nat /\ Cardinality(S \ {p}) = Cardinality(S) - 1
  BY FS_RemoveElement, FS_CardinalityType DEF Charged
<1>3. /\ (Cardinality(S \ {p}) - 1) * most + most <= (Cardinality(S) - 1) * most
      /\ (Cardinality(S \ {p}) - 1) * most \in Int /\ (Cardinality(S) - 1) * most \in Int
  BY <1>2, Fewer
<1>4. (many - 1) * most \in Int
  BY Times
<1>5. \A t \in S : charge[t] \in Nat /\ charge[t] <= most
  BY DEF Charged
<1>6. CASE S \ {p} = {}
  <2>1. Cardinality(S \ {p}) = 0 /\ Cardinality(S) - 1 = 0
    BY <1>2, <1>6, FS_EmptySet
  <2>2. s = p /\ (Cardinality(S) - 1) * most = 0
    BY <1>6, <2>1
  <2> QED BY <1>1, <1>5, <1>6, <2>2 DEF HasRoom
<1>7. CASE S \ {p} # {} /\ s = p
  <2>1. PICK t \in S \ {p} : TRUE
    BY <1>7
  <2>2. counted + charge[p] + charge[t] + (Cardinality(S \ {p}) - 1) * most <= limit + (many - 1) * most
    BY <1>1, <1>3, <1>4, <1>5, <1>7
  <2> QED BY <1>7, <2>2 DEF HasRoom
<1>8. CASE s # p
  <2>1. counted + charge[p] + charge[s] + (Cardinality(S \ {p}) - 1) * most <= limit + (many - 1) * most
    BY <1>1, <1>3, <1>4, <1>5
  <2> QED BY <1>8, <2>1 DEF HasRoom
<1> QED BY <1>6, <1>7, <1>8

\* Lemma: those that go on beside fewer than `many` have room when the count is within
\* the limit.
LEMMA RoomAllowed ==
  ASSUME NEW S, NEW charge, NEW counted \in Nat, NEW limit \in Nat, NEW most \in Nat, NEW many \in Nat \ {0},
         Charged(S, charge, most), counted <= limit, Cardinality(S) < many
  PROVE  HasRoom(counted, S, charge, limit, most, many)
<1>1. Cardinality(S) \in Nat
  BY FS_CardinalityType DEF Charged
<1>2. /\ (Cardinality(S) - 1) * most + most <= (many - 1) * most
      /\ (Cardinality(S) - 1) * most \in Int /\ (many - 1) * most \in Int
  BY <1>1, Fewer
<1>3. 0 * most <= (many - 1) * most /\ 0 * most = 0
  <2>1. 0 \in Int /\ many - 1 \in Int /\ 0 <= many - 1
    OBVIOUS
  <2> QED BY <2>1, Times
<1>4. \A t \in S : counted + charge[t] + (Cardinality(S) - 1) * most <= limit + (many - 1) * most
  BY <1>2 DEF Charged
<1> QED BY <1>2, <1>3, <1>4 DEF HasRoom

\* Lemma: one that is allowed joins fewer than `many`, and all have room.
LEMMA RoomJoins ==
  ASSUME NEW S, NEW charge, NEW counted \in Nat, NEW limit \in Nat, NEW most \in Nat, NEW many \in Nat \ {0},
         IsFiniteSet(S), NEW p, p \notin S, charge[p] \in Nat, counted + charge[p] <= limit, Cardinality(S) < many
  PROVE  HasRoom(counted, S \cup {p}, charge, limit, most, many)
<1>1. Cardinality(S) \in Nat /\ Cardinality(S \cup {p}) = Cardinality(S) + 1
  BY FS_CardinalityType, FS_AddElement
<1>2. Cardinality(S) * most \in Int /\ (many - 1) * most \in Int /\ Cardinality(S) * most <= (many - 1) * most
  BY <1>1, Fewer
<1>3. Cardinality(S \cup {p}) - 1 = Cardinality(S)
  BY <1>1
<1>4. counted + charge[p] + (Cardinality(S \cup {p}) - 1) * most <= limit + (many - 1) * most
  BY <1>2, <1>3
<1> QED BY <1>4 DEF HasRoom

\* Lemma: when a day begins, all that were allowed before have room.
LEMMA RoomNewDay ==
  ASSUME NEW S, NEW charge, NEW limit \in Nat, NEW most \in Nat, NEW many \in Nat \ {0},
         Charged(S, charge, most), \A s \in S : charge[s] <= limit, Cardinality(S) <= many
  PROVE  HasRoom(0, S, charge, limit, most, many)
<1>1. CASE S = {}
  <2>1. Cardinality(S) = 0
    BY <1>1, FS_EmptySet
  <2> QED BY <1>1, <2>1, RoomAllowed
<1>2. CASE S # {}
  <2>1. PICK s \in S : TRUE
    BY <1>2
  <2>2. Cardinality(S) \in Nat /\ Cardinality(S) # 0
    BY <1>2, FS_EmptySet, FS_CardinalityType DEF Charged
  <2>3. /\ Cardinality(S) - 1 \in Int /\ many - 1 \in Int /\ Cardinality(S) - 1 <= many - 1
    BY <2>2
  <2>4. /\ (Cardinality(S) - 1) * most \in Int /\ (many - 1) * most \in Int
        /\ (Cardinality(S) - 1) * most <= (many - 1) * most
    BY <2>3, Times
  <2>5. 0 + charge[s] + (Cardinality(S) - 1) * most <= limit + (many - 1) * most
    BY <2>4 DEF Charged
  <2> QED BY <1>2, <2>5 DEF HasRoom
<1> QED BY <1>1, <1>2

\* Lemma: the charges of others do not matter.
LEMMA RoomSame ==
  ASSUME NEW S, NEW charge, NEW other, \A s \in S : charge[s] = other[s], NEW counted, NEW limit, NEW most, NEW many,
         HasRoom(counted, S, charge, limit, most, many)
  PROVE  HasRoom(counted, S, other, limit, most, many)
BY DEF HasRoom

-----------------------------------------------------------------------------
(* The bound on a day *)

\* Payments that will be counted without being checked again.
IsCommitted(payment) == payment \in Active /\ payment.stage \in {"signing", "sending"}
Committed == {p \in Payments : IsCommitted(pay[p])}
Charges == [p \in Payments |-> pay[p].req.amount]

MostPerDay == ConfigPolicy.maxPerDay
MostPerTransaction == ConfigPolicy.maxPerTransaction

\* The policies differ in whom they refuse; what servers ask for is not a token.
SameLimits == \A p \in Policies : p.maxPerDay = MostPerDay /\ p.maxPerTransaction = MostPerTransaction
AllNative == \A req \in Requirements : req.native

\* What a counter says was spent today.
Of(count) == IF Today > count.day THEN 0 ELSE count.amount

\* What may be recorded on a day by pages that share one counter.
Bound == MostPerDay + (MaxInFlight - 1) * MostPerTransaction

\* What a payment that is past its request is for.
IsKnown(payment) ==
  payment \in Active /\ payment.stage # "fetching" => payment.req \in Requirement /\ payment.req.native
IsWithin(payment) ==
  IsCommitted(payment) => payment.req.amount <= MostPerTransaction /\ payment.req.amount <= MostPerDay

RoomToday == HasRoom(Of(spent), Committed, Charges, MostPerDay, MostPerTransaction, MaxInFlight)

\* The counter that a reload would take back says no more of today than the one in memory,
\* and as much if it was saved; each page that started without it accounts for one bound.
CountersToday ==
  /\ Of(SpentRestored) <= Of(spent)
  /\ ~unsaved => Of(SpentRestored) = Of(spent)
  /\ recorded[Today] <= Of(spent) + lapses * Bound

OverspendInv ==
  /\ IInv
  /\ Cardinality(InFlight) <= MaxInFlight
  /\ \A p \in Payments : IsKnown(pay[p]) /\ IsWithin(pay[p])
  /\ RoomToday
  /\ CountersToday
  /\ OverspendBounded

\* Lemma: the bound is a number, and one more of it is that much more.
LEMMA Bounds ==
  ASSUME SpendAssumption
  PROVE  /\ Bound \in Nat
         /\ \A n \in Nat : n * Bound \in Nat /\ (n + 1) * Bound \in Nat /\ (n + 1) * Bound = n * Bound + Bound
<1>1. MostPerDay \in Nat /\ MostPerTransaction \in Nat /\ MaxInFlight \in Nat \ {0}
  BY DEF SpendAssumption, MostPerDay, MostPerTransaction, Policy
<1>2. Bound \in Nat
  <2>1. 0 \in Int /\ MaxInFlight - 1 \in Int /\ 0 <= MaxInFlight - 1
    BY <1>1
  <2>2. /\ 0 * MostPerTransaction <= (MaxInFlight - 1) * MostPerTransaction /\ 0 * MostPerTransaction = 0
        /\ (MaxInFlight - 1) * MostPerTransaction \in Int
    BY <1>1, <2>1, Times
  <2> QED BY <1>1, <2>2 DEF Bound
<1>3. ASSUME NEW n \in Nat
      PROVE  n * Bound \in Nat /\ (n + 1) * Bound \in Nat /\ (n + 1) * Bound = n * Bound + Bound
  <2>1. 0 \in Int /\ n \in Int /\ 0 <= n
    OBVIOUS
  <2>2. 0 * Bound <= n * Bound /\ n * Bound \in Int /\ (n + 1) * Bound = n * Bound + Bound /\ 0 * Bound = 0
    BY <1>2, <2>1, Times
  <2> QED BY <1>2, <2>2
<1> QED BY <1>2, <1>3

\* Lemma: the types the proofs need.
LEMMA OverspendTypes ==
  ASSUME SpendAssumption, IInv
  PROVE  /\ MostPerDay \in Nat /\ MostPerTransaction \in Nat /\ MaxInFlight \in Nat \ {0}
         /\ Today \in Days /\ Days \subseteq Nat /\ recorded \in [Days -> Nat]
         /\ Of(spent) \in Nat /\ Of(SpentRestored) \in Nat /\ lapses \in Nat /\ unsaved \in BOOLEAN
         /\ PayOK
         /\ IsFiniteSet(InFlight) /\ Cardinality(InFlight) \in Nat
         /\ Committed \subseteq InFlight /\ IsFiniteSet(Committed) /\ Cardinality(Committed) \in Nat
         /\ Idle("done") \notin Active /\ Idle("new") \notin Active
<1>1. MostPerDay \in Nat /\ MostPerTransaction \in Nat /\ MaxInFlight \in Nat \ {0}
  BY DEF SpendAssumption, MostPerDay, MostPerTransaction, Policy
<1>2. /\ Today \in Days /\ Days \subseteq Nat /\ recorded \in [Days -> Nat]
      /\ Of(spent) \in Nat /\ Of(SpentRestored) \in Nat /\ lapses \in Nat /\ unsaved \in BOOLEAN
  BY CounterTypes DEF IInv, Spent, Of
<1>3. PayOK
  BY DEF IInv, TypeOK, PayOK
<1>4. InFlight \in SUBSET Payments /\ Committed \in SUBSET InFlight
  BY DEF InFlight, Committed, IsCommitted
<1>5. IsFiniteSet(InFlight) /\ IsFiniteSet(Committed)
  BY <1>4, FS_Subset DEF SpendAssumption
<1>6. Idle("done") \notin Active /\ Idle("new") \notin Active
  BY DEF Idle, Active
<1> QED BY <1>1, <1>2, <1>3, <1>4, <1>5, <1>6, FS_CardinalityType

\* Lemma: the charges of those that are committed are amounts up to the limit.
LEMMA CommittedCharged ==
  ASSUME SpendAssumption, OverspendInv
  PROVE  /\ Charged(Committed, Charges, MostPerTransaction)
         /\ \A p \in Committed : Charges[p] <= MostPerDay
<1>1. IsFiniteSet(Committed)
  BY OverspendTypes DEF OverspendInv
<1>2. \A p \in Committed : /\ Charges[p] = pay[p].req.amount /\ IsKnown(pay[p]) /\ IsWithin(pay[p])
                           /\ IsCommitted(pay[p])
  BY DEF Charges, Committed, OverspendInv
<1>3. \A p \in Committed : Charges[p] \in Nat /\ Charges[p] <= MostPerTransaction /\ Charges[p] <= MostPerDay
  BY <1>2 DEF IsKnown, IsWithin, IsCommitted, Requirement
<1> QED BY <1>1, <1>3 DEF Charged

\* Lemma: the counter that a check looks at is what is known of today.
LEMMA FreshIsToday ==
  ASSUME SpendAssumption, IInv
  PROVE  Fresh.day = Today /\ Fresh.amount = Of(spent)
<1>1. Fresh.day = Today
  BY FreshAgrees
<1>2. Fresh.amount = Of(spent)
  BY DEF Fresh, Of
<1> QED BY <1>1, <1>2

\* Lemma: what the guardrails allow is within the limits and today's rest.
LEMMA AllowedIsWithin ==
  ASSUME SpendAssumption, SameLimits, OverspendInv, NEW to, NEW amount \in Nat, Allowed(to, amount)
  PROVE  /\ amount <= MostPerTransaction /\ amount <= MostPerDay
         /\ Of(spent) + amount <= MostPerDay
<1>1. policy \in Policies
  BY DEF OverspendInv, IInv, TypeOK
<1>2. Of(spent) \in Nat /\ MostPerDay \in Nat /\ Fresh.amount = Of(spent)
  BY OverspendTypes, FreshIsToday DEF OverspendInv
<1>3. amount <= policy.maxPerTransaction /\ Of(spent) + amount <= policy.maxPerDay
  BY <1>2 DEF Allowed, Basics, WithinDay
<1> QED BY <1>1, <1>2, <1>3 DEF SameLimits

\* Lemma: steps that move no payment and record nothing.
LEMMA NothingMoves ==
  ASSUME SpendAssumption, OverspendInv, IInv', CountersToday', Of(spent)' = Of(spent),
         UNCHANGED <<pay, now, recorded, lapses>>
  PROVE  OverspendInv'
<1>1. Today' = Today /\ InFlight' = InFlight /\ Committed' = Committed /\ Charges' = Charges
  BY DEF Today, InFlight, Committed, Charges
<1> QED BY <1>1 DEF OverspendInv, RoomToday, OverspendBounded

\* Lemma: a payment moves.  It is not committed, or was for the same requirement, or
\* is allowed now.
LEMMA PaymentMoves ==
  ASSUME SpendAssumption, OverspendInv, IInv', CountersToday', Of(spent)' = Of(spent),
         UNCHANGED <<now, recorded, lapses>>,
         NEW p \in Payments, NEW value, pay' = [pay EXCEPT ![p] = value],
         value \in Active => p \in InFlight \/ Cardinality(InFlight) < MaxInFlight,
         IsKnown(value), IsWithin(value),
         IsCommitted(value) =>
           \/ IsCommitted(pay[p]) /\ value.req = pay[p].req
           \/ ~IsCommitted(pay[p]) /\ Of(spent) + value.req.amount <= MostPerDay
  PROVE  OverspendInv'
<1>1. /\ MostPerDay \in Nat /\ MostPerTransaction \in Nat /\ MaxInFlight \in Nat \ {0}
      /\ Of(spent) \in Nat /\ pay'[p] = value /\ \A q \in Payments \ {p} : pay'[q] = pay[q]
      /\ IsFiniteSet(InFlight) /\ Cardinality(InFlight) \in Nat
      /\ Committed \subseteq InFlight /\ IsFiniteSet(Committed) /\ Cardinality(Committed) \in Nat
  BY OverspendTypes DEF OverspendInv, PayOK
<1>2. InFlight' = IF value \in Active THEN InFlight \cup {p} ELSE InFlight \ {p}
  BY <1>1 DEF InFlight
<1>3. Committed' = IF IsCommitted(value) THEN Committed \cup {p} ELSE Committed \ {p}
  BY <1>1 DEF Committed
<1>4. /\ Charges'[p] = value.req.amount
      /\ \A q \in Payments \ {p} : Charges'[q] = Charges[q]
      /\ Committed \subseteq Payments
  BY <1>1 DEF Charges, Committed
<1>5. IsFiniteSet(InFlight') /\ Cardinality(InFlight') \in Nat /\ Cardinality(InFlight') <= MaxInFlight
  <2>1. CASE value \notin Active \/ p \in InFlight
    <3>1. InFlight' \in SUBSET InFlight
      BY <1>2, <2>1
    <3>2. IsFiniteSet(InFlight') /\ Cardinality(InFlight') <= Cardinality(InFlight)
      BY <1>1, <3>1, FS_Subset
    <3> QED BY <1>1, <3>2, FS_CardinalityType DEF OverspendInv
  <2>2. CASE value \in Active /\ p \notin InFlight
    <3>1. InFlight' = InFlight \cup {p}
      BY <1>2, <2>2
    <3>2. /\ IsFiniteSet(InFlight \cup {p})
          /\ Cardinality(InFlight \cup {p}) = Cardinality(InFlight) + 1
      BY <1>1, <2>2, FS_AddElement
    <3> QED BY <1>1, <2>2, <3>1, <3>2
  <2> QED BY <2>1, <2>2
<1>6. RoomToday'
  <2> DEFINE Room(S, charge) == HasRoom(Of(spent), S, charge, MostPerDay, MostPerTransaction, MaxInFlight)
             new == Charges'
             S == Committed'
  <2>1. RoomToday' <=> Room(S, new)
    BY DEF RoomToday
  <2>2. Charged(Committed, Charges, MostPerTransaction) /\ Room(Committed, Charges)
    BY CommittedCharged DEF OverspendInv, RoomToday
  <2>3. CASE ~IsCommitted(value)
    <3>1. S \in SUBSET Committed /\ \A q \in S : new[q] = Charges[q]
      BY <1>3, <1>4, <2>3
    <3> HIDE DEF new, S
    <3>2. Room(S, Charges)
      BY <1>1, <2>2, <3>1, RoomShrinks
    <3>3. Room(S, new)
      BY <3>1, <3>2, RoomSame
    <3> QED BY <2>1, <3>3
  <2>4. CASE IsCommitted(value) /\ IsCommitted(pay[p]) /\ value.req = pay[p].req
    <3>1. S = Committed /\ \A q \in S : new[q] = Charges[q]
      BY <1>3, <1>4, <2>4 DEF Committed, Charges
    <3> HIDE DEF new, S
    <3>2. Room(S, new)
      BY <2>2, <3>1, RoomSame
    <3> QED BY <2>1, <3>2
  <2>5. CASE IsCommitted(value) /\ ~IsCommitted(pay[p]) /\ Of(spent) + value.req.amount <= MostPerDay
    <3>1. p \notin Committed /\ S = Committed \cup {p} /\ new[p] = value.req.amount
      BY <1>3, <1>4, <2>5 DEF Committed
    <3>2. new[p] \in Nat
      BY <2>5, <3>1 DEF IsKnown, IsCommitted, Requirement
    <3>3. S \in SUBSET InFlight'
      BY <1>2, <1>3, <2>5, <1>1 DEF IsCommitted
    <3>4. Cardinality(S) = Cardinality(Committed) + 1 /\ Cardinality(S) <= Cardinality(InFlight')
      BY <1>1, <1>5, <3>1, <3>3, FS_AddElement, FS_Subset
    <3>5. Cardinality(Committed) < MaxInFlight
      BY <1>1, <1>5, <3>4
    <3>6. Of(spent) + new[p] <= MostPerDay
      BY <2>5, <3>1
    <3> HIDE DEF new, S
    <3>7. Room(Committed \cup {p}, new)
      BY <1>1, <3>1, <3>2, <3>5, <3>6, RoomJoins
    <3> QED BY <2>1, <3>1, <3>7
  <2> QED BY <2>3, <2>4, <2>5
<1>7. \A q \in Payments : IsKnown(pay'[q]) /\ IsWithin(pay'[q])
  BY <1>1 DEF OverspendInv
<1>8. OverspendBounded'
  BY DEF OverspendInv, OverspendBounded
<1> QED BY <1>5, <1>6, <1>7, <1>8 DEF OverspendInv, IsKnown, IsWithin, IsCommitted

\* Lemma: a payment is recorded and done: one that was counted in, or one that is
\* allowed at this moment.
LEMMA PaymentRecorded ==
  ASSUME SpendAssumption, OverspendInv, IInv', NEW p \in Payments, NEW amount \in Nat, Record(amount),
         UNCHANGED <<now, policy, sessionExpiry, connected, settled>>,
         pay' = [pay EXCEPT ![p] = Idle("done")],
         \/ IsCommitted(pay[p]) /\ amount = pay[p].req.amount
         \/ /\ p \notin InFlight /\ Cardinality(InFlight) < MaxInFlight
            /\ Of(spent) + amount <= MostPerDay
  PROVE  OverspendInv'
<1>1. /\ MostPerDay \in Nat /\ MostPerTransaction \in Nat /\ MaxInFlight \in Nat \ {0}
      /\ Today \in Days /\ recorded \in [Days -> Nat] /\ recorded[Today] \in Nat
      /\ Of(spent) \in Nat /\ Of(SpentRestored) \in Nat /\ lapses \in Nat /\ unsaved \in BOOLEAN
      /\ Idle("done") \notin Active
      /\ pay'[p] = Idle("done") /\ \A q \in Payments \ {p} : pay'[q] = pay[q]
      /\ IsFiniteSet(InFlight) /\ Cardinality(InFlight) \in Nat
      /\ Committed \subseteq InFlight /\ IsFiniteSet(Committed) /\ Cardinality(Committed) \in Nat
  BY OverspendTypes DEF OverspendInv, PayOK
<1>2. Today' = Today
  BY DEF Today
<1>3. PICK counted \in Spent :
        /\ counted.day = Today /\ counted.amount = Of(spent) + amount
        /\ spent' = counted /\ lapses' = lapses
        /\ recorded' = [recorded EXCEPT ![Today] = @ + amount]
        /\ PersistWallet([spent |-> counted, connected |-> connected])
  <2>1. Fresh \in Spent /\ Fresh.day = Today /\ Fresh.amount = Of(spent)
    BY FreshAgrees, FreshIsToday DEF OverspendInv
  <2>2. PICK counted \in Spent : /\ counted = [Fresh EXCEPT !.amount = @ + amount]
                                 /\ counted.day = Today /\ counted.amount = Of(spent) + amount
    <3>1. [Fresh EXCEPT !.amount = @ + amount] \in Spent
      BY <1>1, <2>1 DEF Spent
    <3> QED BY <2>1, <3>1 DEF Spent
  <2>3. [Snapshot EXCEPT !.spent = counted] = [spent |-> counted, connected |-> connected]
    BY DEF Snapshot
  <2>4. spent' = counted /\ recorded' = [recorded EXCEPT ![counted.day] = @ + amount]
        /\ PersistWallet([Snapshot EXCEPT !.spent = counted]) /\ lapses' = lapses
    BY <2>2 DEF Record
  <2> QED BY <2>2, <2>3, <2>4
<1>4. Of(spent)' = Of(spent) + amount /\ recorded'[Today'] = recorded[Today] + amount
      /\ \A d \in Days \ {Today} : recorded'[d] = recorded[d]
  <2>1. Today \in Nat
    BY OverspendTypes DEF OverspendInv
  <2>2. ~(Today > Today)
    BY <2>1
  <2> QED BY <1>1, <1>2, <1>3, <2>2 DEF Of
<1>5. InFlight' = InFlight \ {p} /\ Committed' = Committed \ {p}
  BY <1>1 DEF InFlight, Committed, IsCommitted
<1>6. Cardinality(InFlight') <= MaxInFlight
  <2>1. InFlight \ {p} \in SUBSET InFlight
    OBVIOUS
  <2>2. Cardinality(InFlight \ {p}) <= Cardinality(InFlight) /\ Cardinality(InFlight \ {p}) \in Nat
    BY <1>1, <2>1, FS_Subset, FS_CardinalityType
  <2> QED BY <1>1, <1>5, <2>2 DEF OverspendInv
<1>7. CountersToday'
  <2>1. \/ /\ SpentRestored' = counted /\ unsaved' = FALSE
        \/ /\ SpentRestored' = SpentRestored /\ unsaved' = (unsaved \/ counted # spent)
    BY <1>3, Persisted
  <2>2. /\ Of(SpentRestored) <= Of(spent) /\ (~unsaved => Of(SpentRestored) = Of(spent))
        /\ recorded[Today] <= Of(spent) + lapses * Bound
    BY DEF OverspendInv, CountersToday
  <2>3. lapses * Bound \in Nat /\ lapses' * Bound = lapses * Bound
    BY <1>1, <1>3, Bounds
  <2>4. recorded'[Today'] <= Of(spent)' + lapses' * Bound
    BY <1>1, <1>4, <2>2, <2>3
  <2>5. CASE SpentRestored' = counted
    <3>1. Of(SpentRestored)' = Of(spent)'
      BY <1>2, <1>3, <2>5 DEF Of
    <3> QED BY <1>1, <1>4, <2>4, <3>1 DEF CountersToday
  <2>6. CASE SpentRestored' = SpentRestored /\ unsaved' = (unsaved \/ counted # spent)
    <3>1. Of(SpentRestored)' = Of(SpentRestored)
      BY <1>2, <2>6 DEF Of
    <3>2. ~unsaved' => ~unsaved /\ Of(spent)' = Of(spent)
      BY <1>1, <1>2, <1>3, <2>6 DEF Of
    <3>3. Of(SpentRestored)' <= Of(spent)'
      BY <1>1, <1>4, <2>2, <3>1
    <3> QED BY <2>2, <2>4, <3>1, <3>2, <3>3 DEF CountersToday
  <2> QED BY <2>1, <2>5, <2>6
<1>8. \A q \in Committed \ {p} : Charges'[q] = Charges[q]
  BY <1>1 DEF Charges, Committed
<1>9. /\ Charged(Committed, Charges, MostPerTransaction)
      /\ HasRoom(Of(spent), Committed, Charges, MostPerDay, MostPerTransaction, MaxInFlight)
  BY CommittedCharged DEF OverspendInv, RoomToday
<1>10. /\ Charged(Committed \ {p}, Charges, MostPerTransaction)
       /\ HasRoom(Of(spent) + amount, Committed \ {p}, Charges, MostPerDay, MostPerTransaction, MaxInFlight)
  <2>1. Charged(Committed \ {p}, Charges, MostPerTransaction)
    BY <1>1, <1>9, FS_Subset DEF Charged
  <2>2. CASE IsCommitted(pay[p]) /\ amount = pay[p].req.amount
    <3>1. p \in Committed /\ amount = Charges[p]
      BY <2>2 DEF Committed, Charges
    <3> QED BY <1>1, <1>9, <2>1, <3>1, RoomCounted
  <2>3. CASE /\ p \notin InFlight /\ Cardinality(InFlight) < MaxInFlight
             /\ Of(spent) + amount <= MostPerDay
    <3>1. Committed \ {p} \in SUBSET InFlight
      BY <1>1
    <3>2. Cardinality(Committed \ {p}) <= Cardinality(InFlight) /\ Cardinality(Committed \ {p}) \in Nat
      BY <1>1, <3>1, FS_Subset, FS_CardinalityType
    <3>3. Cardinality(Committed \ {p}) < MaxInFlight /\ Of(spent) + amount \in Nat
      BY <1>1, <2>3, <3>2
    <3> QED BY <1>1, <2>1, <2>3, <3>3, RoomAllowed
  <2> QED BY <2>1, <2>2, <2>3
<1>11. RoomToday'
  <2>1. HasRoom(Of(spent)', Committed \ {p}, Charges, MostPerDay, MostPerTransaction, MaxInFlight)
    BY <1>4, <1>10
  <2> QED BY <1>5, <1>8, <2>1, RoomSame DEF RoomToday, MostPerDay, MostPerTransaction
<1>12. OverspendBounded'
  <2>1. Of(spent) + amount \in Nat
    BY <1>1
  <2>2. Of(spent) + amount <= Bound
    BY <1>1, <1>10, <2>1, RoomBounds DEF Bound
  <2>3. recorded'[Today'] <= Of(spent)' + lapses * Bound
    BY <1>3, <1>7 DEF CountersToday
  <2>4. /\ Bound \in Nat /\ lapses * Bound \in Nat
        /\ (lapses + 1) * Bound \in Nat /\ (lapses + 1) * Bound = lapses * Bound + Bound
    BY <1>1, Bounds
  <2>5. recorded[Today] + amount <= (lapses + 1) * Bound
    BY <1>1, <1>4, <2>1, <2>2, <2>3, <2>4
  <2>6. \A d \in Days : recorded[d] <= (lapses + 1) * Bound
    BY DEF OverspendInv, OverspendBounded, Bound, MostPerDay, MostPerTransaction
  <2>7. \A d \in Days : recorded'[d] <= (lapses' + 1) * Bound
    BY <1>2, <1>3, <1>4, <2>5, <2>6
  <2> QED BY <2>7 DEF OverspendBounded, Bound, MostPerDay, MostPerTransaction
<1>13. \A q \in Payments : IsKnown(pay'[q]) /\ IsWithin(pay'[q])
  BY <1>1 DEF OverspendInv, IsKnown, IsWithin, IsCommitted
<1> QED BY <1>6, <1>7, <1>11, <1>12, <1>13 DEF OverspendInv, IsKnown, IsWithin, IsCommitted

\* Lemma: what becomes of a payment whose requirements are known.
LEMMA ConsiderMoves ==
  ASSUME SpendAssumption, SameLimits, OverspendInv, IInv', CountersToday', Of(spent)' = Of(spent),
         UNCHANGED <<now, recorded, lapses>>,
         NEW p \in Payments, ~IsCommitted(pay[p]), p \in InFlight \/ Cardinality(InFlight) < MaxInFlight,
         NEW payment \in Active, payment.req \in Requirement, payment.req.native,
         NEW next \in {Idle("done"), [payment EXCEPT !.stage = "approving"], [payment EXCEPT !.stage = "signing"]},
         next.stage = "signing" => Allowed(payment.req.to, Charge(payment.req)),
         pay' = [pay EXCEPT ![p] = next]
  PROVE  OverspendInv'
<1>1. Charge(payment.req) = payment.req.amount /\ payment.req.amount \in Nat
  BY DEF Charge, Requirement
<1>2. Idle("done") \notin Active
  BY OverspendTypes DEF OverspendInv
<1>3. CASE next = Idle("done")
  BY <1>2, <1>3, PaymentMoves DEF IsKnown, IsWithin, IsCommitted
<1>4. CASE next = [payment EXCEPT !.stage = "approving"]
  <2>1. next \in Active /\ next.stage = "approving" /\ next.req = payment.req
    BY <1>4 DEF Active
  <2>2. IsKnown(next) /\ IsWithin(next) /\ ~IsCommitted(next)
    BY <2>1 DEF IsKnown, IsWithin, IsCommitted
  <2> QED BY <2>2, PaymentMoves
<1>5. CASE next = [payment EXCEPT !.stage = "signing"]
  <2>1. next \in Active /\ next.stage = "signing" /\ next.req = payment.req
    BY <1>5 DEF Active
  <2>2. /\ payment.req.amount <= MostPerTransaction /\ payment.req.amount <= MostPerDay
        /\ Of(spent) + payment.req.amount <= MostPerDay
    BY <1>1, <2>1, AllowedIsWithin
  <2>3. IsKnown(next) /\ IsWithin(next)
    BY <2>1, <2>2 DEF IsKnown, IsWithin
  <2> QED BY <2>1, <2>2, <2>3, PaymentMoves
<1> QED BY <1>3, <1>4, <1>5

\* Lemma: checks leave what is known of today.
LEMMA ChecksKeep ==
  ASSUME SpendAssumption, OverspendInv, spent' \in {spent, Fresh},
         UNCHANGED <<now, recorded, stored, losses>>
  PROVE  CountersToday' /\ Of(spent)' = Of(spent) /\ UNCHANGED <<now, recorded, lapses>>
<1>1. Today' = Today /\ Today \in Nat /\ SpentRestored' = SpentRestored
      /\ unsaved' = unsaved /\ lapses' = lapses
  BY OverspendTypes DEF OverspendInv, Today, SpentRestored, losses
<1>2. Of(spent)' = Of(spent)
  BY <1>1, FreshIsToday DEF OverspendInv, Of
<1>3. Of(SpentRestored)' = Of(SpentRestored)
  BY <1>1 DEF Of
<1> QED BY <1>1, <1>2, <1>3 DEF OverspendInv, CountersToday

\* Lemma: steps of payments keep the bound.
LEMMA PaymentOverspend ==
  ASSUME SpendAssumption, SameLimits, AllNative, OverspendInv, NEW p \in Payments, PaymentStep(p)
  PROVE  OverspendInv'
<1>1. IInv' /\ PayOK /\ IInv
  BY PaymentInv, OverspendTypes DEF OverspendInv
<1>2. Idle("done") \notin Active /\ Idle("new") \notin Active
  BY OverspendTypes, <1>1
<1>3. \A q \in Payments : pay[q] = Idle("new") => q \notin InFlight /\ ~IsCommitted(pay[q])
  BY <1>2 DEF InFlight, IsCommitted
<1>4. CASE Fetch(p)
  <2> DEFINE next == New("x402", "fetching", Nothing)
  <2>1. next \in Active /\ next.stage = "fetching"
    BY NewIsActive DEF New
  <2>2. pay' = [pay EXCEPT ![p] = next] /\ UNCHANGED <<now, recorded, stored, losses, spent>> /\ Cardinality(InFlight) < MaxInFlight
    BY <1>4 DEF Fetch, MayStart
  <2> HIDE DEF next
  <2>3. IsKnown(next) /\ IsWithin(next) /\ ~IsCommitted(next)
    BY <2>1 DEF IsKnown, IsWithin, IsCommitted
  <2>4. CountersToday' /\ Of(spent)' = Of(spent) /\ UNCHANGED <<now, recorded, lapses>>
    BY <2>2, ChecksKeep
  <2> QED BY <1>1, <2>2, <2>3, <2>4, PaymentMoves
<1>5. ASSUME NEW req \in Requirements, PaymentRequired(p, req) \/ FetchDemo(p, req) PROVE OverspendInv'
  <2>1. PICK kind \in {"x402", "demo"} :
          /\ Consider(p, New(kind, "fetching", req))
          /\ kind = "x402" => pay[p] \in Active /\ pay[p].stage = "fetching"
          /\ kind = "demo" => MayStart(p)
    BY <1>5 DEF PaymentRequired, FetchDemo
  <2> DEFINE payment == New(kind, "fetching", req)
  <2>2. payment \in Active /\ payment.req = req /\ req \in Requirement /\ req.native
    BY RequirementType, NewIsActive DEF New, AllNative
  <2>3. UNCHANGED <<now, recorded, stored, losses>> /\ spent' \in {spent, Fresh}
    BY <1>5 DEF PaymentRequired, FetchDemo, NoRecord, Consider, SpentAfterValidate
  <2>4. ~IsCommitted(pay[p]) /\ (p \in InFlight \/ Cardinality(InFlight) < MaxInFlight)
    BY <1>3, <2>1 DEF MayStart, InFlight, IsCommitted
  <2>5. CountersToday' /\ Of(spent)' = Of(spent) /\ UNCHANGED <<now, recorded, lapses>>
    BY <2>3, ChecksKeep
  <2>6. Consider(p, payment)
    BY <2>1
  <2> HIDE DEF payment
  <2>7. PICK next \in {Idle("done"), [payment EXCEPT !.stage = "approving"], [payment EXCEPT !.stage = "signing"]} :
          /\ pay' = [pay EXCEPT ![p] = next]
          /\ next.stage = "signing" => Allowed(payment.req.to, Charge(payment.req))
    <3>1. Idle("done").stage = "done" /\ [payment EXCEPT !.stage = "approving"].stage = "approving"
      BY <2>2 DEF Idle, Active
    <3> QED BY <2>6, <3>1 DEF Consider, CreatePayment, MayCreate
  <2> QED BY <1>1, <2>2, <2>3, <2>4, <2>5, <2>7, ConsiderMoves
<1>6. ASSUME NEW req \in Requirements, PayDirect(p, req.to, req.amount) PROVE OverspendInv'
  <2> DEFINE next == New("direct", "sending", [to |-> req.to, amount |-> req.amount, native |-> TRUE, expiry |-> now])
  <2>1. req \in Requirement /\ req.amount \in Nat /\ now \in Nat
    BY RequirementType, <1>1 DEF IInv, TypeOK, SpendAssumption
  <2>2. /\ next \in Active /\ next.req \in Requirement /\ next.req.native /\ next.req.amount = req.amount
    <3>1. [to |-> req.to, amount |-> req.amount, native |-> TRUE, expiry |-> now] \in Requirement
      BY <2>1 DEF Requirement
    <3> QED BY <3>1, NewIsActive DEF New
  <2>3. /\ UNCHANGED <<now, recorded, stored, losses>> /\ spent' \in {spent, Fresh} /\ pay[p] = Idle("new")
        /\ Cardinality(InFlight) < MaxInFlight
    BY <1>6 DEF PayDirect, NoRecord, MayStart, SpentAfterValidate
  <2>9. UNCHANGED pay \/ (Allowed(req.to, req.amount) /\ pay' = [pay EXCEPT ![p] = next])
    <3>1. CASE Allowed(req.to, req.amount)
      BY <1>6, <3>1, Zenon DEF PayDirect
    <3>2. CASE ~Allowed(req.to, req.amount)
      BY <1>6, <3>2 DEF PayDirect
    <3> QED BY <3>1, <3>2
  <2>4. CountersToday' /\ Of(spent)' = Of(spent) /\ UNCHANGED <<now, recorded, lapses>>
    BY <2>3, ChecksKeep
  <2> HIDE DEF next
  <2>5. CASE UNCHANGED pay
    BY <1>1, <2>3, <2>4, <2>5, NothingMoves
  <2>6. CASE Allowed(req.to, req.amount) /\ pay' = [pay EXCEPT ![p] = next]
    <3>1. req.amount <= MostPerTransaction /\ req.amount <= MostPerDay /\ Of(spent) + req.amount <= MostPerDay
      BY <2>1, <2>6, AllowedIsWithin
    <3>2. IsKnown(next) /\ IsWithin(next)
      BY <2>2, <3>1 DEF IsKnown, IsWithin
    <3> QED BY <1>1, <1>3, <2>2, <2>3, <2>4, <2>6, <3>1, <3>2, PaymentMoves
  <2> QED BY <2>5, <2>6, <2>9
<1>7. ASSUME NEW req \in Requirements, NEW escrow \in BOOLEAN, PayAtOnce(p, req.to, req.amount, escrow)
      PROVE  OverspendInv'
  <2>1. req.amount \in Nat /\ Of(spent) + req.amount <= MostPerDay
    BY <1>7, RequirementType, AllowedIsWithin DEF PayAtOnce
  <2>2. p \notin InFlight /\ Cardinality(InFlight) < MaxInFlight
    BY <1>3, <1>7 DEF PayAtOnce, MayStart
  <2> QED BY <1>1, <1>7, <2>1, <2>2, PaymentRecorded DEF PayAtOnce
<1>8. CASE Approve(p)
  <2> DEFINE payment == [pay[p] EXCEPT !.approved = TRUE]
  <2>1. pay[p] \in Active /\ pay[p].stage = "approving" /\ IsKnown(pay[p])
    BY <1>8 DEF Approve, OverspendInv
  <2>2. payment \in Active /\ payment.req = pay[p].req /\ payment.req \in Requirement /\ payment.req.native
    BY <2>1 DEF Active, IsKnown
  <2>3. UNCHANGED <<now, recorded, stored, losses>> /\ spent' \in {spent, Fresh} /\ pay' = [pay EXCEPT ![p] = CreatePayment(payment)]
    BY <1>8 DEF Approve, NoRecord, SpentAfterValidate
  <2>4. CountersToday' /\ Of(spent)' = Of(spent) /\ UNCHANGED <<now, recorded, lapses>>
    BY <2>3, ChecksKeep
  <2>5. ~IsCommitted(pay[p]) /\ p \in InFlight
    BY <2>1 DEF IsCommitted, InFlight
  <2> HIDE DEF payment
  <2>6. PICK next \in {Idle("done"), [payment EXCEPT !.stage = "signing"]} :
          /\ pay' = [pay EXCEPT ![p] = next]
          /\ next.stage = "signing" => Allowed(payment.req.to, Charge(payment.req))
    <3>1. Idle("done").stage = "done"
      BY DEF Idle
    <3> QED BY <2>3, <3>1 DEF CreatePayment, MayCreate
  <2>7. next \in {Idle("done"), [payment EXCEPT !.stage = "approving"], [payment EXCEPT !.stage = "signing"]}
    BY <2>6
  <2>8. /\ UNCHANGED <<now, recorded>>
        /\ p \in InFlight \/ Cardinality(InFlight) < MaxInFlight
        /\ IInv'
    BY <1>1, <2>3, <2>5
  <2> QED BY <2>2, <2>4, <2>5, <2>6, <2>7, <2>8, ConsiderMoves
<1>9. ASSUME pay[p] \in Active, pay[p].stage \in {"signing", "sending"}
      PROVE  IsCommitted(pay[p]) /\ pay[p].req.amount \in Nat /\ p \in InFlight /\ IsKnown(pay[p]) /\ IsWithin(pay[p])
  BY <1>9 DEF IsCommitted, InFlight, OverspendInv, IsKnown, Requirement
<1>10. ASSUME pay' = [pay EXCEPT ![p] = Idle("done")], UNCHANGED <<now, recorded, stored, losses, spent>>
       PROVE  OverspendInv'
  <2>1. CountersToday' /\ Of(spent)' = Of(spent) /\ UNCHANGED <<now, recorded, lapses>>
    BY <1>10, ChecksKeep
  <2> QED BY <1>1, <1>2, <1>10, <2>1, PaymentMoves DEF IsKnown, IsWithin, IsCommitted
<1>11. ASSUME NEW next \in Active, pay[p] \in Active, next.req = pay[p].req,
              IsCommitted(pay[p]) \/ (next.stage = "approving" /\ pay[p].stage = "approving"),
              pay' = [pay EXCEPT ![p] = next], UNCHANGED <<now, recorded, stored, losses, spent>>
       PROVE  OverspendInv'
  <2>1. CountersToday' /\ Of(spent)' = Of(spent) /\ UNCHANGED <<now, recorded, lapses>>
    BY <1>11, ChecksKeep
  <2>2. IsKnown(pay[p]) /\ IsWithin(pay[p]) /\ p \in InFlight
    BY <1>11 DEF OverspendInv, InFlight
  <2>3. IsKnown(next) /\ IsWithin(next) /\ (IsCommitted(next) => IsCommitted(pay[p]))
    BY <1>11, <2>2 DEF IsKnown, IsWithin, IsCommitted
  <2> QED BY <1>1, <1>11, <2>1, <2>2, <2>3, PaymentMoves
<1>12. CASE Signed(p)
  <2>1. pay[p] \in Active /\ pay[p].stage = "signing"
    BY <1>12 DEF Signed
  <2>2. CASE pay[p].kind = "demo"
    BY <1>1, <1>9, <1>12, <2>1, <2>2, PaymentRecorded DEF Signed
  <2>3. CASE pay[p].kind # "demo" /\ pay[p].aborted
    BY <1>10, <1>12, <2>3, <1>1 DEF Signed, NoRecord, PayOK
  <2>4. CASE pay[p].kind # "demo" /\ ~pay[p].aborted
    <3> DEFINE next == [pay[p] EXCEPT !.stage = "sending"]
    <3>1. next \in Active /\ next.req = pay[p].req
      BY <2>1 DEF Active
    <3>2. pay' = [pay EXCEPT ![p] = next] /\ UNCHANGED <<now, recorded, stored, losses, spent>>
      BY <1>12, <2>4, <1>1 DEF Signed, NoRecord, PayOK
    <3>3. IsCommitted(pay[p])
      BY <2>1 DEF IsCommitted
    <3> HIDE DEF next
    <3> QED BY <1>11, <2>1, <3>1, <3>2, <3>3
  <2> QED BY <2>2, <2>3, <2>4
<1>13. CASE Abort(p) \/ Settle(p)
  <2>1. pay[p] \in Active /\ pay[p].stage \in {"approving", "signing", "sending"} /\ UNCHANGED <<now, recorded, stored, losses, spent>>
    BY <1>13 DEF Abort, Settle, Sending
  <2>2. PICK next \in {[pay[p] EXCEPT !.aborted = TRUE], [pay[p] EXCEPT !.out = TRUE]} : pay' = [pay EXCEPT ![p] = next]
    BY <1>13 DEF Abort, Settle
  <2>3. next \in Active /\ next.req = pay[p].req /\ next.stage = pay[p].stage
    BY <2>1, <2>2 DEF Active
  <2>4. IsCommitted(pay[p]) \/ (next.stage = "approving" /\ pay[p].stage = "approving")
    <3>1. CASE pay[p].stage = "approving"
      BY <2>3, <3>1
    <3>2. CASE pay[p].stage \in {"signing", "sending"}
      BY <2>1, <3>2 DEF IsCommitted
    <3> QED BY <2>1, <3>1, <3>2
  <2> QED BY <1>11, <2>1, <2>2, <2>3, <2>4
<1>14. CASE Succeed(p)
  <2>1. pay[p] \in Active /\ pay[p].stage = "sending"
    BY <1>14 DEF Succeed, Sending
  <2> QED BY <1>1, <1>9, <1>14, <2>1, PaymentRecorded DEF Succeed
<1>15. CASE Fail(p)
  BY <1>10, <1>15 DEF Fail
<1> QED BY <1>4, <1>5, <1>6, <1>7, <1>8, <1>12, <1>13, <1>14, <1>15 DEF PaymentStep

\* Lemma: a reload leaves nothing in flight.
LEMMA ReloadOverspend ==
  ASSUME SpendAssumption, OverspendInv, Reload
  PROVE  OverspendInv'
<1>1. /\ MostPerDay \in Nat /\ MostPerTransaction \in Nat /\ MaxInFlight \in Nat \ {0}
      /\ Of(spent) \in Nat /\ Of(SpentRestored) \in Nat /\ lapses \in Nat /\ unsaved \in BOOLEAN
      /\ Today \in Days /\ recorded \in [Days -> Nat] /\ recorded[Today] \in Nat
      /\ Idle("done") \notin Active
  BY OverspendTypes DEF OverspendInv
<1>2. /\ IInv' /\ Today' = Today /\ spent' = SpentRestored /\ SpentRestored' = SpentRestored
      /\ UNCHANGED <<recorded, stored>> /\ unsaved' = FALSE
      /\ lapses' = IF unsaved THEN lapses + 1 ELSE lapses
  BY ReloadInv DEF OverspendInv, Today, Reload, SpentRestored
<1>3. \A p \in Payments : pay'[p] \notin Active
  BY <1>1 DEF Reload, InFlight
<1>4. InFlight' = {} /\ Committed' = {} /\ Cardinality(InFlight') <= MaxInFlight
  <2>1. InFlight' = {} /\ Committed' = {}
    BY <1>3 DEF InFlight, Committed, IsCommitted
  <2>2. Cardinality({}) = 0 /\ 0 <= MaxInFlight
    BY <1>1, FS_EmptySet
  <2> QED BY <2>1, <2>2
<1>5. Of(spent)' = Of(SpentRestored) /\ Of(SpentRestored)' = Of(SpentRestored)
  BY <1>2 DEF Of
<1>6. /\ Bound \in Nat /\ lapses * Bound \in Nat
      /\ (lapses + 1) * Bound \in Nat /\ (lapses + 1) * Bound = lapses * Bound + Bound
  BY <1>1, Bounds
<1>7. Of(spent) <= Bound
  BY <1>1, CommittedCharged, RoomBounds DEF OverspendInv, RoomToday, Bound
<1>8. /\ Of(SpentRestored) <= Of(spent) /\ (~unsaved => Of(SpentRestored) = Of(spent))
      /\ recorded[Today] <= Of(spent) + lapses * Bound
  BY DEF OverspendInv, CountersToday
<1>9. recorded[Today] <= Of(SpentRestored) + lapses' * Bound
  <2>1. CASE unsaved
    <3>1. lapses' * Bound = lapses * Bound + Bound
      BY <1>2, <1>6, <2>1
    <3> QED BY <1>1, <1>6, <1>7, <1>8, <3>1
  <2>2. CASE ~unsaved
    BY <1>2, <1>8, <2>2
  <2> QED BY <2>1, <2>2
<1>10. CountersToday'
  BY <1>1, <1>2, <1>5, <1>9 DEF CountersToday
<1>11. OverspendBounded'
  <2>1. \A d \in Days : recorded[d] \in Nat /\ recorded[d] <= (lapses + 1) * Bound
    BY <1>1 DEF OverspendInv, OverspendBounded, Bound, MostPerDay, MostPerTransaction
  <2>2. (lapses + 1) * Bound <= (lapses' + 1) * Bound /\ (lapses' + 1) * Bound \in Nat
    <3>1. CASE unsaved
      <4>1. lapses' = lapses + 1 /\ lapses' \in Nat
        BY <1>1, <1>2, <3>1
      <4>2. (lapses' + 1) * Bound = lapses' * Bound + Bound /\ (lapses' + 1) * Bound \in Nat
        BY <4>1, Bounds
      <4> QED BY <1>6, <4>1, <4>2
    <3>2. CASE ~unsaved
      <4>1. lapses' = lapses
        BY <1>2, <3>2
      <4> QED BY <1>6, <4>1
    <3> QED BY <3>1, <3>2
  <2>3. \A d \in Days : recorded'[d] <= (lapses' + 1) * Bound
    BY <1>2, <1>6, <2>1, <2>2
  <2> QED BY <2>3 DEF OverspendBounded, Bound, MostPerDay, MostPerTransaction
<1>12. RoomToday'
  <2>1. Of(spent)' <= MostPerDay + (MaxInFlight - 1) * MostPerTransaction
    BY <1>1, <1>5, <1>6, <1>7, <1>8 DEF Bound
  <2> QED BY <1>4, <2>1 DEF RoomToday, HasRoom, MostPerDay, MostPerTransaction
<1>13. \A p \in Payments : IsKnown(pay'[p]) /\ IsWithin(pay'[p])
  BY <1>3 DEF IsKnown, IsWithin, IsCommitted
<1> QED BY <1>2, <1>4, <1>10, <1>11, <1>12, <1>13 DEF OverspendInv, IsKnown, IsWithin, IsCommitted

\* Lemma: a day that begins has room for all that was allowed before.
LEMMA TickOverspend ==
  ASSUME SpendAssumption, OverspendInv, Tick
  PROVE  OverspendInv'
<1>1. /\ IInv' /\ UNCHANGED <<spent, stored, pay, recorded>>
      /\ unsaved' = unsaved /\ lapses' = lapses
  BY TickInv DEF OverspendInv, Tick, losses
<1>2. /\ Today \in Nat /\ Today' \in Days /\ Today' \in Nat /\ Today <= Today'
      /\ spent.day \in Nat /\ spent.day <= Today /\ SpentRestored.day <= Today
      /\ SpentRestored.day \in Nat
  <2>1. now \in Nat /\ now' = now + 1 /\ DayLength \in Nat \ {0}
    BY DEF Tick, OverspendInv, IInv, TypeOK, SpendAssumption
  <2>2. now \div DayLength <= (now + 1) \div DayLength
    BY <2>1
  <2>3. Today = now \div DayLength /\ Today' = (now + 1) \div DayLength
    BY <2>1 DEF Today
  <2>4. Today' \in Days
    <3>1. TypeOK'
      BY <1>1 DEF IInv
    <3>2. Today' = now' \div DayLength /\ now' \in 0 .. MaxTime
      BY <2>1, <2>3, <3>1 DEF TypeOK
    <3>3. now' \in Nat /\ now' <= MaxTime /\ MaxTime \in Nat
      BY <3>2 DEF SpendAssumption
    <3> QED BY <2>1, <3>2, <3>3, DayOf DEF Days
  <2>5. /\ Today \in Days /\ Days \subseteq Nat /\ spent.day \in Days /\ SpentRestored.day \in Days
        /\ spent.day <= Today /\ SpentRestored.day <= Today
    BY CounterTypes DEF OverspendInv, IInv, Spent, NotMore
  <2> QED BY <2>2, <2>3, <2>4, <2>5
<1>3. /\ MostPerDay \in Nat /\ MostPerTransaction \in Nat /\ MaxInFlight \in Nat \ {0}
      /\ IsFiniteSet(InFlight) /\ Committed \subseteq InFlight /\ Cardinality(Committed) \in Nat
      /\ Cardinality(InFlight) \in Nat /\ lapses \in Nat
  BY OverspendTypes DEF OverspendInv
<1>4. InFlight' = InFlight /\ Committed' = Committed /\ Charges' = Charges
  BY <1>1 DEF InFlight, Committed, Charges
<1>5. lapses * Bound \in Nat
  BY <1>3, Bounds
<1>6. CASE Today' = Today
  <2>1. SpentRestored' = SpentRestored /\ Of(spent)' = Of(spent) /\ Of(SpentRestored)' = Of(SpentRestored)
    BY <1>1, <1>6 DEF SpentRestored, Of
  <2> QED BY <1>1, <1>4, <1>6, <2>1 DEF OverspendInv, RoomToday, CountersToday, OverspendBounded
<1>7. CASE Today' # Today
  <2>1. Today' > Today /\ Today' > spent.day /\ Today' > SpentRestored.day
    BY <1>2, <1>7
  <2>2. Of(spent)' = 0
    BY <1>1, <2>1 DEF Of
  <2>3. Of(SpentRestored)' = 0
    <3>1. CASE stored = Nothing
      BY <1>1, <3>1 DEF SpentRestored, Of
    <3>2. CASE stored # Nothing
      <4>1. SpentRestored' = SpentRestored
        BY <1>1, <3>2 DEF SpentRestored
      <4> QED BY <2>1, <4>1 DEF Of
    <3> QED BY <3>1, <3>2
  <2>4. recorded'[Today'] = 0
    BY <1>1, <1>2, <2>1 DEF OverspendInv, IInv
  <2>5. CountersToday'
    BY <1>1, <1>5, <2>2, <2>3, <2>4 DEF CountersToday
  <2>6. HasRoom(0, Committed, Charges, MostPerDay, MostPerTransaction, MaxInFlight)
    <3>1. Cardinality(Committed) <= MaxInFlight
      BY <1>3, FS_Subset DEF OverspendInv
    <3> QED BY <1>3, <3>1, CommittedCharged, RoomNewDay
  <2>7. RoomToday'
    BY <1>4, <2>2, <2>6 DEF RoomToday
  <2> QED BY <1>1, <1>4, <2>5, <2>7 DEF OverspendInv, OverspendBounded
<1> QED BY <1>6, <1>7

\* Lemma: every step keeps the bound.
LEMMA NextOverspend ==
  ASSUME SpendAssumption, SameLimits, AllNative, OverspendInv, [Next]_vars
  PROVE  OverspendInv'
<1>1. /\ IInv' /\ Of(spent) \in Nat /\ Of(SpentRestored) \in Nat /\ Today \in Nat
      /\ unsaved \in BOOLEAN
  BY NextInv, OverspendTypes DEF OverspendInv
<1>2. ASSUME NEW p \in Payments, PaymentStep(p) PROVE OverspendInv'
  BY <1>2, PaymentOverspend
<1>3. ASSUME UNCHANGED <<pay, now, recorded, spent, lapses>>,
             PersistWallet([spent |-> spent, connected |-> connected'])
      PROVE  OverspendInv'
  <2>1. Today' = Today /\ Of(spent)' = Of(spent)
    BY <1>3 DEF Today, Of
  <2>2. \/ SpentRestored' = spent /\ unsaved' = FALSE
        \/ SpentRestored' = SpentRestored /\ unsaved' = (unsaved \/ spent # spent)
    BY <1>3, Persisted
  <2>3. \/ Of(SpentRestored)' = Of(spent)
        \/ Of(SpentRestored)' = Of(SpentRestored) /\ (~unsaved' => ~unsaved)
    BY <1>1, <2>1, <2>2 DEF Of
  <2>4. CountersToday'
    BY <1>1, <1>3, <2>1, <2>3 DEF OverspendInv, CountersToday
  <2> QED BY <1>1, <1>3, <2>1, <2>4, NothingMoves
<1>4. ASSUME NEW new \in Policies, UpdatePolicy(new) PROVE OverspendInv'
  BY <1>3, <1>4 DEF UpdatePolicy, Snapshot
<1>5. ASSUME NEW on \in BOOLEAN, SetConnected(on) PROVE OverspendInv'
  <2>1. PersistWallet([spent |-> spent, connected |-> connected'])
    BY <1>5 DEF SetConnected, Snapshot
  <2> QED BY <1>3, <1>5, <2>1 DEF SetConnected
<1>6. CASE ExtendSession
  BY <1>3, <1>6 DEF ExtendSession, Snapshot
<1>7. CASE GetDailySpent \/ UNCHANGED vars
  <2>1. /\ spent' \in {spent, Fresh} /\ UNCHANGED <<now, recorded, stored, losses>>
        /\ UNCHANGED <<pay, now, recorded, lapses>>
    BY <1>7 DEF GetDailySpent, vars, losses
  <2> QED BY <1>1, <2>1, ChecksKeep, NothingMoves
<1>8. CASE ClearPersistedState
  <2>1. /\ UNCHANGED <<pay, now, recorded, spent, lapses>> /\ stored' = Nothing /\ Today' = Today
        /\ Of(spent)' = Of(spent) /\ unsaved' = (unsaved \/ Fresh.amount > 0)
    BY <1>8 DEF ClearPersistedState, Today, Of
  <2>2. SpentRestored' = [amount |-> 0, day |-> Today]
    BY <2>1 DEF SpentRestored
  <2>3. Of(SpentRestored)' = 0
    BY <2>2 DEF Of
  <2>4. ~unsaved' => Of(spent) = 0
    <3>1. ~unsaved' => ~(Fresh.amount > 0)
      BY <2>1
    <3> QED BY <1>1, <3>1, FreshIsToday DEF OverspendInv
  <2>5. CountersToday'
    BY <1>1, <2>1, <2>3, <2>4 DEF OverspendInv, CountersToday
  <2> QED BY <1>1, <2>1, <2>5, NothingMoves
<1> QED BY <1>2, <1>4, <1>5, <1>6, <1>7, <1>8, ReloadOverspend, TickOverspend DEF Next

\* Lemma: at first nothing is spent.
LEMMA InitOverspend ==
  ASSUME SpendAssumption, Init
  PROVE  OverspendInv
<1>1. IInv /\ lapses = 0 /\ Bound \in Nat
  BY InitInv, Bounds DEF Init
<1>2. /\ MostPerDay \in Nat /\ MostPerTransaction \in Nat /\ MaxInFlight \in Nat \ {0}
      /\ Today \in Days /\ Today \in Nat /\ Idle("new") \notin Active
  BY <1>1, OverspendTypes
<1>3. \A p \in Payments : pay[p] \notin Active
  BY <1>2 DEF Init
<1>4. InFlight = {} /\ Committed = {} /\ Cardinality(InFlight) <= MaxInFlight
  BY <1>2, <1>3, FS_EmptySet DEF InFlight, Committed, IsCommitted
<1>5. HasRoom(0, {}, Charges, MostPerDay, MostPerTransaction, MaxInFlight)
  <2>1. Cardinality({}) = 0 /\ IsFiniteSet({})
    BY FS_EmptySet
  <2>2. Charged({}, Charges, MostPerTransaction) /\ Cardinality({}) <= MaxInFlight
    BY <1>2, <2>1 DEF Charged
  <2> QED BY <1>2, <2>2, RoomNewDay
<1>6. \A d \in Days : recorded[d] = 0
  BY DEF Init
<1>7. OverspendBounded
  <2>1. (lapses + 1) * Bound \in Nat
    BY <1>1, Bounds
  <2>2. \A d \in Days : recorded[d] <= (lapses + 1) * Bound
    BY <1>6, <2>1
  <2> QED BY <2>2 DEF OverspendBounded, Bound, MostPerDay, MostPerTransaction
<1>8. Of(spent) = 0 /\ Of(SpentRestored) = 0
  BY DEF Init, SpentRestored, Of
<1>9. RoomToday
  BY <1>4, <1>5, <1>8 DEF RoomToday
<1>10. CountersToday
  <2>1. lapses * Bound \in Nat
    BY <1>1, Bounds
  <2> QED BY <1>2, <1>6, <1>8, <2>1 DEF CountersToday
<1>11. \A p \in Payments : IsKnown(pay[p]) /\ IsWithin(pay[p])
  BY <1>3 DEF IsKnown, IsWithin, IsCommitted
<1> QED BY <1>1, <1>4, <1>7, <1>9, <1>10, <1>11 DEF OverspendInv

\* Theorem: however payments overlap, with each other, with new days, with reloads and with
\* saves that are refused, a day exceeds its limit by less than one transaction for each
\* other payment that can be in flight, and by as much again for each page that started
\* without the counter of its day (OverspendBounded), if the policies the owner sets have
\* the same limits and servers ask for native payments: a payment in a token is checked as
\* 0 and recorded in full.
THEOREM DayIsBounded ==
  ASSUME SameLimits, AllNative
  PROVE  Spec => []OverspendBounded
<1>1. Init => OverspendInv
  BY InitOverspend, SpendAssumption
<1>2. OverspendInv /\ [Next]_vars => OverspendInv'
  BY NextOverspend, SpendAssumption
<1>3. OverspendInv => OverspendBounded
  BY DEF OverspendInv
<1> QED BY <1>1, <1>2, <1>3, PTL DEF Spec
=============================================================================
