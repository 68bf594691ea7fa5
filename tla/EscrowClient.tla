----------------------------- MODULE EscrowClient -----------------------------
(***************************************************************************)
(* EscrowClient: the escrows of an application, in the memory of each page *)
(* that has one and in localStorage, which the pages share under one key.  *)
(*                                                                         *)
(* Its methods do not wait for anything: a step is a call.  A page works   *)
(* on its own copy and writes all of it back; what another page has        *)
(* written meanwhile is not read again before the page is loaded.  Amounts *)
(* and texts are left out; SpendGuard has what an escrow does to the       *)
(* guardrails of the wallet.                                               *)
(***************************************************************************)
EXTENDS Naturals, FiniteSets

CONSTANTS
  Escrows,      \* escrow ids
  Accounts,
  Pages,
  Duration,     \* of every escrow
  MaxEscrowTime,   \* bound on the clock
  MaxSecondCopies \* bound on loads that make an escrow open a second time

ASSUME EscrowAssumption ==
  IsFiniteSet(Pages) /\ Duration \in Nat /\ MaxEscrowTime \in Nat /\ MaxSecondCopies \in Nat

NoOne == "no one"
NoEscrow == [state |-> "none"]
States == {"locked", "released", "refunded", "disputed", "resolved", "expired"}
EscrowRecord ==
  [payer: Accounts, recipient: Accounts, arbiter: Accounts \cup {NoOne},
   expiresAt: 0 .. MaxEscrowTime + Duration, state: States]
Copy == [Escrows -> EscrowRecord \cup {NoEscrow}]

VARIABLES
  account,      \* page -> the connected account
  escrows,      \* page -> its copy
  escrowsSaved, \* the copy in localStorage
  time,
  \* History, read by no action:
  created,
  settlements,  \* escrow -> how often it has been released, refunded or resolved
  secondCopies  \* escrow -> loads that found it open though it was settled, or open elsewhere

escrowVars == <<account, escrows, escrowsSaved, time, created, settlements, secondCopies>>

EscrowTypeOK ==
  /\ account \in [Pages -> Accounts \cup {NoOne}]
  /\ escrows \in [Pages -> Copy] /\ escrowsSaved \in Copy
  /\ time \in 0 .. MaxEscrowTime
  /\ created \subseteq Escrows
  /\ settlements \in [Escrows -> Nat] /\ secondCopies \in [Escrows -> 0 .. MaxSecondCopies]

NoEscrows == [e \in Escrows |-> NoEscrow]

EscrowInit ==
  /\ account = [p \in Pages |-> NoOne]
  /\ escrows = [p \in Pages |-> NoEscrows] /\ escrowsSaved = NoEscrows
  /\ time = 0
  /\ created = {}
  /\ settlements = [e \in Escrows |-> 0] /\ secondCopies = [e \in Escrows |-> 0]

IsOpen(escrow) == escrow.state \in {"locked", "disputed"}

\* persistEscrows: localStorage may refuse.
PersistEscrows(p) == escrowsSaved' = escrows'[p] \/ UNCHANGED escrowsSaved

Becomes(p, e, state) ==
  /\ escrows' = [escrows EXCEPT ![p][e].state = state]
  /\ PersistEscrows(p)
  /\ UNCHANGED <<account, time, created, secondCopies>>

Settles(p, e, state) ==
  /\ Becomes(p, e, state)
  /\ settlements' = [settlements EXCEPT ![e] = @ + 1]

\* setConnectedAddress and clearConnection of the wallet.
ConnectPage(p, a) ==
  /\ account' = [account EXCEPT ![p] = a]
  /\ UNCHANGED <<escrows, escrowsSaved, time, created, settlements, secondCopies>>

\* An escrow the guardrails allow.
CreateEscrow(p, e, recipient, arbiter) ==
  /\ account[p] # NoOne /\ e \notin created
  /\ escrows' = [escrows EXCEPT ![p][e] =
                   [payer |-> account[p], recipient |-> recipient, arbiter |-> arbiter,
                    expiresAt |-> time + Duration, state |-> "locked"]]
  /\ PersistEscrows(p)
  /\ created' = created \cup {e}
  /\ UNCHANGED <<account, time, settlements, secondCopies>>

\* Mutant: a release goes by the terms alone.
PayerMayAnyTime(escrow, caller) == escrow # NoEscrow /\ caller = escrow.payer

PayerMay(escrow, caller) == escrow # NoEscrow /\ escrow.state = "locked" /\ caller = escrow.payer

PartyMay(escrow, caller) ==
  escrow # NoEscrow /\ escrow.state = "locked" /\ caller \in {escrow.payer, escrow.recipient}

\* Without an arbiter any connected account will do.
ArbiterMay(escrow, caller) ==
  /\ escrow # NoEscrow /\ escrow.state = "disputed"
  /\ caller # NoOne
  /\ escrow.arbiter \in {NoOne, caller}

ReleaseEscrow(p, e) == PayerMay(escrows[p][e], account[p]) /\ Settles(p, e, "released")
RefundEscrow(p, e) == PayerMay(escrows[p][e], account[p]) /\ Settles(p, e, "refunded")
DisputeEscrow(p, e) ==
  PartyMay(escrows[p][e], account[p]) /\ Becomes(p, e, "disputed") /\ UNCHANGED settlements
ResolveDispute(p, e) == ArbiterMay(escrows[p][e], account[p]) /\ Settles(p, e, "resolved")

\* All that are due, in one call.
CheckExpiredEscrows(p) ==
  LET due == {e \in created : escrows[p][e].state = "locked" /\ escrows[p][e].expiresAt < time} IN
  /\ due # {}
  /\ escrows' = [escrows EXCEPT ![p] = [e \in Escrows |-> IF e \in due THEN [@[e] EXCEPT !.state = "expired"] ELSE @[e]]]
  /\ PersistEscrows(p)
  /\ UNCHANGED <<account, time, created, settlements, secondCopies>>

ClearEscrows(p) ==
  /\ escrows' = [escrows EXCEPT ![p] = NoEscrows]
  /\ escrowsSaved' = NoEscrows
  /\ UNCHANGED <<account, time, created, settlements, secondCopies>>

\* What a load of the page would find open is settled, or open in another page.
SecondCopy(p, e) ==
  IsOpen(escrowsSaved[e]) /\ (settlements[e] > 0 \/ \E q \in Pages \ {p} : IsOpen(escrows[q][e]))

\* A page is loaded: restoreEscrows.
LoadPage(p) ==
  /\ escrows' = [escrows EXCEPT ![p] = escrowsSaved]
  /\ secondCopies' = [e \in Escrows |-> IF SecondCopy(p, e) THEN secondCopies[e] + 1 ELSE secondCopies[e]]
  /\ \A e \in Escrows : secondCopies'[e] <= MaxSecondCopies
  /\ UNCHANGED <<account, escrowsSaved, time, created, settlements>>

TimePasses ==
  /\ time < MaxEscrowTime /\ time' = time + 1
  /\ UNCHANGED <<account, escrows, escrowsSaved, created, settlements, secondCopies>>

EscrowStep ==
  \/ \E p \in Pages :
       \/ \E a \in Accounts \cup {NoOne} : ConnectPage(p, a)
       \/ \E e \in Escrows, recipient \in Accounts, arbiter \in Accounts \cup {NoOne} :
            CreateEscrow(p, e, recipient, arbiter)
       \/ \E e \in Escrows : ReleaseEscrow(p, e) \/ RefundEscrow(p, e) \/ DisputeEscrow(p, e) \/ ResolveDispute(p, e)
       \/ CheckExpiredEscrows(p) \/ ClearEscrows(p) \/ LoadPage(p)
  \/ TimePasses

EscrowSpec == EscrowInit /\ [][EscrowStep]_escrowVars

-----------------------------------------------------------------------------
(* What the client shows: getEscrowStatus *)

\* Mutant: who is asked is not looked at.
OfferedToAnybody(escrow, caller) ==
  IF escrow = NoEscrow \/ escrow.state # "locked" THEN {} ELSE {"refund"}

\* getAvailableActions.
AvailableActions(escrow, caller) ==
  IF escrow = NoEscrow \/ escrow.state # "locked" THEN {}
  ELSE IF time >= escrow.expiresAt THEN IF caller = escrow.payer THEN {"refund"} ELSE {}
  ELSE (IF caller = escrow.payer THEN {"release", "dispute"} ELSE {})
       \cup (IF caller = escrow.recipient THEN {"dispute"} ELSE {})

-----------------------------------------------------------------------------
(* Properties *)

OpenPages(e) == {p \in Pages : IsOpen(escrows[p][e])}

\* An escrow is released, refunded or resolved once, and once more for each page
\* that was given an open copy of one that was settled already or is open in
\* another page: after refused saves, pages that write older copies back and
\* pages loaded from them.
SettledOnce ==
  \A e \in Escrows : settlements[e] + Cardinality(OpenPages(e)) <= 1 + secondCopies[e]

\* What the client offers the connected account, it accepts from it.
OfferedIsAccepted ==
  \A p \in Pages : \A e \in Escrows :
    LET escrow == escrows[p][e]
        offered == AvailableActions(escrow, account[p])
    IN /\ {"release", "refund"} \cap offered # {} => PayerMay(escrow, account[p])
       /\ "dispute" \in offered => PartyMay(escrow, account[p])

\* wallet-sdk/src/commerce/EscrowClient.ts:212 says of refundEscrow: "Payer can
\* refund if escrow expired or service failed."
ExpiredIsRefundable ==
  \A p \in Pages : \A e \in Escrows :
    escrows[p][e].state = "expired" => PayerMay(escrows[p][e], escrows[p][e].payer)
=============================================================================
