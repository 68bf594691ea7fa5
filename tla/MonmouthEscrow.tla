--------------------------- MODULE MonmouthEscrow ---------------------------
(***************************************************************************)
(* The escrow contract of the wallet SDK (MonmouthEscrow.sol).             *)
(*                                                                         *)
(* A transaction is one step: every function that moves funds is           *)
(* nonReentrant, and a transaction whose checks or transfers fail changes  *)
(* nothing, so it is no step.  An escrow id is the hash of the depositor,  *)
(* the recipient, the token, the amount, the service and the block, and    *)
(* is modelled by that tuple; nothing else distinguishes two escrows.      *)
(* Tokens transfer what they are asked to; ether transfers to an account   *)
(* in Refusing fail.                                                       *)
(***************************************************************************)
EXTENDS Integers, FiniteSetsExt

CONSTANTS
  Accounts,
  NoOne,          \* address(0)
  Deployer,
  Depositors,     \* accounts that create escrows or sign for them
  Recipients,
  Arbiters,       \* may include NoOne
  Refusing,       \* accounts that revert when they are sent ether
  Tokens,         \* ERC20 tokens
  Ether,          \* address(0) as a token
  Services,
  Amounts,
  Durations,      \* includes values the contract refuses
  MaxDuration,    \* 365 days
  Denominator,    \* 10000 basis points
  MaxFeeBps,      \* 500
  BpsChoices,     \* values tried for the fee and for a split
  MaxBlock,       \* bound on L1 blocks; also the clock
  MaxCreates,     \* bound on escrows created
  MaxNonce,       \* bound on signatures, and on the nonces signed for
  MaxDonation     \* bound on ether sent to the contract as a gift

ASSUME EscrowAssumption ==
  /\ NoOne \notin Accounts
  /\ Deployer \in Accounts
  /\ Depositors \subseteq Accounts /\ Recipients \subseteq Accounts
  /\ Arbiters \subseteq Accounts \cup {NoOne} /\ Refusing \subseteq Accounts
  /\ Ether \notin Tokens
  /\ Amounts \subseteq Nat /\ Durations \subseteq Nat /\ BpsChoices \subseteq Nat
  /\ {MaxDuration, MaxFeeBps, MaxBlock, MaxCreates, MaxNonce, MaxDonation} \subseteq Nat
  /\ Denominator \in Nat \ {0}

AnyToken == Tokens \cup {Ether}
EscrowId == [depositor: Depositors, recipient: Recipients, token: AnyToken,
             amount: Amounts, service: Services, createdAt: 0 .. MaxBlock]
State == {"Created", "Released", "Refunded", "Disputed"}
Escrow == [expiresAt: Nat, state: State, arbiter: Accounts \cup {NoOne}]

\* What a depositor can sign: the terms of a new escrow, or the release of one.
CreateTerms == [recipient: Recipients, token: AnyToken, amount: Amounts,
                duration: Durations, service: Services]
Signature == [signer: Depositors, nonce: 0 .. MaxNonce - 1, body: CreateTerms \cup EscrowId]

VARIABLES
  block,          \* block.number and block.timestamp
  escrows,        \* function on the ids that exist
  nonces,
  disputed,       \* ids whose disputed flag is set
  protocolFeeBps,
  feeRecipient,
  admin,
  held,           \* token -> what the contract owns
  signed,         \* signatures given out by depositors
  \* History, read by no action but for the bounds:
  deposited,      \* id -> total paid in under it
  paidOut,        \* id -> total paid out of it
  stray,          \* token -> what no escrow can claim
  spent           \* signatures the contract has accepted

fundVars == <<escrows, held, deposited, paidOut, stray>>
adminVars == <<protocolFeeBps, feeRecipient, admin>>
vars == <<block, fundVars, nonces, disputed, adminVars, signed, spent>>

Ids == DOMAIN escrows
Open(id) == escrows[id].state \in {"Created", "Disputed"}

TypeOK ==
  /\ block \in 0 .. MaxBlock
  /\ Ids \subseteq EscrowId
  /\ escrows \in [Ids -> Escrow]
  /\ nonces \in [Depositors -> 0 .. MaxNonce]
  /\ disputed \subseteq Ids
  /\ protocolFeeBps \in 0 .. MaxFeeBps
  /\ feeRecipient \in Accounts \cup {NoOne}
  /\ admin \in Accounts \cup {NoOne}
  /\ held \in [AnyToken -> Nat]
  /\ signed \subseteq Signature
  /\ deposited \in [Ids -> Nat]
  /\ paidOut \in [Ids -> Nat]
  /\ stray \in [AnyToken -> Nat]
  /\ spent \subseteq signed

Init ==
  /\ block = 0
  /\ escrows = [id \in {} |-> 0]
  /\ nonces = [a \in Depositors |-> 0]
  /\ disputed = {}
  /\ protocolFeeBps \in {b \in BpsChoices : b <= MaxFeeBps}
  /\ feeRecipient \in {Deployer, NoOne}
  /\ admin = Deployer
  /\ held = [t \in AnyToken |-> 0]
  /\ signed = {}
  /\ deposited = [id \in {} |-> 0]
  /\ paidOut = [id \in {} |-> 0]
  /\ stray = [t \in AnyToken |-> 0]
  /\ spent = {}

-----------------------------------------------------------------------------
(* Creation *)

Updated(f, id, value) == [x \in DOMAIN f \cup {id} |-> IF x = id THEN value ELSE f[x]]

IdOf(depositor, terms) ==
  [depositor |-> depositor, recipient |-> terms.recipient, token |-> terms.token,
   amount |-> terms.amount, service |-> terms.service, createdAt |-> block]

\* The bounds on creations: MaxCreates ids, each created twice at most.
RoomToCreate(id) == IF id \in Ids THEN deposited[id] <= id.amount ELSE Cardinality(Ids) < MaxCreates

\* _createEscrow, and the funds that come in: whatever is stored under the id is
\* overwritten.
StoreEscrow(depositor, terms, arbiter) ==
  LET id == IdOf(depositor, terms)
      wasOpen == id \in Ids /\ Open(id)
  IN
  /\ RoomToCreate(id)
  /\ escrows' = Updated(escrows, id, [expiresAt |-> block + terms.duration, state |-> "Created",
                                      arbiter |-> arbiter])
  /\ held' = [held EXCEPT ![terms.token] = @ + terms.amount]
  /\ deposited' = Updated(deposited, id,
                          (IF id \in Ids THEN deposited[id] ELSE 0) + terms.amount)
  /\ paidOut' = Updated(paidOut, id, IF id \in Ids THEN paidOut[id] ELSE 0)
  /\ stray' = [stray EXCEPT ![terms.token] = @ + (IF wasOpen THEN terms.amount ELSE 0)]

\* createEscrowETH and createEscrowERC20.
ValidTerms(terms) == terms.amount > 0 /\ terms.duration \in 1 .. MaxDuration

CreateEscrowETH(depositor, terms, arbiter) ==
  /\ terms.token = Ether
  /\ ValidTerms(terms)
  /\ StoreEscrow(depositor, terms, arbiter)
  /\ UNCHANGED <<block, nonces, disputed, adminVars, signed, spent>>

CreateEscrowERC20(depositor, terms, arbiter) ==
  /\ terms.token \in Tokens
  /\ ValidTerms(terms)
  /\ StoreEscrow(depositor, terms, arbiter)
  /\ UNCHANGED <<block, nonces, disputed, adminVars, signed, spent>>

\* A depositor signs, for its current nonce or ahead of it.
Sign(s) ==
  /\ Cardinality(signed) < MaxNonce
  /\ s.nonce >= nonces[s.signer]
  /\ s.body \in EscrowId => s.body \in Ids
  /\ signed' = signed \cup {s}
  /\ UNCHANGED <<block, fundVars, nonces, disputed, adminVars, spent>>

\* Mutant: the nonce is read but not incremented.
NonceKept(a) == nonces

NonceUsed(a) == [nonces EXCEPT ![a] = @ + 1]

\* recover(signature) is the account, over the message with its current nonce.
AcceptSignature(s) ==
  /\ s \in signed
  /\ s.nonce = nonces[s.signer]
  /\ nonces' = NonceUsed(s.signer)
  /\ spent' = spent \cup {s}

\* The terms are not checked on this path; there is no arbiter.
CreateEscrowWithSignature(s) ==
  /\ s.body \in CreateTerms
  /\ AcceptSignature(s)
  /\ StoreEscrow(s.signer, s.body, NoOne)
  /\ UNCHANGED <<block, disputed, adminVars, signed>>

-----------------------------------------------------------------------------
(* Settlement *)

CanReceive(token, account) == token = Ether => account \notin Refusing

InState(id, state) == id \in Ids /\ escrows[id].state = state

\* Mutant: funds go out and the state stays as it was.
StateKept(id, state) == UNCHANGED escrows

MoveTo(id, state) == escrows' = [escrows EXCEPT ![id].state = state]

\* Funds leave the contract: `amount` to accounts, `fee` stays if nobody takes it.
PayOut(id, amount, unsent) ==
  /\ held[id.token] >= amount
  /\ held' = [held EXCEPT ![id.token] = @ - amount]
  /\ paidOut' = [paidOut EXCEPT ![id] = @ + amount]
  /\ stray' = [stray EXCEPT ![id.token] = @ + unsent]
  /\ UNCHANGED deposited

FeeOf(id) == (id.amount * protocolFeeBps) \div Denominator

\* _release: the fee stays in the contract when there is no fee recipient.
PayRecipient(id) ==
  LET fee == FeeOf(id)
      sendsFee == fee > 0 /\ feeRecipient # NoOne
  IN
  /\ fee <= id.amount
  /\ CanReceive(id.token, id.recipient)
  /\ sendsFee => CanReceive(id.token, feeRecipient)
  /\ MoveTo(id, "Released")
  /\ IF sendsFee THEN PayOut(id, id.amount, 0) ELSE PayOut(id, id.amount - fee, fee)

Release(from, id) ==
  /\ InState(id, "Created")
  /\ from = id.depositor
  /\ PayRecipient(id)
  /\ UNCHANGED <<block, nonces, disputed, adminVars, signed, spent>>

ReleaseWithSignature(s) ==
  /\ s.body \in EscrowId
  /\ InState(s.body, "Created")
  /\ s.signer = s.body.depositor
  /\ AcceptSignature(s)
  /\ PayRecipient(s.body)
  /\ UNCHANGED <<block, disputed, adminVars, signed>>

\* By the recipient at any time, by anybody from expiry on.
Refund(from, id) ==
  /\ InState(id, "Created")
  /\ block >= escrows[id].expiresAt \/ from = id.recipient
  /\ CanReceive(id.token, id.depositor)
  /\ MoveTo(id, "Refunded")
  /\ PayOut(id, id.amount, 0)
  /\ UNCHANGED <<block, nonces, disputed, adminVars, signed, spent>>

Dispute(from, id) ==
  /\ InState(id, "Created")
  /\ from \in {id.depositor, id.recipient}
  /\ MoveTo(id, "Disputed")
  /\ disputed' = disputed \cup {id}
  /\ UNCHANGED <<block, held, deposited, paidOut, stray, nonces, adminVars, signed, spent>>

\* By the arbiter of the escrow or the admin; more than all of it underflows.
ResolveDispute(from, id, depositorBps) ==
  LET toDepositor == (id.amount * depositorBps) \div Denominator
      toRecipient == id.amount - toDepositor
  IN
  /\ InState(id, "Disputed")
  /\ from \in {escrows[id].arbiter, admin}
  /\ toDepositor <= id.amount
  /\ toDepositor > 0 => CanReceive(id.token, id.depositor)
  /\ toRecipient > 0 => CanReceive(id.token, id.recipient)
  /\ MoveTo(id, "Released")
  /\ PayOut(id, id.amount, 0)
  /\ UNCHANGED <<block, nonces, disputed, adminVars, signed, spent>>

-----------------------------------------------------------------------------
(* Administration, gifts and time *)

\* Mutant: the fee is not compared with the largest one.
SetAnyFee(from, bps) ==
  /\ from = admin
  /\ protocolFeeBps' = bps
  /\ UNCHANGED <<block, fundVars, nonces, disputed, feeRecipient, admin, signed, spent>>

SetProtocolFee(from, bps) ==
  /\ from = admin
  /\ bps <= MaxFeeBps
  /\ protocolFeeBps' = bps
  /\ UNCHANGED <<block, fundVars, nonces, disputed, feeRecipient, admin, signed, spent>>

SetFeeRecipient(from, account) ==
  /\ from = admin
  /\ feeRecipient' = account
  /\ UNCHANGED <<block, fundVars, nonces, disputed, protocolFeeBps, admin, signed, spent>>

TransferAdmin(from, account) ==
  /\ from = admin
  /\ admin' = account
  /\ UNCHANGED <<block, fundVars, nonces, disputed, protocolFeeBps, feeRecipient, signed, spent>>

\* receive(): ether for no escrow.
Receive ==
  /\ stray[Ether] < MaxDonation
  /\ held' = [held EXCEPT ![Ether] = @ + 1]
  /\ stray' = [stray EXCEPT ![Ether] = @ + 1]
  /\ UNCHANGED <<block, escrows, deposited, paidOut, nonces, disputed, adminVars, signed, spent>>

NextBlock ==
  /\ block < MaxBlock
  /\ block' = block + 1
  /\ UNCHANGED <<fundVars, nonces, disputed, adminVars, signed, spent>>

Next ==
  \/ \E a \in Depositors, terms \in CreateTerms, arbiter \in Arbiters :
       \/ CreateEscrowETH(a, terms, arbiter)
       \/ CreateEscrowERC20(a, terms, arbiter)
  \/ \E s \in Signature : Sign(s)
  \/ \E s \in signed : CreateEscrowWithSignature(s) \/ ReleaseWithSignature(s)
  \/ \E from \in Accounts, id \in Ids : Release(from, id) \/ Refund(from, id) \/ Dispute(from, id)
  \/ \E from \in Accounts, id \in Ids, bps \in BpsChoices : ResolveDispute(from, id, bps)
  \/ \E from \in Accounts, bps \in BpsChoices : SetProtocolFee(from, bps)
  \/ \E from \in Accounts, to \in Accounts \cup {NoOne} :
       SetFeeRecipient(from, to) \/ TransferAdmin(from, to)
  \/ Receive
  \/ NextBlock

Spec == Init /\ [][Next]_vars

-----------------------------------------------------------------------------
(* Properties *)

\* An escrow never costs the contract more than was paid in under its id, and
\* what it has paid leaves enough of that to settle the escrow if it is open.
\* Several settlement paths and re-creation of the id share one stored state.
NeverOverpaid ==
  \A id \in Ids : paidOut[id] + (IF Open(id) THEN id.amount ELSE 0) <= deposited[id]

Total(ids) == MapThenSumSet(LAMBDA id : id.amount, ids)
Claims(token) == Total({id \in Ids : id.token = token /\ Open(id)})

\* Of each token the contract owns exactly what its open escrows claim and what
\* nobody can claim: gifts, fees without a recipient, overwritten escrows.  So
\* an escrow can always be settled, whatever the others do.
Accounted == \A t \in AnyToken : held[t] = Claims(t) + stray[t]

\* To whoever looks at its money only, the contract is an EscrowVault: funds leave
\* by settlements of open escrows alone, each of which ends its escrow and pays
\* all of it but a fee, although five functions settle under changing fees.
Vault == INSTANCE EscrowVault WITH
  EscrowIds <- EscrowId,
  Currencies <- AnyToken,
  open <- {id \in Ids : Open(id)},
  funds <- held

ImplementsVault == Vault!Spec

\* A signature the contract has accepted, for a creation or for a release, is
\* behind the nonce of its signer and so never accepted again.
ReplaySafe == \A s \in spent : s.nonce < nonces[s.signer]

\* What docs/STATE_MACHINES.md says of released and refunded: terminal.
SettledIsFinal ==
  [][\A id \in Ids : ~Open(id) => escrows'[id].state = escrows[id].state]_vars

\* What the contract says of Escrow.amount: the amount in escrow.  With a fee of
\* zero, what was paid in under an open id and not paid out is its amount.
AmountIsInEscrow ==
  \A id \in Ids : Open(id) => deposited[id] - paidOut[id] = id.amount
=============================================================================
