------------------------------- MODULE L1Bridge -------------------------------
(***************************************************************************)
(* The two ends of the ether bridge, composed with the rollup contracts:   *)
(*   - L2StandardBridge numbers a withdrawal, hashes its message and emits *)
(*     it;                                                                 *)
(*   - L1StandardBridge numbers deposits, and pays a message out once some *)
(*     batch is committed.                                                 *)
(*                                                                         *)
(* Paying is a call of the target, which may be a contract: before it      *)
(* returns it can call the bridge again.  So finalizeWithdrawal is two     *)
(* steps, the checks and the payment up to the call, and the return of the *)
(* call.  `frames` is the stack of calls that have not returned; each      *)
(* holds the state before it, because a call that fails makes              *)
(* finalizeWithdrawal revert, which undoes everything done since.          *)
(*                                                                         *)
(* As the contract does, the model takes any well-formed proof from anyone *)
(* and never asks L2 whether it emitted it: the sequencer is trusted.      *)
(***************************************************************************)
EXTENDS L1Rollup, Sequences

CONSTANTS
  Contents,         \* sender, target, gas limit and calldata of a message
  Values,           \* amounts of ether
  L2Blocks,         \* block numbers of L2
  MaxWithdrawals,   \* bound on withdrawalNonce
  MaxDeposits,      \* bound on depositNonce
  MaxBalance,       \* bound on the ether the bridge holds
  MaxDepth          \* bound on calls within calls

ASSUME BridgeAssumption ==
  /\ Values \subseteq Nat
  /\ MaxWithdrawals \in Nat
  /\ MaxDeposits \in Nat
  /\ MaxBalance \in Nat
  /\ MaxDepth \in Nat

Message == [nonce: 0 .. MaxWithdrawals - 1, content: Contents, value: Values,
            l2BlockNumber: L2Blocks]

\* Mutant: the nonce is left out of the hash.
HashWithoutNonce(m) == <<0, m.content, m.value, m.l2BlockNumber>>

\* keccak of the encoded fields: equal for equal fields only.
MessageHash(m) == <<m.nonce, m.content, m.value, m.l2BlockNumber>>

VARIABLES
  withdrawals,            \* L2: the messages emitted; withdrawalNonce is their number
  finalizedWithdrawals,   \* L1: the hashes the mapping holds `true` for
  depositNonce,           \* L1
  bridgeBalance,          \* L1: the ether of L1StandardBridge
  paid,                   \* how often each message's target was paid (history)
  frames                  \* L1: the calls in progress, the innermost first

bridgeState == [finalized |-> finalizedWithdrawals, deposits |-> depositNonce,
                balance |-> bridgeBalance, paid |-> paid]
l1BridgeVars == <<finalizedWithdrawals, depositNonce, bridgeBalance, paid, frames>>
bridgeVars == <<withdrawals, l1BridgeVars>>

BridgeInit ==
  /\ L1Init
  /\ withdrawals = <<>>
  /\ finalizedWithdrawals = {}
  /\ depositNonce = 0
  /\ bridgeBalance = 0
  /\ paid = [m \in Message |-> 0]
  /\ frames = <<>>

-----------------------------------------------------------------------------
(* L2StandardBridge *)

\* withdraw and withdrawTo.  The zero address as a target is refused too.
InitiateWithdrawal(content, value, block) ==
  /\ value > 0
  /\ Len(withdrawals) < MaxWithdrawals
  /\ withdrawals' = Append(withdrawals,
       [nonce |-> Len(withdrawals), content |-> content, value |-> value,
        l2BlockNumber |-> block])
  /\ UNCHANGED <<l1Vars, l1BridgeVars>>

-----------------------------------------------------------------------------
(* L1StandardBridge *)

\* depositETH and depositETHTo.
DepositETH(value) ==
  /\ value > 0
  /\ depositNonce < MaxDeposits
  /\ bridgeBalance + value <= MaxBalance
  /\ depositNonce' = depositNonce + 1
  /\ bridgeBalance' = bridgeBalance + value
  /\ UNCHANGED <<l1Vars, withdrawals, finalizedWithdrawals, paid, frames>>

\* Anyone may send it ether, a target that was just paid included.
ReceiveETH(value) ==
  /\ bridgeBalance + value <= MaxBalance
  /\ bridgeBalance' = bridgeBalance + value
  /\ UNCHANGED <<l1Vars, withdrawals, finalizedWithdrawals, depositNonce, paid, frames>>

\* finalizeWithdrawal up to the call of the target.  The caller names a batch,
\* which need not be the one that holds the withdrawal.  A call with more ether
\* than the bridge has fails at once, and so reverts.
FinalizeWithdrawal(m, batchIndex) ==
  /\ MessageHash(m) \notin finalizedWithdrawals
  /\ IsCommitted(batchIndex)
  /\ m.value <= bridgeBalance
  /\ Len(frames) < MaxDepth
  /\ frames' = <<bridgeState>> \o frames
  /\ finalizedWithdrawals' = finalizedWithdrawals \cup {MessageHash(m)}
  /\ bridgeBalance' = bridgeBalance - m.value
  /\ paid' = [paid EXCEPT ![m] = @ + 1]
  /\ UNCHANGED <<l1Vars, withdrawals, depositNonce>>

\* The target accepts the payment, and WithdrawalFinalized is emitted.
CallReturns ==
  /\ frames # <<>>
  /\ frames' = Tail(frames)
  /\ UNCHANGED <<l1Vars, withdrawals, finalizedWithdrawals, depositNonce,
                 bridgeBalance, paid>>

\* The target refuses the payment: finalizeWithdrawal unmarks the message and
\* reverts, and with it every payment and deposit made from inside the call.
CallFails ==
  /\ frames # <<>>
  /\ frames' = Tail(frames)
  /\ finalizedWithdrawals' = Head(frames).finalized
  /\ depositNonce' = Head(frames).deposits
  /\ bridgeBalance' = Head(frames).balance
  /\ paid' = Head(frames).paid
  /\ UNCHANGED <<l1Vars, withdrawals>>

-----------------------------------------------------------------------------
\* L2 runs beside L1.  On L1 a transaction is over before the next begins; what
\* a target may call from inside one is the bridge.  (Its calls of the rollup
\* contracts are those L1Next makes between two transactions.)
BridgeNext ==
  \/ frames = <<>> /\ L1Next /\ UNCHANGED bridgeVars
  \/ \E content \in Contents, value \in Values, block \in L2Blocks :
       InitiateWithdrawal(content, value, block)
  \/ \E value \in Values : DepositETH(value) \/ ReceiveETH(value)
  \/ \E m \in Message, i \in Index : FinalizeWithdrawal(m, i)
  \/ CallReturns
  \/ CallFails

BridgeSpec == BridgeInit /\ [][BridgeNext]_<<l1Vars, bridgeVars>>

-----------------------------------------------------------------------------
\* A withdrawal is worth one payment.  No two withdrawals of L2 share a message
\* hash, however alike they are; and in every state, in the middle of a payment
\* too, a message has been paid once if its hash is marked and never if it is
\* not: through payments inside payments, failed calls that undo the payments
\* made within them, and retries (finalizeWithdrawal, _initiateWithdrawal).
PaidOnce ==
  /\ \A i, j \in 1 .. Len(withdrawals) :
       MessageHash(withdrawals[i]) = MessageHash(withdrawals[j]) => i = j
  /\ \A m \in Message :
       paid[m] = IF MessageHash(m) \in finalizedWithdrawals THEN 1 ELSE 0

\* The type invariant, a call's saved state included.
BridgeState == [finalized: SUBSET {MessageHash(m) : m \in Message},
                deposits: 0 .. MaxDeposits, balance: 0 .. MaxBalance,
                paid: [Message -> Nat]]
BridgeTypeOK ==
  /\ withdrawals \in Seq(Message)
  /\ bridgeState \in BridgeState
  /\ frames \in Seq(BridgeState)
=============================================================================
