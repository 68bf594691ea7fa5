---------------------------- MODULE L1BridgeProofs ----------------------------
(***************************************************************************)
(* The inbox is a hash-linked list and the history of both rollup          *)
(* contracts is final, whoever calls them with whatever arguments.  The    *)
(* bridge leaves them alone, and pays every message at most once, whatever *)
(* the called targets do.                                                  *)
(***************************************************************************)
EXTENDS L1Bridge, TLAPS

-----------------------------------------------------------------------------
(* Type correctness *)

\* Lemma: the contracts are deployed well typed.
LEMMA L1InitTypes == L1Init => L1TypeOK
BY L1Assumption DEF L1Init, L1TypeOK, BatchHash, Header, AnyRoot, Index, ZeroHash

\* Lemma: every transaction of the two contracts keeps the types.
LEMMA L1StepTypes == L1TypeOK /\ [L1Next]_l1Vars => L1TypeOK'
<1> SUFFICES ASSUME L1TypeOK, [L1Next]_l1Vars PROVE L1TypeOK'
    OBVIOUS
<1> USE L1Assumption
<1>1. ASSUME NEW from \in Accounts, NEW header \in Header, SubmitBatch(from, header)
      PROVE  L1TypeOK'
    <2>1. latestBatchIndex \in Index /\ latestBatchIndex + 1 \in 0 .. MaxBatches
        BY <1>1 DEF SubmitBatch, StoreBatch, L1TypeOK, Index
    <2>2. batchHashes' \in [Index -> BatchHash \cup {ZeroHash}]
        BY <1>1, <2>1 DEF SubmitBatch, StoreBatch, L1TypeOK, Header
    <2>3. batchHeaders' \in [Index -> Header \cup {NoHeader}]
        BY <1>1, <2>1 DEF SubmitBatch, StoreBatch, L1TypeOK
    <2> QED
        BY <1>1, <2>1, <2>2, <2>3 DEF SubmitBatch, StoreBatch, sccVars, L1TypeOK
<1>2. ASSUME NEW from \in Accounts, NEW i \in Index, NEW root \in AnyRoot, CommitStateRoot(from, i, root)
      PROVE  L1TypeOK'
    <2>1. i + 1 \in 0 .. MaxBatches
        BY DEF Index
    <2>2. stateRoots' \in [Index -> AnyRoot] /\ commitmentTimestamps' \in [Index -> 0 .. MaxNow]
        BY <1>2 DEF CommitStateRoot, StoreRoot, L1TypeOK
    <2> QED
        BY <1>2, <2>1, <2>2 DEF CommitStateRoot, StoreRoot, inboxVars, L1TypeOK
<1>3. ASSUME NEW from \in Accounts, NEW new \in Accounts,
             SetInboxSequencer(from, new) \/ SetSccSequencer(from, new)
      PROVE  L1TypeOK'
    BY <1>3 DEF SetInboxSequencer, SetSccSequencer, inboxVars, sccVars, L1TypeOK
<1>4. CASE NewL1Block
    BY <1>4 DEF NewL1Block, inboxVars, sccVars, L1TypeOK
<1>5. CASE UNCHANGED l1Vars
    BY <1>5 DEF l1Vars, inboxVars, sccVars, L1TypeOK
<1> QED
    BY <1>1, <1>2, <1>3, <1>4, <1>5 DEF L1Next

\* Theorem: the contracts' storage is well typed (L1Rollup's type invariant).
THEOREM ContractsTypeCorrect == L1Spec => []L1TypeOK
<1> QED
    BY L1InitTypes, L1StepTypes, PTL DEF L1Spec

-----------------------------------------------------------------------------
(* The hash-linked list *)

\* Lemma: submitBatch appends to the list: the header names the hash before it,
\* its own hash is new, and the place it takes was empty.
LEMMA SubmitKeepsChain ==
  ASSUME L1TypeOK, HashChain, NEW from, NEW header \in Header,
         \A i \in Index : batchHashes[i] # header.hash,
         SubmitBatch(from, header)
  PROVE  HashChain'
<1> USE L1Assumption
<1> DEFINE last == latestBatchIndex
<1>1. /\ last \in Index /\ last \in Nat /\ latestBatchIndex' = last + 1
      /\ header.hash \in Nat /\ header.hash # ZeroHash
    BY DEF SubmitBatch, StoreBatch, L1TypeOK, Index, Header, BatchHash, ZeroHash
<1>2. \A i \in Index : batchHashes'[i] = IF i = last THEN header.hash ELSE batchHashes[i]
    BY DEF SubmitBatch, StoreBatch, L1TypeOK
<1>3. \A i \in Index : batchHeaders'[i] = IF i = last THEN header ELSE batchHeaders[i]
    BY DEF SubmitBatch, StoreBatch, L1TypeOK
<1>4. last > 0 => header.parentBatchHash = batchHashes[last - 1]
    BY DEF SubmitBatch, InboxAccepts
<1> HIDE DEF last
<1>5. ASSUME NEW i \in Index, i > 0, i < latestBatchIndex'
      PROVE  batchHeaders'[i].parentBatchHash = batchHashes'[i - 1]
    <2>1. i - 1 \in Index /\ i - 1 # last
        BY <1>1, <1>5 DEF Index
    <2>2. CASE i = last
        BY <1>2, <1>3, <1>4, <1>5, <2>1, <2>2
    <2>3. CASE i # last
        BY <1>1, <1>2, <1>3, <1>5, <2>1, <2>3 DEF HashChain, Index, last
    <2> QED
        BY <2>2, <2>3
<1>6. ASSUME NEW i \in 0 .. latestBatchIndex' - 1, NEW j \in 0 .. latestBatchIndex' - 1,
             batchHashes'[i] = batchHashes'[j]
      PROVE  i = j
    <2>1. i \in Index /\ j \in Index
        BY <1>1 DEF Index
    <2>2. CASE i = last \/ j = last
        BY <1>2, <1>6, <2>1, <2>2
    <2>3. CASE i # last /\ j # last
        <3>1. i \in 0 .. latestBatchIndex - 1 /\ j \in 0 .. latestBatchIndex - 1
            BY <1>1, <2>3 DEF last
        <3> QED
            BY <1>2, <1>6, <2>1, <2>3, <3>1 DEF HashChain
    <2> QED
        BY <2>2, <2>3
<1>7. ASSUME NEW i \in Index
      PROVE  i >= latestBatchIndex' <=> batchHashes'[i] = ZeroHash
    <2>1. i >= latestBatchIndex <=> batchHashes[i] = ZeroHash
        BY DEF HashChain
    <2> QED
        BY <1>1, <1>2, <2>1 DEF Index, last
<1> QED
    BY <1>5, <1>6, <1>7 DEF HashChain

\* Theorem: the inbox is one hash-linked list (HashChain), for any accounts,
\* calls and changes of sequencer.
THEOREM InboxIsLinked == L1Spec => []HashChain
<1>1. L1Init => HashChain
    BY L1Assumption DEF L1Init, HashChain, Index, ZeroHash
<1>2. L1TypeOK /\ HashChain /\ [L1Next]_l1Vars => HashChain'
    <2> SUFFICES ASSUME L1TypeOK, HashChain, [L1Next]_l1Vars PROVE HashChain'
        OBVIOUS
    <2>1. ASSUME NEW from \in Accounts, NEW header \in Header,
                 \A i \in Index : batchHashes[i] # header.hash,
                 SubmitBatch(from, header)
          PROVE  HashChain'
        BY <2>1, SubmitKeepsChain
    <2>2. ASSUME UNCHANGED <<latestBatchIndex, batchHashes, batchHeaders>> PROVE HashChain'
        BY <2>2 DEF HashChain
    <2> QED
        BY <2>1, <2>2
        DEF L1Next, CommitStateRoot, SetInboxSequencer, SetSccSequencer, NewL1Block, inboxVars, l1Vars
<1> QED
    BY <1>1, <1>2, ContractsTypeCorrect, PTL DEF L1Spec

-----------------------------------------------------------------------------
(* History *)

\* Theorem: nothing that was posted or committed ever changes (HistoryIsFinal):
\* both contracts write only at their counters, which only grow.
THEOREM PostedStays == L1Spec => HistoryIsFinal
<1> DEFINE Final ==
      /\ latestBatchIndex' >= latestBatchIndex
      /\ latestCommittedBatch' >= latestCommittedBatch
      /\ \A i \in 0 .. latestBatchIndex - 1 :
           batchHashes'[i] = batchHashes[i] /\ batchHeaders'[i] = batchHeaders[i]
      /\ \A i \in 0 .. latestCommittedBatch - 1 :
           /\ stateRoots'[i] = stateRoots[i]
           /\ commitmentTimestamps'[i] = commitmentTimestamps[i]
<1>1. L1TypeOK /\ [L1Next]_l1Vars => [Final]_l1Vars
    <2> SUFFICES ASSUME L1TypeOK, L1Next PROVE Final
        OBVIOUS
    <2> USE L1Assumption
    <2>1. /\ latestBatchIndex \in Nat /\ latestCommittedBatch \in Nat
          /\ 0 .. latestBatchIndex - 1 \subseteq Index
          /\ 0 .. latestCommittedBatch - 1 \subseteq Index
        BY DEF L1TypeOK, Index
    <2>2. ASSUME NEW from \in Accounts, NEW header \in Header, SubmitBatch(from, header)
          PROVE  Final
        BY <2>1, <2>2 DEF SubmitBatch, StoreBatch, sccVars, L1TypeOK
    <2>3. ASSUME NEW from \in Accounts, NEW i \in Index, NEW root \in AnyRoot, CommitStateRoot(from, i, root)
          PROVE  Final
        BY <2>1, <2>3 DEF CommitStateRoot, SccAccepts, StoreRoot, inboxVars, L1TypeOK
    <2>4. CASE \/ \E from, new \in Accounts : SetInboxSequencer(from, new) \/ SetSccSequencer(from, new)
               \/ NewL1Block
        BY <2>1, <2>4 DEF SetInboxSequencer, SetSccSequencer, NewL1Block, inboxVars, sccVars
    <2> QED
        BY <2>2, <2>3, <2>4 DEF L1Next
<1> QED
    BY <1>1, ContractsTypeCorrect, PTL DEF L1Spec, HistoryIsFinal

-----------------------------------------------------------------------------
(* The composition implements the rollup contracts *)

\* Theorem: with the bridge beside them, and L2, the rollup contracts behave as
\* they do alone: every step of the composition is one of theirs or leaves their
\* state as it is (finalizeWithdrawal only asks isCommitted).
THEOREM BridgeLeavesRollup == BridgeSpec => L1Spec
<1>1. BridgeInit => L1Init
    BY DEF BridgeInit
<1>2. [BridgeNext]_<<l1Vars, bridgeVars>> => [L1Next]_l1Vars
    BY DEF BridgeNext, InitiateWithdrawal, DepositETH, ReceiveETH, FinalizeWithdrawal,
           CallReturns, CallFails
<1> QED
    BY <1>1, <1>2, PTL DEF BridgeSpec, L1Spec

\* Theorem: so the inbox stays a hash-linked list (HashChain).
THEOREM BridgedInboxIsLinked == BridgeSpec => []HashChain
BY BridgeLeavesRollup, InboxIsLinked, PTL

\* Theorem: and what was posted and committed stays so (HistoryIsFinal).
THEOREM BridgedPostedStays == BridgeSpec => HistoryIsFinal
BY BridgeLeavesRollup, PostedStays, PTL

-----------------------------------------------------------------------------
(* Type correctness *)

\* Lemma: the state of L2 and of the calls that are open, by its parts.
LEMMA BridgeStateParts ==
  ASSUME bridgeState \in BridgeState
  PROVE  /\ finalizedWithdrawals \in SUBSET {MessageHash(m) : m \in Message}
         /\ depositNonce \in 0 .. MaxDeposits
         /\ bridgeBalance \in 0 .. MaxBalance
         /\ paid \in [Message -> Nat]
<1>1. /\ bridgeState.finalized = finalizedWithdrawals
      /\ bridgeState.deposits = depositNonce
      /\ bridgeState.balance = bridgeBalance
      /\ bridgeState.paid = paid
    BY DEF bridgeState
<1> QED
    BY <1>1 DEF BridgeState

\* Lemma: the bridge is deployed well typed.
LEMMA BridgeInitTypes == BridgeInit => BridgeTypeOK
BY BridgeAssumption DEF BridgeInit, BridgeTypeOK, bridgeState, BridgeState

\* Lemma: every step of the bridge, of L2 and of a called target keeps the types.
LEMMA BridgeStepTypes ==
  BridgeTypeOK /\ [BridgeNext]_<<l1Vars, bridgeVars>> => BridgeTypeOK'
<1> SUFFICES ASSUME BridgeTypeOK, [BridgeNext]_<<l1Vars, bridgeVars>> PROVE BridgeTypeOK'
    OBVIOUS
<1> USE BridgeAssumption
<1>0. /\ finalizedWithdrawals \in SUBSET {MessageHash(m) : m \in Message}
      /\ depositNonce \in 0 .. MaxDeposits
      /\ bridgeBalance \in 0 .. MaxBalance
      /\ paid \in [Message -> Nat]
    BY BridgeStateParts DEF BridgeTypeOK
<1>1. ASSUME UNCHANGED bridgeVars
      PROVE  BridgeTypeOK'
    BY <1>1 DEF bridgeVars, l1BridgeVars, BridgeTypeOK, bridgeState
<1>2. ASSUME NEW content \in Contents, NEW value \in Values, NEW block \in L2Blocks,
             InitiateWithdrawal(content, value, block)
      PROVE  BridgeTypeOK'
    <2>1. Len(withdrawals) \in 0 .. MaxWithdrawals - 1
        BY <1>2 DEF InitiateWithdrawal, BridgeTypeOK
    <2>2. withdrawals' \in Seq(Message)
        BY <1>2, <2>1 DEF InitiateWithdrawal, BridgeTypeOK, Message
    <2> QED
        BY <1>2, <2>2 DEF InitiateWithdrawal, l1BridgeVars, BridgeTypeOK, bridgeState
<1>3. ASSUME NEW value \in Values, DepositETH(value) \/ ReceiveETH(value)
      PROVE  BridgeTypeOK'
    <2>1. /\ depositNonce' \in 0 .. MaxDeposits
          /\ bridgeBalance' \in 0 .. MaxBalance
        BY <1>0, <1>3 DEF DepositETH, ReceiveETH
    <2> QED
        BY <1>0, <1>3, <2>1
           DEF DepositETH, ReceiveETH, BridgeTypeOK, bridgeState, BridgeState
<1>4. ASSUME NEW m \in Message, NEW i \in Index, FinalizeWithdrawal(m, i)
      PROVE  BridgeTypeOK'
    <2>1. /\ finalizedWithdrawals' \in SUBSET {MessageHash(n) : n \in Message}
          /\ bridgeBalance' \in 0 .. MaxBalance
          /\ paid' \in [Message -> Nat]
        <3>1. finalizedWithdrawals' \in SUBSET {MessageHash(n) : n \in Message}
            BY <1>0, <1>4 DEF FinalizeWithdrawal
        <3>2. bridgeBalance' \in 0 .. MaxBalance
            <4>1. m.value \in Nat
                BY DEF Message
            <4> QED
                BY <1>0, <1>4, <4>1 DEF FinalizeWithdrawal
        <3>3. paid' \in [Message -> Nat]
            BY <1>0, <1>4 DEF FinalizeWithdrawal
        <3> QED
            BY <3>1, <3>2, <3>3
    <2>2. frames' \in Seq(BridgeState)
        BY <1>4 DEF FinalizeWithdrawal, BridgeTypeOK
    <2> QED
        BY <1>0, <1>4, <2>1, <2>2
           DEF FinalizeWithdrawal, BridgeTypeOK, bridgeState, BridgeState
<1>5. ASSUME CallReturns
      PROVE  BridgeTypeOK'
    BY <1>5 DEF CallReturns, BridgeTypeOK, bridgeState
<1>6. ASSUME CallFails
      PROVE  BridgeTypeOK'
    <2>1. Head(frames) \in BridgeState /\ Tail(frames) \in Seq(BridgeState)
        BY <1>6 DEF CallFails, BridgeTypeOK
    <2> QED
        BY <1>6, <2>1 DEF CallFails, BridgeTypeOK, bridgeState, BridgeState
<1> QED
    BY <1>1, <1>2, <1>3, <1>4, <1>5, <1>6 DEF BridgeNext

\* Theorem: the bridge's state is well typed, the states its open calls would
\* fall back to included.
THEOREM BridgeTypeCorrect == BridgeSpec => []BridgeTypeOK
BY BridgeInitTypes, BridgeStepTypes, PTL DEF BridgeSpec

-----------------------------------------------------------------------------
(* One payment per withdrawal *)

\* Payments and marks agree in a state of the bridge.
Settled(s) ==
  \A m \in Message : s.paid[m] = IF MessageHash(m) \in s.finalized THEN 1 ELSE 0

\* The strengthening: they agree in the state each open call would fall back to
\* as well, and L2 numbers its withdrawals in order.
BridgeInv ==
  /\ BridgeTypeOK
  /\ Settled(bridgeState)
  /\ \A k \in 1 .. Len(frames) : Settled(frames[k])
  /\ \A i \in 1 .. Len(withdrawals) : withdrawals[i].nonce = i - 1

\* Lemma: two messages with one hash are one message.
LEMMA HashIsInjective ==
  ASSUME NEW m \in Message, NEW n \in Message, MessageHash(m) = MessageHash(n)
  PROVE  m = n
BY DEF Message, MessageHash

\* Lemma: the strengthening implies the property.
LEMMA BridgeInvPays == BridgeInv => PaidOnce
<1> SUFFICES ASSUME BridgeInv PROVE PaidOnce
    OBVIOUS
<1>1. ASSUME NEW i \in 1 .. Len(withdrawals), NEW j \in 1 .. Len(withdrawals),
             MessageHash(withdrawals[i]) = MessageHash(withdrawals[j])
      PROVE  i = j
    <2>1. withdrawals[i] \in Message /\ withdrawals[j] \in Message
        BY DEF BridgeInv, BridgeTypeOK
    <2>2. withdrawals[i] = withdrawals[j]
        BY <1>1, <2>1, HashIsInjective
    <2> QED
        BY <2>2 DEF BridgeInv
<1>2. ASSUME NEW m \in Message
      PROVE  paid[m] = IF MessageHash(m) \in finalizedWithdrawals THEN 1 ELSE 0
    BY DEF BridgeInv, Settled, bridgeState
<1> QED
    BY <1>1, <1>2 DEF PaidOnce

\* Lemma: it holds at the deployment.
LEMMA BridgeInitInv == BridgeInit => BridgeInv
BY BridgeInitTypes DEF BridgeInit, BridgeInv, Settled, bridgeState

\* Lemma: every step keeps it.  A payment marks and counts one message that was
\* neither, an open call that fails falls back to a state in which they agreed.
LEMMA BridgeStepInv ==
  BridgeInv /\ [BridgeNext]_<<l1Vars, bridgeVars>> => BridgeInv'
<1> SUFFICES ASSUME BridgeInv, [BridgeNext]_<<l1Vars, bridgeVars>> PROVE BridgeInv'
    OBVIOUS
<1>0. BridgeTypeOK /\ BridgeTypeOK'
    BY BridgeStepTypes DEF BridgeInv
<1>1. ASSUME UNCHANGED bridgeVars
      PROVE  BridgeInv'
    BY <1>0, <1>1 DEF bridgeVars, l1BridgeVars, BridgeInv, Settled, bridgeState
<1>2. ASSUME NEW content \in Contents, NEW value \in Values, NEW block \in L2Blocks,
             InitiateWithdrawal(content, value, block)
      PROVE  BridgeInv'
    <2>1. \A i \in 1 .. Len(withdrawals') : withdrawals'[i].nonce = i - 1
        BY <1>0, <1>2 DEF InitiateWithdrawal, BridgeInv, BridgeTypeOK
    <2> QED
        BY <1>0, <1>2, <2>1
           DEF InitiateWithdrawal, l1BridgeVars, BridgeInv, Settled, bridgeState
<1>3. ASSUME NEW value \in Values, DepositETH(value) \/ ReceiveETH(value)
      PROVE  BridgeInv'
    BY <1>0, <1>3 DEF DepositETH, ReceiveETH, BridgeInv, Settled, bridgeState
<1>4. ASSUME NEW m \in Message, NEW i \in Index, FinalizeWithdrawal(m, i)
      PROVE  BridgeInv'
    <2>1. Settled(bridgeState)'
        <3>1. paid \in [Message -> Nat]
            BY <1>0, BridgeStateParts DEF BridgeTypeOK
        <3>2. ASSUME NEW n \in Message
              PROVE  paid'[n] = IF MessageHash(n) \in finalizedWithdrawals' THEN 1 ELSE 0
            <4>1. paid[n] = IF MessageHash(n) \in finalizedWithdrawals THEN 1 ELSE 0
                BY DEF BridgeInv, Settled, bridgeState
            <4>2. MessageHash(n) = MessageHash(m) => n = m
                BY HashIsInjective
            <4> QED
                BY <1>4, <3>1, <4>1, <4>2 DEF FinalizeWithdrawal
        <3> QED
            BY <3>2 DEF Settled, bridgeState
    <2>2. \A k \in 1 .. Len(frames') : Settled(frames'[k])
        <3>1. frames \in Seq(BridgeState)
            BY <1>0 DEF BridgeTypeOK
        <3>2. frames' = <<bridgeState>> \o frames
            BY <1>4 DEF FinalizeWithdrawal
        <3>3. ASSUME NEW k \in 1 .. Len(frames')
              PROVE  frames'[k] = IF k = 1 THEN bridgeState ELSE frames[k - 1]
            BY <3>1, <3>2, <1>0 DEF BridgeTypeOK
        <3>4. Len(frames') = Len(frames) + 1
            BY <3>1, <3>2, <1>0 DEF BridgeTypeOK
        <3>5. ASSUME NEW k \in 1 .. Len(frames')
              PROVE  Settled(frames'[k])
            <4>1. CASE k = 1
                BY <3>3, <4>1 DEF BridgeInv
            <4>2. CASE k # 1
                <5>1. k - 1 \in 1 .. Len(frames)
                    BY <3>1, <3>4, <4>2
                <5> QED
                    BY <3>3, <4>2, <5>1 DEF BridgeInv
            <4> QED
                BY <4>1, <4>2
        <3> QED
            BY <3>5
    <2> QED
        BY <1>0, <1>4, <2>1, <2>2 DEF FinalizeWithdrawal, BridgeInv
<1>5. ASSUME CallReturns
      PROVE  BridgeInv'
    <2>1. \A k \in 1 .. Len(frames') : Settled(frames'[k])
        BY <1>0, <1>5 DEF CallReturns, BridgeInv, BridgeTypeOK
    <2> QED
        BY <1>0, <1>5, <2>1 DEF CallReturns, BridgeInv, Settled, bridgeState
<1>6. ASSUME CallFails
      PROVE  BridgeInv'
    <2>1. frames \in Seq(BridgeState) /\ frames # <<>> /\ frames' = Tail(frames)
        BY <1>0, <1>6 DEF CallFails, BridgeTypeOK
    <2>2. \A k \in 1 .. Len(frames') : Settled(frames'[k])
        BY <2>1 DEF BridgeInv
    <2>3. Settled(Head(frames))
        BY <2>1 DEF BridgeInv
    <2>4. Settled(bridgeState)'
        BY <1>6, <2>3 DEF CallFails, Settled, bridgeState
    <2> QED
        BY <1>0, <1>6, <2>2, <2>4 DEF CallFails, BridgeInv
<1> QED
    BY <1>1, <1>2, <1>3, <1>4, <1>5, <1>6 DEF BridgeNext, BridgeInv

\* Theorem: no withdrawal is paid twice and none is marked without having been
\* paid (PaidOnce), for any messages, amounts and depth of calls.
THEOREM WithdrawalsPaidOnce == BridgeSpec => []PaidOnce
BY BridgeInitInv, BridgeStepInv, BridgeInvPays, PTL DEF BridgeSpec
=============================================================================
