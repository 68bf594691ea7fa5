------------------------ MODULE BatchSubmitterProofs ------------------------
(***************************************************************************)
(* Proofs about BatchSubmitter, for every number of batches, withdrawals   *)
(* and faults.                                                             *)
(***************************************************************************)
EXTENDS BatchSubmitter, TLAPS

USE DEF Index, BatchHash, ZeroHash, AnyRoot

\* Nothing in this system calls setSequencer.
OneSequencer == inboxSequencer = Genesis /\ sccSequencer = Genesis

\* A transaction the node accepted was valid then, and the inbox only grows: a
\* batch in the mempool is either still the next one, with the right parent, or
\* its index is taken; a commitment in the mempool is for a batch that is there.
MempoolBehind ==
  \A tx \in mempool :
    /\ tx.kind = "submit" => tx.header.batchIndex <= latestBatchIndex
    /\ tx.kind = "submit" /\ tx.header.batchIndex = latestBatchIndex /\ latestBatchIndex > 0
         => tx.header.parentBatchHash = batchHashes[latestBatchIndex - 1]
    /\ tx.kind = "commit" => tx.header.batchIndex < latestBatchIndex

\* A receipt, of whatever status, proves that the index of the batch is taken.
TaskBehind ==
  /\ pc = "submitSent" /\ receipt # "none" => batch.batchIndex < latestBatchIndex
  /\ pc \in {"commit", "commitSent"} => batch.batchIndex < latestBatchIndex

\* The inductive invariant of CommittedWereSubmitted and IndexNotAhead.
Behind ==
  /\ OneSequencer
  /\ MempoolBehind
  /\ TaskBehind
  /\ CommittedWereSubmitted
  /\ IndexNotAhead

\* What is or will be committed for an index is the root in the inbox, unless
\* the submission of the index reverted and was taken for done.
RootOf(header) ==
  header.batchIndex \notin revertedAsOk => header.stateRoot = batchHeaders[header.batchIndex].stateRoot

RootsFollow ==
  /\ \A tx \in mempool : tx.kind = "commit" => RootOf(tx.header)
  /\ pc = "submitSent" /\ receipt = "ok" => RootOf(batch)
  /\ pc \in {"commit", "commitSent"} => RootOf(batch)
  /\ RootsAgreeUnlessReverted

\* Batch hashes are handed out once, each is on L1 at most once and not there
\* while its transaction is in the mempool.
Handling == {"submitSent", "commit", "commitSent", "finalize"}

HashesUnique ==
  /\ pc \in Handling => batch.hash < nextHash
  /\ \A tx \in mempool : tx.header.hash < nextHash
  /\ \A tx1, tx2 \in mempool :
       tx1.kind = "submit" /\ tx2.kind = "submit" /\ tx1.header.hash = tx2.header.hash => tx1 = tx2
  /\ \A i \in Index : batchHashes[i] < nextHash
  /\ \A i \in Index : i >= latestBatchIndex => batchHashes[i] = ZeroHash
  /\ \A i, j \in Index :
       i < latestBatchIndex /\ j < latestBatchIndex /\ batchHashes[i] = batchHashes[j] => i = j
  /\ \A i \in Index : i < latestBatchIndex => batchHashes[i] \in BatchHash
  /\ \A tx \in mempool, i \in Index : tx.kind = "submit" => batchHashes[i] # tx.header.hash

\* A withdrawal is drained once, into one batch.
DrainedOnce ==
  /\ pending \subseteq enqueued
  /\ \A h \in BatchHash : carried[h] \subseteq enqueued /\ carried[h] \cap pending = {}
  /\ \A h1, h2 \in BatchHash : h1 # h2 => carried[h1] \cap carried[h2] = {}
  /\ \A h \in BatchHash : h >= nextHash => carried[h] = {}

-----------------------------------------------------------------------------
(* Type correctness *)

LEMMA TypeInit == Init => TypeOK
BY L1Assumption, SubmitterAssumption
   DEF Init, L1Init, TypeOK, L1TypeOK, Pcs, NoHeader, Tx

\* A transaction that is mined leaves the contracts well typed.
LEMMA ExecuteType ==
  ASSUME TypeOK, NEW tx \in mempool, TxSucceeds(tx), ExecuteTx(tx)
  PROVE  L1TypeOK'
<1> USE L1Assumption
<1>0. tx \in Tx /\ tx.header \in Header
  BY DEF TypeOK, Tx
<1>1. CASE tx.kind = "submit"
  <2>1. SubmitBatch(Genesis, tx.header)
    BY <1>1 DEF ExecuteTx
  <2>2. tx.header.hash \in BatchHash
    BY <1>0 DEF Header
  <2>3. latestBatchIndex \in Index /\ latestBatchIndex + 1 \in 0 .. MaxBatches
    BY <2>1 DEF SubmitBatch, StoreBatch, TypeOK, L1TypeOK
  <2>4. /\ batchHashes' \in [Index -> BatchHash \cup {ZeroHash}]
        /\ batchHeaders' \in [Index -> Header \cup {NoHeader}]
    BY <1>0, <2>1, <2>2, <2>3 DEF SubmitBatch, StoreBatch, TypeOK, L1TypeOK
  <2>5. QED
    BY <2>1, <2>3, <2>4 DEF SubmitBatch, StoreBatch, TypeOK, L1TypeOK, sccVars
<1>2. CASE tx.kind = "commit"
  <2>1. CommitStateRoot(Genesis, tx.header.batchIndex, tx.header.stateRoot)
    BY <1>2 DEF ExecuteTx
  <2>2. tx.header.batchIndex \in Index /\ tx.header.stateRoot \in AnyRoot
    BY <1>0 DEF Header
  <2> DEFINE i == tx.header.batchIndex
  <2>3. /\ stateRoots' \in [Index -> AnyRoot]
        /\ commitmentTimestamps' \in [Index -> 0 .. MaxNow]
        /\ latestCommittedBatch' \in 0 .. MaxBatches
    <3>1. i \in Index
      BY <2>2
    <3>2. /\ stateRoots' = [stateRoots EXCEPT ![i] = tx.header.stateRoot]
          /\ commitmentTimestamps' = [commitmentTimestamps EXCEPT ![i] = now]
          /\ latestCommittedBatch' = i + 1
      BY <2>1 DEF CommitStateRoot, StoreRoot
    <3> HIDE DEF i
    <3>3. QED
      BY <2>2, <3>1, <3>2 DEF TypeOK, L1TypeOK
  <2>4. QED
    BY <2>1, <2>3 DEF CommitStateRoot, StoreRoot, TypeOK, L1TypeOK, inboxVars
<1>3. QED
  BY <1>0, <1>1, <1>2 DEF Tx

LEMMA TypeNext == TypeOK /\ [Next]_vars => TypeOK'
<1> SUFFICES ASSUME TypeOK, [Next]_vars
             PROVE  TypeOK'
  OBVIOUS
<1> USE L1Assumption, SubmitterAssumption
        DEF TypeOK, L1TypeOK, Pcs, l1Vars, inboxVars, sccVars, seqVars, netVars, historyVars,
            Fault, NoFault
<1>1. CASE StartSyncsIndex
  BY <1>1 DEF StartSyncsIndex, NextIndexOnL1
<1>2. CASE StartFailsToSyncIndex
  BY <1>2 DEF StartFailsToSyncIndex
<1>3. CASE StartSyncsParent
  <2>1. batchIndex - 1 \in Index
    BY <1>3 DEF StartSyncsParent
  <2>2. QED
    BY <1>3, <2>1 DEF StartSyncsParent
<1>4. CASE StartFailsToSyncParent
  BY <1>4 DEF StartFailsToSyncParent
<1>5. ASSUME NEW root \in AnyRoot, SendBatch(root)
      PROVE  TypeOK'
  <2>1. BuiltHeader(root) \in Header
    BY <1>5 DEF SendBatch, NodeAcceptsBatch, InboxAccepts, BuiltHeader, Header
  <2>2. QED
    BY <1>5, <2>1 DEF SendBatch, NodeAcceptsBatch, Tx
<1>6. CASE SendBatchFails
  BY <1>6 DEF SendBatchFails, AbandonWithdrawals
<1>7. CASE SubmitReceiptFails
  BY <1>7 DEF SubmitReceiptFails, AbandonWithdrawals
<1>8. CASE SubmitConfirmed
  <2>1. batch.batchIndex \in Index /\ batch.hash \in BatchHash
    BY <1>8 DEF SubmitConfirmed, Header
  <2>2. revertedAsOk' \in SUBSET Index
    BY <1>8, <2>1 DEF SubmitConfirmed
  <2>3. batchIndex' \in 0 .. MaxBatches /\ parentHash' \in BatchHash
    BY <1>8, <2>1 DEF SubmitConfirmed
  <2>4. QED
    BY <1>8, <2>2, <2>3 DEF SubmitConfirmed
<1>9. CASE SendCommit
  BY <1>9 DEF SendCommit, Tx
<1>10. CASE SendCommitFails
  BY <1>10 DEF SendCommitFails, GiveUpCommit
<1>11. CASE CommitReceiptFails
  BY <1>11 DEF CommitReceiptFails, GiveUpCommit
<1>12. CASE CommitConfirmed
  BY <1>12 DEF CommitConfirmed
<1>13. ASSUME NEW w \in Withdrawals, FinalizeWithdrawal(w)
       PROVE  TypeOK'
  BY <1>13 DEF FinalizeWithdrawal, MessageHash
<1>14. CASE FinishBatch
  BY <1>14 DEF FinishBatch
<1>15. CASE Crash
  BY <1>15 DEF Crash
<1>16. ASSUME NEW w \in Withdrawals, EnqueueWithdrawal(w)
       PROVE  TypeOK'
  BY <1>16 DEF EnqueueWithdrawal
<1>17. ASSUME NEW tx \in mempool, MineTx(tx)
       PROVE  TypeOK'
  <2>1. L1TypeOK'
    BY <1>17, ExecuteType DEF MineTx
  <2>2. QED
    BY <1>17, <2>1 DEF MineTx, Notify
<1>18. ASSUME NEW tx \in mempool, DropTx(tx)
       PROVE  TypeOK'
  BY <1>18 DEF DropTx
<1>19. CASE UNCHANGED vars
  BY <1>19 DEF vars
<1>20. QED
  BY <1>1, <1>2, <1>3, <1>4, <1>5, <1>6, <1>7, <1>8, <1>9, <1>10, <1>11, <1>12, <1>13,
     <1>14, <1>15, <1>16, <1>17, <1>18, <1>19 DEF Next, Task, Failures

\* Every variable of the batch submitter and of the contracts keeps its type.
THEOREM TypeCorrect == Spec => []TypeOK
BY TypeInit, TypeNext, PTL DEF Spec

-----------------------------------------------------------------------------
(* Commitments stay behind submissions *)

LEMMA BehindInit == Init => Behind
BY L1Assumption
   DEF Init, L1Init, Behind, OneSequencer, MempoolBehind, TaskBehind,
       CommittedWereSubmitted, IndexNotAhead

\* Mining only moves the inbox forward, by the batch that was mined.
LEMMA MineMovesForward ==
  ASSUME TypeOK, Behind, NEW tx \in mempool, MineTx(tx)
  PROVE  /\ latestBatchIndex' \in Nat
         /\ latestBatchIndex <= latestBatchIndex'
         /\ \A i \in Index : i < latestBatchIndex => batchHashes'[i] = batchHashes[i]
         /\ latestBatchIndex' > latestBatchIndex =>
              /\ tx.kind = "submit"
              /\ tx.header.batchIndex = latestBatchIndex
              /\ latestBatchIndex' = latestBatchIndex + 1
         /\ tx.kind = "submit" => tx.header.batchIndex < latestBatchIndex'
<1> USE L1Assumption
<1>0. tx \in Tx /\ tx.header \in Header /\ tx.header.batchIndex \in Index
  BY DEF TypeOK, Tx, Header
<1>1. latestBatchIndex \in Nat /\ batchHashes \in [Index -> BatchHash \cup {ZeroHash}]
  BY DEF TypeOK, L1TypeOK
<1>2. CASE tx.kind = "submit" /\ TxSucceeds(tx)
  <2>1. InboxAccepts(Genesis, tx.header) /\ StoreBatch(tx.header)
    BY <1>2 DEF MineTx, ExecuteTx, SubmitBatch
  <2>2. QED
    BY <1>0, <1>1, <1>2, <2>1 DEF InboxAccepts, StoreBatch
<1>3. CASE tx.kind = "submit" /\ ~TxSucceeds(tx)
  <2>1. UNCHANGED l1Vars /\ ~InboxAccepts(Genesis, tx.header)
    BY <1>3 DEF MineTx, TxSucceeds
  <2>2. tx.header.batchIndex # latestBatchIndex
    BY <1>0, <1>3, <2>1 DEF Behind, OneSequencer, MempoolBehind, InboxAccepts, TypeOK, L1TypeOK
  <2>3. tx.header.batchIndex < latestBatchIndex
    BY <1>0, <1>1, <1>3, <2>2 DEF Behind, MempoolBehind
  <2>4. QED
    BY <1>0, <1>1, <2>1, <2>3 DEF l1Vars, inboxVars
<1>4. CASE tx.kind # "submit"
  <2>1. UNCHANGED inboxVars
    BY <1>4 DEF MineTx, ExecuteTx, CommitStateRoot, l1Vars
  <2>2. QED
    BY <1>1, <1>4, <2>1 DEF inboxVars
<1>5. QED
  BY <1>2, <1>3, <1>4

LEMMA BehindMine ==
  ASSUME TypeOK, Behind, NEW tx \in mempool, MineTx(tx)
  PROVE  Behind'
<1> USE L1Assumption
<1>0. tx \in Tx /\ tx.header \in Header /\ tx.header.batchIndex \in Index
  BY DEF TypeOK, Tx, Header
<1>1. /\ latestBatchIndex' \in Nat /\ latestBatchIndex \in Nat
      /\ latestBatchIndex <= latestBatchIndex'
  BY MineMovesForward DEF TypeOK, L1TypeOK
<1>2. OneSequencer'
  BY DEF MineTx, ExecuteTx, SubmitBatch, StoreBatch, CommitStateRoot, StoreRoot, l1Vars, sccVars,
         inboxVars, Behind, OneSequencer
<1>3. MempoolBehind'
  <2> SUFFICES ASSUME NEW other \in mempool'
               PROVE  /\ other.kind = "submit" => other.header.batchIndex <= latestBatchIndex'
                      /\ /\ other.kind = "submit"
                         /\ other.header.batchIndex = latestBatchIndex'
                         /\ latestBatchIndex' > 0
                         => other.header.parentBatchHash = batchHashes'[latestBatchIndex' - 1]
                      /\ other.kind = "commit" => other.header.batchIndex < latestBatchIndex'
    BY DEF MempoolBehind
  <2>1. other \in mempool /\ other.header \in Header /\ other.header.batchIndex \in Index
    BY DEF MineTx, TypeOK, Tx, Header
  <2>2. CASE latestBatchIndex' = latestBatchIndex
    <3>1. latestBatchIndex > 0 => /\ latestBatchIndex - 1 \in Index
                                  /\ latestBatchIndex - 1 < latestBatchIndex
      BY DEF TypeOK, L1TypeOK
    <3>2. latestBatchIndex > 0 =>
            batchHashes'[latestBatchIndex - 1] = batchHashes[latestBatchIndex - 1]
      BY <3>1, MineMovesForward
    <3>3. QED
      BY <2>1, <2>2, <3>2 DEF Behind, MempoolBehind
  <2>3. CASE latestBatchIndex' # latestBatchIndex
    <3>1. other.kind = "submit" => other.header.batchIndex < latestBatchIndex'
      BY <1>1, <2>1, <2>3 DEF Behind, MempoolBehind
    <3>2. other.kind = "commit" => other.header.batchIndex < latestBatchIndex'
      BY <1>1, <2>1 DEF Behind, MempoolBehind
    <3>3. QED
      BY <1>1, <2>1, <3>1, <3>2
  <2>4. QED
    BY <2>2, <2>3
<1>4. TaskBehind'
  <2>1. UNCHANGED <<pc, batch>>
    BY DEF MineTx
  <2>2. pc \in {"submitSent", "commit", "commitSent"} => batch.batchIndex \in Index
    BY DEF TypeOK, Header
  <2>3. ASSUME pc = "submitSent", receipt' # "none"
        PROVE  batch.batchIndex < latestBatchIndex'
    <3>1. CASE Awaited(tx)
      <4>1. tx.kind = "submit" /\ tx.header = batch
        BY <1>0, <2>3, <3>1 DEF Awaited, Tx
      <4>2. QED
        BY <4>1, MineMovesForward
    <3>2. CASE ~Awaited(tx)
      <4>1. receipt' = receipt
        BY <3>2 DEF MineTx, Notify
      <4>2. QED
        BY <1>1, <2>2, <2>3, <4>1 DEF Behind, TaskBehind
    <3>3. QED
      BY <3>1, <3>2
  <2>4. QED
    BY <1>1, <2>1, <2>2, <2>3 DEF Behind, TaskBehind
<1>5. CommittedWereSubmitted'
  <2>1. latestCommittedBatch \in Nat /\ latestCommittedBatch <= latestBatchIndex
    BY DEF Behind, CommittedWereSubmitted, TypeOK, L1TypeOK
  <2>2. CASE tx.kind = "commit" /\ TxSucceeds(tx)
    <3>1. tx.header.batchIndex < latestBatchIndex
      BY <2>2 DEF Behind, MempoolBehind
    <3>2. latestCommittedBatch' = tx.header.batchIndex + 1
      BY <2>2 DEF MineTx, ExecuteTx, CommitStateRoot, StoreRoot
    <3>3. QED
      BY <1>0, <1>1, <3>1, <3>2 DEF CommittedWereSubmitted
  <2>3. CASE ~(tx.kind = "commit" /\ TxSucceeds(tx))
    <3>1. latestCommittedBatch' = latestCommittedBatch
      BY <1>0, <2>3 DEF MineTx, ExecuteTx, SubmitBatch, sccVars, l1Vars, Tx
    <3>2. QED
      BY <1>1, <2>1, <3>1 DEF CommittedWereSubmitted
  <2>4. QED
    BY <2>2, <2>3
<1>6. IndexNotAhead'
  BY <1>1 DEF MineTx, Behind, IndexNotAhead, TypeOK
<1>7. QED
  BY <1>2, <1>3, <1>4, <1>5, <1>6 DEF Behind

LEMMA BehindNext == TypeOK /\ Behind /\ [Next]_vars => Behind'
<1> SUFFICES ASSUME TypeOK, Behind, [Next]_vars
             PROVE  Behind'
  OBVIOUS
<1> USE L1Assumption
    DEF Behind, OneSequencer, MempoolBehind, TaskBehind, CommittedWereSubmitted, IndexNotAhead,
        l1Vars, inboxVars, sccVars, seqVars, netVars, historyVars
<1>0. /\ latestBatchIndex \in Nat
      /\ batchIndex \in Nat
      /\ pc \in {"submitSent", "commit", "commitSent"} => batch.batchIndex \in Nat
  BY DEF TypeOK, L1TypeOK, Header
<1>1. CASE StartSyncsIndex
  BY <1>0, <1>1 DEF StartSyncsIndex, NextIndexOnL1
<1>2. CASE StartFailsToSyncIndex
  BY <1>0, <1>2 DEF StartFailsToSyncIndex
<1>3. CASE StartSyncsParent
  BY <1>0, <1>3 DEF StartSyncsParent
<1>4. CASE StartFailsToSyncParent
  BY <1>0, <1>4 DEF StartFailsToSyncParent
<1>5. ASSUME NEW root \in AnyRoot, SendBatch(root)
      PROVE  Behind'
  <2>1. /\ InboxAccepts(Genesis, BuiltHeader(root))
        /\ mempool' = mempool \cup {[kind |-> "submit", header |-> BuiltHeader(root)]}
        /\ pc' = "submitSent" /\ receipt' = "none"
        /\ UNCHANGED <<l1Vars, batchIndex>>
    BY <1>5 DEF SendBatch, NodeAcceptsBatch
  <2>2. QED
    BY <1>0, <2>1 DEF InboxAccepts
<1>6. CASE SendBatchFails
  BY <1>0, <1>6 DEF SendBatchFails
<1>7. CASE SubmitReceiptFails
  BY <1>0, <1>7 DEF SubmitReceiptFails
<1>8. CASE SubmitConfirmed
  BY <1>0, <1>8 DEF SubmitConfirmed, HasReceipt
<1>9. CASE SendCommit
  BY <1>0, <1>9 DEF SendCommit
<1>10. CASE SendCommitFails
  BY <1>0, <1>10 DEF SendCommitFails, GiveUpCommit
<1>11. CASE CommitReceiptFails
  BY <1>0, <1>11 DEF CommitReceiptFails, GiveUpCommit
<1>12. CASE CommitConfirmed
  BY <1>0, <1>12 DEF CommitConfirmed
<1>13. ASSUME NEW w \in Withdrawals, FinalizeWithdrawal(w)
       PROVE  Behind'
  BY <1>0, <1>13 DEF FinalizeWithdrawal
<1>14. CASE FinishBatch
  BY <1>0, <1>14 DEF FinishBatch
<1>15. CASE Crash
  BY <1>0, <1>15 DEF Crash
<1>16. ASSUME NEW w \in Withdrawals, EnqueueWithdrawal(w)
       PROVE  Behind'
  BY <1>0, <1>16 DEF EnqueueWithdrawal
<1>17. ASSUME NEW tx \in mempool, MineTx(tx)
       PROVE  Behind'
  BY <1>17, BehindMine
<1>18. ASSUME NEW tx \in mempool, DropTx(tx)
       PROVE  Behind'
  BY <1>0, <1>18 DEF DropTx
<1>19. CASE UNCHANGED vars
  BY <1>0, <1>19 DEF vars
<1>20. QED
  BY <1>1, <1>2, <1>3, <1>4, <1>5, <1>6, <1>7, <1>8, <1>9, <1>10, <1>11, <1>12, <1>13,
     <1>14, <1>15, <1>16, <1>17, <1>18, <1>19 DEF Next, Task, Failures

\* In every reachable state no root is committed past the inbox, and the
\* sequencer's own index is not ahead of it.
THEOREM CommitsBehindInbox == Spec => [](CommittedWereSubmitted /\ IndexNotAhead)
<1>1. Behind => CommittedWereSubmitted /\ IndexNotAhead
  BY DEF Behind
<1>2. QED
  BY TypeInit, TypeNext, BehindInit, BehindNext, <1>1, PTL DEF Spec

-----------------------------------------------------------------------------
(* Committed roots are the posted ones *)

LEMMA RootsInit == Init => RootsFollow
BY L1Assumption DEF Init, L1Init, RootsFollow, RootsAgreeUnlessReverted

LEMMA RootsMine ==
  ASSUME TypeOK, Behind, RootsFollow, NEW tx \in mempool, MineTx(tx)
  PROVE  RootsFollow'
<1> USE L1Assumption
<1>0. tx \in Tx /\ tx.header \in Header /\ tx.header.batchIndex \in Index
  BY DEF TypeOK, Tx, Header
<1>1. /\ latestBatchIndex \in Nat
      /\ batchHeaders \in [Index -> Header \cup {NoHeader}]
      /\ stateRoots \in [Index -> AnyRoot]
      /\ latestCommittedBatch \in Nat
      /\ latestCommittedBatch <= latestBatchIndex
  BY DEF TypeOK, L1TypeOK, Behind, CommittedWereSubmitted
\* A header that is already behind the inbox is not touched.
<1>2. \A i \in Index : i < latestBatchIndex => batchHeaders'[i] = batchHeaders[i]
  BY <1>0, <1>1 DEF MineTx, ExecuteTx, SubmitBatch, StoreBatch, CommitStateRoot, l1Vars, inboxVars
<1>3. UNCHANGED <<pc, batch, revertedAsOk>>
  BY DEF MineTx, historyVars
<1>4. \A other \in mempool' : other.kind = "commit" => RootOf(other.header)'
  <2> SUFFICES ASSUME NEW other \in mempool', other.kind = "commit"
               PROVE  RootOf(other.header)'
    OBVIOUS
  <2>1. other \in mempool /\ other.header.batchIndex \in Index
    BY DEF MineTx, TypeOK, Tx, Header
  <2>2. other.header.batchIndex < latestBatchIndex
    BY <2>1 DEF Behind, MempoolBehind
  <2>3. QED
    BY <1>2, <1>3, <2>1, <2>2 DEF RootsFollow, RootOf
<1>5. pc' = "submitSent" /\ receipt' = "ok" => RootOf(batch)'
  <2> SUFFICES ASSUME pc = "submitSent", receipt' = "ok"
               PROVE  RootOf(batch)'
    BY <1>3
  <2>1. batch.batchIndex \in Index
    BY DEF TypeOK, Header
  <2>2. CASE Awaited(tx)
    <3>1. tx.kind = "submit" /\ tx.header = batch
      BY <1>0, <2>2 DEF Awaited, Tx
    <3>2. TxSucceeds(tx)
      BY <2>2 DEF MineTx, Notify
    <3>3. batchHeaders' = [batchHeaders EXCEPT ![tx.header.batchIndex] = tx.header]
      BY <3>1, <3>2 DEF MineTx, ExecuteTx, SubmitBatch, StoreBatch, InboxAccepts
    <3>4. QED
      BY <1>1, <1>3, <2>1, <3>1, <3>3 DEF RootOf
  <2>3. CASE ~Awaited(tx)
    <3>1. receipt = "ok"
      BY <2>3 DEF MineTx, Notify
    <3>2. batch.batchIndex < latestBatchIndex
      BY <3>1 DEF Behind, TaskBehind
    <3>3. QED
      BY <1>2, <1>3, <2>1, <3>1, <3>2 DEF RootsFollow, RootOf
  <2>4. QED
    BY <2>2, <2>3
<1>6. pc' \in {"commit", "commitSent"} => RootOf(batch)'
  <2> SUFFICES ASSUME pc \in {"commit", "commitSent"}
               PROVE  RootOf(batch)'
    BY <1>3
  <2>1. batch.batchIndex \in Index /\ batch.batchIndex < latestBatchIndex
    BY DEF TypeOK, Header, Behind, TaskBehind
  <2>2. QED
    BY <1>2, <1>3, <2>1 DEF RootsFollow, RootOf
<1>7. RootsAgreeUnlessReverted'
  <2> SUFFICES ASSUME NEW i \in Index, i < latestCommittedBatch', i \notin revertedAsOk
               PROVE  stateRoots'[i] = batchHeaders'[i].stateRoot
    BY <1>3 DEF RootsAgreeUnlessReverted
  <2>1. CASE tx.kind = "commit" /\ TxSucceeds(tx)
    <3> DEFINE c == tx.header.batchIndex
    <3>1. /\ stateRoots' = [stateRoots EXCEPT ![c] = tx.header.stateRoot]
          /\ latestCommittedBatch' = c + 1
          /\ c = latestCommittedBatch
          /\ batchHeaders' = batchHeaders
      BY <2>1 DEF MineTx, TxSucceeds, ExecuteTx, CommitStateRoot, StoreRoot, SccAccepts, inboxVars
    <3>2. c \notin revertedAsOk => tx.header.stateRoot = batchHeaders[c].stateRoot
      BY <2>1 DEF RootsFollow, RootOf
    <3>3. QED
      BY <1>0, <1>1, <3>1, <3>2 DEF RootsFollow, RootsAgreeUnlessReverted
  <2>2. CASE ~(tx.kind = "commit" /\ TxSucceeds(tx))
    <3>1. UNCHANGED <<stateRoots, latestCommittedBatch>>
      BY <1>0, <2>2 DEF MineTx, ExecuteTx, SubmitBatch, sccVars, l1Vars, Tx
    <3>2. batchHeaders'[i] = batchHeaders[i]
      BY <1>1, <1>2, <3>1
    <3>3. QED
      BY <3>1, <3>2 DEF RootsFollow, RootsAgreeUnlessReverted
  <2>3. QED
    BY <2>1, <2>2
<1>8. QED
  BY <1>4, <1>5, <1>6, <1>7 DEF RootsFollow

LEMMA RootsNext == TypeOK /\ Behind /\ RootsFollow /\ [Next]_vars => RootsFollow'
<1> SUFFICES ASSUME TypeOK, Behind, RootsFollow, [Next]_vars
             PROVE  RootsFollow'
  OBVIOUS
<1> USE DEF RootsFollow, RootOf, RootsAgreeUnlessReverted,
        l1Vars, inboxVars, sccVars, seqVars, netVars, historyVars
<1>1. CASE StartSyncsIndex
  BY <1>1 DEF StartSyncsIndex
<1>2. CASE StartFailsToSyncIndex
  BY <1>2 DEF StartFailsToSyncIndex
<1>3. CASE StartSyncsParent
  BY <1>3 DEF StartSyncsParent
<1>4. CASE StartFailsToSyncParent
  BY <1>4 DEF StartFailsToSyncParent
<1>5. ASSUME NEW root \in AnyRoot, SendBatch(root)
      PROVE  RootsFollow'
  BY <1>5 DEF SendBatch
<1>6. CASE SendBatchFails
  BY <1>6 DEF SendBatchFails
<1>7. CASE SubmitReceiptFails
  BY <1>7 DEF SubmitReceiptFails
<1>8. CASE SubmitConfirmed
  BY <1>8 DEF SubmitConfirmed, HasReceipt, TypeOK
<1>9. CASE SendCommit
  BY <1>9 DEF SendCommit
<1>10. CASE SendCommitFails
  BY <1>10 DEF SendCommitFails, GiveUpCommit
<1>11. CASE CommitReceiptFails
  BY <1>11 DEF CommitReceiptFails, GiveUpCommit
<1>12. CASE CommitConfirmed
  BY <1>12 DEF CommitConfirmed
<1>13. ASSUME NEW w \in Withdrawals, FinalizeWithdrawal(w)
       PROVE  RootsFollow'
  BY <1>13 DEF FinalizeWithdrawal
<1>14. CASE FinishBatch
  BY <1>14 DEF FinishBatch
<1>15. CASE Crash
  BY <1>15 DEF Crash
<1>16. ASSUME NEW w \in Withdrawals, EnqueueWithdrawal(w)
       PROVE  RootsFollow'
  BY <1>16 DEF EnqueueWithdrawal
<1>17. ASSUME NEW tx \in mempool, MineTx(tx)
       PROVE  RootsFollow'
  BY <1>17, RootsMine
<1>18. ASSUME NEW tx \in mempool, DropTx(tx)
       PROVE  RootsFollow'
  BY <1>18 DEF DropTx
<1>19. CASE UNCHANGED vars
  BY <1>19 DEF vars
<1>20. QED
  BY <1>1, <1>2, <1>3, <1>4, <1>5, <1>6, <1>7, <1>8, <1>9, <1>10, <1>11, <1>12, <1>13,
     <1>14, <1>15, <1>16, <1>17, <1>18, <1>19 DEF Next, Task, Failures

\* In every reachable state the committed root of a batch is the root in its
\* header on the inbox, unless a reverted submission was taken for done.
THEOREM RootsAgree == Spec => []RootsAgreeUnlessReverted
<1>1. RootsFollow => RootsAgreeUnlessReverted
  BY DEF RootsFollow
<1>2. QED
  BY TypeInit, TypeNext, BehindInit, BehindNext, RootsInit, RootsNext, <1>1, PTL DEF Spec

-----------------------------------------------------------------------------
(* Batches and withdrawals reach L1 at most once *)

LEMMA OnceInit == Init => HashesUnique /\ DrainedOnce
BY L1Assumption DEF Init, L1Init, HashesUnique, DrainedOnce, Handling

\* The inbox after one transaction was mined: as before, or longer by the batch
\* of that transaction.
LEMMA MineInbox ==
  ASSUME TypeOK, NEW tx \in mempool, MineTx(tx)
  PROVE  \/ /\ tx.kind = "submit"
            /\ latestBatchIndex \in Index
            /\ batchHashes' = [batchHashes EXCEPT ![latestBatchIndex] = tx.header.hash]
            /\ latestBatchIndex' = latestBatchIndex + 1
            /\ UNCHANGED latestCommittedBatch
         \/ /\ UNCHANGED <<batchHashes, latestBatchIndex>>
            /\ \/ UNCHANGED latestCommittedBatch
               \/ latestCommittedBatch' = latestCommittedBatch + 1
<1> USE L1Assumption
<1>1. tx.kind \in {"submit", "commit"}
  BY DEF TypeOK, Tx
<1>2. CASE tx.kind = "submit" /\ TxSucceeds(tx)
  BY <1>2 DEF MineTx, ExecuteTx, SubmitBatch, StoreBatch, sccVars, TypeOK, L1TypeOK
<1>3. CASE tx.kind = "commit" /\ TxSucceeds(tx)
  BY <1>3 DEF MineTx, TxSucceeds, ExecuteTx, CommitStateRoot, StoreRoot, SccAccepts, inboxVars
<1>4. CASE ~TxSucceeds(tx)
  BY <1>4 DEF MineTx, l1Vars, inboxVars, sccVars
<1>5. QED
  BY <1>1, <1>2, <1>3, <1>4

LEMMA HashesNext == TypeOK /\ HashesUnique /\ [Next]_vars => HashesUnique'
<1> SUFFICES ASSUME TypeOK, HashesUnique, [Next]_vars
             PROVE  HashesUnique'
  OBVIOUS
<1> USE L1Assumption
<1>0. /\ nextHash \in 1 .. MaxHash + 1
      /\ latestBatchIndex \in 0 .. MaxBatches
      /\ batchHashes \in [Index -> BatchHash \cup {ZeroHash}]
      /\ \A tx \in mempool : tx.header.hash \in BatchHash
  BY DEF TypeOK, L1TypeOK, Tx, Header
<1>1. ASSUME UNCHANGED <<batchHashes, latestBatchIndex, nextHash>>,
             mempool' \subseteq mempool,
             pc' \in Handling => pc \in Handling /\ batch' = batch
      PROVE  HashesUnique'
  BY <1>1 DEF HashesUnique
<1>2. ASSUME NEW root \in AnyRoot, SendBatch(root)
      PROVE  HashesUnique'
  <2> DEFINE sent == [kind |-> "submit", header |-> BuiltHeader(root)]
  <2>1. /\ mempool' = mempool \cup {sent}
        /\ nextHash' = nextHash + 1
        /\ batch' = BuiltHeader(root)
        /\ UNCHANGED <<batchHashes, latestBatchIndex>>
    BY <1>2 DEF SendBatch, l1Vars, inboxVars
  <2>2. sent.kind = "submit" /\ sent.header.hash = nextHash /\ BuiltHeader(root).hash = nextHash
    BY DEF BuiltHeader
  <2> HIDE DEF sent
  <2>3. \A tx \in mempool' : tx = sent \/ tx \in mempool
    BY <2>1
  <2>4. \A tx \in mempool' : tx.header.hash < nextHash'
    BY <1>0, <2>1, <2>2, <2>3 DEF HashesUnique
  <2>5. \A tx1, tx2 \in mempool' :
          tx1.kind = "submit" /\ tx2.kind = "submit" /\ tx1.header.hash = tx2.header.hash
            => tx1 = tx2
    <3> SUFFICES ASSUME NEW tx1 \in mempool', NEW tx2 \in mempool',
                        tx1.kind = "submit", tx2.kind = "submit",
                        tx1.header.hash = tx2.header.hash
                 PROVE  tx1 = tx2
      OBVIOUS
    <3>1. CASE tx1 \in mempool /\ tx2 \in mempool
      BY <3>1 DEF HashesUnique
    <3>2. \A tx \in mempool : tx.header.hash < nextHash
      BY DEF HashesUnique
    <3>3. CASE tx1 \in mempool /\ tx2 = sent
      BY <1>0, <2>2, <3>2, <3>3
    <3>4. CASE tx2 \in mempool /\ tx1 = sent
      BY <1>0, <2>2, <3>2, <3>4
    <3>5. QED
      BY <2>3, <3>1, <3>3, <3>4
  <2>6. \A i \in Index : batchHashes[i] < nextHash
    BY DEF HashesUnique
  <2>7. \A tx \in mempool', i \in Index : tx.kind = "submit" => batchHashes'[i] # tx.header.hash
    BY <1>0, <2>1, <2>2, <2>3, <2>6 DEF HashesUnique
  <2>8. batch'.hash < nextHash'
    BY <1>0, <2>1, <2>2
  <2>9. \A i \in Index : batchHashes'[i] < nextHash'
    BY <1>0, <2>1, <2>6
  <2>10. QED
    BY <2>1, <2>4, <2>5, <2>7, <2>8, <2>9 DEF HashesUnique
<1>3. CASE SendCommit
  <2> DEFINE sent == [kind |-> "commit", header |-> batch]
  <2>1. /\ mempool' = mempool \cup {sent}
        /\ UNCHANGED <<batch, batchHashes, latestBatchIndex, nextHash>>
    BY <1>3 DEF SendCommit, l1Vars, inboxVars
  <2>2. sent.kind = "commit" /\ sent.header.hash < nextHash /\ batch.hash < nextHash
    BY <1>3 DEF SendCommit, HashesUnique, Handling
  <2> HIDE DEF sent
  <2>3. \A tx \in mempool' : tx.header.hash < nextHash
    BY <2>1, <2>2 DEF HashesUnique
  <2>4. \A tx \in mempool' : tx.kind = "submit" => tx \in mempool
    BY <2>1, <2>2
  <2>5. QED
    BY <2>1, <2>2, <2>3, <2>4 DEF HashesUnique
<1>4. ASSUME NEW tx \in mempool, MineTx(tx)
      PROVE  HashesUnique'
  <2>1. mempool' = mempool \ {tx} /\ UNCHANGED <<pc, batch, nextHash>>
    BY <1>4 DEF MineTx
  <2>2. CASE UNCHANGED <<batchHashes, latestBatchIndex>>
    BY <1>1, <2>1, <2>2
  <2>3. CASE /\ tx.kind = "submit"
             /\ latestBatchIndex \in Index
             /\ batchHashes' = [batchHashes EXCEPT ![latestBatchIndex] = tx.header.hash]
             /\ latestBatchIndex' = latestBatchIndex + 1
    <3>1. \A i \in Index : batchHashes'[i] =
            IF i = latestBatchIndex THEN tx.header.hash ELSE batchHashes[i]
      BY <1>0, <2>3
    <3>2. tx.header.hash \in BatchHash /\ tx.header.hash < nextHash
      BY <1>0 DEF HashesUnique
    <3>3. \A i \in Index : batchHashes[i] # tx.header.hash
      BY <2>3 DEF HashesUnique
    <3>4. \A i, j \in Index :
            i < latestBatchIndex' /\ j < latestBatchIndex' /\ batchHashes'[i] = batchHashes'[j]
              => i = j
      BY <1>0, <2>3, <3>1, <3>3 DEF HashesUnique
    <3>5. \A i \in Index : /\ batchHashes'[i] < nextHash
                           /\ i >= latestBatchIndex' => batchHashes'[i] = ZeroHash
                           /\ i < latestBatchIndex' => batchHashes'[i] \in BatchHash
      BY <1>0, <2>3, <3>1, <3>2 DEF HashesUnique
    <3>6. \A other \in mempool', i \in Index :
            other.kind = "submit" => batchHashes'[i] # other.header.hash
      BY <2>1, <2>3, <3>1 DEF HashesUnique
    <3>7. \A tx1 \in mempool' : tx1 \in mempool
      BY <2>1
    <3>8. pc' \in Handling => batch'.hash < nextHash'
      BY <2>1 DEF HashesUnique
    <3>9. /\ \A tx1 \in mempool' : tx1.header.hash < nextHash'
          /\ \A tx1, tx2 \in mempool' :
               tx1.kind = "submit" /\ tx2.kind = "submit" /\ tx1.header.hash = tx2.header.hash
                 => tx1 = tx2
      BY <2>1, <3>7 DEF HashesUnique
    <3>10. \A i \in Index : batchHashes'[i] < nextHash'
      BY <2>1, <3>5
    <3>11. QED
      BY <3>4, <3>5, <3>6, <3>8, <3>9, <3>10 DEF HashesUnique
  <2>4. QED
    BY <1>4, <2>2, <2>3, MineInbox
<1>5. CASE StartSyncsIndex \/ StartFailsToSyncIndex \/ StartSyncsParent \/ StartFailsToSyncParent
  BY <1>1, <1>5 DEF StartSyncsIndex, StartFailsToSyncIndex, StartSyncsParent,
     StartFailsToSyncParent, l1Vars, inboxVars, netVars, Handling
<1>6. CASE SendBatchFails \/ SubmitReceiptFails \/ SendCommitFails \/ CommitReceiptFails
  BY <1>1, <1>6 DEF SendBatchFails, SubmitReceiptFails, SendCommitFails, CommitReceiptFails,
     GiveUpCommit, l1Vars, inboxVars, netVars, Handling
<1>7. CASE SubmitConfirmed \/ CommitConfirmed \/ FinishBatch \/ Crash
  BY <1>1, <1>7 DEF SubmitConfirmed, CommitConfirmed, FinishBatch, Crash,
     l1Vars, inboxVars, netVars, Handling
<1>8. ASSUME NEW w \in Withdrawals, FinalizeWithdrawal(w) \/ EnqueueWithdrawal(w)
      PROVE  HashesUnique'
  BY <1>1, <1>8 DEF FinalizeWithdrawal, EnqueueWithdrawal, l1Vars, inboxVars, netVars
<1>9. ASSUME NEW tx \in mempool, DropTx(tx)
      PROVE  HashesUnique'
  BY <1>1, <1>9 DEF DropTx, seqVars, l1Vars, inboxVars
<1>10. CASE UNCHANGED vars
  BY <1>1, <1>10 DEF vars, seqVars, l1Vars, inboxVars, netVars
<1>11. QED
  BY <1>2, <1>3, <1>4, <1>5, <1>6, <1>7, <1>8, <1>9, <1>10 DEF Next, Task, Failures

LEMMA DrainedNext == TypeOK /\ DrainedOnce /\ [Next]_vars => DrainedOnce'
<1> SUFFICES ASSUME TypeOK, DrainedOnce, [Next]_vars
             PROVE  DrainedOnce'
  OBVIOUS
<1> USE L1Assumption
<1>0. /\ nextHash \in 1 .. MaxHash + 1
      /\ carried \in [BatchHash -> SUBSET Withdrawals]
  BY DEF TypeOK
<1>1. ASSUME UNCHANGED <<carried, nextHash, enqueued>>, pending' \subseteq pending
      PROVE  DrainedOnce'
  BY <1>1 DEF DrainedOnce
<1>2. ASSUME NEW root \in AnyRoot, SendBatch(root)
      PROVE  DrainedOnce'
  BY <1>0, <1>2 DEF SendBatch, NodeAcceptsBatch, DrainedOnce
<1>3. ASSUME NEW w \in Withdrawals, EnqueueWithdrawal(w)
      PROVE  DrainedOnce'
  BY <1>3 DEF EnqueueWithdrawal, DrainedOnce, netVars
<1>4. CASE StartSyncsIndex \/ StartFailsToSyncIndex \/ StartSyncsParent \/ StartFailsToSyncParent
  BY <1>1, <1>4 DEF StartSyncsIndex, StartFailsToSyncIndex, StartSyncsParent,
     StartFailsToSyncParent, netVars, historyVars
<1>5. CASE SendBatchFails \/ SubmitReceiptFails \/ SendCommitFails \/ CommitReceiptFails
  BY <1>1, <1>5 DEF SendBatchFails, SubmitReceiptFails, SendCommitFails, CommitReceiptFails,
     AbandonWithdrawals, GiveUpCommit, netVars, historyVars
<1>6. CASE SubmitConfirmed \/ SendCommit \/ CommitConfirmed \/ FinishBatch \/ Crash
  BY <1>1, <1>6 DEF SubmitConfirmed, SendCommit, CommitConfirmed, FinishBatch, Crash,
     netVars, historyVars
<1>7. ASSUME NEW w \in Withdrawals, FinalizeWithdrawal(w)
      PROVE  DrainedOnce'
  BY <1>1, <1>7 DEF FinalizeWithdrawal, historyVars
<1>8. ASSUME NEW tx \in mempool, MineTx(tx) \/ DropTx(tx)
      PROVE  DrainedOnce'
  BY <1>1, <1>8 DEF MineTx, DropTx, seqVars, historyVars
<1>9. CASE UNCHANGED vars
  BY <1>1, <1>9 DEF vars, seqVars, netVars, historyVars
<1>10. QED
  BY <1>2, <1>3, <1>4, <1>5, <1>6, <1>7, <1>8, <1>9 DEF Next, Task, Failures

LEMMA OnceImpliesPostedOnce == TypeOK /\ HashesUnique /\ DrainedOnce => PostedOnce
<1> SUFFICES ASSUME TypeOK, HashesUnique, DrainedOnce
             PROVE  PostedOnce
  OBVIOUS
<1>1. \A i \in 0 .. latestBatchIndex - 1 :
        i \in Index /\ i < latestBatchIndex /\ batchHashes[i] \in BatchHash
  BY L1Assumption DEF TypeOK, L1TypeOK, HashesUnique
<1>2. \A i, j \in 0 .. latestBatchIndex - 1 : i # j => batchHashes[i] # batchHashes[j]
  BY <1>1 DEF HashesUnique
<1>3. QED
  BY <1>1, <1>2 DEF PostedOnce, DrainedOnce

\* In every reachable state no withdrawal is in two batches of the inbox, nor in
\* one of them and still in the queue.
THEOREM WithdrawalsPostedOnce == Spec => []PostedOnce
BY TypeInit, TypeNext, OnceInit, HashesNext, DrainedNext, OnceImpliesPostedOnce, PTL DEF Spec

-----------------------------------------------------------------------------
(* What a reader of L1 sees is a RollupChain *)

\* The withdrawals of the batch the inbox holds under each index.
Content == [i \in Index |-> IF i < latestBatchIndex THEN carried[batchHashes[i]] ELSE {}]

LEMMA ChainInit == Init => Chain!Init
BY DEF Init, L1Init, Chain!Init, Chain!Positions

\* A step that leaves the inbox, the commitments and what batches carry alone
\* is a stutter of the chain.
LEMMA ChainStutter ==
  ASSUME UNCHANGED <<latestBatchIndex, batchHashes, carried, latestCommittedBatch>>
  PROVE  UNCHANGED Chain!chainVars
BY DEF Chain!chainVars

\* A new batch gets a hash that is not on L1 yet.
LEMMA ChainSend ==
  ASSUME TypeOK, HashesUnique, NEW root \in AnyRoot, SendBatch(root)
  PROVE  UNCHANGED Chain!chainVars
<1>1. UNCHANGED <<latestBatchIndex, batchHashes, latestCommittedBatch>>
  BY DEF SendBatch, l1Vars, inboxVars, sccVars
<1>2. carried' = [carried EXCEPT ![nextHash] = pending]
  BY DEF SendBatch
<1>3. \A i \in Index : i < latestBatchIndex => batchHashes[i] \in BatchHash /\ batchHashes[i] # nextHash
  BY DEF HashesUnique, TypeOK
<1>4. \A i \in Index : i < latestBatchIndex => carried'[batchHashes[i]] = carried[batchHashes[i]]
  BY <1>2, <1>3 DEF TypeOK
<1>5. Content' = Content
  BY <1>1, <1>4 DEF Content
<1>6. QED
  BY <1>1, <1>5 DEF Chain!chainVars, Content

\* A mined batch is appended, a mined commitment follows its batch.
LEMMA ChainMine ==
  ASSUME TypeOK, HashesUnique, DrainedOnce, CommittedWereSubmitted',
         NEW tx \in mempool, MineTx(tx)
  PROVE  [Chain!Next]_Chain!chainVars
<1> USE L1Assumption
<1>a. PICK hash \in BatchHash, ws \in SUBSET Withdrawals :
        hash = tx.header.hash /\ ws = carried[hash]
  BY DEF TypeOK, Tx, Header
<1>0. /\ UNCHANGED carried
      /\ latestBatchIndex \in 0 .. MaxBatches
      /\ latestCommittedBatch \in 0 .. MaxBatches
      /\ batchHashes \in [Index -> BatchHash \cup {ZeroHash}]
  BY DEF MineTx, historyVars, TypeOK, L1TypeOK
<1>1. CASE /\ tx.kind = "submit"
           /\ latestBatchIndex \in Index
           /\ batchHashes' = [batchHashes EXCEPT ![latestBatchIndex] = hash]
           /\ latestBatchIndex' = latestBatchIndex + 1
           /\ UNCHANGED latestCommittedBatch
  <2>1. \A i \in Index : batchHashes[i] # hash
    BY <1>a, <1>1 DEF HashesUnique
  <2>2. \A i \in Index : i < latestBatchIndex => batchHashes[i] \in BatchHash
    BY DEF HashesUnique
  <2>3. \A i \in Index : Content[i] \cap ws = {}
    BY <1>a, <1>0, <2>1, <2>2 DEF Content, DrainedOnce
  <2>4. \A i \in Index :
          batchHashes'[i] = IF i = latestBatchIndex THEN hash ELSE batchHashes[i]
    BY <1>0, <1>1
  <2>5. \A i \in Index : i < latestBatchIndex' <=> (i < latestBatchIndex \/ i = latestBatchIndex)
    BY <1>0, <1>1
  <2>6. Content' = [Content EXCEPT ![latestBatchIndex] = ws]
    BY <1>a, <1>0, <2>4, <2>5 DEF Content
  <2>7. latestBatchIndex < MaxBatches
    BY <1>1
  <2>8. Chain!Post(hash, ws)
    BY <1>0, <1>1, <2>1, <2>3, <2>6, <2>7 DEF Chain!Post, Chain!Positions, Content
  <2>9. QED
    BY <2>8 DEF Chain!Next
<1>2. CASE UNCHANGED <<batchHashes, latestBatchIndex, latestCommittedBatch>>
  BY <1>0, <1>2, ChainStutter
<1>3. CASE /\ UNCHANGED <<batchHashes, latestBatchIndex>>
           /\ latestCommittedBatch' = latestCommittedBatch + 1
  <2>1. latestCommittedBatch < latestBatchIndex
    BY <1>0, <1>3 DEF CommittedWereSubmitted
  <2>2. Content' = Content
    BY <1>0, <1>3 DEF Content
  <2>3. Chain!Commit
    BY <1>3, <2>1, <2>2 DEF Chain!Commit, Content
  <2>4. QED
    BY <2>3 DEF Chain!Next
<1>4. QED
  BY <1>a, <1>1, <1>2, <1>3, MineInbox

LEMMA ChainNext ==
  TypeOK /\ HashesUnique /\ DrainedOnce /\ CommittedWereSubmitted' /\ [Next]_vars
    => [Chain!Next]_Chain!chainVars
<1> SUFFICES ASSUME TypeOK, HashesUnique, DrainedOnce, CommittedWereSubmitted', [Next]_vars
             PROVE  [Chain!Next]_Chain!chainVars
  OBVIOUS
<1> USE DEF l1Vars, inboxVars, sccVars, historyVars
<1>1. ASSUME NEW root \in AnyRoot, SendBatch(root)
      PROVE  [Chain!Next]_Chain!chainVars
  BY <1>1, ChainSend
<1>2. ASSUME NEW tx \in mempool, MineTx(tx)
      PROVE  [Chain!Next]_Chain!chainVars
  BY <1>2, ChainMine
<1>3. CASE StartSyncsIndex \/ StartFailsToSyncIndex \/ StartSyncsParent \/ StartFailsToSyncParent
  BY <1>3, ChainStutter DEF StartSyncsIndex, StartFailsToSyncIndex, StartSyncsParent,
     StartFailsToSyncParent
<1>4. CASE SendBatchFails \/ SubmitReceiptFails \/ SendCommitFails \/ CommitReceiptFails
  BY <1>4, ChainStutter DEF SendBatchFails, SubmitReceiptFails, SendCommitFails,
     CommitReceiptFails, GiveUpCommit
<1>5. CASE SubmitConfirmed \/ SendCommit \/ CommitConfirmed \/ FinishBatch \/ Crash
  BY <1>5, ChainStutter DEF SubmitConfirmed, SendCommit, CommitConfirmed, FinishBatch, Crash
<1>6. ASSUME NEW w \in Withdrawals, FinalizeWithdrawal(w) \/ EnqueueWithdrawal(w)
      PROVE  [Chain!Next]_Chain!chainVars
  BY <1>6, ChainStutter DEF FinalizeWithdrawal, EnqueueWithdrawal
<1>7. ASSUME NEW tx \in mempool, DropTx(tx)
      PROVE  [Chain!Next]_Chain!chainVars
  BY <1>7, ChainStutter DEF DropTx
<1>8. CASE UNCHANGED vars
  BY <1>8, ChainStutter DEF vars
<1>9. QED
  BY <1>1, <1>2, <1>3, <1>4, <1>5, <1>6, <1>7, <1>8 DEF Next, Task, Failures

\* Every behaviour of the batch submitter and the L1 contracts is, to a reader
\* of L1, a behaviour of RollupChain.
THEOREM SubmitterImplementsChain == Spec => ImplementsRollupChain
<1>1. Behind => CommittedWereSubmitted
  BY DEF Behind
<1>2. QED
  BY TypeInit, TypeNext, BehindInit, BehindNext, OnceInit, HashesNext, DrainedNext,
     ChainInit, ChainNext, <1>1, PTL DEF Spec, ImplementsRollupChain, Chain!Spec

-----------------------------------------------------------------------------
(* The bridge's question *)

\* A state provider has a root for every batch: B256::ZERO never stands in for it.
RootsProvided == [][~SendBatch(ZeroRoot)]_vars

\* No root on its way to L1 is bytes32(0).
RootsReal ==
  /\ \A tx \in mempool : tx.header.stateRoot # ZeroRoot
  /\ pc \in Handling => batch.stateRoot # ZeroRoot
  /\ IsCommittedIsTruthful

LEMMA RootsRealNext ==
  ASSUME TypeOK, RootsReal, [Next]_vars, [~SendBatch(ZeroRoot)]_vars
  PROVE  RootsReal'
<1> USE DEF Handling
<1>1. ASSUME NEW root \in AnyRoot, SendBatch(root)
      PROVE  RootsReal'
  <2>1. root # ZeroRoot
    <3>1. pc' # pc
      BY <1>1 DEF SendBatch
    <3>2. ~SendBatch(ZeroRoot)
      BY <3>1 DEF vars, seqVars
    <3>3. QED
      BY <1>1, <3>2
  <2>2. batch'.stateRoot # ZeroRoot
    BY <1>1, <2>1 DEF SendBatch, BuiltHeader
  <2>3. \A tx \in mempool' : tx.header.stateRoot # ZeroRoot
    BY <1>1, <2>1 DEF RootsReal, SendBatch, BuiltHeader
  <2>4. IsCommittedIsTruthful'
    BY <1>1 DEF RootsReal, IsCommittedIsTruthful, IsCommitted, SendBatch, l1Vars, sccVars
  <2>5. QED
    BY <2>2, <2>3, <2>4 DEF RootsReal
<1>2. CASE SendCommit
  BY <1>2 DEF SendCommit, RootsReal, IsCommittedIsTruthful, IsCommitted, l1Vars, sccVars
<1>3. ASSUME NEW tx \in mempool, MineTx(tx)
      PROVE  RootsReal'
  <2>1. /\ mempool' \subseteq mempool /\ UNCHANGED <<pc, batch>>
        /\ tx \in Tx /\ tx.header.stateRoot # ZeroRoot
    BY <1>3 DEF MineTx, RootsReal, TypeOK
  <2>2. IsCommittedIsTruthful'
    <3>1. CASE UNCHANGED sccVars
      BY <3>1 DEF RootsReal, IsCommittedIsTruthful, IsCommitted, sccVars
    <3>2. CASE CommitStateRoot(Genesis, tx.header.batchIndex, tx.header.stateRoot)
      <4> DEFINE i == tx.header.batchIndex
      <4>1. /\ i = latestCommittedBatch /\ latestCommittedBatch' = i + 1
            /\ stateRoots' = [stateRoots EXCEPT ![i] = tx.header.stateRoot]
        BY <3>2 DEF CommitStateRoot, SccAccepts, StoreRoot
      <4>2. stateRoots \in [Index -> AnyRoot] /\ latestCommittedBatch \in Nat
        BY DEF TypeOK, L1TypeOK
      <4> HIDE DEF i
      <4>3. QED
        BY <2>1, <4>1, <4>2, L1Assumption DEF RootsReal, IsCommittedIsTruthful, IsCommitted
    <3>3. QED
      BY <1>3, <2>1, <3>1, <3>2 DEF MineTx, ExecuteTx, SubmitBatch, l1Vars, Tx
  <2>3. QED
    BY <2>1, <2>2 DEF RootsReal
<1>4. CASE UNCHANGED sccVars /\ mempool' \subseteq mempool
           /\ (pc' \in Handling => pc \in Handling /\ batch' = batch)
  BY <1>4 DEF RootsReal, IsCommittedIsTruthful, IsCommitted, sccVars
<1>5. CASE UNCHANGED vars
  BY <1>4, <1>5 DEF vars, l1Vars, seqVars, netVars
<1>6. CASE StartSyncsIndex \/ StartFailsToSyncIndex \/ StartSyncsParent \/ StartFailsToSyncParent
  BY <1>4, <1>6 DEF StartSyncsIndex, StartFailsToSyncIndex, StartSyncsParent,
                    StartFailsToSyncParent, l1Vars, netVars
<1>7. CASE SendBatchFails \/ SubmitReceiptFails \/ SubmitConfirmed
  BY <1>4, <1>7 DEF SendBatchFails, SubmitReceiptFails, SubmitConfirmed, l1Vars, netVars
<1>8. CASE SendCommitFails \/ CommitReceiptFails \/ CommitConfirmed
  BY <1>4, <1>8 DEF SendCommitFails, CommitReceiptFails, GiveUpCommit, CommitConfirmed, l1Vars,
                    netVars
<1>9. CASE FinishBatch \/ Crash
  BY <1>4, <1>9 DEF FinishBatch, Crash, l1Vars, netVars
<1>10. ASSUME NEW w \in Withdrawals, FinalizeWithdrawal(w) \/ EnqueueWithdrawal(w)
       PROVE  RootsReal'
  BY <1>4, <1>10 DEF FinalizeWithdrawal, EnqueueWithdrawal, l1Vars, netVars
<1>11. ASSUME NEW tx \in mempool, DropTx(tx)
       PROVE  RootsReal'
  BY <1>4, <1>11 DEF DropTx, l1Vars, seqVars
<1>12. QED
  BY <1>1, <1>2, <1>3, <1>5, <1>6, <1>7, <1>8, <1>9, <1>10, <1>11 DEF Next, Task, Failures

\* Theorem: a sequencer with a state provider gets a truthful answer from
\* isCommitted for every batch it committed (IsCommittedIsTruthful), in any order of
\* mining, faults and restarts: it is the B256::ZERO of a missing provider alone that
\* isCommitted denies.
THEOREM ProvidedRootsAreSeen == Spec /\ RootsProvided => []IsCommittedIsTruthful
<1>1. Init => RootsReal
  BY L1Assumption DEF Init, L1Init, RootsReal, IsCommittedIsTruthful, Handling
<1>2. TypeOK /\ RootsReal /\ [Next]_vars /\ [~SendBatch(ZeroRoot)]_vars => RootsReal'
  BY RootsRealNext
<1>3. RootsReal => IsCommittedIsTruthful
  BY DEF RootsReal
<1>4. QED
  BY <1>1, <1>2, <1>3, TypeCorrect, PTL DEF Spec, RootsProvided
=============================================================================
