--------------------------- MODULE BatchSubmitter ---------------------------
(***************************************************************************)
(* The batch submitter task of L2Sequencer (engine/src/sequencer.rs) with  *)
(* its L1Client, against the two L1 contracts of L1Rollup.                 *)
(*                                                                         *)
(* The task is sequential; a step ends where it awaits the L1 node.  A     *)
(* transaction that the node accepted stays in the mempool until it is     *)
(* mined, successfully or reverted, or dropped, whether or not the process *)
(* that sent it still waits for the receipt, or still runs.  What the      *)
(* process knows is in memory only: the queue of withdrawals, batch_index  *)
(* and parent_batch_hash are gone after a crash, and start() reads the     *)
(* last two back from L1.                                                  *)
(*                                                                         *)
(* An L1 client is configured (without one the task only drains the        *)
(* withdrawals), and the contracts keep one sequencer, Genesis: L1Rollup   *)
(* has the change of sequencer.                                            *)
(***************************************************************************)
EXTENDS L1Rollup, FiniteSets

CONSTANTS
  Withdrawals,    \* the L2 withdrawal messages
  ZeroMessage,    \* B256::ZERO as a message hash
  NoBatch,
  MaxFaults       \* bound on RPC failures, dropped transactions and crashes

ASSUME SubmitterAssumption ==
  /\ ZeroMessage \notin Withdrawals
  /\ NoBatch \notin Header
  /\ MaxFaults \in Nat

VARIABLES
  pc,             \* where the task is
  batchIndex,     \* L2Sequencer.batch_index
  parentHash,     \* L2Sequencer.parent_batch_hash
  pending,        \* withdrawals in the message queue
  batch,          \* header of the batch being handled, or NoBatch
  receipt,        \* outcome of the transaction the task waits for
  toFinalize,     \* withdrawals of the batch still to be finalized
  mempool,        \* transactions the L1 node accepted and has not mined
  nextHash,       \* the next batch hash that nobody has used
  finalized,      \* L1StandardBridge.finalizedWithdrawals
  faults,
  \* History, read by no action:
  enqueued,       \* every withdrawal that ever reached the queue
  carried,        \* batch hash -> the withdrawals the batch was built with
  revertedAsOk    \* indices whose submission reverted and was taken for done

seqVars == <<pc, batchIndex, parentHash, pending, batch, receipt, toFinalize>>
netVars == <<mempool, nextHash, finalized, faults>>
historyVars == <<enqueued, carried, revertedAsOk>>
vars == <<l1Vars, seqVars, netVars, historyVars>>

Pcs == {"down", "syncParent", "idle", "submitSent", "commit", "commitSent", "finalize"}
Tx == [kind: {"submit", "commit"}, header: Header]

TypeOK ==
  /\ L1TypeOK
  /\ pc \in Pcs
  /\ batchIndex \in 0 .. MaxBatches
  /\ pc = "syncParent" => batchIndex > 0
  /\ parentHash \in BatchHash \cup {ZeroHash}
  /\ pending \in SUBSET Withdrawals
  /\ batch \in Header \cup {NoBatch}
  /\ pc \in {"submitSent", "commit", "commitSent", "finalize"} => batch \in Header
  /\ receipt \in {"none", "ok", "reverted"}
  /\ toFinalize \in SUBSET Withdrawals
  /\ mempool \in SUBSET Tx
  /\ nextHash \in 1 .. MaxHash + 1
  /\ finalized \in SUBSET (Withdrawals \cup {ZeroMessage})
  /\ faults \in 0 .. MaxFaults
  /\ enqueued \in SUBSET Withdrawals
  /\ carried \in [BatchHash -> SUBSET Withdrawals]
  /\ revertedAsOk \in SUBSET Index

Init ==
  /\ L1Init
  /\ pc = "down"
  /\ batchIndex = 0
  /\ parentHash = ZeroHash
  /\ pending = {}
  /\ batch = NoBatch
  /\ receipt = "none"
  /\ toFinalize = {}
  /\ mempool = {}
  /\ nextHash = 1
  /\ finalized = {}
  /\ faults = 0
  /\ enqueued = {}
  /\ carried = [h \in BatchHash |-> {}]
  /\ revertedAsOk = {}

\* One of the MaxFaults things that may go wrong happens now.
Fault == faults < MaxFaults /\ faults' = faults + 1
NoFault == faults' = faults

-----------------------------------------------------------------------------
(* start(): batch_index, then the hash of the batch before it, from L1. *)

\* get_latest_batch_index: latestBatchIndex already is the next index.
NextIndexOnL1 == latestBatchIndex

StartSyncsIndex ==
  /\ pc = "down"
  /\ batchIndex' = NextIndexOnL1
  /\ pc' = IF latestBatchIndex > 0 THEN "syncParent" ELSE "idle"
  /\ UNCHANGED <<l1Vars, parentHash, pending, batch, receipt, toFinalize, netVars, historyVars>>

\* The error is logged and the task starts at index 0.
StartFailsToSyncIndex ==
  /\ pc = "down"
  /\ Fault
  /\ pc' = "idle"
  /\ UNCHANGED <<l1Vars, batchIndex, parentHash, pending, batch, receipt, toFinalize,
                 mempool, nextHash, finalized, historyVars>>

StartSyncsParent ==
  /\ pc = "syncParent"
  /\ parentHash' = batchHashes[batchIndex - 1]
  /\ pc' = "idle"
  /\ UNCHANGED <<l1Vars, batchIndex, pending, batch, receipt, toFinalize, netVars, historyVars>>

\* The error is logged and parent_batch_hash stays zero.
StartFailsToSyncParent ==
  /\ pc = "syncParent"
  /\ Fault
  /\ pc' = "idle"
  /\ UNCHANGED <<l1Vars, batchIndex, parentHash, pending, batch, receipt, toFinalize,
                 mempool, nextHash, finalized, historyVars>>

\* A withdrawal message reaches the sequencer's queue (each message is new:
\* MessageQueue models duplicates).
EnqueueWithdrawal(w) ==
  /\ pc # "down"
  /\ w \notin enqueued
  /\ pending' = pending \cup {w}
  /\ enqueued' = enqueued \cup {w}
  /\ UNCHANGED <<l1Vars, pc, batchIndex, parentHash, batch, receipt, toFinalize, netVars,
                 carried, revertedAsOk>>

-----------------------------------------------------------------------------
(* submit_batch, up to the receipt of the batch transaction *)

\* Mutant: the header names no parent, as BatchBuilder::build_batch has it.
HeaderWithoutParent(root) ==
  [batchIndex |-> batchIndex, parentBatchHash |-> ZeroHash,
   stateRoot |-> root, hash |-> nextHash]

\* The header the task builds; B256::ZERO stands in for a missing state root.
BuiltHeader(root) ==
  [batchIndex |-> batchIndex, parentBatchHash |-> parentHash,
   stateRoot |-> root, hash |-> nextHash]

\* The node estimates the gas of a transaction before it accepts it, so that a
\* transaction that would revert now is refused.
NodeAcceptsBatch(header) ==
  /\ latestBatchIndex < MaxBatches
  /\ nextHash <= MaxHash
  /\ InboxAccepts(Genesis, header)

\* The timer fires: every pending withdrawal leaves the queue, the batch is
\* built and its transaction sent.
SendBatch(root) ==
  LET header == BuiltHeader(root) IN
  /\ pc = "idle"
  /\ NodeAcceptsBatch(header)
  /\ batch' = header
  /\ receipt' = "none"
  /\ toFinalize' = pending
  /\ pending' = {}
  /\ mempool' = mempool \cup {[kind |-> "submit", header |-> header]}
  /\ nextHash' = nextHash + 1
  /\ carried' = [carried EXCEPT ![nextHash] = pending]
  /\ pc' = "submitSent"
  /\ UNCHANGED <<l1Vars, batchIndex, parentHash, finalized, faults, enqueued, revertedAsOk>>

\* Mutant: the withdrawals of a failed submission go back to the queue.
RequeueWithdrawals(ws) == pending' = pending \cup ws

\* The withdrawals dequeued for a batch that failed are not put back.
AbandonWithdrawals(ws) == pending' = pending \ ws

\* The same, but the send fails: the node refuses the batch, or the call fails.
\* Nothing remembers the withdrawals that were drained for it.
SendBatchFails ==
  /\ pc = "idle"
  /\ \/ ~NodeAcceptsBatch(BuiltHeader(ZeroRoot)) /\ NoFault
     \/ Fault
  /\ AbandonWithdrawals(pending)
  /\ UNCHANGED <<l1Vars, pc, batchIndex, parentHash, batch, receipt, toFinalize,
                 mempool, nextHash, finalized, historyVars>>

\* get_receipt fails although the transaction is still in the mempool or mined.
SubmitReceiptFails ==
  /\ pc = "submitSent"
  /\ Fault
  /\ AbandonWithdrawals(toFinalize)
  /\ toFinalize' = {}
  /\ batch' = NoBatch
  /\ receipt' = "none"
  /\ pc' = "idle"
  /\ UNCHANGED <<l1Vars, batchIndex, parentHash, mempool, nextHash, finalized, historyVars>>

\* Mutant: the task goes on without the receipt.
NoReceiptNeeded == TRUE

\* submit_batch looks at no field of the receipt but the transaction hash.
HasReceipt == receipt # "none"

\* Ok(batch_hash): the hash that was computed locally becomes the parent.
SubmitConfirmed ==
  /\ pc = "submitSent"
  /\ HasReceipt
  /\ batchIndex' = batch.batchIndex + 1
  /\ parentHash' = batch.hash
  /\ revertedAsOk' = IF receipt = "reverted" THEN revertedAsOk \cup {batch.batchIndex}
                                             ELSE revertedAsOk
  /\ receipt' = "none"
  /\ pc' = "commit"
  /\ UNCHANGED <<l1Vars, pending, batch, toFinalize, netVars, enqueued, carried>>

-----------------------------------------------------------------------------
(* submit_batch, from the commitment on *)

SendCommit ==
  /\ pc = "commit"
  /\ SccAccepts(Genesis, batch.batchIndex)
  /\ mempool' = mempool \cup {[kind |-> "commit", header |-> batch]}
  /\ pc' = "commitSent"
  /\ UNCHANGED <<l1Vars, batchIndex, parentHash, pending, batch, receipt, toFinalize,
                 nextHash, finalized, faults, historyVars>>

\* commit_state_root returns an error; the batch is never looked at again.
GiveUpCommit ==
  /\ toFinalize' = {}
  /\ batch' = NoBatch
  /\ receipt' = "none"
  /\ pc' = "idle"
  /\ UNCHANGED <<l1Vars, batchIndex, parentHash, pending, mempool, nextHash, finalized,
                 historyVars>>

SendCommitFails ==
  /\ pc = "commit"
  /\ \/ ~SccAccepts(Genesis, batch.batchIndex) /\ NoFault
     \/ Fault
  /\ GiveUpCommit

CommitReceiptFails ==
  /\ pc = "commitSent"
  /\ Fault
  /\ GiveUpCommit

CommitConfirmed ==
  /\ pc = "commitSent"
  /\ HasReceipt
  /\ receipt' = "none"
  /\ pc' = "finalize"
  /\ UNCHANGED <<l1Vars, batchIndex, parentHash, pending, batch, toFinalize, netVars, historyVars>>

\* The message_hash of every WithdrawalRequest the sequencer builds.
MessageHash(w) == ZeroMessage

\* L1StandardBridge.finalizeWithdrawal recomputes the hash of the message.
BridgeAccepts(w, messageHash, i) ==
  /\ messageHash \notin finalized
  /\ IsCommitted(i)
  /\ messageHash = w

\* One round of finalize_withdrawals; its result is logged and no more.
FinalizeWithdrawal(w) ==
  /\ pc = "finalize"
  /\ w \in toFinalize
  /\ finalized' = IF BridgeAccepts(w, MessageHash(w), batch.batchIndex)
                  THEN finalized \cup {MessageHash(w)} ELSE finalized
  /\ toFinalize' = toFinalize \ {w}
  /\ UNCHANGED <<l1Vars, pc, batchIndex, parentHash, pending, batch, receipt,
                 mempool, nextHash, faults, historyVars>>

FinishBatch ==
  /\ pc = "finalize"
  /\ toFinalize = {}
  /\ batch' = NoBatch
  /\ pc' = "idle"
  /\ UNCHANGED <<l1Vars, batchIndex, parentHash, pending, receipt, toFinalize, netVars, historyVars>>

\* The process dies wherever it is; a new one starts with L2Sequencer::new.
Crash ==
  /\ pc # "down"
  /\ Fault
  /\ pc' = "down"
  /\ batchIndex' = 0
  /\ parentHash' = ZeroHash
  /\ pending' = {}
  /\ batch' = NoBatch
  /\ receipt' = "none"
  /\ toFinalize' = {}
  /\ UNCHANGED <<l1Vars, mempool, nextHash, finalized, historyVars>>

-----------------------------------------------------------------------------
(* The L1 node *)

\* The task still waits for the receipt of this transaction.
Awaited(tx) ==
  /\ tx.header = batch
  /\ pc = IF tx.kind = "submit" THEN "submitSent" ELSE "commitSent"

Notify(tx, outcome) == receipt' = IF Awaited(tx) THEN outcome ELSE receipt

TxSucceeds(tx) ==
  IF tx.kind = "submit" THEN InboxAccepts(Genesis, tx.header)
                        ELSE SccAccepts(Genesis, tx.header.batchIndex)

ExecuteTx(tx) ==
  IF tx.kind = "submit" THEN SubmitBatch(Genesis, tx.header)
                        ELSE CommitStateRoot(Genesis, tx.header.batchIndex, tx.header.stateRoot)

\* Mempool transactions are mined in any order: one account's transactions go
\* by nonce, but a dropped nonce is filled by a later transaction.
MineTx(tx) ==
  /\ tx \in mempool
  /\ mempool' = mempool \ {tx}
  /\ IF TxSucceeds(tx) THEN ExecuteTx(tx) /\ Notify(tx, "ok")
                       ELSE UNCHANGED l1Vars /\ Notify(tx, "reverted")
  /\ UNCHANGED <<pc, batchIndex, parentHash, pending, batch, toFinalize,
                 nextHash, finalized, faults, historyVars>>

DropTx(tx) ==
  /\ tx \in mempool
  /\ Fault
  /\ mempool' = mempool \ {tx}
  /\ UNCHANGED <<l1Vars, seqVars, nextHash, finalized, historyVars>>

-----------------------------------------------------------------------------
Task ==
  \/ StartSyncsIndex
  \/ StartSyncsParent
  \/ \E root \in AnyRoot : SendBatch(root)
  \/ SubmitConfirmed
  \/ SendCommit
  \/ CommitConfirmed
  \/ \E w \in Withdrawals : FinalizeWithdrawal(w)
  \/ FinishBatch

Failures ==
  \/ StartFailsToSyncIndex
  \/ StartFailsToSyncParent
  \/ SendBatchFails
  \/ SubmitReceiptFails
  \/ SendCommitFails
  \/ CommitReceiptFails
  \/ Crash

Next ==
  \/ Task
  \/ Failures
  \/ \E w \in Withdrawals : EnqueueWithdrawal(w)
  \/ \E tx \in mempool : MineTx(tx)
  \/ \E tx \in mempool : DropTx(tx)

Spec == Init /\ [][Next]_vars

\* Timers keep firing and the task runs whatever it awaits to the end, the node
\* mines what it accepted, and start() is called again after a crash.
\* Failures are never required to happen, except the ones the node forces: a
\* refusal is an answer like any other.
FairSpec ==
  /\ Spec
  /\ WF_vars(Task)
  /\ WF_vars(SendBatchFails /\ NoFault)
  /\ WF_vars(SendCommitFails /\ NoFault)
  /\ WF_vars(\E tx \in mempool : MineTx(tx))

-----------------------------------------------------------------------------
(* Properties. *)

\* No state root is ever committed for a batch the inbox does not hold, in any
\* order of mining, lost receipts, reverts taken for successes and restarts.
\* (submit_batch commits only after it has seen a receipt.)
CommittedWereSubmitted == latestCommittedBatch <= latestBatchIndex

\* The committed root of a batch is the one in the header the inbox holds under
\* the same index, unless the submission of that index reverted and was taken
\* for a success: the only way the two contracts come to disagree.
RootsAgreeUnlessReverted ==
  \A i \in Index : i < latestCommittedBatch /\ i \notin revertedAsOk =>
    stateRoots[i] = batchHeaders[i].stateRoot

\* No withdrawal is in two batches of the inbox, nor in one of them and in the
\* queue: a batch whose receipt was lost may still be mined, so its withdrawals
\* must not be handed out again (submit_batch abandons them).
PostedOnce ==
  /\ \A i, j \in 0 .. latestBatchIndex - 1 :
       i # j => carried[batchHashes[i]] \cap carried[batchHashes[j]] = {}
  /\ \A i \in 0 .. latestBatchIndex - 1 : carried[batchHashes[i]] \cap pending = {}

\* The sequencer's index never runs ahead of the inbox.
IndexNotAhead == batchIndex <= latestBatchIndex

\* What a reader of L1 sees of this system is a RollupChain: batches are only
\* appended and never repeated, no withdrawal is carried twice, and commitments
\* follow the batches one by one.
Chain == INSTANCE RollupChain WITH
  Nothing <- ZeroHash,
  height <- latestBatchIndex,
  posted <- batchHashes,
  content <- [i \in Index |-> IF i < latestBatchIndex THEN carried[batchHashes[i]] ELSE {}],
  committed <- latestCommittedBatch

ImplementsRollupChain == Chain!Spec

\* Every batch of the inbox gets its state root, or something has failed.
EveryBatchCommitted ==
  \A i \in Index : (latestBatchIndex > i) ~> (latestCommittedBatch > i \/ faults > 0)

\* Every withdrawal that was queued reaches an L1 batch, as long as the inbox has
\* room, or something has failed.
EveryWithdrawalPosted ==
  \A w \in Withdrawals :
    (w \in enqueued) ~> \/ \E i \in 0 .. latestBatchIndex - 1 : w \in carried[batchHashes[i]]
                        \/ latestBatchIndex = MaxBatches
                        \/ faults > 0

\* The same of a batch whatever has failed: README.md:321 says the sequencer
\* "Commits L2 state roots to StateCommitmentChain".
CommitsRecover ==
  \A i \in Index : (latestBatchIndex > i) ~> (latestCommittedBatch > i)

\* l1_client.rs:200 computes the batch hash "locally (same as contract: ...)" to chain
\* the next batch to it: after a submission the parent is what the inbox holds.
ParentIsOnL1 ==
  pc = "commit" => parentHash = batchHashes[batch.batchIndex]

\* docs/STATE_MACHINES.md:306 has a message whose processing failed go to
\* "FAILED (retry)": it is never just gone.
NoWithdrawalDropped ==
  \A w \in enqueued :
    \/ w \in pending
    \/ w \in toFinalize
    \/ \E h \in BatchHash : w \in carried[h]

\* docs/STATE_MACHINES.md:445 ends every cycle with "FINALIZE WITHDRAWALS (on L1
\* bridge)".
EveryPostedWithdrawalFinalized ==
  \A w \in Withdrawals :
    (\E i \in 0 .. latestCommittedBatch - 1 : w \in carried[batchHashes[i]]) ~> w \in finalized
=============================================================================
