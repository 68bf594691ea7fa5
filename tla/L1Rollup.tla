------------------------------ MODULE L1Rollup ------------------------------
(***************************************************************************)
(* The two L1 contracts a batch passes through:                            *)
(*   - SequencerInbox, which stores a hash-linked list of batch headers;   *)
(*   - StateCommitmentChain, which stores one state root per batch.        *)
(*                                                                         *)
(* The contracts know nothing of each other, and each has a sequencer      *)
(* address of its own.  Every transaction is one atomic step: its guard is *)
(* the conjunction of the contract's `revert` conditions, and a reverted   *)
(* transaction changes nothing, so it is not a step.                       *)
(*                                                                         *)
(* A batch hash is keccak(header, keccak(transactions)), and the header    *)
(* holds the submission time.  It is a number here, different for two      *)
(* different headers; 0 is bytes32(0).  The fields of a header that no     *)
(* check reads (epoch, timestamp, transactionsRoot) are summed up by it.   *)
(***************************************************************************)
EXTENDS Naturals

CONSTANTS
  Accounts,       \* addresses that may call the contracts
  Genesis,        \* the account given to both constructors
  Roots,          \* state roots other than bytes32(0)
  ZeroRoot,       \* bytes32(0) as a state root
  MaxBatches,     \* bound on the number of batches an inbox holds
  MaxHash,        \* bound on the number of different batch hashes
  MaxNow          \* bound on L1 block time

ASSUME L1Assumption ==
  /\ Genesis \in Accounts
  /\ ZeroRoot \notin Roots
  /\ MaxBatches \in Nat
  /\ MaxHash \in Nat
  /\ MaxNow \in Nat \ {0}

Index == 0 .. MaxBatches - 1
BatchHash == 1 .. MaxHash
ZeroHash == 0
AnyRoot == Roots \cup {ZeroRoot}

\* What the sequencer sends and the contract stores; `hash` is the value the
\* contract computes from the other fields and the transactions.
Header == [batchIndex: Index, parentBatchHash: BatchHash \cup {ZeroHash},
           stateRoot: AnyRoot, hash: BatchHash]
NoHeader == [batchIndex |-> 0, parentBatchHash |-> ZeroHash,
             stateRoot |-> ZeroRoot, hash |-> ZeroHash]

VARIABLES
  inboxSequencer,         \* SequencerInbox.sequencer
  latestBatchIndex,       \* the index the NEXT batch must have
  batchHashes,
  batchHeaders,
  sccSequencer,           \* StateCommitmentChain.sequencer
  stateRoots,
  commitmentTimestamps,
  latestCommittedBatch,   \* the index the NEXT commitment must have
  now                     \* block.timestamp

inboxVars == <<inboxSequencer, latestBatchIndex, batchHashes, batchHeaders>>
sccVars == <<sccSequencer, stateRoots, commitmentTimestamps, latestCommittedBatch>>
l1Vars == <<inboxVars, sccVars, now>>

L1TypeOK ==
  /\ inboxSequencer \in Accounts
  /\ latestBatchIndex \in 0 .. MaxBatches
  /\ batchHashes \in [Index -> BatchHash \cup {ZeroHash}]
  /\ batchHeaders \in [Index -> Header \cup {NoHeader}]
  /\ sccSequencer \in Accounts
  /\ stateRoots \in [Index -> AnyRoot]
  /\ commitmentTimestamps \in [Index -> 0 .. MaxNow]
  /\ latestCommittedBatch \in 0 .. MaxBatches
  /\ now \in 1 .. MaxNow

L1Init ==
  /\ inboxSequencer = Genesis
  /\ latestBatchIndex = 0
  /\ batchHashes = [i \in Index |-> ZeroHash]
  /\ batchHeaders = [i \in Index |-> NoHeader]
  /\ sccSequencer = Genesis
  /\ stateRoots = [i \in Index |-> ZeroRoot]
  /\ commitmentTimestamps = [i \in Index |-> 0]
  /\ latestCommittedBatch = 0
  /\ now = 1

-----------------------------------------------------------------------------
(* SequencerInbox *)

\* Mutant: the parent check is forgotten.
InboxAcceptsAnyParent(from, header) ==
  from = inboxSequencer /\ header.batchIndex = latestBatchIndex

\* The conditions submitBatch checks before it stores anything.  Batch 0 may
\* name any parent.
InboxAccepts(from, header) ==
  /\ from = inboxSequencer
  /\ header.batchIndex = latestBatchIndex
  /\ latestBatchIndex > 0 => header.parentBatchHash = batchHashes[latestBatchIndex - 1]

StoreBatch(header) ==
  /\ latestBatchIndex < MaxBatches
  /\ batchHashes' = [batchHashes EXCEPT ![latestBatchIndex] = header.hash]
  /\ batchHeaders' = [batchHeaders EXCEPT ![latestBatchIndex] = header]
  /\ latestBatchIndex' = latestBatchIndex + 1
  /\ UNCHANGED inboxSequencer

SubmitBatch(from, header) ==
  /\ InboxAccepts(from, header)
  /\ StoreBatch(header)
  /\ UNCHANGED <<sccVars, now>>

\* "True if the batch exists": the view other tools ask.
BatchExists(i) == batchHashes[i] # ZeroHash \/ i = 0

SetInboxSequencer(from, new) ==
  /\ from = inboxSequencer
  /\ inboxSequencer' = new
  /\ UNCHANGED <<latestBatchIndex, batchHashes, batchHeaders, sccVars, now>>

-----------------------------------------------------------------------------
(* StateCommitmentChain *)

\* Mutant: only the overwrite check is left, not the order.
SccAcceptsAnyOrder(from, i) == from = sccSequencer /\ stateRoots[i] = ZeroRoot

SccAccepts(from, i) ==
  /\ from = sccSequencer
  /\ i = latestCommittedBatch
  /\ stateRoots[i] = ZeroRoot

\* Mutant: the counter is not advanced.
StoreRootInPlace(i, root) ==
  /\ stateRoots' = [stateRoots EXCEPT ![i] = root]
  /\ commitmentTimestamps' = [commitmentTimestamps EXCEPT ![i] = now]
  /\ UNCHANGED <<sccSequencer, latestCommittedBatch>>

StoreRoot(i, root) ==
  /\ stateRoots' = [stateRoots EXCEPT ![i] = root]
  /\ commitmentTimestamps' = [commitmentTimestamps EXCEPT ![i] = now]
  /\ latestCommittedBatch' = i + 1
  /\ UNCHANGED sccSequencer

CommitStateRoot(from, i, root) ==
  /\ SccAccepts(from, i)
  /\ StoreRoot(i, root)
  /\ UNCHANGED <<inboxVars, now>>

\* The view L1StandardBridge.finalizeWithdrawal asks.
IsCommitted(i) == stateRoots[i] # ZeroRoot

SetSccSequencer(from, new) ==
  /\ from = sccSequencer
  /\ sccSequencer' = new
  /\ UNCHANGED <<inboxVars, stateRoots, commitmentTimestamps, latestCommittedBatch, now>>

-----------------------------------------------------------------------------
\* A later L1 block: block.timestamp grows.
NewL1Block ==
  /\ now < MaxNow
  /\ now' = now + 1
  /\ UNCHANGED <<inboxVars, sccVars>>

\* Any account calls, with any header whose hash is new (keccak has no
\* collisions) and any root.
L1Next ==
  \/ \E from \in Accounts, header \in Header :
       /\ \A i \in Index : batchHashes[i] # header.hash
       /\ SubmitBatch(from, header)
  \/ \E from \in Accounts, i \in Index, root \in AnyRoot : CommitStateRoot(from, i, root)
  \/ \E from, new \in Accounts : SetInboxSequencer(from, new)
  \/ \E from, new \in Accounts : SetSccSequencer(from, new)
  \/ NewL1Block

L1Spec == L1Init /\ [][L1Next]_l1Vars

-----------------------------------------------------------------------------
(* Properties of the contracts, whoever calls them. *)

\* The inbox is one hash-linked list: every stored batch but the first names
\* the hash stored just before it, two batches never share a hash, and nothing
\* is stored at or past latestBatchIndex.  A verifier that follows parents from
\* the latest batch therefore meets every batch exactly once (submitBatch).
HashChain ==
  /\ \A i \in Index : i > 0 /\ i < latestBatchIndex =>
       batchHeaders[i].parentBatchHash = batchHashes[i - 1]
  /\ \A i, j \in 0 .. latestBatchIndex - 1 : batchHashes[i] = batchHashes[j] => i = j
  /\ \A i \in Index : i >= latestBatchIndex <=> batchHashes[i] = ZeroHash

\* What has been posted stays posted: a stored batch, a committed root and its
\* stamp are never rewritten and the two counters never go back, across any
\* sequence of calls and changes of sequencer.
HistoryIsFinal ==
  [][ /\ latestBatchIndex' >= latestBatchIndex
      /\ latestCommittedBatch' >= latestCommittedBatch
      /\ \A i \in 0 .. latestBatchIndex - 1 :
           batchHashes'[i] = batchHashes[i] /\ batchHeaders'[i] = batchHeaders[i]
      /\ \A i \in 0 .. latestCommittedBatch - 1 :
           /\ stateRoots'[i] = stateRoots[i]
           /\ commitmentTimestamps'[i] = commitmentTimestamps[i]
    ]_l1Vars

\* SequencerInbox.sol:105 says batchExists returns "True if the batch exists".
BatchExistsIsTruthful == \A i \in Index : BatchExists(i) => i < latestBatchIndex

\* StateCommitmentChain.sol:90 says isCommitted returns "True if the batch has a
\* state root commitment": so it holds of every batch that was committed.
IsCommittedIsTruthful == \A i \in Index : i < latestCommittedBatch => IsCommitted(i)
=============================================================================
