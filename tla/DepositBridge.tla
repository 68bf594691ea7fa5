---------------------------- MODULE DepositBridge ----------------------------
(***************************************************************************)
(* Deposits from L1 to L2: the deposit poller and the deposit processor of *)
(* L2Sequencer (engine/src/sequencer.rs) with L1Client::poll_deposits.     *)
(*                                                                         *)
(* The poller reads a window of L1 blocks every 12 s, turns each deposit   *)
(* event into an L2 message and enqueues it; the processor empties the     *)
(* queue every 2 s and counts what it took (crediting is a TODO in the     *)
(* code: a deposit taken by the processor is what the code calls           *)
(* processed).  Both tasks share the MessageQueue; the poller is the only  *)
(* one that enqueues deposits, so enqueue is one step here (MessageQueue   *)
(* has its steps).  last_scanned_block, the queue and the processed hashes *)
(* are in memory only.                                                     *)
(*                                                                         *)
(* L1 is a growing log of deposit events with the number of events up to   *)
(* each block; reorganisations are not modelled.                           *)
(***************************************************************************)
EXTENDS Naturals, Sequences, SequencesExt

CONSTANTS
  Payloads,       \* what events may carry: sender, recipient, value, data
  MaxBlockRange,  \* MAX_BLOCK_RANGE (10 in the code)
  NonceStride,    \* 1_000_000
  MaxBlock,       \* bound on L1 blocks
  MaxLogs,        \* bound on deposits in a block
  MaxTime,        \* bound on the wall clock, in seconds
  MaxCrashes      \* bound on restarts of the sequencer

ASSUME DepositAssumption ==
  /\ MaxBlockRange \in Nat \ {0}
  /\ NonceStride \in Nat /\ MaxLogs < NonceStride
  /\ {MaxBlock, MaxLogs, MaxTime, MaxCrashes} \subseteq Nat

VARIABLES
  head,           \* number of the newest L1 block
  log,            \* the deposit events of all blocks, oldest first
  upTo,           \* L1 block -> how many events the chain has up to it
  clock,          \* SystemTime::now() in seconds
  poller,         \* where the poller is
  lastScanned,    \* L1Client.last_scanned_block
  window,         \* blocks of the query at hand: <<from, to>>, else <<0, 0>>
  found,          \* deposits of the poll still to be enqueued
  queue,          \* pending_deposits of the message queue
  noted,          \* hashes in the queue's processed_messages
  crashes,
  \* History, read by no action:
  firstScanned,   \* first block this process asked for, 0 before that
  credited,       \* the deposits the processors took, oldest first
  inherited       \* how many of them earlier processes took

chain == <<head, log, upTo>>
memory == <<poller, lastScanned, window, found, queue, noted>>
depositVars == <<chain, clock, memory, crashes, firstScanned, credited, inherited>>

Block == 1 .. MaxBlock

\* A deposit event: its block, its log index there, and what it carries.
Deposit == [block: Block, index: 1 .. MaxLogs, payload: Payloads]
Hash == [payload: Payloads, nonce: Nat, timestamp: Nat]

DepositTypeOK ==
  /\ head \in 0 .. MaxBlock
  /\ log \in Seq(Deposit)
  /\ upTo \in [0 .. MaxBlock -> Nat]
  /\ clock \in 0 .. MaxTime
  /\ poller \in {"idle", "query", "enqueue"}
  /\ lastScanned \in 0 .. head
  /\ window \in (0 .. MaxBlock) \X (0 .. MaxBlock)
  /\ found \in Seq(Deposit)
  /\ queue \in Seq(Deposit)
  /\ noted \subseteq Hash
  /\ crashes \in 0 .. MaxCrashes
  /\ firstScanned \in 0 .. MaxBlock
  /\ credited \in Seq(Deposit)
  /\ inherited \in 0 .. Len(credited)

DepositInit ==
  /\ head = 0
  /\ log = <<>>
  /\ upTo = [b \in 0 .. MaxBlock |-> 0]
  /\ clock = 0
  /\ poller = "idle"
  /\ lastScanned = 0
  /\ window = <<0, 0>>
  /\ found = <<>>
  /\ queue = <<>>
  /\ noted = {}
  /\ crashes = 0
  /\ firstScanned = 0
  /\ credited = <<>>
  /\ inherited = 0

-----------------------------------------------------------------------------
(* L1 *)

\* A block with the ETHDepositInitiated events of L1StandardBridge.
NewL1Block(payloads) ==
  /\ head < MaxBlock
  /\ head' = head + 1
  /\ log' = log \o [k \in 1 .. Len(payloads) |->
                      [block |-> head + 1, index |-> k, payload |-> payloads[k]]]
  /\ upTo' = [upTo EXCEPT ![head + 1] = Len(log) + Len(payloads)]
  /\ UNCHANGED <<clock, memory, crashes, firstScanned, credited, inherited>>

ClockTicks ==
  /\ clock < MaxTime
  /\ clock' = clock + 1
  /\ UNCHANGED <<chain, memory, crashes, firstScanned, credited, inherited>>

\* The deposits of blocks from .. to, as far as they are there, in the order of
\* the chain.
DepositsIn(from, to) ==
  SubSeq(log, upTo[from - 1] + 1, upTo[IF to <= head THEN to ELSE head])

-----------------------------------------------------------------------------
(* poll_l1_deposits *)

SaturatingSub(a, b) == IF a >= b THEN a - b ELSE 0

\* The first poll starts at most MAX_BLOCK_RANGE - 1 blocks back.
WindowStart(current) ==
  IF lastScanned = 0 THEN SaturatingSub(current, MaxBlockRange - 1) ELSE lastScanned + 1

\* Mutant: the window is not cut at the head.
WindowEndPastHead(current, from) == from + MaxBlockRange - 1

WindowEnd(current, from) ==
  IF current <= from + MaxBlockRange - 1 THEN current ELSE from + MaxBlockRange - 1

\* last_scanned and the block number are read; a poll with no new block ends.
StartPoll ==
  /\ poller = "idle"
  /\ head > lastScanned
  /\ window' = <<WindowStart(head), WindowEnd(head, WindowStart(head))>>
  /\ poller' = "query"
  /\ UNCHANGED <<chain, clock, lastScanned, found, queue, noted, crashes,
                 firstScanned, credited, inherited>>

\* The events arrive; last_scanned_block is set before they are enqueued.
\* Block 0 has no deposits.
QueryOk ==
  LET from == IF window[1] = 0 THEN 1 ELSE window[1] IN
  /\ poller = "query"
  /\ found' = DepositsIn(from, window[2])
  /\ lastScanned' = window[2]
  /\ poller' = "enqueue"
  /\ firstScanned' = IF firstScanned = 0 THEN from ELSE firstScanned
  /\ window' = <<0, 0>>
  /\ UNCHANGED <<chain, clock, queue, noted, crashes, credited, inherited>>

\* The window is asked for again, perhaps longer, at the next poll.
QueryFails ==
  /\ poller = "query"
  /\ poller' = "idle"
  /\ window' = <<0, 0>>
  /\ UNCHANGED <<chain, clock, lastScanned, found, queue, noted, crashes,
                 firstScanned, credited, inherited>>

\* Mutant: the log index alone.
NonceOfLog(d) == d.index

Nonce(d) == d.block * NonceStride + d.index

\* deposit_to_l2_message, as far as the queue's hash sees it: the time of the
\* conversion is part of the message.
MessageHash(d) == [payload |-> d.payload, nonce |-> Nonce(d), timestamp |-> clock]

EnqueueFound ==
  LET d == Head(found)
      hash == MessageHash(d)
  IN
  /\ poller = "enqueue"
  /\ found # <<>>
  /\ found' = Tail(found)
  /\ queue' = IF hash \in noted THEN queue ELSE Append(queue, d)
  /\ noted' = noted \cup {hash}
  /\ UNCHANGED <<chain, clock, poller, lastScanned, window, crashes, firstScanned, credited,
                 inherited>>

EndPoll ==
  /\ poller = "enqueue"
  /\ found = <<>>
  /\ poller' = "idle"
  /\ UNCHANGED <<chain, clock, lastScanned, window, found, queue, noted, crashes,
                 firstScanned, credited, inherited>>

-----------------------------------------------------------------------------
\* process_pending_deposits, one deposit; the poller may enqueue in between.
ProcessDeposit ==
  /\ queue # <<>>
  /\ credited' = Append(credited, Head(queue))
  /\ queue' = Tail(queue)
  /\ UNCHANGED <<chain, clock, poller, lastScanned, window, found, noted, crashes,
                 firstScanned, inherited>>

\* The sequencer dies and is started again with a new L1Client and a new queue.
Restart ==
  /\ crashes < MaxCrashes
  /\ crashes' = crashes + 1
  /\ poller' = "idle"
  /\ lastScanned' = 0
  /\ window' = <<0, 0>>
  /\ found' = <<>>
  /\ queue' = <<>>
  /\ noted' = {}
  /\ firstScanned' = 0
  /\ inherited' = Len(credited)
  /\ UNCHANGED <<chain, clock, credited>>

DepositNext ==
  \/ \E payloads \in SeqOf(Payloads, MaxLogs) : NewL1Block(payloads)
  \/ ClockTicks
  \/ StartPoll
  \/ QueryOk
  \/ QueryFails
  \/ EnqueueFound
  \/ EndPoll
  \/ ProcessDeposit
  \/ Restart

DepositSpec == DepositInit /\ [][DepositNext]_depositVars

\* The two timers keep firing; a query that is tried again and again succeeds
\* in the end.
DepositFairSpec ==
  /\ DepositSpec
  /\ WF_depositVars(StartPoll)
  /\ SF_depositVars(QueryOk)
  /\ WF_depositVars(EnqueueFound)
  /\ WF_depositVars(EndPoll)
  /\ WF_depositVars(ProcessDeposit)

-----------------------------------------------------------------------------
(* Properties. *)

\* Whatever the lengths of the windows and the failures of queries, what one
\* process has credited, queued and found is exactly the list of deposits on
\* L1 from the first block it asked for to last_scanned_block: nothing is
\* skipped, nothing comes twice, nothing changes places, and no deposit is
\* taken for a duplicate of another one.
DeliversContiguousLog ==
  firstScanned > 0 =>
    SubSeq(credited, inherited + 1, Len(credited)) \o queue \o found
      = DepositsIn(firstScanned, lastScanned)

\* Seen from L2, poller, queue and processor together are a DepositStream: windows,
\* failed queries and the tests for duplicates change neither order nor number of
\* the deposits that come out at its end.
Stream == INSTANCE DepositStream WITH
  Deposits <- Deposit,
  next <- IF Len(credited) = inherited THEN 0
          ELSE upTo[firstScanned - 1] + (Len(credited) - inherited) + 1

ImplementsStream == Stream!Spec

\* Every deposit from the first block asked for on is credited in the end, or the
\* sequencer is restarted.
EveryScannedDepositCredited ==
  \A b \in Block :
    head >= b /\ firstScanned \in 1 .. b ~>
      (\A k \in upTo[b - 1] + 1 .. upTo[b] : Contains(credited, log[k])) \/ crashes > 0

\* docs/STATE_MACHINES.md:515 ends the life of every deposit in "CREDIT USER ON L2".
EveryDepositCredited == \A d \in Deposit : Contains(log, d) ~> Contains(credited, d)

\* sequencer.rs:453 takes a refused message for "duplicate deposit (already
\* processed)": no deposit is credited twice.
CreditedOnce == IsInjective(credited)
=============================================================================
