--------------------------- MODULE BlockProducer ---------------------------
(***************************************************************************)
(* The block producer of the sequencer (L2Sequencer::produce_block): the   *)
(* list of pending transactions and the blocks taken from its front.       *)
(*                                                                         *)
(* The list is locked for the whole of produce_block and for each append,  *)
(* so both are steps.  Gas is a u64: sums are taken modulo Word.           *)
(* Sequencer has the task that calls produce_block and the owners that     *)
(* call add_transaction.                                                   *)
(***************************************************************************)
EXTENDS Integers, SequencesExt

CONSTANTS
  Txs,
  Gas,            \* gas limit of each transaction
  Word,           \* 2^64
  MaxBlockSize,
  MaxBlockGas,
  MaxSubmitted    \* bound on transactions handed in

ASSUME ProducerAssumption ==
  /\ Word \in Nat \ {0}
  /\ Gas \in [Txs -> 0 .. Word - 1]
  /\ MaxBlockSize \in Nat /\ MaxBlockGas \in 0 .. Word - 1 /\ MaxSubmitted \in Nat

VARIABLES
  pending,        \* pending_transactions
  \* History; the code only logs its blocks:
  included,       \* every transaction produce_block took, in order
  cuts,           \* how many those were after each block
  submitted       \* every transaction handed in, in order

producerVars == <<pending, included, cuts, submitted>>

ProducerTypeOK ==
  /\ pending \in Seq(Txs)
  /\ included \in Seq(Txs)
  /\ cuts \in Seq(Nat \ {0})
  /\ submitted \in Seq(Txs) /\ Len(submitted) <= MaxSubmitted

ProducerInit ==
  /\ pending = <<>>
  /\ included = <<>>
  /\ cuts = <<>>
  /\ submitted = <<>>

\* L2Sequencer::add_transaction and SequencerHandle::add_transaction: nothing is
\* checked, a transaction may come twice.
AddTransaction(tx) ==
  /\ Len(submitted) < MaxSubmitted
  /\ pending' = Append(pending, tx)
  /\ submitted' = Append(submitted, tx)
  /\ UNCHANGED <<included, cuts>>

TotalGas(txs) == FoldSeq(LAMBDA tx, sum : Gas[tx] + sum, 0, txs)

\* Mutant: a block may reach its gas limit but for one unit.
StrictlyWithinGas(n) == TotalGas(SubSeq(pending, 1, n)) % Word < MaxBlockGas

\* The comparison made before the n-th transaction is taken.
WithinGas(n) == TotalGas(SubSeq(pending, 1, n)) % Word <= MaxBlockGas

\* The loop gets past its n-th round.
Takes(n) == n <= MaxBlockSize /\ \A k \in 1 .. n : WithinGas(k)

\* The loop ends after n transactions, at the end of the list or at the first one
\* that is too many or does not fit.
TakesUpTo(n) == Takes(n) /\ (n < Len(pending) => ~Takes(n + 1))

\* Mutant: the transaction that does not fit is dropped.
RestWithoutHead(n) == SubSeq(pending, n + 2, Len(pending))

Rest(n) == SubSeq(pending, n + 1, Len(pending))

\* A tick produces a block only if it has a transaction.
ProduceBlock ==
  \E n \in 0 .. Len(pending) :
    /\ TakesUpTo(n)
    /\ IF n = 0 THEN UNCHANGED producerVars
       ELSE /\ included' = included \o SubSeq(pending, 1, n)
            /\ cuts' = Append(cuts, Len(included) + n)
            /\ pending' = Rest(n)
            /\ UNCHANGED submitted

-----------------------------------------------------------------------------
(* Properties *)

\* The i-th block.
Produced(i) == SubSeq(included, (IF i = 1 THEN 0 ELSE cuts[i - 1]) + 1, cuts[i])

\* A block is within the size and the gas limit, however its transactions came.
BlocksWithinLimits ==
  \A i \in DOMAIN cuts : Len(Produced(i)) <= MaxBlockSize /\ TotalGas(Produced(i)) <= MaxBlockGas

\* The blocks, in order, and then the pending list are the transactions as they were
\* handed in, cut at the limits: none is lost, doubled or overtaken by one that fits
\* better, and no block is over a limit.
FirstComeFirstServed ==
  /\ included \o pending = submitted
  /\ BlocksWithinLimits
=============================================================================
