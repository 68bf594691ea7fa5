----------------------------- MODULE Sequencer -----------------------------
(***************************************************************************)
(* L2Sequencer with its handles: the block producer among the tasks that   *)
(* are started and shut down together.  Its handler is produce_block; the  *)
(* handlers of the other tasks are in BatchSubmitter and DepositBridge and *)
(* do nothing here.  Whoever holds the sequencer or a handle hands in      *)
(* transactions.                                                           *)
(***************************************************************************)
EXTENDS BlockProducer, SequencerTasks

vars == <<producerVars, taskVars>>

TypeOK == ProducerTypeOK /\ TasksTypeOK

Init == ProducerInit /\ TasksInit

\* add_transaction needs the sequencer or a handle, not a task that reads the list.
HandIn(tx) ==
  /\ sequencer.state \in {"held", "closed"} \/ \E h \in Handles : handle[h].state = "held"
  /\ AddTransaction(tx)
  /\ UNCHANGED taskVars

Handler(t) == IF t = "producer" THEN ProduceBlock ELSE UNCHANGED producerVars

\* The handler of a task runs when its timer has fired.
RunHandler(t) == Finish(t) /\ Handler(t)

Next ==
  \/ \E tx \in Txs : HandIn(tx)
  \/ \E t \in Tasks : RunHandler(t)
  \/ (\E t \in Tasks : Tick(t) \/ Stop(t)) /\ UNCHANGED producerVars
  \/ Owners /\ UNCHANGED producerVars

Spec == Init /\ [][Next]_vars

\* Timers go on, handlers end and calls that can go on do.  A select picks at
\* random among what is ready, so a shutdown that stays ready is not passed over
\* for ever.
Fairness ==
  /\ \A t \in Tasks : WF_vars(RunHandler(t)) /\ SF_vars(Stop(t) /\ UNCHANGED producerVars)
  /\ WF_vars(Tick("producer") /\ UNCHANGED producerVars)
  /\ WF_vars(AwaitTask /\ UNCHANGED producerVars)
  /\ \A h \in Handles : WF_vars(Signal(h) /\ UNCHANGED producerVars)

\* The owner lets go of its handles some day, in one way or the other.
HandlesEnd ==
  \A h \in Handles : WF_vars((ShutdownHandle(h) \/ DropHandle(h)) /\ UNCHANGED producerVars)

FairSpec == Spec /\ Fairness /\ HandlesEnd

-----------------------------------------------------------------------------
(* Properties *)

\* The list is worked off in the end (transactions are bounded by MaxSubmitted),
\* unless one in it fits no block or the block producer is ended first.
FittingTransactionsIncluded ==
  pending # <<>> ~>
    \/ pending = <<>>
    \/ \E k \in DOMAIN pending : Gas[pending[k]] > MaxBlockGas
    \/ task["producer"] = "stopped"

ShutdownUnderway ==
  sequencer.state = "awaiting" \/ \E h \in Handles : handle[h].state = "signalling"

\* The shutdown of the sequencer returns, and every shutdown of a handle too,
\* though their channels hold one message and the tasks may be busy or gone.
\* Each is called once, so that all have returned when none is underway.
ShutdownsReturn == ShutdownUnderway ~> ~ShutdownUnderway

\* docs/STATE_MACHINES.md:330 "Manages the periodic production of L2 blocks":
\* while a handle is held and nobody has called a shutdown, blocks are produced.
ProducesWhileHeld ==
  sequencer.state \in {"held", "dropped"} /\ (\E h \in Handles : handle[h].state = "held") =>
    task["producer"] # "stopped"

\* docs/STATE_MACHINES.md:405 has batches submitted "(every 60 seconds)": while
\* the sequencer is held and nothing is shut down, its submitter runs.
SubmitsWhileHeld ==
  sequencer.state = "held" /\ (\A h \in Handles : handle[h].state # "signalling") =>
    task["submitter"] # "stopped"
=============================================================================
