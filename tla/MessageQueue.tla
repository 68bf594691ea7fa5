---------------------------- MODULE MessageQueue ----------------------------
(***************************************************************************)
(* MessageQueue (primitives/src/message_queue.rs): queues of L2 messages   *)
(* with a list of the hashes that were taken in, each behind a lock of its *)
(* own.  enqueue takes three locks one after the other (look the hash up,  *)
(* push the message, note the hash), so that callers interleave between    *)
(* them; a dequeue takes one.                                              *)
(*                                                                         *)
(* The program has two instances: L2Sequencer's, which its tasks empty,    *)
(* and the static MESSAGE_QUEUE of the L2 message passer precompile.  A    *)
(* message stands for its hash: equal messages are one element.            *)
(***************************************************************************)
EXTENDS Naturals, Sequences, FiniteSets, SequencesExt

CONSTANTS
  Callers,            \* threads that call enqueue
  PrecompileCallers,  \* those of them that execute the precompile
  Messages,
  Deposits,           \* messages of type Deposit
  StateRoots          \* messages of type StateRoot; the others are
                      \* withdrawals and cross-layer calls

ASSUME QueueAssumption ==
  /\ PrecompileCallers \subseteq Callers
  /\ Deposits \subseteq Messages
  /\ StateRoots \subseteq Messages \ Deposits

Instances == {"sequencer", "static"}
Lanes == {"deposits", "withdrawals", "stateRoots"}

VARIABLES
  lane,       \* instance -> lane -> the messages waiting there
  processed,  \* instance -> hashes in processed_messages
  pc,         \* caller -> where it is in enqueue
  msg,        \* caller -> the message it is enqueueing
  \* History, read by no action:
  pushed,     \* pairs of a caller and a message it has pushed
  returned,   \* triples of a caller, a message and what enqueue returned
  handedOut   \* instance -> messages dequeued so far, oldest first

queueVars == <<lane, processed, pc, msg, pushed, returned, handedOut>>

InstanceOf(c) == IF c \in PrecompileCallers THEN "static" ELSE "sequencer"

LaneOf(m) ==
  CASE m \in Deposits -> "deposits"
    [] m \in StateRoots -> "stateRoots"
    [] OTHER -> "withdrawals"

QueueTypeOK ==
  /\ lane \in [Instances -> [Lanes -> Seq(Messages)]]
  /\ \A i \in Instances :
       /\ lane[i]["deposits"] \in Seq(Deposits)
       /\ lane[i]["stateRoots"] \in Seq(StateRoots)
       /\ lane[i]["withdrawals"] \in Seq(Messages \ (Deposits \cup StateRoots))
  /\ processed \in [Instances -> SUBSET Messages]
  /\ pc \in [Callers -> {"out", "checked", "pushed"}]
  /\ msg \in [Callers -> Messages]
  /\ pushed \in SUBSET (Callers \X Messages)
  /\ returned \in SUBSET (Callers \X Messages \X {"ok", "err"})
  /\ handedOut \in [Instances -> Seq(Messages)]

QueueInit ==
  /\ lane = [i \in Instances |-> [l \in Lanes |-> <<>>]]
  /\ processed = [i \in Instances |-> {}]
  /\ pc = [c \in Callers |-> "out"]
  /\ msg \in [Callers -> Messages]
  /\ pushed = {}
  /\ returned = {}
  /\ handedOut = [i \in Instances |-> <<>>]

-----------------------------------------------------------------------------
(* enqueue *)

\* Mutant: the lookup finds nothing.
NeverProcessed(i, m) == FALSE

IsProcessed(i, m) == m \in processed[i]

\* Mutant: the hash is noted at the lookup, before the message is in a queue.
MarkedAtLookup(i, m) == [processed EXCEPT ![i] = @ \cup {m}]

\* The lookup only reads.
ProcessedAfterLookup(i, m) == processed

\* A caller arrives with a message and looks its hash up.
LookUp(c, m) ==
  LET i == InstanceOf(c) IN
  /\ pc[c] = "out"
  /\ msg' = [msg EXCEPT ![c] = m]
  /\ IF IsProcessed(i, m)
     THEN /\ returned' = returned \cup {<<c, m, "err">>}
          /\ UNCHANGED <<pc, processed>>
     ELSE /\ pc' = [pc EXCEPT ![c] = "checked"]
          /\ processed' = ProcessedAfterLookup(i, m)
          /\ UNCHANGED returned
  /\ UNCHANGED <<lane, pushed, handedOut>>

PushBack(c) ==
  /\ pc[c] = "checked"
  /\ lane' = [lane EXCEPT ![InstanceOf(c)][LaneOf(msg[c])] = Append(@, msg[c])]
  /\ pushed' = pushed \cup {<<c, msg[c]>>}
  /\ pc' = [pc EXCEPT ![c] = "pushed"]
  /\ UNCHANGED <<processed, msg, returned, handedOut>>

MarkProcessed(c) ==
  /\ pc[c] = "pushed"
  /\ processed' = [processed EXCEPT ![InstanceOf(c)] = @ \cup {msg[c]}]
  /\ returned' = returned \cup {<<c, msg[c], "ok">>}
  /\ pc' = [pc EXCEPT ![c] = "out"]
  /\ UNCHANGED <<lane, msg, pushed, handedOut>>

-----------------------------------------------------------------------------
\* Mutant: the tasks of the sequencer empty the withdrawals only.
OnlyWithdrawals == {"withdrawals"}

\* What the batch submitter and the deposit processor empty; nothing ever
\* takes a state root out.
DequeuedLanes == {"withdrawals", "deposits"}

\* pop_front.
Popped(queue) == Tail(queue)

\* dequeue_withdrawal, dequeue_deposit: the sequencer's tasks, on the
\* sequencer's instance.
Dequeue(l) ==
  /\ l \in DequeuedLanes
  /\ lane["sequencer"][l] # <<>>
  /\ lane' = [lane EXCEPT !["sequencer"][l] = Popped(@)]
  /\ handedOut' = [handedOut EXCEPT !["sequencer"] = Append(@, Head(lane["sequencer"][l]))]
  /\ UNCHANGED <<processed, pc, msg, pushed, returned>>

Advance(c) == PushBack(c) \/ MarkProcessed(c)

QueueNext ==
  \/ \E c \in Callers, m \in Messages : LookUp(c, m)
  \/ \E c \in Callers : PushBack(c)
  \/ \E c \in Callers : MarkProcessed(c)
  \/ \E l \in Lanes : Dequeue(l)

QueueSpec == QueueInit /\ [][QueueNext]_queueVars

\* A thread inside enqueue finishes (no lock is held across a blocking call),
\* and the timers of the two consuming tasks keep firing.
QueueFairSpec ==
  /\ QueueSpec
  /\ \A c \in Callers : WF_queueVars(Advance(c))
  /\ \A l \in Lanes : WF_queueVars(Dequeue(l))

-----------------------------------------------------------------------------
(* Properties. *)

\* No caller pushes the same message twice, however many others enqueue and
\* dequeue at the same time: by the time its first call is back the hash is
\* noted, and hashes are never forgotten.  So at most one copy per caller is
\* ever in a queue (enqueue).
PushedOncePerCaller == \A c \in Callers : pc[c] = "checked" => <<c, msg[c]>> \notin pushed

\* "Message already processed" is never said of a message that is in no queue
\* and never was: a caller that is refused may rely on the copy it repeats.
RefusedWasQueued ==
  \A c \in Callers, m \in Messages :
    <<c, m, "err">> \in returned =>
      \E d \in Callers : InstanceOf(d) = InstanceOf(c) /\ <<d, m>> \in pushed

\* The messages of an instance, handed out or waiting, with their copies.
Copies(i) == handedOut[i] \o lane[i]["deposits"] \o lane[i]["withdrawals"] \o lane[i]["stateRoots"]

CallsInto(i) == {call \in pushed : InstanceOf(call[1]) = i}

\* The copies of an instance are one for each call that pushed, and of the messages
\* that were pushed: callers and consumers that interleave as they may lose none and
\* make none up (enqueue, dequeue_withdrawal, dequeue_deposit).
CopiesAreCalls ==
  \A i \in Instances :
    /\ ToSet(Copies(i)) = {call[2] : call \in CallsInto(i)}
    /\ Len(Copies(i)) = Cardinality(CallsInto(i))

\* docs/STATE_MACHINES.md:306 ends a repeated message in "DUPLICATE (rejected)":
\* no message is pushed twice into one instance.
NoDuplicates == \A i \in Instances : IsInjective(Copies(i))

\* A withdrawal or deposit that the sequencer's queue took in is handed out, in
\* spite of whatever else is enqueued all the time.
SequencerHandsOut ==
  \A c \in Callers \ PrecompileCallers, m \in Messages \ StateRoots :
    <<c, m, "ok">> \in returned ~> Contains(handedOut["sequencer"], m)

\* docs/STATE_MACHINES.md:296 has every pending message go on by "dequeue() by
\* sequencer", the ones of the precompile included.
EveryMessageHandedOut ==
  \A c \in Callers, m \in Messages \ StateRoots :
    <<c, m, "ok">> \in returned ~> Contains(handedOut[InstanceOf(c)], m)
=============================================================================
