--------------------------- MODULE SequencerTasks ---------------------------
(***************************************************************************)
(* Start and end of the tasks of the sequencer (L2Sequencer::start,        *)
(* L2Sequencer::shutdown, SequencerHandle::shutdown).                      *)
(*                                                                         *)
(* start spawns four tasks, each a loop that selects between its timer and *)
(* its shutdown channel of capacity 1; a channel whose senders are all     *)
(* gone also ends the loop.  The sender of the block producer is in the    *)
(* L2Sequencer, the others are in the handles that start returns and that  *)
(* can be cloned.  What the owner keeps decides which tasks live on.       *)
(***************************************************************************)
EXTENDS Integers, Sequences, FiniteSets

CONSTANTS
  Handles,          \* bound on clones of the SequencerHandle
  FirstHandle,
  L1Configured,     \* the deposit poller is spawned
  DropsSequencer,   \* the owner lets go of the L2Sequencer, as main.rs
  DropsHandles,     \* the owner lets go of handles, as builder.rs
  ShutsHandles,     \* the owner calls shutdown of handles
  ShutsSequencer    \* the owner calls shutdown of the sequencer, as builder.rs

ASSUME TasksAssumption ==
  /\ FirstHandle \in Handles
  /\ {L1Configured, DropsSequencer, DropsHandles, ShutsHandles, ShutsSequencer} \subseteq BOOLEAN

\* In the order shutdown awaits them; a handle signals all but the first.
TaskOrder == <<"producer", "submitter", "poller", "processor">>
Tasks == {TaskOrder[i] : i \in 1 .. 4}

VARIABLES
  task,         \* Tasks -> "waiting" (in its select), "busy" or "stopped"
  mail,         \* Tasks -> messages in the shutdown channel
  sequencer,    \* the L2Sequencer: which task its shutdown awaits, if it was called
  handle        \* Handles -> which task its shutdown signals next, if it was called

taskVars == <<task, mail, sequencer, handle>>

Owner(states) == [state: states, at: 1 .. 5]

TasksTypeOK ==
  /\ task \in [Tasks -> {"waiting", "busy", "stopped"}]
  /\ mail \in [Tasks -> 0 .. 1]
  /\ sequencer \in Owner({"held", "awaiting", "closed", "dropped"})
  /\ handle \in [Handles -> Owner({"none", "held", "signalling", "gone"})]

\* After start.
TasksInit ==
  /\ task = [t \in Tasks |-> IF t = "poller" /\ ~L1Configured THEN "stopped" ELSE "waiting"]
  /\ mail = [t \in Tasks |-> 0]
  /\ sequencer = [state |-> "held", at |-> 1]
  /\ handle = [h \in Handles |-> [state |-> IF h = FirstHandle THEN "held" ELSE "none", at |-> 2]]

-----------------------------------------------------------------------------
(* The tasks *)

\* Mutant: the sequencer holds a sender of every channel, and sends on one.
HeldBySequencer(t) == sequencer.state # "dropped"

\* Somebody holds a sender of the task's channel.
HasSender(t) ==
  IF t = "producer" THEN sequencer.state # "dropped"
  ELSE \E h \in Handles : handle[h].state \in {"held", "signalling"}

\* The timer of a task fires, and its handler runs to its end.
Tick(t) ==
  /\ task[t] = "waiting"
  /\ task' = [task EXCEPT ![t] = "busy"]
  /\ UNCHANGED <<mail, sequencer, handle>>

Finish(t) ==
  /\ task[t] = "busy"
  /\ task' = [task EXCEPT ![t] = "waiting"]
  /\ UNCHANGED <<mail, sequencer, handle>>

\* The receive of the shutdown channel yields a message, or that there is none to come.
Stop(t) ==
  /\ task[t] = "waiting"
  /\ mail[t] = 1 \/ ~HasSender(t)
  /\ task' = [task EXCEPT ![t] = "stopped"]
  /\ mail' = [mail EXCEPT ![t] = 0]
  /\ UNCHANGED <<sequencer, handle>>

-----------------------------------------------------------------------------
(* Their owners *)

\* A send waits for room in the channel, and fails at once without a receiver.
MaySend(t) == task[t] = "stopped" \/ mail[t] = 0
Delivered(t) == [mail EXCEPT ![t] = IF task[t] = "stopped" THEN @ ELSE @ + 1]

\* L2Sequencer::shutdown signals the block producer, ...
ShutdownSequencer ==
  /\ ShutsSequencer
  /\ sequencer.state = "held"
  /\ MaySend("producer")
  /\ mail' = Delivered("producer")
  /\ sequencer' = [sequencer EXCEPT !.state = "awaiting"]
  /\ UNCHANGED <<task, handle>>

\* Mutant: the last handle is not awaited.
AwaitsTooFew == Len(TaskOrder) - 1

Awaited == Len(TaskOrder)

\* ... then awaits the tasks one after the other, the block producer first.
AwaitTask ==
  /\ sequencer.state = "awaiting"
  /\ task[TaskOrder[sequencer.at]] = "stopped"
  /\ sequencer' = [state |-> IF sequencer.at = Awaited THEN "closed" ELSE "awaiting",
                   at |-> sequencer.at + 1]
  /\ UNCHANGED <<task, mail, handle>>

DropSequencer ==
  /\ DropsSequencer
  /\ sequencer.state \in {"held", "closed"}
  /\ sequencer' = [sequencer EXCEPT !.state = "dropped"]
  /\ UNCHANGED <<task, mail, handle>>

CloneHandle(h, g) ==
  /\ handle[h].state = "held" /\ handle[g].state = "none"
  /\ handle' = [handle EXCEPT ![g].state = "held"]
  /\ UNCHANGED <<task, mail, sequencer>>

\* SequencerHandle::shutdown consumes the handle: it signals the submitter, the
\* poller and the processor and is gone.
ShutdownHandle(h) ==
  /\ ShutsHandles
  /\ handle[h].state = "held"
  /\ handle' = [handle EXCEPT ![h].state = "signalling"]
  /\ UNCHANGED <<task, mail, sequencer>>

Signal(h) ==
  LET t == TaskOrder[handle[h].at]
  IN
  /\ handle[h].state = "signalling"
  /\ MaySend(t)
  /\ mail' = Delivered(t)
  /\ handle' = [handle EXCEPT ![h] = [state |-> IF @.at = 4 THEN "gone" ELSE "signalling",
                                      at |-> @.at + 1]]
  /\ UNCHANGED <<task, sequencer>>

DropHandle(h) ==
  /\ DropsHandles
  /\ handle[h].state = "held"
  /\ handle' = [handle EXCEPT ![h].state = "gone"]
  /\ UNCHANGED <<task, mail, sequencer>>

Owners ==
  \/ ShutdownSequencer \/ AwaitTask \/ DropSequencer
  \/ \E h \in Handles : ShutdownHandle(h) \/ Signal(h) \/ DropHandle(h)
  \/ \E h, g \in Handles : CloneHandle(h, g)

\* The tasks and their owners by themselves, whatever the handlers do.
TasksStep == (\E t \in Tasks : Tick(t) \/ Finish(t) \/ Stop(t)) \/ Owners

TasksSpec == TasksInit /\ [][TasksStep]_taskVars

-----------------------------------------------------------------------------
(* Properties *)

\* A shutdown that has returned leaves no task behind that could still submit a
\* batch or credit a deposit.
ClosedMeansStopped ==
  sequencer.state = "closed" => \A t \in Tasks : task[t] = "stopped"
=============================================================================
