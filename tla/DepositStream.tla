---------------------------- MODULE DepositStream ----------------------------
(***************************************************************************)
(* What L2 gets to see of the deposits on L1: a process of the sequencer   *)
(* credits them one after the other in the order of L1, each once, none    *)
(* left out between its first one and its last one.  Only a restart moves  *)
(* the place, back or ahead.                                               *)
(***************************************************************************)
EXTENDS Naturals, Sequences, SequencesExt

CONSTANT Deposits

VARIABLES
  log,            \* the deposits on L1, oldest first
  credited,       \* what was credited on L2, oldest first
  next            \* place in the log of the next one, 0 as long as any will do

streamVars == <<log, credited, next>>

Init ==
  /\ log = <<>>
  /\ credited = <<>>
  /\ next = 0

Grow ==
  /\ log' \in Seq(Deposits)
  /\ IsPrefix(log, log')
  /\ UNCHANGED <<credited, next>>

Credit(k) ==
  /\ next \in {0, k}
  /\ credited' = Append(credited, log[k])
  /\ next' = k + 1
  /\ UNCHANGED log

Restart ==
  /\ next' = 0
  /\ UNCHANGED <<log, credited>>

Next ==
  \/ Grow
  \/ \E k \in 1 .. Len(log) : Credit(k)
  \/ Restart

Spec == Init /\ [][Next]_streamVars
=============================================================================
