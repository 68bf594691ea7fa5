--------------------------- MODULE MCMessageQueue ---------------------------
\* Threads of the sequencer (t1, t2) and one that executes the precompile (p1),
\* and two deposits that any of them may queue.
EXTENDS MessageQueue, TLC
=============================================================================
