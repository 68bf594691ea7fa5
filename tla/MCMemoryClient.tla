---------------------------- MODULE MCMemoryClient ----------------------------
\* Activities are named by agent and time; a and b are of one agent and one
\* millisecond.
EXTENDS MemoryClient

CONSTANTS a, b, c
MCAgent == [x \in Activities |-> IF x = c THEN "g2" ELSE "g1"]
MCAt == [x \in Activities |-> IF x = c THEN 2 ELSE 1]
MCKind == [x \in Activities |-> "transaction"]
=============================================================================
