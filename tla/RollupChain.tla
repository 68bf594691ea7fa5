----------------------------- MODULE RollupChain -----------------------------
(***************************************************************************)
(* What batch posting promises to a reader of L1, whatever happens to the  *)
(* sequencer: batches are appended one at a time and never change, no      *)
(* batch appears twice, no withdrawal is carried by two batches, and state *)
(* roots are committed one by one, each after its batch was posted.        *)
(***************************************************************************)
EXTENDS Naturals

CONSTANTS MaxBatches, BatchHash, Withdrawals, Nothing

VARIABLES
  height,     \* number of posted batches
  posted,     \* index -> batch hash, or Nothing
  content,    \* index -> withdrawals the batch carries
  committed   \* number of committed state roots

chainVars == <<height, posted, content, committed>>

Positions == 0 .. MaxBatches - 1

Init ==
  /\ height = 0
  /\ posted = [i \in Positions |-> Nothing]
  /\ content = [i \in Positions |-> {}]
  /\ committed = 0

Post(hash, ws) ==
  /\ height < MaxBatches
  /\ \A i \in Positions : posted[i] # hash /\ content[i] \cap ws = {}
  /\ posted' = [posted EXCEPT ![height] = hash]
  /\ content' = [content EXCEPT ![height] = ws]
  /\ height' = height + 1
  /\ UNCHANGED committed

Commit ==
  /\ committed < height
  /\ committed' = committed + 1
  /\ UNCHANGED <<height, posted, content>>

Next ==
  \/ \E hash \in BatchHash, ws \in SUBSET Withdrawals : Post(hash, ws)
  \/ Commit

Spec == Init /\ [][Next]_chainVars
=============================================================================
