-------------------------- MODULE MCBatchSubmitter --------------------------
EXTENDS BatchSubmitter, TLC

Symmetry == Permutations(Roots) \cup Permutations(Withdrawals)
=============================================================================
