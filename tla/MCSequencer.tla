---------------------------- MODULE MCSequencer ----------------------------
\* Transactions named by their gas, against a limit of 3 in words of 8: 4 does
\* not fit a block.
EXTENDS Sequencer

MCGas == [tx \in Txs |-> tx]
=============================================================================
