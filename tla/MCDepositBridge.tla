--------------------------- MODULE MCDepositBridge ---------------------------
\* A window of two blocks, so that four L1 blocks take several polls.
EXTENDS DepositBridge, TLC
=============================================================================
