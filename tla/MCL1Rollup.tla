----------------------------- MODULE MCL1Rollup -----------------------------
\* Small instance of the rollup contracts with the bridge: two batches, two
\* accounts that may hand the sequencer role to each other, two messages that
\* differ in their nonce only.
EXTENDS L1Bridge
=============================================================================
