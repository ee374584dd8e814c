---------------------------- MODULE MCSettlement ----------------------------
EXTENDS Settlement, TLC
=============================================================================
