------------------------------ MODULE MCMining ------------------------------
EXTENDS Mining
CONSTANTS t1, t2
=============================================================================
