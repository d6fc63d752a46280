------------------------------ MODULE MCMsdBot ------------------------------
\* Instances of MsdBot for TLC; the constants are given in the .cfg files.
EXTENDS MsdBot
=============================================================================
