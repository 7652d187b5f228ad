------------------------------ MODULE MCLogRing ------------------------------
EXTENDS LogRing
=============================================================================
