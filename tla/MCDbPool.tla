------------------------------- MODULE MCDbPool -------------------------------
EXTENDS DbPool
==============================================================================
