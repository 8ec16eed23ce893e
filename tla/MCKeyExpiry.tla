---------------------------- MODULE MCKeyExpiry ----------------------------
EXTENDS KeyExpiry
=============================================================================
