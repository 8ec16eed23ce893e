---------------------------- MODULE MCRevocation ----------------------------
EXTENDS Revocation
=============================================================================
