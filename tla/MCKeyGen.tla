------------------------------ MODULE MCKeyGen ------------------------------
EXTENDS KeyGen
=============================================================================
