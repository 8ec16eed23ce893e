------------------------------ MODULE MCSetup ------------------------------
EXTENDS Setup
=============================================================================
