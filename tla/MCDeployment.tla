---------------------------- MODULE MCDeployment ----------------------------
EXTENDS Deployment, TLC

Symmetry == Permutations(Early) \cup Permutations(Node)
=============================================================================
