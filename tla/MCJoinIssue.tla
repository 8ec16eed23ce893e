---------------------------- MODULE MCJoinIssue ----------------------------
EXTENDS JoinIssue
=============================================================================
