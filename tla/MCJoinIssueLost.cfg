CONSTANTS
    Node = {n1, n2, n3, n4}
    Participant = {n1, n2, n3}
    User = {u1}
    NoUser = NoUser
    Level = 2
    InOrder = FALSE
SPECIFICATION FairSpec
CHECK_DEADLOCK FALSE
PROPERTIES
    JoinCompletes
