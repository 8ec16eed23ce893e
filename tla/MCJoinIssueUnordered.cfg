CONSTANTS
    Node = {n1, n2, n3, n4}
    Participant = {n1, n2}
    User = {u1, u2}
    NoUser = NoUser
    Level = 2
    InOrder = FALSE
SPECIFICATION FairSpec
CHECK_DEADLOCK FALSE
INVARIANTS
    IInv
    RegisteredEverywhere
PROPERTIES
    CompletesUnlessLost
