CONSTANTS
    Node = {n1, n2, n3}
    MaxLife = 2
SPECIFICATION FairSpec
CHECK_DEADLOCK FALSE
INVARIANTS
    IInv    \* its first conjunct is TypeOK
    IdsAgree
    KeygenStartsReady
PROPERTIES
    SetupEnds
