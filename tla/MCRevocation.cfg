CONSTANTS
    Level = 3
    Node = {n1, n2}
    Participant = {n1, n2}
    User = {1, 2}
    Wrong = {2}
    Taken = {1}
    Failing = {n1, 1}
    MaxTime = 3
SPECIFICATION FairSpec
CHECK_DEADLOCK FALSE
INVARIANTS
    TypeOK
    VerifyReady
    VerdictIsRight
    OpenedByAll
    OpenedIdentified
PROPERTIES
    OutcomesStay
    EndsUnlessStuck
