CONSTANTS
    Node = {n1, n2, n3}
    Tag = {A, C}
    ProvedTag = {A}
    ParticipantCount = 2
SPECIFICATION FairSpec
CHECK_DEADLOCK FALSE
INVARIANTS
    IInv    \* its first conjunct is TypeOK
    DealAfterCommit
    KeyPublishedWhenShared
    NothingMissingAtProof
PROPERTIES
    SharesAreFinal
    CompletesIfStarted
