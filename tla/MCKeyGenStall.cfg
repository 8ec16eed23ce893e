CONSTANTS
    Node = {n1, n2, n3}
    Tag = {A, C}
    ProvedTag = {A}
    ParticipantCount = 2
SPECIFICATION FairSpec
PROPERTIES
    KeygenCompletes
CHECK_DEADLOCK FALSE
