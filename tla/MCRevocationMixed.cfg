CONSTANTS
    Level = 3
    Node = {n1, n2}
    Participant = {n1, n2}
    User = {1, 2}
    Wrong = {}
    Taken = {}
    Failing = {}
    MaxTime = 2
SPECIFICATION FairSpec
CHECK_DEADLOCK FALSE
PROPERTIES
    RoundsEnd
