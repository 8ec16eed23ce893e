CONSTANTS
    Party = {n1, n2, n3}
    Session = {s1}
    Ordered = {}
SPECIFICATION Spec
CHECK_DEADLOCK FALSE
INVARIANTS
    SharesCompleteAlways
