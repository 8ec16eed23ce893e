CONSTANTS
    Level = 5
SPECIFICATION Spec
CHECK_DEADLOCK FALSE
INVARIANTS
    TypeOK
    SignsUntilExpiry
    CoverExact
