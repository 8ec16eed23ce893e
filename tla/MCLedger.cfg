CONSTANTS
    Name = {a, b}
    MaxLife = 2
    MaxBlock = 4
SPECIFICATION Spec
SYMMETRY Symmetry
CHECK_DEADLOCK FALSE
INVARIANTS
    IInv    \* its first conjunct is TypeOK
    HistoryIsPast
    ReadsAgree
    IdentityBehindSignature
