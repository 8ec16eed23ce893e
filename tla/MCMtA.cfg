CONSTANTS
    Party = {n1, n2, n3}
    Session = {s1, s2}
    Ordered = {s1}
SPECIFICATION MCSpec
CHECK_DEADLOCK FALSE
INVARIANTS
    IInv    \* its first conjunct is TypeOK
    SharesComplete
    AnswersFindParams
    TermsPaired
    OneFinalEach
PROPERTIES
    ImplementsProduct
    ExchangeEnds
