CONSTANTS
    Node = {n1, n2}
    Participant = {n1, n2}
    User = {u1, u2}
    Early = {u1}
    NoUser = NoUser
    Level = 3
    InOrder = TRUE
    Tag = {A, C}
    ProvedTag = {A}
    SignTag = A
    OpenTag = C
SPECIFICATION DeploymentSpec
SYMMETRY Symmetry
CHECK_DEADLOCK FALSE
INVARIANTS
    DeploymentInv    \* DeploymentTypeOK is a conjunct
    IdsIdentify
    KeyWellFormed
    PromptUsersFindKeys
    PromptUsersJoin
PROPERTIES
    UserMapStable
