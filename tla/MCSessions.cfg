SPECIFICATION Spec
CONSTANTS
    a = a
    b = b
    None = None
    c1 = c1
    c2 = c2
    Wallets = {a, b}
    Signing = {a}
    Calls = {c1, c2}
    MaxTokens = 3
    MaxEnds = 1
SYMMETRY Symmetry
INVARIANTS
    TypeOK
    SessionSurvives
CHECK_DEADLOCK FALSE
