SPECIFICATION Spec
CONSTANTS
    MaxAttempts = 2
    Drafts <- MCDrafts
    Blank <- MCBlank
    FeeBps = 1000
    Balances <- MCBalances
    MinPool <- MCMinPool
    MaxPool <- MCMaxPool
    RentExempt = 2
INVARIANTS
    TypeOK
    FormsAreBacked
    FeeLedgerSound
PROPERTIES
    FollowsProgram
    AttemptsEnd
CHECK_DEADLOCK FALSE
