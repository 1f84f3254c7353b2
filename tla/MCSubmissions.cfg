SPECIFICATION Spec
CONSTANTS
    r1 = r1
    r2 = r2
    r3 = r3
    w1 = w1
    w2 = w2
    creator = creator
    Requests <- MCRequests
    Wallets <- MCWallets
    Creator = creator
    MaxResponses = 2
    MaxFailures = 1
INVARIANTS
    TypeOK
    CapacityRespected
    LeakBounded
    OneResponsePerWallet
    AnswersAreTrue
PROPERTIES
    FrozenOnceClosed
    EverySubmissionAnswered
CHECK_DEADLOCK FALSE
