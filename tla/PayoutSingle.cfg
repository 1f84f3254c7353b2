SPECIFICATION FairSpec
CONSTANTS
    w1 = w1
    w2 = w2
    w3 = w3
    creator = creator
    authority = authority
    tab1 = tab1
    tab2 = tab2
    Creator = creator
    Authority = authority
    Wallets <- MCThreeWallets
    Late <- MCOneLate
    Tabs <- MCOneTab
    Currencies <- MCBoth
    RewardType = "weighted"
    WantedWinners = 2
    Tier <- MCTier
    Pool = 5
    RentExempt = 3
    BatchSize = 1
    DistributeWhileOpen = FALSE
    MaxModerations = 2
    MaxCrashes = 0
INVARIANTS
    TypeOK
    SharesAreFair
    PlanPaidAndRecorded
    OwnPlanConfirmed
PROPERTIES
    MarkedNeverPaidAgain
    PayoutCompletes
CHECK_DEADLOCK FALSE
