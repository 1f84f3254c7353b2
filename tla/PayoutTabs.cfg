SPECIFICATION Spec
CONSTANTS
    w1 = w1
    w2 = w2
    w3 = w3
    creator = creator
    authority = authority
    tab1 = tab1
    tab2 = tab2
    Creator = creator
    Authority = authority
    Wallets <- MCTwoWallets
    Late <- MCSecondLate
    Tabs <- MCTwoTabs
    Currencies <- MCBoth
    RewardType = "lucky_draw"
    WantedWinners = 2
    Tier <- MCTier
    Pool = 5
    RentExempt = 1
    BatchSize = 1
    DistributeWhileOpen = TRUE
    MaxModerations = 0
    MaxCrashes = 1
PROPERTIES
    ImplementsLifecycle
CHECK_DEADLOCK FALSE
