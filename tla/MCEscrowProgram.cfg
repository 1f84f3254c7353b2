SPECIFICATION Spec
CONSTANTS
    w1 = w1
    w2 = w2
    creator = creator
    authority = authority
    Wallets <- MCWallets
    Creator = creator
    Authority = authority
    MinPool <- MCMinPool
    MaxPool <- MCMaxPool
    RentExempt = 1
    Pools <- MCPools
    Capacities <- MCCapacity
    Fees <- MCFees
    Batches <- MCBatches
INVARIANTS
    TypeOK
    Solvency
    PaidAddsUp
    CapacityRespected
PROPERTIES
    FrozenAfterPayout
    SweptStaysEmpty
CHECK_DEADLOCK FALSE
