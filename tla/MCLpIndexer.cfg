CONSTANTS
    p1 = p1
    a1 = a1
    a2 = a2
    f1 = f1
    Account = {a1, a2}
    Farm = {f1}
    PoolOfFarm <- MCPoolOfFarm
    EpochLen = 3
    EpochStart = 12
    Delay = 1
    Emission = 1000
    InitialLp = 2
    DepositLp = 4
    RedeemLp = 3
    MaxSlot = 26
    Lag = 1
    Scenarios <- MCScenarios
SPECIFICATION LpSpec
CHECK_DEADLOCK FALSE
INVARIANTS
    LogExact
    
    
PROPERTIES
    CatchesUp
