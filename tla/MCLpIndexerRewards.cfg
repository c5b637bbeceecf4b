CONSTANTS
    p1 = p1
    a1 = a1
    a2 = a2
    f1 = f1
    Account = {a1, a2}
    Farm = {f1}
    PoolOfFarm <- MCPoolOfFarm
    EpochLen = 8
    EpochStart = 12
    Delay = 1
    Emission = 1000
    InitialLp = 1
    DepositLp = 20
    RedeemLp = 3
    MaxSlot = 22
    Lag = 1
    Scenarios <- MCRewards
INIT LpInit
NEXT LpNext
INVARIANTS
    RewardsWithinGauge
CHECK_DEADLOCK FALSE
