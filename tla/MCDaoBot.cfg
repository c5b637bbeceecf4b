SPECIFICATION Spec
CONSTANTS
    EpochLen = 3
    Cooldown = 2
    Lifespan = 10
    MaxFeed = 2
    Orders <- MCOrders
    Farms <- MCFarms
    Genesis <- MCGenesis
    Budgets <- MCBudgets
INVARIANTS
    DaoNoPanic
    ViewExact
    NothingUnfinished
PROPERTY RevertExact
CHECK_DEADLOCK FALSE
