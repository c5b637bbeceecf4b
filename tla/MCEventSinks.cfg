SPECIFICATION SinksSpec
CONSTANTS
    Scenarios <- AllScenarios
    Collateral <- CollateralRef
    BlockSize = 2
INVARIANTS GraduationExact DurableExact ViewExact
CHECK_DEADLOCK FALSE
