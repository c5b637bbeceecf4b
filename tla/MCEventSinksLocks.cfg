SPECIFICATION SinksFair
CONSTANTS
    Scenarios <- TwoDeposits
    Collateral <- CollateralRef
    BlockSize = 2
PROPERTIES EventsHandled
CHECK_DEADLOCK FALSE
