SPECIFICATION Spec
CONSTANTS
  Word = 4096
  FeeDen = 20
  Untouchable = 2
  MaxLqCap = 100
  LegacyMul = 2
  MinN2t = 2
  MinT2t = 2
  MinAda = 2
  Emission = 12
  ADen = 8
  T2tFeeDen = 4
  Operator = 7
  MinCollateral = 2
  MinUtxo = 1
  MinSafe = 2
  TxFee = 1
  StrictFee = 1
  Threshold = 2
  DaoKeys <- MCDaoKeys
  Pools <- MCPools
  Amounts <- MCAmounts
  Menu <- MCMenu
  MaxTrades <- MCMaxTrades
  MaxOrders = 2
INVARIANTS PredictionExact ValueBacked SignedOnce AvailableHonest
PROPERTIES LpValueKept
CHECK_DEADLOCK FALSE
