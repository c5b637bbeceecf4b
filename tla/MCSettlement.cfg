SPECIFICATION Spec
CONSTANTS
  Word = 4096
  FeeDen = 20
  Untouchable = 2
  MaxLqCap = 100
  LegacyMul = 2
  MinN2t = 2
  MinT2t = 2
  MinAda = 2
  Emission = 12
  ADen = 8
  T2tFeeDen = 4
  Operator = 7
  MinLovelace = 2
  MinCost = 1
  MinFee = 1
  InstantMinLov = 2
  ExecBudget = 4
  AdhocFee = 10
  AdhocDen = 100
  MaxPriceDenom = 1000
  MaxBias = 3
  MinSafeAda = 5
  AdditionalFee = 1
  MaxAttempts = 24
  FeeBase = 2
  FeeIo = 1
  FeeInput = 1
  FeeOutput = 1
  WideCoin = 24
  MaxTxs = 3
  Scenarios <- MCScenarios
INVARIANTS PriceRespected FeesExact CorrectionEnds
PROPERTIES ValueConserved MatchTrades
CHECK_DEADLOCK FALSE
