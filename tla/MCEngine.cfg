SPECIFICATION EngineSpec
CONSTANTS
  Sid <- MCSid
  Version <- MCVersion
  SidOf <- MCSidOf
  QuasiPermanent <- MCQuasiPermanent
  NoVersion = "none"
  Order <- MCOrder
  Weight <- MCWeight
  BacklogCap = 2
  SoftCap = 2
  NoOrder = "none"
  a1 = a1
  b1 = b1
  b2 = b2
  p1 = p1
  p2 = p2
  TakerId <- MCTakerId
  Ask = {a1}
  Mid = {p1, p2}
  PriceOf <- MCPriceOf
  Price = {1, 2, 3}
  MaxInput = 2
  Revs = {0, 1}
  ExUnitsSoftCap = 5
  MaxTakes = 3
  Budget <- MCBudget
  BaseBudget = 2
  Term = Term
  O2OAllowed = TRUE
  MaxNow = 2
  LowerBound <- MCOneDelayed
  Fees = {1, 2}
INVARIANTS
  IndexExact
  BacklogExact
  RollbackRestores
PROPERTIES
  ConfirmedPermanence
  ImplementsPool
  SuccessExact
  AttemptEnds
