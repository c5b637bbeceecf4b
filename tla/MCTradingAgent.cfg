SPECIFICATION Spec
CONSTANTS
  o1 = o1
  p1 = p1
  d1 = d1
  f1 = f1
  f2 = f2
  f3 = f3
  NoVersion = NoVersion
  NoOrder = NoOrder
  NoFunding = NoFunding
  Sid <- MCSid
  Version <- MCVersion
  SidOf <- MCSidOf
  QuasiPermanent <- MCQuasiPermanent
  FeeOf <- MCFeeOf
  LowerBound <- MCLowerBound
  Order = {d1}
  Weight <- MCWeight
  PoolRef <- MCPoolRef
  BacklogCap = 2
  SoftCap = 2
  SkipCap = 4
  Funding = {f1, f2, f3}
  Scenarios <- MCScenarios
INVARIANTS
  BookAgrees
  NoSelfConflict
  FundingExact
  NoOrderForgotten
  ExecutedOnce
CHECK_DEADLOCK FALSE
