SPECIFICATION Spec
CONSTANTS
  p1 = p1
  p2 = p2
  Positions <- TwoPositions
  Ticks <- FourTicks
  Ranges <- ThreeRanges
  InitPrices <- Around
  Statuses <- NoneOrTwo
  ArraySize = 2
  Liquidities = {0, 2}
  Uppers = {FALSE}
  Fees = {0, 3}
  Emissions = {3}
  RewardFund = 2
  Q = 4
  Modulus = 1024
  MoreArrays = 5
  MaxTurns = 2
  MaxSteps = 5
SYMMETRY Position
CHECK_DEADLOCK FALSE
INVARIANTS
  TypeOK
  LiquidityIsSum
  NextTickIsNearest
  GrowthIsExact
  DuesCovered
  QuoteSeesPositions
