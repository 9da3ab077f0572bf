SPECIFICATION Spec
CONSTANTS
  Bps = 100
  Q64 = 8192
  U16 = 128
  MinProfit = 1
  MaxPriceImpact = 10
  MinVictimSlip = 1
  MaxPoolImpact = 10
  MaxVictimImpact = 5
  FrontrunFloor = 8
  FrontrunStep = 1
  FeeEstimate = 1
  InputFloor = 1
  InputCap = 120
  InputStep = 2
  FeePerHop = 1
  Nano = 10
  NoObl = NoObl
  OblKeys = {k1, k2}
  TradedPools <- MCTradedPools
  Victims <- MCVictims
  Sigmas <- MCSigmas
  Routes <- MCRoutes
  Accounts <- MCAccounts
INVARIANTS
  TypeOK
  FrontrunIsLargest
  FrontrunKeepsVictim
  ProfitIsReal
  NoVictimNoGain
  EndsWhereOutputStalls
  WithinKnownLiquidity
  DangerIsSeen
  RepayFollowsDebt
PROPERTY
  EvaluationEnds
