SPECIFICATION Spec
CONSTANTS
  sol = sol
  usdc = usdc
  bonk = bonk
  Mints <- MCMints
  Sol = sol
  PoolIds = {1, 2, 3}
  Weights <- MCWeights
  Inf = 99
  NoMint = NoMint
INVARIANTS
  TypeOK
  RouteIsArbitrage
  NeverGivesUp
  NothingMissed
CHECK_DEADLOCK FALSE
