SPECIFICATION Spec
CONSTANTS
  p1 = p1
  p2 = p2
  A = A
  B = B
  C = C
  Pools = {p1, p2}
  Mints = {A, B, C}
  TokenA <- MCTokenA
  TokenB <- MCTokenB
  Prices <- MCPrices
  Collateral = {A}
  Clmm = {p2}
  NoVol = NoVol
  NoMsg = NoMsg
INVARIANTS
  TypeOK
  BreakerMeansAJump
  CapOnlyByRace
  NeverBlind
PROPERTY
  BreakerClears
