SPECIFICATION Spec
CONSTANTS
  Wallets = {w1, w2}
  NoProfile = NoProfile
  DefaultPool = DefaultPool
  MaxProfiles = 1
  MinObs = 3
  SmThreshold = 65
  Units <- MCUnits
  MaxTx = 4
INVARIANTS
  TypeOK
  NobodyIsSmart
PROPERTY
  ActiveRemembered
