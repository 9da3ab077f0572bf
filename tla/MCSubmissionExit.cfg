SPECIFICATION Safety
CONSTANTS
  Kinds = {"liq"}
  Simulates = {TRUE, FALSE}
  SpamEndpoints = {"rpc1"}
  TipAccounts = {"tip1", "tip2"}
  Fees <- MCFees
  FeeCap = 2
  FeeInit = 5
  BlockhashLife = 1
  MaxSignals = 1
  MaxSlot = 2
INVARIANT
  ExitLegIncluded
CHECK_DEADLOCK FALSE
