SPECIFICATION Safety
CONSTANTS
  Kinds = {"sandwich"}
  Simulates = {TRUE, FALSE}
  SpamEndpoints = {"rpc1"}
  TipAccounts = {"tip1", "tip2"}
  Fees <- MCFees
  FeeCap = 2
  FeeInit = 5
  BlockhashLife = 1
  MaxSignals = 1
  MaxSlot = 2
INVARIANT
  SandwichAtomic
CHECK_DEADLOCK FALSE
