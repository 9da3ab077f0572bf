SPECIFICATION Spec
CONSTANTS
  Kinds <- MCKinds
  Simulates = {TRUE, FALSE}
  SpamEndpoints = {"rpc1"}
  TipAccounts = {"tip1", "tip2"}
  Fees <- MCFees
  FeeCap = 2
  FeeInit = 5
  BlockhashLife = 1
  MaxSignals = 2
  MaxSlot = 2
INVARIANTS
  TypeOK
  AtMostOnce
  TipBuysTheBundle
  SentIsVetted
PROPERTY
  ExecuteReturns
CHECK_DEADLOCK FALSE
