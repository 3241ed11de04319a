SPECIFICATION SpecMC
CONSTANTS
  u1 = u1
  u2 = u2
  Vault = Vault
  Operator = Operator
  Users <- MCUsers
  InitConfig <- MCConfig
  InitFunds <- MCFunds
  VirtualOffset = 1
  VestingPrecision = 100
  ShareSizes = {1}
  NegativeSizes = {}
  UserFunds = 2
  OperatorFunds = 10
  AssetAmounts = {2}
  ShareAmounts <- MCShareAmounts
  YieldAmounts = {1, 3, 5}
  Periods = {0, 2}
  FeeChoices = {1000}
  MaxTime = 4
  MaxEpochs = 2
  MaxRequests = 1
  FundingTarget = 0
  FundingDeadline = 0
  MaturityDate = 1
  FeeBps = 0
  VestingPeriod = 0
  LockUpPeriod = 0
  Scenes = {"reset"}
INVARIANTS
  CreditWithinEntitlement
SYMMETRY Symmetry
CHECK_DEADLOCK FALSE
