SPECIFICATION SpecMC
CONSTANTS
  u1 = u1
  u2 = u2
  Vault = Vault
  Operator = Operator
  Users <- MCUsers
  InitConfig <- MCConfig
  InitFunds <- MCFunds
  VirtualOffset = 1
  VestingPrecision = 100
  ShareSizes = {4, 7}
  NegativeSizes = {4}
  UserFunds = 20
  OperatorFunds = 15
  AssetAmounts = {0, 10}
  ShareAmounts <- MCShareAmounts
  YieldAmounts = {3, 15}
  Periods = {}
  FeeChoices = {0, 1000}
  MaxTime = 3
  MaxEpochs = 2
  MaxRequests = 2
  FundingTarget = 20
  FundingDeadline = 1
  MaturityDate = 3
  FeeBps = 1000
  VestingPeriod = 0
  LockUpPeriod = 0
  Scenes = {"price", "funding", "signed"}
INVARIANTS
  ShareConservation
  EscrowMatchesQueue
  SharesBacked
  LockedValueWithinPrice
  RefundsCovered
PROPERTIES
  SharePriceNeverFalls
  ClosedIsFinal
SYMMETRY Symmetry
CHECK_DEADLOCK FALSE
