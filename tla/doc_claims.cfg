SPECIFICATION Spec
CONSTANTS
  u1 = u1
  u2 = u2
  Users <- MCUsers
  Operator = Operator
  Vault = Vault
  Factory = Factory
  Mixes <- AllMixes
  MaxPasses = 1
  Deposits = {1}
  YieldAmount = 2
  Undeclared = {}
  LargeTransfer = 1
  Fees = 10000
  Scale = 100
  YearLength = 3
SYMMETRY UserSymmetry
INVARIANTS
  ClaimCountedOnce
CHECK_DEADLOCK FALSE
