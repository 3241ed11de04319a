SPECIFICATION Spec
CONSTANTS
  Hooks = {1, 2}
  Threshold = 2
  MaxAttempts = 3
  RetryLimit = 1
  Window = 2
  Mixes <- PassingMixes
INVARIANTS
  NothingLost
  CircuitHolds
  RetiredSecretsHonoured
PROPERTIES
  DeliveriesEnd
CHECK_DEADLOCK FALSE
