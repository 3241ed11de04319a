SPECIFICATION Spec
CONSTANTS
  Factory = Factory
  Vault = Vault
  BatchSize = 2
  MaxFaults = 1
  MaxTries = 1
  Mixes <- Undisturbed
INVARIANTS
  NothingMissed
CHECK_DEADLOCK FALSE
