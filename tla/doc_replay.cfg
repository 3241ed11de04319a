SPECIFICATION Spec
CONSTANTS
  Factory = Factory
  Vault = Vault
  BatchSize = 2
  MaxFaults = 1
  MaxTries = 1
  Mixes <- PauseBesideJob
PROPERTIES
  PausesPaidBack
CHECK_DEADLOCK FALSE
