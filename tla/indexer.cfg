SPECIFICATION Spec
CONSTANTS
  Factory = Factory
  Vault = Vault
  BatchSize = 2
  MaxFaults = 1
  MaxTries = 1
  Mixes <- PassingMixes
INVARIANTS
  FactoryComplete
  VaultFollowed
  DrainedMeansQuiet
PROPERTIES
  PausesPaidBack
  StartsCatchUp
  ResumedCatchesUp
  LogSpec
CHECK_DEADLOCK FALSE
