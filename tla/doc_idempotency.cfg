SPECIFICATION Spec
CONSTANTS
  MaxRequests = 4
  ApiKeys = {1}
  Ttl = 2
  Fresh = 1
  StaleTtl = 1
  Lockout = 5
  LockoutTtl = 2
  RevokedTtl = 1
  SessionTtl = 1
  Purge = 1
  WindowLength = 1
  Inactivity = 1
  Mixes <- Repeated
INVARIANTS
  RepeatedKeyRunsOnce
CHECK_DEADLOCK FALSE
