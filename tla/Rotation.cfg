SPECIFICATION RotationSpec
CHECK_DEADLOCK FALSE
SYMMETRY Commands
CONSTANTS
  Rotators = {r1, r2}
  Adapters <- Providers
  Hosts = {h1}
  Forges = {f1}
  MaxValue = 2
  MaxTime = 1
  Intervals = {1}
INVARIANTS
  NeverLockedOut
  SecretsAccounted
PROPERTIES
  DueUntilRotated
