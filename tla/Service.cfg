SPECIFICATION MCSpec
CONSTANTS
  Clients = {c1, c2}
  Nobody = Nobody
  MaxInstalls = 2
  PREDECESSORS <- MCUnits
  SyncDaemon = "replica-sync"
  NoRecord = NoRecord
  MaxStarts = 3
CHECK_DEADLOCK FALSE
INVARIANTS
  WritesSerial
  TakeOverLosesNothing
PROPERTIES
  RequestsEnd
  UnitComesBack
