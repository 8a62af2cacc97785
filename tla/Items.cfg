SPECIFICATION MCSpec
CONSTANTS
  a = a
  b = b
  x = x
  y = y
  o = o
  u = u
  ko = ko
  ko2 = ko2
  ku = ku
  ku2 = ku2
  kr = kr
  agent = agent
  op1 = op1
  op2 = op2
  None = None
  Ids = {a, b}
  Values = {x, y}
  Uids = {o, u}
  Founder = o
  Keys = {ko, ko2, ku, ku2, kr}
  Recovery = kr
  Agents = {agent}
  Weles = agent
  Ops = {op1}
  KeysOf <- MCKeysOf
  FirstKey = ko
  Explored = {"set", "import", "restore", "trash", "rename", "forget", "manage", "stage", "accept", "migrate", "retag", "reclaim", "add", "share", "revoke", "remove", "rotate", "rekey"}
  MaxRev = 3
  MaxItems = 2
  MaxClock = 1
SYMMETRY SymmetricItems
CHECK_DEADLOCK FALSE
INVARIANTS
  ItemsOrdered
  SealedExactly
PROPERTIES
  OwnerItemsAreTheOwners
  HistoryKept
