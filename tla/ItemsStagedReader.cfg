SPECIFICATION Spec
CONSTANTS
  a = a
  b = b
  x = x
  y = y
  o = o
  u = u
  ko = ko
  ko2 = ko2
  ku = ku
  ku2 = ku2
  kr = kr
  agent = agent
  op1 = op1
  op2 = op2
  None = None
  Ids = {a}
  Values = {x, y}
  Uids = {o, u}
  Founder = o
  Keys = {ko, ko2, ku, ku2, kr}
  Recovery = kr
  Agents = {agent}
  Weles = agent
  Ops = {op1}
  KeysOf <- MCOneKey
  FirstKey = ko
  Explored = {"manage", "stage", "add", "remove"}
  MaxRev = 2
  MaxItems = 2
  MaxClock = 0
CHECK_DEADLOCK FALSE
INVARIANTS
  GoneIsShutOut
