SPECIFICATION MCSpec
CONSTANTS
  c1 = c1
  i = i
  j = j
  b1 = b1
  w1 = w1
  p = p
  n1 = n1
  n2 = n2
  r1 = r1
  r2 = r2
  o1 = o1
  o2 = o2
  None = None
  Consumers = {c1}
  Coordinates = {i, j}
  Bearers = {b1}
  WorkloadKeys = {w1}
  GrantOps = {"issue", "register", "ensure", "narrow", "keep", "retarget", "revoke"}
  MaxClock = 1
  Requests = {r1, r2}
  Workloads = {p}
  Nonces = {n1, n2}
  Signed <- OneConsumer
  MaxTokens = 2
  ReqIds = {q1}
  People = {o1, o2}
  Clerks = {k1}
  Watcher = k2
  WatchedBy = o1
  Questions = {"a", "b"}
  FormOf <- MCFormOf
  NoReq = NoReq
  FirstRoles <- MCRoles
CHECK_DEADLOCK FALSE
INVARIANTS
  AcquireApart
  OneValuePerLoan
  GrantsAreDecisions
PROPERTIES
  WatcherAsksAll
