SPECIFICATION CapSpec
CONSTANTS
  c1 = c1
  Caps = {c1}
  Nonces = {n1, n2}
  MaxUses = 1
  CapSecs = 1
  NoCap = NoCap
CHECK_DEADLOCK FALSE
INVARIANTS
  RedeemedAtMost
