SPECIFICATION MCSpec
CONSTANTS
  w1 = w1
  w2 = w2
  r1 = r1
  None = None
  Writers = {w1, w2}
  Readers = {r1}
  MaxLines = 3
  MaxDay = 1
  c1 = c1
  Caps = {c1}
  Nonces = {n1, n2}
  MaxUses = 2
  CapSecs = 1
  NoCap = NoCap
SYMMETRY JournalsAlike
CHECK_DEADLOCK FALSE
INVARIANTS
  JournalSound
  ReadersSeeAll
  CapSafe
PROPERTIES
  LogSpec
  AdmittedByRight
