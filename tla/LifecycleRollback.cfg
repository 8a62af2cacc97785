SPECIFICATION MCSpec
CONSTANTS
  p1 = p1
  p2 = p2
  Free = Free
  Gone = Gone
  None = None
  Procs = {p1}
  Ops = {"rotate"}
  Identity = TRUE
  MaxRequests = 1
  MaxRev = 4
CHECK_DEADLOCK FALSE
PROPERTY
  CandidateSurvives
