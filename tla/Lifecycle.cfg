SPECIFICATION MCSpec
CONSTANTS
  p1 = p1
  p2 = p2
  Free = Free
  Gone = Gone
  None = None
  Procs = {p1, p2}
  Ops = {"acquire", "adopt", "rotate", "verify", "remove"}
  Identity = TRUE
  MaxRequests = 2
  MaxRev = 3
CHECK_DEADLOCK FALSE
SYMMETRY SymmetricProcs
PROPERTIES
  ActivatesCompleted
  AnsweredCandidateSurvives
