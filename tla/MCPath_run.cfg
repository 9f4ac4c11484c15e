SPECIFICATION FairSpec
CONSTANTS
  Target = Target
  Local = Local
  None = None
  A = A
  B = B
  Routes <- MCRoutes
  Silent = {}
  MaxHops = 2
  Threshold = 2
  CandidatesCap = 2
  Slot = {s1}
  MaxChanges = 2
  MaxLost = 1
CHECK_DEADLOCK FALSE
INVARIANTS NoLocalIdentity
PROPERTIES HistoryExplainsPath PathFollowsRoute
