SPECIFICATION Spec
CONSTANTS
  Callers = {c1, c2}
  Pods = {p1}
  Nodes = {n1, n2}
  NoNode = NoNode
  Free = Free
  Watch = Watch
  ApiFaults = TRUE
  MaxChanges = 3
  MaxRequests = 2
  MaxCrashes = 1
SYMMETRY Symmetry
CHECK_DEADLOCK FALSE
INVARIANTS TypeOK MutexHasHolder
PROPERTIES PlannedPodStays AnswerIsRemembered
