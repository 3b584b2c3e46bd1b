SPECIFICATION Spec
CONSTANTS
  Callers = {c1}
  Pods = {p1}
  Nodes = {n1, n2}
  NoNode = NoNode
  Free = Free
  Watch = Watch
  ApiFaults = FALSE
  MaxChanges = 2
  MaxRequests = 2
  MaxCrashes = 0
CHECK_DEADLOCK FALSE
PROPERTIES ReplanIsEligible
