SPECIFICATION FairSpec
CONSTANTS
  Callers = {c1, c2}
  Pods = {p1}
  Nodes = {n1}
  NoNode = NoNode
  Free = Free
  Watch = Watch
  ApiFaults = FALSE
  MaxChanges = 3
  MaxRequests = 2
  MaxCrashes = 0
CHECK_DEADLOCK FALSE
PROPERTIES RequestsEnd RetriedRemovalHappens
