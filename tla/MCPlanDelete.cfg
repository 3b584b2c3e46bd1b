SPECIFICATION Spec
CONSTANTS
  Clients = {scheduler, planner}
  Pods = {p1, p2}
  Nodes = {n1, n2}
  ApiFaults = FALSE
  MaxRevision = 3
CHECK_DEADLOCK FALSE
PROPERTIES DeleteKeepsOthers
