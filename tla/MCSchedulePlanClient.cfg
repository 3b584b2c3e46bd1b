SPECIFICATION Spec
CONSTANTS
  Clients = {scheduler, planner}
  Pods = {p1, p2}
  Nodes = {n1, n2}
  ApiFaults = TRUE
  MaxRevision = 3
SYMMETRY Symmetry
CHECK_DEADLOCK FALSE
INVARIANTS TypeOK OneNodePerPod NoEmptyPlan AcceptedWriteIsCurrent
PROPERTIES SuccessIsEstablished StoreSpec
