SPECIFICATION FairSpec
CONSTANTS
  p1 = p1
  p2 = p2
  Pods = {p1, p2}
  Nodes = {n1, n2}
  NoNode = NoNode
  NoPod = NoPod
  s1 = s1
  s2 = s2
  Planners = {s1, s2}
  NoPlanner = NoPlanner
  Deployments <- MCDeployments
  MaxEvents = 2
CHECK_DEADLOCK FALSE
INVARIANTS TypeOK NoPlanBeforeTrigger
PROPERTIES ReserveAgrees PodsAreScheduled
