SPECIFICATION Spec
CONSTANTS
  p1 = p1
  p2 = p2
  PodList <- MCPodList
  Templates <- MCTemplates
  n1 = n1
  n2 = n2
  n3 = n3
  n4 = n4
  n5 = n5
  n6 = n6
  n7 = n7
  Nodes = {n1, n2, n3, n4, n5, n6, n7}
  NodeLists <- MCNodeLists
  Orders <- MCOrders
  NodeOf <- MCNodeOf
  Listed <- MCListed
  Workers = {w1, w2}
  Placements <- MCPlacements
  Offers <- MCOffers
  NoNode = NoNode
  NoPod = NoPod
  Free = Free
  ApiFaults = TRUE
CHECK_DEADLOCK FALSE
INVARIANTS TypeOK FiltersAreComplete
PROPERTIES PlannedPodIsApart PlannedPodFits ImplementsPlanner PlanIsBuilt
