-------------------------- MODULE PodSetPlannerProofs --------------------------
(***************************************************************************)
(* Proofs about PodSetPlanner, for any requests, pods and nodes, and any   *)
(* number of changes and restarts.                                         *)
(***************************************************************************)
EXTENDS PodSetPlanner, TLAPS

Planning(c) == step[c] \in {"plan", "score"}

\* The nodes given so far to pods that were listed without a host are remembered.
Remembered ==
  \A c \in Callers, p \in Pods :
    Planning(c) /\ assignmentMap[c][p] # NoNode /\ podList[c][p].node = NoNode
      => podToNodeMap[p] = assignmentMap[c][p]

\* The pod a request is finding a node for has none, unless it has a host.
CurrentIsUnplanned ==
  \A c \in Callers :
    step[c] = "score" /\ podList[c][current[c]].node = NoNode
      => podToNodeMap[current[c]] = NoNode

IndInv == TypeOK /\ MutexHasHolder /\ Remembered /\ CurrentIsUnplanned

-----------------------------------------------------------------------------

\* The constants that steps assign have their types.
LEMMA TypeFacts ==
  /\ AnyPod \in Pods
  /\ \A u \in Nat : AbsentPod(u) \in PodRecords
  /\ PendingPod \in PodRecords
  /\ NoNodes \in [Pods -> MaybeNode]
  /\ NoNode \in MaybeNode
  /\ \A c \in Callers : c # Free /\ c # Watch
  /\ Free # Watch
BY PlannerAssumption DEF AnyPod, AbsentPod, PendingPod, PodRecords, NoNodes, MaybeNode

\* A planner that starts has planned nothing.
LEMMA InitInv == Init => IndInv
<1> SUFFICES ASSUME Init PROVE IndInv
  OBVIOUS
<1> USE DEF Init, NewPlanner, NoCalls
<1>1. TypeOK
  <2>1. pods \in [Pods -> PodRecords]
    BY TypeFacts
  <2>2. taints \in [Nodes -> TaintSets]
    BY DEF TaintSets
  <2> QED BY <2>1, <2>2, TypeFacts DEF TypeOK
<1>2. MutexHasHolder /\ Remembered /\ CurrentIsUnplanned
  BY TypeFacts DEF MutexHasHolder, Planning, Remembered, CurrentIsUnplanned
<1> QED BY <1>1, <1>2 DEF IndInv

\* A step that changes neither the calls nor the planner's memory and mutex.
LEMMA OutsideInv ==
  ASSUME IndInv, TypeOK', UNCHANGED <<podToNodeMap, mutex, removing, callVars>>
  PROVE  IndInv'
BY DEF IndInv, callVars, MutexHasHolder, Planning, Remembered, CurrentIsUnplanned

\* Pods and nodes change.
LEMMA ClusterInv ==
  ASSUME IndInv, Cluster
  PROVE  IndInv'
<1> USE DEF IndInv
<1>1. ASSUME NEW p \in Pods, NEW phase \in {"Absent", "Pending", "Running", "Failed"},
             NEW deleting \in BOOLEAN, NEW node \in MaybeNode, NEW uid \in Nat,
             ChangePod(p, phase, deleting, node, uid)
      PROVE  IndInv'
  <2> DEFINE pod == [phase |-> phase, deleting |-> deleting, node |-> node, uid |-> uid]
  <2>1. pod \in PodRecords
    BY DEF PodRecords
  <2>2. pods' = [pods EXCEPT ![p] = pod] /\ changes' = changes + 1
    BY <1>1 DEF ChangePod
  <2> HIDE DEF pod
  <2>3. TypeOK'
    BY <1>1, <2>1, <2>2 DEF TypeOK, ChangePod, plannerVars, callVars
  <2> QED BY <1>1, <2>3, OutsideInv DEF ChangePod, plannerVars
<1>2. ASSUME NEW p \in Pods
      PROVE  /\ pods[p].phase \in {"Absent", "Pending", "Running", "Failed"}
             /\ pods[p].deleting \in BOOLEAN /\ pods[p].node \in MaybeNode
             /\ pods[p].uid \in Nat /\ pods[p].uid + 1 \in Nat
  BY DEF TypeOK, PodRecords
<1>3. ASSUME NEW p \in Pods, CreatePod(p) \/ RunPod(p) \/ FailPod(p) \/ PodEnds(p)
      PROVE  IndInv'
  BY <1>1, <1>2, <1>3, TypeFacts DEF CreatePod, RunPod, FailPod, PodEnds
<1>4. ASSUME NEW p \in Pods, DeletePod(p) PROVE IndInv'
  BY <1>1, <1>2, <1>4, TypeFacts DEF DeletePod
<1>5. ASSUME NEW p \in Pods, NEW n \in Nodes, BindPod(p, n) PROVE IndInv'
  BY <1>1, <1>2, <1>5 DEF BindPod, MaybeNode
<1>6. ASSUME NEW n \in Nodes, NEW effects \in TaintSets, Taint(n, effects) PROVE IndInv'
  <2>1. TypeOK'
    BY <1>6 DEF TypeOK, Taint, plannerVars, callVars
  <2> QED BY <1>6, <2>1, OutsideInv DEF Taint, plannerVars
<1> QED BY <1>3, <1>4, <1>5, <1>6 DEF Cluster

\* The watch: a pod is forgotten only while no request is planning.
LEMMA WatchInv ==
  ASSUME IndInv, NEW p \in Pods, WatchIgnores(p) \/ HandlePodUpdate(p)
  PROVE  IndInv'
<1> USE DEF IndInv
<1>1. CASE WatchIgnores(p)
  <2>1. TypeOK'
    BY <1>1 DEF TypeOK, WatchIgnores, callVars, countVars
  <2> QED BY <1>1, <2>1, OutsideInv DEF WatchIgnores
<1>2. CASE HandlePodUpdate(p)
  <2>1. /\ mutex = Free /\ removing = {} /\ UNCHANGED <<pods, taints, plan, updateQueue, callVars, countVars>>
        /\ seen' = [seen EXCEPT ![p] = pods[p]]
    BY <1>2 DEF HandlePodUpdate, HandlerMayRun
  <2>2. podToNodeMap' \in [Pods -> MaybeNode]
    BY <1>2, TypeFacts DEF HandlePodUpdate, TypeOK
  <2>3. \/ mutex' = Free /\ removing' = {}
        \/ mutex' = Watch /\ removing' = {[pod |-> p, uid |-> pods[p].uid]}
    BY <1>2, <2>1 DEF HandlePodUpdate
  <2>4. pods[p].uid \in Nat
    BY DEF TypeOK, PodRecords
  <2>5. TypeOK'
    <3>1. [pod |-> p, uid |-> pods[p].uid] \in Removals
      BY <2>4 DEF Removals
    <3>2. removing' \in SUBSET Removals /\ mutex' \in Callers \cup {Free, Watch}
      BY <2>3, <3>1
    <3>3. seen' \in [Pods -> PodRecords]
      BY <2>1 DEF TypeOK
    <3> QED BY <2>1, <2>2, <3>2, <3>3 DEF TypeOK, callVars, countVars
  <2>6. \A c \in Callers : ~Planning(c)
    BY <2>1, TypeFacts DEF MutexHasHolder, Planning
  <2>7. \A c \in Callers : ~Planning(c)'
    BY <2>1, <2>6 DEF callVars, Planning
  <2>8. MutexHasHolder'
    BY <2>3, <2>7, TypeFacts DEF MutexHasHolder, Planning
  <2>9. Remembered' /\ CurrentIsUnplanned'
    BY <2>7 DEF Remembered, CurrentIsUnplanned, Planning
  <2> QED BY <2>5, <2>8, <2>9
<1> QED BY <1>1, <1>2

\* A removal from the SchedulePlan, by the watch handler or by the retry worker.
LEMMA RemovalInv ==
  ASSUME IndInv, NEW r, NEW res \in Results,
         \/ r \in removing /\ RemovePodFromPlanner(r, res)
         \/ r \in updateQueue /\ ProcessUpdate(r, res)
  PROVE  IndInv'
<1> USE DEF IndInv
<1>0. ASSUME DeleteFromPlan(r.pod, res) PROVE plan' \in [Pods -> MaybeNode]
  BY <1>0, TypeFacts DEF DeleteFromPlan, TypeOK
<1>1. CASE r \in removing /\ RemovePodFromPlanner(r, res)
  <2>1. TypeOK'
    BY <1>0, <1>1 DEF RemovePodFromPlanner, TypeOK, callVars, countVars
  <2>2. mutex = Watch /\ mutex' = Free /\ removing' = {} /\ UNCHANGED <<podToNodeMap, callVars>>
    BY <1>1 DEF MutexHasHolder, Planning, RemovePodFromPlanner
  <2>3. \A c \in Callers : ~Planning(c)'
    BY <2>2, TypeFacts DEF MutexHasHolder, Planning, callVars
  <2>4. MutexHasHolder'
    BY <2>2, <2>3, TypeFacts DEF MutexHasHolder, Planning
  <2>5. Remembered' /\ CurrentIsUnplanned'
    BY <2>3 DEF Remembered, CurrentIsUnplanned, Planning
  <2> QED BY <2>1, <2>4, <2>5
<1>2. CASE r \in updateQueue /\ ProcessUpdate(r, res)
  <2>1. TypeOK'
    BY <1>0, <1>2 DEF ProcessUpdate, TypeOK, callVars, countVars
  <2> QED BY <1>2, <2>1, OutsideInv DEF ProcessUpdate
<1> QED BY <1>1, <1>2

\* A call that is over, or has not taken the mutex yet, has nothing to show.
LEMMA NotPlanningInv ==
  ASSUME IndInv, TypeOK', NEW c \in Callers, ~Planning(c), ~Planning(c)',
         UNCHANGED <<podToNodeMap, mutex, removing>>,
         \A d \in Callers : d # c =>
           /\ step'[d] = step[d] /\ podList'[d] = podList[d]
           /\ current'[d] = current[d] /\ assignmentMap'[d] = assignmentMap[d]
  PROVE  IndInv'
<1> USE DEF IndInv
<1>1. \A d \in Callers : Planning(d)' <=> Planning(d)
  BY DEF Planning
<1>2. MutexHasHolder'
  BY <1>1 DEF MutexHasHolder, Planning
<1>3. \A d \in Callers : Planning(d)' => d # c
  OBVIOUS
<1>4. Remembered'
  BY <1>1, <1>3 DEF Remembered
<1>5. CurrentIsUnplanned'
  BY <1>1, <1>3 DEF CurrentIsUnplanned, Planning
<1> QED BY <1>2, <1>4, <1>5

\* A request begins, lists pods and nodes, and ends.
LEMMA OutsideMutexInv ==
  ASSUME IndInv, NEW c \in Callers,
         \/ \E p \in Pods, eligible \in SUBSET Nodes \ {{}} : Request(c, p, eligible)
         \/ ListPods(c) \/ ListPodsFails(c) \/ ReadNodes(c)
         \/ SchedulerUpdatesPlan(c) \/ SchedulerGivesUp(c)
  PROVE  IndInv'
<1> USE DEF IndInv, plannerVars, countVars
<1>1. ASSUME EndCall(c), step[c] \in {"list", "answered"}, plan' \in [Pods -> MaybeNode],
             UNCHANGED <<pods, taints, plannerVars, countVars>>
      PROVE  IndInv'
  <2>1. TypeOK'
    <3>1. [p \in Pods |-> AbsentPod(0)] \in [Pods -> PodRecords]
      BY TypeFacts
    <3> QED BY <1>1, <3>1, TypeFacts DEF EndCall, TypeOK
  <2>2. ~Planning(c) /\ ~Planning(c)'
    BY <1>1 DEF EndCall, Planning, TypeOK
  <2> QED BY <1>1, <2>1, <2>2, NotPlanningInv DEF EndCall, TypeOK
<1>2. ASSUME NEW p \in Pods, NEW eligible \in SUBSET Nodes \ {{}}, Request(c, p, eligible)
      PROVE  IndInv'
  <2>1. TypeOK'
    BY <1>2 DEF Request, TypeOK
  <2>2. ~Planning(c) /\ ~Planning(c)'
    BY <1>2 DEF Request, Planning, TypeOK
  <2> QED BY <1>2, <2>1, <2>2, NotPlanningInv DEF Request, TypeOK
<1>3. CASE ListPods(c)
  <2>1. TypeOK'
    BY <1>3 DEF ListPods, TypeOK
  <2>2. ~Planning(c) /\ ~Planning(c)'
    BY <1>3 DEF ListPods, Planning, TypeOK
  <2> QED BY <1>3, <2>1, <2>2, NotPlanningInv DEF ListPods, TypeOK
<1>4. CASE ListPodsFails(c)
  BY <1>1, <1>4 DEF ListPodsFails, TypeOK
<1>5. CASE ReadNodes(c)
  <2>0. GetEligibleNodes \in SUBSET Nodes
    BY DEF GetEligibleNodes
  <2>1. TypeOK'
    BY <1>5, <2>0 DEF ReadNodes, TypeOK
  <2>2. ~Planning(c) /\ ~Planning(c)'
    BY <1>5 DEF ReadNodes, Planning, TypeOK
  <2> QED BY <1>5, <2>1, <2>2, NotPlanningInv DEF ReadNodes, TypeOK
<1>6. CASE SchedulerUpdatesPlan(c)
  <2>1. plan' \in [Pods -> MaybeNode]
    BY <1>6 DEF SchedulerUpdatesPlan, TypeOK
  <2> QED BY <1>1, <1>6, <2>1 DEF SchedulerUpdatesPlan
<1>7. CASE SchedulerGivesUp(c)
  BY <1>1, <1>7 DEF SchedulerGivesUp, TypeOK
<1> QED BY <1>2, <1>3, <1>4, <1>5, <1>6, <1>7

\* A request takes the mutex, which no other request and no handler holds.
LEMMA LockInv ==
  ASSUME IndInv, NEW c \in Callers, Lock(c)
  PROVE  IndInv'
<1> USE DEF IndInv, Lock, MayLock, countVars
<1>1. TypeOK'
  <2>1. todo' \in [Callers -> SUBSET Pods]
    BY DEF TypeOK
  <2>2. assignmentMap' \in [Callers -> [Pods -> MaybeNode]]
    BY TypeFacts DEF TypeOK
  <2> QED BY <2>1, <2>2 DEF TypeOK
<1>2. \A d \in Callers : ~Planning(d)
  BY TypeFacts DEF MutexHasHolder, Planning
<1>3. Planning(c)' /\ step'[c] = "plan" /\ \A d \in Callers : d # c => ~Planning(d)'
  BY <1>2 DEF Planning, TypeOK
<1>4. MutexHasHolder'
  <2>1. removing' = {} /\ mutex' = c
    BY PlannerAssumption DEF MutexHasHolder
  <2> QED BY <1>3, <2>1, TypeFacts DEF MutexHasHolder, Planning
<1>5. assignmentMap'[c] = NoNodes
  BY DEF TypeOK
<1>6. Remembered'
  BY <1>3, <1>5 DEF Remembered, NoNodes
<1>7. CurrentIsUnplanned'
  BY <1>3 DEF CurrentIsUnplanned, Planning
<1> QED BY <1>1, <1>4, <1>6, <1>7

(***************************************************************************)
(* The holder of the mutex deals with pod p: it answers n, and remembers   *)
(* nothing or n for p.                                                     *)
(***************************************************************************)
LEMMA PlannedInv ==
  ASSUME IndInv, NEW c \in Callers, Planning(c), NEW p \in Pods, NEW n \in MaybeNode,
         Planned(c, p, n), step' = [step EXCEPT ![c] = "plan"],
         current' \in [Callers -> Pods], \A d \in Callers : d # c => current'[d] = current[d],
         \/ podToNodeMap' = podToNodeMap
              /\ (n # NoNode /\ podList[c][p].node = NoNode => podToNodeMap[p] = n)
         \/ podToNodeMap' = [podToNodeMap EXCEPT ![p] = n]
  PROVE  IndInv'
<1> USE DEF IndInv, Planned, countVars
<1>1. podToNodeMap' \in [Pods -> MaybeNode]
  BY DEF TypeOK
<1>2. assignmentMap' \in [Callers -> [Pods -> MaybeNode]]
  BY DEF TypeOK
<1>3. TypeOK'
  BY <1>1, <1>2 DEF TypeOK
<1>4. \A d \in Callers : d # c => ~Planning(d) /\ ~Planning(d)'
  BY DEF MutexHasHolder, Planning, TypeOK
<1>5. Planning(c)' /\ step'[c] = "plan"
  BY DEF Planning, TypeOK
<1>6. MutexHasHolder'
  BY <1>4, <1>5 DEF MutexHasHolder, Planning
<1>7. assignmentMap'[c][p] = n /\ \A q \in Pods : q # p => assignmentMap'[c][q] = assignmentMap[c][q]
  BY DEF TypeOK
<1>8. /\ n # NoNode /\ podList[c][p].node = NoNode => podToNodeMap'[p] = n
      /\ \A q \in Pods : q # p => podToNodeMap'[q] = podToNodeMap[q]
  BY DEF TypeOK
<1>9. Remembered'
  BY <1>4, <1>5, <1>7, <1>8 DEF Remembered
<1>10. CurrentIsUnplanned'
  BY <1>4, <1>5 DEF CurrentIsUnplanned, Planning
<1> QED BY <1>3, <1>6, <1>9, <1>10

\* The holder of the mutex plans its pods one by one, and answers.
LEMMA InsideMutexInv ==
  ASSUME IndInv, NEW c \in Callers,
         \/ \E p \in Pods : KeepNode(c, p) \/ FindCandidates(c, p)
         \/ \E n \in Nodes : SelectNode(c, n)
         \/ SelectNoNode(c) \/ Answer(c)
  PROVE  IndInv'
<1> USE DEF IndInv
<1>1. ASSUME NEW p \in Pods, KeepNode(c, p) PROVE IndInv'
  <2> DEFINE n == GetNodeName(c, p)
  <2>1. /\ n \in MaybeNode /\ n # NoNode
        /\ podList[c][p].node = NoNode => podToNodeMap[p] = n
    BY <1>1 DEF KeepNode, GetNodeName, GetEligibleNodes, TypeOK, MaybeNode
  <2>2. Planning(c) /\ Planned(c, p, n) /\ step' = [step EXCEPT ![c] = "plan"]
    BY <1>1 DEF KeepNode, IsNext, Planning, TypeOK
  <2>3. current' = current /\ podToNodeMap' = podToNodeMap
    BY <1>1 DEF KeepNode
  <2> HIDE DEF n
  <2> QED BY <2>1, <2>2, <2>3, PlannedInv DEF TypeOK
<1>2. ASSUME NEW p \in Pods, FindCandidates(c, p) PROVE IndInv'
  <2> USE <1>2 DEF FindCandidates, IsNext, plannerVars, countVars
  <2>1. TypeOK'
    BY DEF TypeOK
  <2>2. \A d \in Callers : Planning(d)' <=> Planning(d)
    BY DEF Planning, TypeOK
  <2>3. MutexHasHolder'
    BY <2>2 DEF MutexHasHolder, Planning
  <2>4. Remembered'
    BY <2>2 DEF Remembered
  <2>5. podList[c][p].node = NoNode => podToNodeMap[p] = NoNode
    BY DEF GetNodeName
  <2>6. CurrentIsUnplanned'
    BY <2>5 DEF CurrentIsUnplanned, TypeOK
  <2> QED BY <2>1, <2>3, <2>4, <2>6
<1>3. ASSUME NEW n \in Nodes, SelectNode(c, n) PROVE IndInv'
  <2>1. Planning(c) /\ Planned(c, current[c], n) /\ current[c] \in Pods /\ n \in MaybeNode
    BY <1>3 DEF SelectNode, Planning, TypeOK, MaybeNode
  <2>2. /\ step' = [step EXCEPT ![c] = "plan"] /\ current' = [current EXCEPT ![c] = AnyPod]
        /\ podToNodeMap' = [podToNodeMap EXCEPT ![current[c]] = n]
    BY <1>3 DEF SelectNode
  <2>3. current' \in [Callers -> Pods] /\ \A d \in Callers : d # c => current'[d] = current[d]
    BY <2>2, TypeFacts DEF TypeOK
  <2> QED BY <2>1, <2>2, <2>3, PlannedInv
<1>4. CASE SelectNoNode(c)
  <2>1. Planning(c) /\ Planned(c, current[c], NoNode) /\ current[c] \in Pods
    BY <1>4 DEF SelectNoNode, Planning, TypeOK
  <2>2. /\ step' = [step EXCEPT ![c] = "plan"] /\ current' = [current EXCEPT ![c] = AnyPod]
        /\ podToNodeMap' = podToNodeMap
    BY <1>4 DEF SelectNoNode
  <2>3. current' \in [Callers -> Pods] /\ \A d \in Callers : d # c => current'[d] = current[d]
    BY <2>2, TypeFacts DEF TypeOK
  <2> QED BY <2>1, <2>2, <2>3, TypeFacts, PlannedInv
<1>5. CASE Answer(c)
  <2> USE <1>5 DEF Answer, countVars
  <2>1. TypeOK'
    BY DEF TypeOK
  <2>2. Planning(c) /\ mutex = c
    BY DEF Planning, MutexHasHolder
  <2>3. \A d \in Callers : ~Planning(d)'
    BY <2>2 DEF MutexHasHolder, Planning, TypeOK
  <2>4. MutexHasHolder'
    BY <2>2, <2>3, TypeFacts DEF MutexHasHolder, Planning
  <2>5. Remembered' /\ CurrentIsUnplanned'
    BY <2>3 DEF Remembered, CurrentIsUnplanned, Planning
  <2> QED BY <2>1, <2>4, <2>5
<1> QED BY <1>1, <1>2, <1>3, <1>4, <1>5

\* A planner that starts again has planned nothing.
LEMMA RestartInv ==
  ASSUME IndInv, Restart
  PROVE  IndInv'
<1> USE DEF IndInv, Restart
<1>0. [p \in Pods |-> AbsentPod(0)] \in [Pods -> PodRecords]
  BY TypeFacts
<1>1. TypeOK'
  BY <1>0, TypeFacts DEF TypeOK
<1>2. MutexHasHolder' /\ Remembered' /\ CurrentIsUnplanned'
  BY TypeFacts DEF MutexHasHolder, Planning, Remembered, CurrentIsUnplanned
<1> QED BY <1>1, <1>2

\* Every step keeps the invariant.
LEMMA NextInv ==
  ASSUME IndInv, [Next]_vars
  PROVE  IndInv'
<1>1. CASE Cluster
  BY <1>1, ClusterInv
<1>2. ASSUME NEW p \in Pods, WatchIgnores(p) \/ HandlePodUpdate(p) PROVE IndInv'
  BY <1>2, WatchInv
<1>3. ASSUME NEW res \in Results, NEW r \in removing, RemovePodFromPlanner(r, res) PROVE IndInv'
  BY <1>3, RemovalInv
<1>4. ASSUME NEW res \in Results, NEW r \in updateQueue, ProcessUpdate(r, res) PROVE IndInv'
  BY <1>4, RemovalInv
<1>5. ASSUME NEW c \in Callers,
             \/ \E p \in Pods, eligible \in SUBSET Nodes \ {{}} : Request(c, p, eligible)
             \/ Lock(c) \/ Proceed(c)
      PROVE  IndInv'
  BY <1>5, OutsideMutexInv, LockInv, InsideMutexInv DEF Proceed
<1>6. CASE Restart
  BY <1>6, RestartInv
<1>7. CASE UNCHANGED vars
  <2>1. TypeOK'
    BY <1>7 DEF IndInv, TypeOK, vars, plannerVars, callVars, countVars
  <2> QED BY <1>7, <2>1, OutsideInv DEF vars, plannerVars
<1> QED BY <1>1, <1>2, <1>3, <1>4, <1>5, <1>6, <1>7 DEF Next

\* The inductive invariant holds in every state the planner reaches.
THEOREM Invariance == Spec => []IndInv
<1>1. Init => IndInv
  BY InitInv
<1>2. IndInv /\ [Next]_vars => IndInv'
  BY NextInv
<1> QED BY <1>1, <1>2, PTL DEF Spec

-----------------------------------------------------------------------------

\* Requests, watch handler and retry worker keep the types of what they share.
THEOREM TypeCorrect == Spec => []TypeOK
BY Invariance, PTL DEF IndInv

\* The steps that leave podToNodeMap alone, or only forget pods, and the one
\* that gives a pod a node.
LEMMA MemoryStep ==
  ASSUME IndInv, [Next]_vars
  PROVE  \/ \A p \in Pods : podToNodeMap'[p] \in {NoNode, podToNodeMap[p]}
         \/ \E c \in Callers, n \in Nodes : SelectNode(c, n)
<1> DEFINE Keeps == \A p \in Pods : podToNodeMap'[p] \in {NoNode, podToNodeMap[p]}
<1>1. CASE Cluster
  <2>1. podToNodeMap' = podToNodeMap
    BY <1>1 DEF Cluster, CreatePod, RunPod, FailPod, DeletePod, PodEnds, BindPod, ChangePod,
       Taint, plannerVars
  <2> QED BY <2>1
<1>2. ASSUME NEW p \in Pods, WatchIgnores(p) \/ HandlePodUpdate(p) PROVE Keeps
  <2>1. podToNodeMap' \in {podToNodeMap, [podToNodeMap EXCEPT ![p] = NoNode]}
    BY <1>2 DEF WatchIgnores, HandlePodUpdate
  <2> QED BY <2>1 DEF IndInv, TypeOK
<1>3. ASSUME NEW r, NEW res, RemovePodFromPlanner(r, res) \/ ProcessUpdate(r, res) PROVE Keeps
  BY <1>3 DEF RemovePodFromPlanner, ProcessUpdate
<1>4. ASSUME NEW c \in Callers, Lock(c) \/ Proceed(c), ~\E n \in Nodes : SelectNode(c, n)
      PROVE  Keeps
  <2>1. podToNodeMap' = podToNodeMap
    BY <1>4 DEF Lock, Proceed, ListPods, ListPodsFails, ReadNodes, KeepNode, FindCandidates,
       SelectNoNode, Answer, SchedulerUpdatesPlan, SchedulerGivesUp, plannerVars
  <2> QED BY <2>1
<1>5. ASSUME NEW c \in Callers, NEW p \in Pods, NEW eligible, Request(c, p, eligible) PROVE Keeps
  BY <1>5 DEF Request, plannerVars
<1>6. CASE Restart
  BY <1>6 DEF Restart, NoNodes
<1>7. CASE UNCHANGED vars
  BY <1>7 DEF vars, plannerVars
<1> HIDE DEF Keeps
<1>8. Keeps \/ \E c \in Callers, n \in Nodes : SelectNode(c, n)
  BY <1>1, <1>2, <1>3, <1>4, <1>5, <1>6, <1>7 DEF Next, Keeps
<1> QED BY <1>8 DEF Keeps

(***************************************************************************)
(* The planner's mutex is held exactly by the request that is planning or  *)
(* by the watch handler that is removing a pod, for any number of requests *)
(* at a time: two are never inside, and a failed call, a request that ends *)
(* or a restart never leaves it locked.                                    *)
(***************************************************************************)
THEOREM MutexIsReleased == Spec => []MutexHasHolder
BY Invariance, PTL DEF IndInv

(***************************************************************************)
(* A planned pod keeps its node: two requests, or a request and the watch  *)
(* handler, never give a pod without a host two nodes.  The pod is looked  *)
(* up and set under one hold of the mutex (BuildPlan), which is what the   *)
(* invariant CurrentIsUnplanned carries from one to the other.             *)
(***************************************************************************)
THEOREM PlannedPodsStay == Spec => PlannedPodStays
<1> DEFINE Stays ==
      \A p \in Pods :
        podToNodeMap[p] # NoNode /\ podToNodeMap'[p] \notin {NoNode, podToNodeMap[p]}
          => \E c \in Callers : mutex = c /\ podList[c][p].node # NoNode
<1>1. ASSUME IndInv, [Next]_vars PROVE Stays
  <2> SUFFICES ASSUME NEW p \in Pods, podToNodeMap[p] # NoNode,
                      podToNodeMap'[p] \notin {NoNode, podToNodeMap[p]}
               PROVE  \E c \in Callers : mutex = c /\ podList[c][p].node # NoNode
    OBVIOUS
  <2>1. PICK c \in Callers, n \in Nodes : SelectNode(c, n)
    BY <1>1, MemoryStep
  <2>2. p = current[c] /\ step[c] = "score"
    BY <1>1, <2>1 DEF SelectNode, IndInv, TypeOK
  <2>3. mutex = c
    BY <1>1, <2>2 DEF IndInv, MutexHasHolder, Planning
  <2>4. podList[c][p].node # NoNode
    BY <1>1, <2>2 DEF IndInv, CurrentIsUnplanned
  <2> QED BY <2>3, <2>4
<1> HIDE DEF Stays
<1>2. IndInv /\ [Next]_vars => [Stays]_vars
  BY <1>1
<1>3. [][Stays]_vars <=> PlannedPodStays
  BY DEF Stays, PlannedPodStays
<1> QED BY <1>2, <1>3, Invariance, PTL DEF Spec

(***************************************************************************)
(* An answer of BuildSchedulePlan is what the planner remembers when it    *)
(* unlocks, whatever the watch delivered and the other requests did.       *)
(***************************************************************************)
THEOREM AnswersAreRemembered == Spec => AnswerIsRemembered
<1> DEFINE Agrees ==
      \A c \in Callers :
        step[c] = "plan" /\ step'[c] = "answered"
          => \A p \in Pods :
               assignmentMap[c][p] # NoNode /\ podList[c][p].node = NoNode
                 => podToNodeMap'[p] = assignmentMap[c][p]
<1>1. ASSUME IndInv, [Next]_vars PROVE Agrees
  <2> SUFFICES ASSUME NEW c \in Callers, step[c] = "plan", step'[c] = "answered", NEW p \in Pods,
                      assignmentMap[c][p] # NoNode, podList[c][p].node = NoNode
               PROVE  podToNodeMap'[p] = assignmentMap[c][p]
    OBVIOUS
  <2>1. podToNodeMap[p] = assignmentMap[c][p] /\ mutex = c
    BY <1>1 DEF IndInv, Remembered, MutexHasHolder, Planning
  <2>2. podToNodeMap' = podToNodeMap
    <3>1. ASSUME NEW q \in Pods PROVE ~HandlePodUpdate(q)
      BY <2>1, TypeFacts DEF HandlePodUpdate, HandlerMayRun
    <3>2. ~Restart /\ ~\E d \in Callers, n \in Nodes : SelectNode(d, n)
      BY <1>1 DEF Restart, SelectNode, IndInv, TypeOK
    <3>3. CASE Cluster
      BY <3>3 DEF Cluster, CreatePod, RunPod, FailPod, DeletePod, PodEnds, BindPod, ChangePod,
         Taint, plannerVars
    <3>4. ASSUME NEW d \in Callers, Lock(d) \/ Proceed(d) PROVE podToNodeMap' = podToNodeMap
      BY <3>2, <3>4 DEF Lock, Proceed, ListPods, ListPodsFails, ReadNodes, KeepNode,
         FindCandidates, SelectNoNode, Answer, SchedulerUpdatesPlan, SchedulerGivesUp, plannerVars
    <3>5. ASSUME NEW d \in Callers, NEW q \in Pods, NEW eligible, Request(d, q, eligible)
          PROVE  podToNodeMap' = podToNodeMap
      BY <3>5 DEF Request, plannerVars
    <3>6. ASSUME NEW r, NEW res, RemovePodFromPlanner(r, res) \/ ProcessUpdate(r, res)
          PROVE  podToNodeMap' = podToNodeMap
      BY <3>6 DEF RemovePodFromPlanner, ProcessUpdate
    <3>7. ASSUME NEW q \in Pods, WatchIgnores(q) PROVE podToNodeMap' = podToNodeMap
      BY <3>7 DEF WatchIgnores
    <3>8. CASE UNCHANGED vars
      BY <3>8 DEF vars, plannerVars
    <3> QED BY <1>1, <3>1, <3>2, <3>3, <3>4, <3>5, <3>6, <3>7, <3>8 DEF Next
  <2> QED BY <2>1, <2>2
<1> HIDE DEF Agrees
<1>2. IndInv /\ [Next]_vars => [Agrees]_vars
  BY <1>1
<1>3. [][Agrees]_vars <=> AnswerIsRemembered
  BY DEF Agrees, AnswerIsRemembered
<1> QED BY <1>2, <1>3, Invariance, PTL DEF Spec

=============================================================================
