------------------------ MODULE SchedulerPluginProofs ------------------------
(***************************************************************************)
(* Theorems about SchedulerPlugin, for any pods, nodes and planners: an    *)
(* inductive invariant, one lemma for each action, and what follows.       *)
(***************************************************************************)
EXTENDS SchedulerPlugin, TLAPS

-----------------------------------------------------------------------------
(* The inductive invariant.                                                *)

\* The queue says that a pod is in its cycle exactly when it is.
CycleInv ==
  \A p \in Pods :
    /\ queue[p] = "cycle" <=> cycle = p /\ step # "unreserve"
    /\ cycle = p /\ step = "unreserve" => queue[p] = "unreserve"

\* A pod has an assignment state only from PreScore to the end of its binding.
AssignInv ==
  \A p \in Pods :
    assignment[p] # NoNode =>
      \/ cycle = p /\ step \in {"select", "reserve"}
      \/ queue[p] \in {"binding", "unreserve"}

\* Before the trigger was in Schedule, nothing is planned or remembered, no pod has
\* an assignment and no cycle is past the trigger on its way to the plan.
GateInv ==
  /\ trigger = "Schedule" => opened
  /\ ~opened =>
       /\ plan = NoNodes /\ assignment = NoNodes
       /\ podToNodeMap = [s \in Planners |-> NoNodes]
       /\ step \notin {"check", "lookup", "ask", "answer", "update"}

\* Between findFit and Reserve the plan has the assigned node or none for the pod.
AgreeInv ==
  cycle \in Pods /\ step \in {"select", "reserve"} /\ assignment[cycle] # NoNode
    => plan[cycle] \in {assignment[cycle], NoNode}

\* A planner is being asked only while the cycle waits for its answer.
AskInv == asking = NoPlanner \/ step = "answer"

Inv == TypeOK /\ CycleInv /\ AssignInv /\ GateInv /\ AgreeInv /\ AskInv

-----------------------------------------------------------------------------
(* Facts about the operators.                                              *)

\* What the calls leave is a plan.
LEMMA PlanCallsType ==
  ASSUME TypeOK, NEW p \in Pods, NEW n \in MaybeNode
  PROVE  Moved(p, n) \in Assignments /\ Removed(p) \subseteq Assignments
BY DEF TypeOK, Assignments, MaybeNode, Moved, Removed, NoNodes

\* No pods are listed outside of a call.
LEMMA PendingListed == [p \in Pods |-> PendingPod] \in [Pods -> PodRecords]
BY DEF PendingPod, PodRecords, Phases, MaybeNode

\* What a planner remembers are assignments.
LEMMA RememberedType ==
  ASSUME TypeOK, NEW s \in Planners \cup {NoPlanner}, NEW a \in Assignments
  PROVE  Remembered(s, a) \in [Planners -> Assignments]
BY DEF TypeOK, Assignments, MaybeNode, Remembered

\* A planner that remembers nothing has nothing to forget.
LEMMA ForgetNothing ==
  ASSUME NEW s \in Planners, NEW p \in Pods, podToNodeMap = [t \in Planners |-> NoNodes]
  PROVE  [podToNodeMap EXCEPT ![s][p] = NoNode] = podToNodeMap
BY DEF NoNodes

-----------------------------------------------------------------------------
(* The steps preserve the invariant.                                       *)

\* The trigger changes: opened remembers that it was in Schedule.
LEMMA SetTriggerInv ==
  ASSUME Inv, NEW state \in {"none", "Planning", "Schedule"}, SetTrigger(state)
  PROVE  Inv'
<1> USE PluginAssumption DEF Inv, SetTrigger, Happens, plannerVars, cycleVars
<1>1. TypeOK'
  BY DEF TypeOK, PodRecords, PendingPod, Phases, Steps, Assignments, MaybeNode, NoNodes
<1>2. CycleInv'
  BY DEF CycleInv, TypeOK
<1>3. AssignInv'
  BY DEF AssignInv, CycleInv, TypeOK, Assignments
<1>4. GateInv'
  BY DEF GateInv, TypeOK, NoNodes
<1>5. AgreeInv'
  BY DEF AgreeInv, AssignInv, CycleInv, TypeOK, Assignments, MaybeNode, NoNodes
<1>6. AskInv'
  BY DEF AskInv, TypeOK
<1> QED BY <1>1, <1>2, <1>3, <1>4, <1>5, <1>6

\* A pod is deleted.
LEMMA DeletePodInv ==
  ASSUME Inv, NEW p \in Pods, DeletePod(p)
  PROVE  Inv'
<1> USE PluginAssumption DEF Inv, DeletePod, Happens, plannerVars, cycleVars
<1>1. TypeOK'
  <2>1. ASSUME NEW q \in Pods PROVE pods'[q] \in PodRecords
    <3>1. pods[q] \in PodRecords /\ pods \in [Pods -> PodRecords]
      BY DEF TypeOK
    <3>2. CASE q = p
      BY <3>1, <3>2 DEF PodRecords, Phases
    <3>3. CASE q # p
      BY <3>1, <3>3
    <3> QED BY <3>2, <3>3
  <2>2. pods' = [q \in Pods |-> pods'[q]]
    BY DEF TypeOK
  <2>3. pods' \in [Pods -> PodRecords]
    BY <2>1, <2>2
  <2> QED BY <2>3 DEF TypeOK
<1>2. CycleInv'
  BY DEF CycleInv, TypeOK
<1>3. AssignInv'
  BY DEF AssignInv, CycleInv, TypeOK, Assignments
<1>4. GateInv'
  BY DEF GateInv, TypeOK, NoNodes
<1>5. AgreeInv'
  BY DEF AgreeInv, AssignInv, CycleInv, TypeOK, Assignments, MaybeNode, NoNodes
<1>6. AskInv'
  BY DEF AskInv, TypeOK
<1> QED BY <1>1, <1>2, <1>3, <1>4, <1>5, <1>6

\* A pod runs.
LEMMA RunPodInv ==
  ASSUME Inv, NEW p \in Pods, RunPod(p)
  PROVE  Inv'
<1> USE PluginAssumption DEF Inv, RunPod, plannerVars, cycleVars
<1>1. TypeOK'
  <2>1. ASSUME NEW q \in Pods PROVE pods'[q] \in PodRecords
    <3>1. pods[q] \in PodRecords /\ pods \in [Pods -> PodRecords]
      BY DEF TypeOK
    <3>2. CASE q = p
      BY <3>1, <3>2 DEF PodRecords, Phases
    <3>3. CASE q # p
      BY <3>1, <3>3
    <3> QED BY <3>2, <3>3
  <2>2. pods' = [q \in Pods |-> pods'[q]]
    BY DEF TypeOK
  <2>3. pods' \in [Pods -> PodRecords]
    BY <2>1, <2>2
  <2> QED BY <2>3 DEF TypeOK
<1>2. CycleInv'
  BY DEF CycleInv, TypeOK
<1>3. AssignInv'
  BY DEF AssignInv, CycleInv, TypeOK, Assignments
<1>4. GateInv'
  BY DEF GateInv, TypeOK, NoNodes
<1>5. AgreeInv'
  BY DEF AgreeInv, AssignInv, CycleInv, TypeOK, Assignments, MaybeNode, NoNodes
<1>6. AskInv'
  BY DEF AskInv, TypeOK
<1> QED BY <1>1, <1>2, <1>3, <1>4, <1>5, <1>6

\* A pod is bound and its cycle state ends.
LEMMA BindInv ==
  ASSUME Inv, NEW p \in Pods, Bind(p)
  PROVE  Inv'
<1> USE PluginAssumption DEF Inv, Bind, Forget, plannerVars, cycleVars
<1>1. TypeOK'
  BY DEF TypeOK, PodRecords, PendingPod, Phases, Steps, Assignments, MaybeNode, NoNodes
<1>2. CycleInv'
  BY DEF CycleInv, TypeOK
<1>3. AssignInv'
  BY DEF AssignInv, CycleInv, TypeOK, Assignments
<1>4. GateInv'
  BY DEF GateInv, TypeOK, NoNodes
<1>5. AgreeInv'
  BY DEF AgreeInv, AssignInv, CycleInv, TypeOK, Assignments, MaybeNode, NoNodes
<1>6. AskInv'
  BY DEF AskInv, TypeOK
<1> QED BY <1>1, <1>2, <1>3, <1>4, <1>5, <1>6

\* A binding fails, and Unreserve is to run.
LEMMA BindFailsInv ==
  ASSUME Inv, NEW p \in Pods, BindFails(p)
  PROVE  Inv'
<1> USE PluginAssumption DEF Inv, BindFails, Happens, plannerVars, cycleVars
<1>1. TypeOK'
  BY DEF TypeOK, PodRecords, PendingPod, Phases, Steps, Assignments, MaybeNode, NoNodes
<1>2. CycleInv'
  BY DEF CycleInv, TypeOK
<1>3. AssignInv'
  BY DEF AssignInv, CycleInv, TypeOK, Assignments
<1>4. GateInv'
  BY DEF GateInv, TypeOK, NoNodes
<1>5. AgreeInv'
  BY DEF AgreeInv, AssignInv, CycleInv, TypeOK, Assignments, MaybeNode, NoNodes
<1>6. AskInv'
  BY DEF AskInv, TypeOK
<1> QED BY <1>1, <1>2, <1>3, <1>4, <1>5, <1>6

\* A planner forgets a pod that runs.
LEMMA WatchRunningInv ==
  ASSUME Inv, NEW s \in Planners, NEW p \in Pods, WatchRunning(s, p)
  PROVE  Inv'
<1> USE PluginAssumption DEF Inv, WatchRunning, plannerVars, cycleVars
<1>1. TypeOK'
  BY DEF TypeOK, PodRecords, PendingPod, Phases, Steps, Assignments, MaybeNode, NoNodes
<1>2. CycleInv'
  BY DEF CycleInv, TypeOK
<1>3. AssignInv'
  BY DEF AssignInv, CycleInv, TypeOK, Assignments
<1>4. GateInv'
  <2>1. CASE opened
    BY <2>1 DEF GateInv
  <2>2. CASE ~opened
    <3>1. podToNodeMap' = podToNodeMap
      BY <2>2, ForgetNothing DEF GateInv
    <3> QED BY <2>2, <3>1 DEF GateInv
  <2> QED BY <2>1, <2>2
<1>5. AgreeInv'
  BY DEF AgreeInv, AssignInv, CycleInv, TypeOK, Assignments, MaybeNode, NoNodes
<1>6. AskInv'
  BY DEF AskInv, TypeOK
<1> QED BY <1>1, <1>2, <1>3, <1>4, <1>5, <1>6

\* A planner forgets a pod that is deleted.
LEMMA WatchDeletingInv ==
  ASSUME Inv, NEW s \in Planners, NEW p \in Pods, WatchDeleting(s, p)
  PROVE  Inv'
<1> USE PluginAssumption DEF Inv, WatchDeleting, plannerVars, cycleVars
<1>1. TypeOK'
  <2>1. removing' \in [Planners -> SUBSET Pods]
    BY DEF TypeOK
  <2>2. seen' \in [Planners -> [Pods -> {"Pending", "Running", "Deleting"}]]
    BY DEF TypeOK
  <2>3. podToNodeMap' \in [Planners -> Assignments]
    BY DEF TypeOK, Assignments, MaybeNode
  <2> QED BY <2>1, <2>2, <2>3 DEF TypeOK
<1>2. CycleInv'
  BY DEF CycleInv, TypeOK
<1>3. AssignInv'
  BY DEF AssignInv, CycleInv, TypeOK, Assignments
<1>4. GateInv'
  <2>1. CASE opened
    BY <2>1 DEF GateInv
  <2>2. CASE ~opened
    <3>1. podToNodeMap' = podToNodeMap
      BY <2>2, ForgetNothing DEF GateInv
    <3> QED BY <2>2, <3>1 DEF GateInv
  <2> QED BY <2>1, <2>2
<1>5. AgreeInv'
  BY DEF AgreeInv, AssignInv, CycleInv, TypeOK, Assignments, MaybeNode, NoNodes
<1>6. AskInv'
  BY DEF AskInv, TypeOK
<1> QED BY <1>1, <1>2, <1>3, <1>4, <1>5, <1>6

\* A planner takes a pod out of the plan.
LEMMA RemovePodFromPlannerInv ==
  ASSUME Inv, NEW s \in Planners, NEW p \in Pods, RemovePodFromPlanner(s, p)
  PROVE  Inv'
<1> USE PluginAssumption DEF Inv, RemovePodFromPlanner, Happens, plannerVars, cycleVars
<1>1. TypeOK'
  <2>1. plan' \in Assignments
    <3>1. NoNode \in MaybeNode
      BY DEF MaybeNode
    <3> QED BY <3>1, PlanCallsType DEF TypeOK
  <2>2. removing' \in [Planners -> SUBSET Pods]
    BY DEF TypeOK
  <2> QED BY <2>1, <2>2 DEF TypeOK
<1>2. CycleInv'
  BY DEF CycleInv, TypeOK
<1>3. AssignInv'
  BY DEF AssignInv, CycleInv, TypeOK, Assignments
<1>4. GateInv'
  BY DEF Removed, GateInv, TypeOK, NoNodes
<1>5. AgreeInv'
  BY DEF Removed, AgreeInv, TypeOK, Assignments, NoNodes
<1>6. AskInv'
  BY DEF AskInv, TypeOK
<1> QED BY <1>1, <1>2, <1>3, <1>4, <1>5, <1>6

\* A cycle begins for a pod without an assignment.
LEMMA StartCycleInv ==
  ASSUME Inv, NEW p \in Pods, NEW nodes \in SUBSET Nodes, StartCycle(p, nodes)
  PROVE  Inv'
<1> USE PluginAssumption DEF Inv, StartCycle, NotAsking, plannerVars, cycleVars
<1>1. TypeOK'
  <2>1. host' \in Assignments
    <3>1. CASE Cardinality(nodes) = 1
      <4>1. (CHOOSE n \in nodes : TRUE) \in Nodes
        OBVIOUS
      <4> QED BY <3>1, <4>1 DEF TypeOK, Assignments, MaybeNode
    <3>2. CASE Cardinality(nodes) # 1
      BY <3>2 DEF TypeOK
    <3> QED BY <3>1, <3>2
  <2>2. queue' \in [Pods -> {"queued", "cycle", "binding", "unreserve", "done"}]
    BY DEF TypeOK
  <2>3. step' \in Steps \ {"idle"}
    BY DEF Steps
  <2> QED BY <2>1, <2>2, <2>3 DEF TypeOK
<1>2. CycleInv'
  BY DEF CycleInv, TypeOK
<1>3. AssignInv'
  BY DEF AssignInv, CycleInv, TypeOK, Assignments
<1>4. GateInv'
  BY DEF GateInv, TypeOK, NoNodes
<1>5. AgreeInv'
  BY DEF AgreeInv, AssignInv, CycleInv, TypeOK, Assignments, MaybeNode, NoNodes
<1>6. AskInv'
  BY DEF AskInv, TypeOK
<1> QED BY <1>1, <1>2, <1>3, <1>4, <1>5, <1>6

\* No node passes the filters.
LEMMA PostFilterInv ==
  ASSUME Inv, NEW p \in Pods, PostFilter(p)
  PROVE  Inv'
<1> USE PluginAssumption DEF Inv, PostFilter, Happens, plannerVars, cycleVars
<1>1. TypeOK'
  BY DEF TypeOK, PodRecords, PendingPod, Phases, Steps, Assignments, MaybeNode, NoNodes
<1>2. CycleInv'
  BY DEF CycleInv, TypeOK
<1>3. AssignInv'
  BY DEF AssignInv, CycleInv, TypeOK, Assignments
<1>4. GateInv'
  BY DEF GateInv, TypeOK, NoNodes
<1>5. AgreeInv'
  BY DEF AgreeInv, AssignInv, CycleInv, TypeOK, Assignments, MaybeNode, NoNodes
<1>6. AskInv'
  BY DEF AskInv, TypeOK
<1> QED BY <1>1, <1>2, <1>3, <1>4, <1>5, <1>6

\* Past the trigger a cycle knows that it was in Schedule.
LEMMA GetTriggerInv ==
  ASSUME Inv, GetTrigger
  PROVE  Inv'
<1> USE PluginAssumption DEF Inv, GetTrigger, TriggerAllows, GoTo, NotAsking, Happens,
         Unschedulable, EndCycle, plannerVars, cycleVars
<1>1. TypeOK'
  <2>1. cycle \in Pods
    BY DEF TypeOK
  <2>2. listed' \in [Pods -> PodRecords]
    BY PendingListed DEF TypeOK
  <2> QED BY <2>1, <2>2 DEF TypeOK, Steps
<1>2. CycleInv'
  BY DEF CycleInv, TypeOK
<1>3. AssignInv'
  BY DEF AssignInv, CycleInv, TypeOK, Assignments
<1>4. GateInv'
  BY DEF GateInv, TypeOK, NoNodes
<1>5. AgreeInv'
  BY DEF AgreeInv, AssignInv, CycleInv, TypeOK, Assignments, MaybeNode, NoNodes
<1>6. AskInv'
  BY DEF AskInv, TypeOK
<1> QED BY <1>1, <1>2, <1>3, <1>4, <1>5, <1>6

\* The planned node becomes the assignment.
LEMMA CheckPlanInv ==
  ASSUME Inv, CheckPlan
  PROVE  Inv'
<1> USE PluginAssumption DEF Inv, CheckPlan, Assign, GoTo, NotAsking, Happens,
         plannerVars, cycleVars
<1>1. TypeOK'
  <2>1. cycle \in Pods
    BY DEF TypeOK
  <2>2. listed' \in [Pods -> PodRecords]
    BY PendingListed DEF TypeOK
  <2>3. assignment' \in Assignments
    BY <2>1 DEF TypeOK, Assignments, MaybeNode
  <2> QED BY <2>1, <2>2, <2>3 DEF TypeOK, Steps
<1>2. CycleInv'
  BY DEF CycleInv, TypeOK
<1>3. AssignInv'
  BY DEF AssignInv, CycleInv, TypeOK, Assignments
<1>4. GateInv'
  BY DEF GateInv, TypeOK, NoNodes
<1>5. AgreeInv'
  BY DEF AgreeInv, AssignInv, CycleInv, TypeOK, Assignments, MaybeNode, NoNodes
<1>6. AskInv'
  BY DEF AskInv, TypeOK
<1> QED BY <1>1, <1>2, <1>3, <1>4, <1>5, <1>6

\* Planners are looked up.
LEMMA LookupInv ==
  ASSUME Inv, Lookup
  PROVE  Inv'
<1> USE PluginAssumption DEF Inv, Lookup, Found, GoTo, Happens, Unschedulable, EndCycle,
         plannerVars, cycleVars
<1>1. TypeOK'
  <2>1. cycle \in Pods
    BY DEF TypeOK
  <2>2. listed' \in [Pods -> PodRecords]
    BY PendingListed DEF TypeOK
  <2>3. labels.own \subseteq Planners /\ labels.default \subseteq Planners
    BY DEF TypeOK
  <2>4. queue' \in [Pods -> {"queued", "cycle", "binding", "unreserve", "done"}]
    BY <2>1 DEF TypeOK
  <2>5. asked' \subseteq Planners /\ step' \in Steps /\ cycle' \in Pods \cup {NoPod}
    BY <2>1, <2>3 DEF TypeOK, Steps
  <2>6. (cycle' = NoPod) <=> (step' = "idle")
    BY <2>1 DEF TypeOK
  <2>7. answers' \subseteq Assignments /\ asking' \in Planners \cup {NoPlanner}
    BY DEF TypeOK
  <2>8. events' \in Nat /\ feasible' \subseteq Nodes
    BY DEF TypeOK
  <2>9. UNCHANGED <<assignment, host>>
    OBVIOUS
  <2> QED BY <2>2, <2>4, <2>5, <2>6, <2>7, <2>8, <2>9 DEF TypeOK
<1>2. CycleInv'
  BY DEF CycleInv, TypeOK
<1>3. AssignInv'
  BY DEF AssignInv, CycleInv, TypeOK, Assignments
<1>4. GateInv'
  BY DEF GateInv, TypeOK, NoNodes
<1>5. AgreeInv'
  BY DEF AgreeInv, AssignInv, CycleInv, TypeOK, Assignments, MaybeNode, NoNodes
<1>6. AskInv'
  BY DEF AskInv, TypeOK
<1> QED BY <1>1, <1>2, <1>3, <1>4, <1>5, <1>6

\* A planner lists the pods.
LEMMA InvokeInv ==
  ASSUME Inv, NEW s \in Planners, Invoke(s)
  PROVE  Inv'
<1> USE PluginAssumption DEF Inv, Invoke, GoTo, plannerVars, cycleVars
<1>1. TypeOK'
  BY DEF TypeOK, PodRecords, PendingPod, Phases, Steps, Assignments, MaybeNode, NoNodes
<1>2. CycleInv'
  BY DEF CycleInv, TypeOK
<1>3. AssignInv'
  BY DEF AssignInv, CycleInv, TypeOK, Assignments
<1>4. GateInv'
  BY DEF GateInv, TypeOK, NoNodes
<1>5. AgreeInv'
  BY DEF AgreeInv, AssignInv, CycleInv, TypeOK, Assignments, MaybeNode, NoNodes
<1>6. AskInv'
  BY DEF AskInv, TypeOK
<1> QED BY <1>1, <1>2, <1>3, <1>4, <1>5, <1>6

\* A planner answers.
LEMMA PlannerAnswersInv ==
  ASSUME Inv, NEW a \in Assignments, PlannerAnswers(a)
  PROVE  Inv'
<1> USE PluginAssumption DEF Inv, PlannerAnswers, PlannerDone, GoTo, Happens,
         plannerVars, cycleVars
<1>1. TypeOK'
  <2>1. cycle \in Pods /\ asking \in Planners \cup {NoPlanner}
    BY DEF TypeOK
  <2>2. listed' \in [Pods -> PodRecords]
    BY PendingListed
  <2>3. podToNodeMap' \in [Planners -> Assignments]
    BY <2>1, RememberedType DEF TypeOK
  <2>4. answers' \subseteq Assignments
    BY DEF TypeOK
  <2>5. events' \in Nat
    BY DEF TypeOK
  <2> QED BY <2>1, <2>2, <2>3, <2>4, <2>5 DEF TypeOK, Steps
<1>2. CycleInv'
  BY DEF CycleInv, TypeOK
<1>3. AssignInv'
  BY DEF AssignInv, CycleInv, TypeOK, Assignments
<1>4. GateInv'
  BY DEF GateInv, TypeOK, NoNodes
<1>5. AgreeInv'
  BY DEF AgreeInv, AssignInv, CycleInv, TypeOK, Assignments, MaybeNode, NoNodes
<1>6. AskInv'
  BY DEF AskInv, TypeOK
<1> QED BY <1>1, <1>2, <1>3, <1>4, <1>5, <1>6

\* A planner fails.
LEMMA PlannerFailsInv ==
  ASSUME Inv, NEW a \in Assignments, PlannerFails(a)
  PROVE  Inv'
<1> USE PluginAssumption DEF Inv, PlannerFails, PlannerDone, GoTo, Happens, plannerVars,
         cycleVars
<1>1. TypeOK'
  <2>1. cycle \in Pods /\ asking \in Planners \cup {NoPlanner}
    BY DEF TypeOK
  <2>2. listed' \in [Pods -> PodRecords]
    BY PendingListed
  <2>3. podToNodeMap' \in [Planners -> Assignments]
    BY <2>1, RememberedType DEF TypeOK
  <2>4. answers' \subseteq Assignments
    BY DEF TypeOK
  <2>5. events' \in Nat
    BY DEF TypeOK
  <2> QED BY <2>1, <2>2, <2>3, <2>4, <2>5 DEF TypeOK, Steps
<1>2. CycleInv'
  BY DEF CycleInv, TypeOK
<1>3. AssignInv'
  BY DEF AssignInv, CycleInv, TypeOK, Assignments
<1>4. GateInv'
  BY DEF GateInv, TypeOK, NoNodes
<1>5. AgreeInv'
  BY DEF AgreeInv, AssignInv, CycleInv, TypeOK, Assignments, MaybeNode, NoNodes
<1>6. AskInv'
  BY DEF AskInv, TypeOK
<1> QED BY <1>1, <1>2, <1>3, <1>4, <1>5, <1>6

\* One of the answers is chosen.
LEMMA ChooseAnswerInv ==
  ASSUME Inv, NEW a \in answers, ChooseAnswer(a)
  PROVE  Inv'
<1> USE PluginAssumption DEF Inv, ChooseAnswer, Unschedulable, EndCycle, GoTo,
         plannerVars, cycleVars
<1>1. TypeOK'
  <2>1. cycle \in Pods
    BY DEF TypeOK
  <2>2. listed' \in [Pods -> PodRecords]
    BY PendingListed DEF TypeOK
  <2>3. queue' \in [Pods -> {"queued", "cycle", "binding", "unreserve", "done"}]
    BY <2>1 DEF TypeOK
  <2> QED BY <2>1, <2>2, <2>3 DEF TypeOK, Steps
<1>2. CycleInv'
  BY DEF CycleInv, TypeOK
<1>3. AssignInv'
  BY DEF AssignInv, CycleInv, TypeOK, Assignments
<1>4. GateInv'
  BY DEF GateInv, TypeOK, NoNodes
<1>5. AgreeInv'
  BY DEF AgreeInv, AssignInv, CycleInv, TypeOK, Assignments, MaybeNode, NoNodes
<1>6. AskInv'
  BY DEF AskInv, TypeOK
<1> QED BY <1>1, <1>2, <1>3, <1>4, <1>5, <1>6

\* No planner answered.
LEMMA NoAnswerInv ==
  ASSUME Inv, NoAnswer
  PROVE  Inv'
<1> USE PluginAssumption DEF Inv, NoAnswer, Unschedulable, EndCycle, plannerVars, cycleVars
<1>1. TypeOK'
  BY DEF TypeOK, PodRecords, PendingPod, Phases, Steps, Assignments, MaybeNode, NoNodes
<1>2. CycleInv'
  BY DEF CycleInv, TypeOK
<1>3. AssignInv'
  BY DEF AssignInv, CycleInv, TypeOK, Assignments
<1>4. GateInv'
  BY DEF GateInv, TypeOK, NoNodes
<1>5. AgreeInv'
  BY DEF AgreeInv, AssignInv, CycleInv, TypeOK, Assignments, MaybeNode, NoNodes
<1>6. AskInv'
  BY DEF AskInv, TypeOK
<1> QED BY <1>1, <1>2, <1>3, <1>4, <1>5, <1>6

\* The plan is written, and the assignment is what it says.
LEMMA UpdatePlanInv ==
  ASSUME Inv, NEW a \in answers, UpdatePlan(a)
  PROVE  Inv'
<1> USE PluginAssumption DEF Inv, UpdatePlan, Updated, Assign, GoTo, plannerVars, cycleVars
<1>1. TypeOK'
  BY DEF TypeOK, PodRecords, PendingPod, Phases, Steps, Assignments, MaybeNode, NoNodes
<1>2. CycleInv'
  BY DEF CycleInv, TypeOK
<1>3. AssignInv'
  BY DEF AssignInv, CycleInv, TypeOK, Assignments
<1>4. GateInv'
  BY DEF GateInv, TypeOK, NoNodes
<1>5. AgreeInv'
  BY DEF AgreeInv, AssignInv, CycleInv, TypeOK, Assignments, MaybeNode, NoNodes
<1>6. AskInv'
  BY DEF AskInv, TypeOK
<1> QED BY <1>1, <1>2, <1>3, <1>4, <1>5, <1>6

\* The update of the plan fails.
LEMMA UpdatePlanFailsInv ==
  ASSUME Inv, NEW a \in answers, UpdatePlanFails(a)
  PROVE  Inv'
<1> USE PluginAssumption DEF Inv, UpdatePlanFails, Updated, Happens, Unschedulable,
         EndCycle, plannerVars, cycleVars
<1>1. TypeOK'
  BY DEF TypeOK, PodRecords, PendingPod, Phases, Steps, Assignments, MaybeNode, NoNodes
<1>2. CycleInv'
  BY DEF CycleInv, TypeOK
<1>3. AssignInv'
  BY DEF AssignInv, CycleInv, TypeOK, Assignments
<1>4. GateInv'
  BY DEF GateInv, TypeOK, NoNodes
<1>5. AgreeInv'
  BY DEF AgreeInv, AssignInv, CycleInv, TypeOK, Assignments, MaybeNode, NoNodes
<1>6. AskInv'
  BY DEF AskInv, TypeOK
<1> QED BY <1>1, <1>2, <1>3, <1>4, <1>5, <1>6

\* The scheduler chooses a node.
LEMMA SelectHostInv ==
  ASSUME Inv, NEW n \in Nodes, SelectHost(n)
  PROVE  Inv'
<1> USE PluginAssumption DEF Inv, SelectHost, GoTo, NotAsking, plannerVars, cycleVars
<1>1. TypeOK'
  BY DEF TypeOK, PodRecords, PendingPod, Phases, Steps, Assignments, MaybeNode, NoNodes
<1>2. CycleInv'
  BY DEF CycleInv, TypeOK
<1>3. AssignInv'
  BY DEF AssignInv, CycleInv, TypeOK, Assignments
<1>4. GateInv'
  BY DEF GateInv, TypeOK, NoNodes
<1>5. AgreeInv'
  BY DEF AgreeInv, AssignInv, CycleInv, TypeOK, Assignments, MaybeNode, NoNodes
<1>6. AskInv'
  BY DEF AskInv, TypeOK
<1> QED BY <1>1, <1>2, <1>3, <1>4, <1>5, <1>6

\* Reserve moves the assignment, in the plan as well.
LEMMA ReserveInv ==
  ASSUME Inv, Reserve
  PROVE  Inv'
<1> USE PluginAssumption DEF Inv, Reserve, Moved, EndCycle, plannerVars, cycleVars
<1>1. TypeOK'
  <2>1. cycle \in Pods /\ host[cycle] \in MaybeNode
    BY DEF TypeOK, Assignments
  <2>2. listed' \in [Pods -> PodRecords]
    BY PendingListed
  <2>3. assignment' \in Assignments
    BY <2>1 DEF TypeOK, Assignments
  <2>4. plan' \in Assignments
    BY <2>1, PlanCallsType DEF TypeOK
  <2>5. queue' \in [Pods -> {"queued", "cycle", "binding", "unreserve", "done"}]
    BY <2>1 DEF TypeOK
  <2> QED BY <2>2, <2>3, <2>4, <2>5 DEF TypeOK, Steps
<1>2. CycleInv'
  BY DEF CycleInv, TypeOK
<1>3. AssignInv'
  BY DEF AssignInv, CycleInv, TypeOK, Assignments
<1>4. GateInv'
  BY DEF GateInv, TypeOK, NoNodes
<1>5. AgreeInv'
  BY DEF AgreeInv, AssignInv, CycleInv, TypeOK, Assignments, MaybeNode, NoNodes
<1>6. AskInv'
  BY DEF AskInv, TypeOK
<1> QED BY <1>1, <1>2, <1>3, <1>4, <1>5, <1>6

\* Reserve fails.
LEMMA ReserveFailsInv ==
  ASSUME Inv, ReserveFails
  PROVE  Inv'
<1> USE PluginAssumption DEF Inv, ReserveFails, Moved, Happens, NotAsking, plannerVars,
         cycleVars
<1>1. TypeOK'
  <2>1. cycle \in Pods /\ host[cycle] \in MaybeNode
    BY DEF TypeOK, Assignments
  <2>2. plan' \in Assignments
    BY <2>1, PlanCallsType DEF TypeOK
  <2>3. queue' \in [Pods -> {"queued", "cycle", "binding", "unreserve", "done"}]
    BY DEF TypeOK
  <2> QED BY <2>1, <2>2, <2>3 DEF TypeOK, Steps
<1>2. CycleInv'
  BY DEF CycleInv, TypeOK
<1>3. AssignInv'
  BY DEF AssignInv, CycleInv, TypeOK, Assignments
<1>4. GateInv'
  BY DEF GateInv, TypeOK, NoNodes
<1>5. AgreeInv'
  BY DEF AgreeInv, AssignInv, CycleInv, TypeOK, Assignments, MaybeNode, NoNodes
<1>6. AskInv'
  BY DEF AskInv, TypeOK
<1> QED BY <1>1, <1>2, <1>3, <1>4, <1>5, <1>6

\* Unreserve takes the pod out of the plan.
LEMMA UnreserveInv ==
  ASSUME Inv, NEW p \in Pods, Unreserve(p)
  PROVE  Inv'
<1> USE PluginAssumption DEF Inv, Unreserve, Happens, Forget, EndCycle, plannerVars,
         cycleVars
<1>1. TypeOK'
  <2>1. plan' \in Assignments
    <3>1. NoNode \in MaybeNode
      BY DEF MaybeNode
    <3> QED BY <3>1, PlanCallsType DEF TypeOK
  <2>2. listed' \in [Pods -> PodRecords]
    BY PendingListed DEF TypeOK
  <2>3. assignment' \in Assignments /\ host' \in Assignments
    BY DEF TypeOK, Assignments, MaybeNode
  <2>4. queue' \in [Pods -> {"queued", "cycle", "binding", "unreserve", "done"}]
    BY DEF TypeOK
  <2>5. events' \in Nat
    BY DEF TypeOK
  <2>6. /\ cycle' \in Pods \cup {NoPod} /\ step' \in Steps /\ feasible' \subseteq Nodes
        /\ asked' \subseteq Planners /\ asking' \in Planners \cup {NoPlanner}
        /\ answers' \subseteq Assignments /\ (cycle' = NoPod <=> step' = "idle")
    BY DEF TypeOK, Steps
  <2> QED BY <2>1, <2>2, <2>3, <2>4, <2>5, <2>6 DEF TypeOK
<1>2. CycleInv'
  BY DEF CycleInv, TypeOK
<1>3. AssignInv'
  BY DEF AssignInv, CycleInv, TypeOK, Assignments
<1>4. GateInv'
  BY DEF Removed, GateInv, TypeOK, NoNodes
<1>5. AgreeInv'
  BY DEF Removed, AgreeInv, AssignInv, CycleInv, TypeOK, Assignments, MaybeNode, NoNodes
<1>6. AskInv'
  BY DEF AskInv, TypeOK
<1> QED BY <1>1, <1>2, <1>3, <1>4, <1>5, <1>6

\* A planner restarts, perhaps while it is asked.
LEMMA PlannerRestartsInv ==
  ASSUME Inv, NEW s \in Planners, PlannerRestarts(s)
  PROVE  Inv'
<1> USE PluginAssumption DEF Inv, PlannerRestarts, PlannerDone, GoTo, Happens,
         plannerVars, cycleVars
<1>0. /\ step' = IF asking = s THEN "ask" ELSE step
      /\ UNCHANGED <<labels, trigger, opened, plan, pods, queue, assignment, host, cycle, feasible>>
  BY DEF TypeOK
<1>1. TypeOK'
  <2>1. podToNodeMap' \in [Planners -> Assignments]
    BY DEF TypeOK, Assignments, MaybeNode, NoNodes
  <2>2. seen' \in [Planners -> [Pods -> {"Pending", "Running", "Deleting"}]]
    BY DEF TypeOK
  <2>3. removing' \in [Planners -> SUBSET Pods]
    BY DEF TypeOK
  <2>4. listed' \in [Pods -> PodRecords]
    BY PendingListed DEF TypeOK
  <2>5. /\ events' \in Nat /\ asked' \subseteq Planners
        /\ asking' \in Planners \cup {NoPlanner} /\ answers' \subseteq Assignments
    BY DEF TypeOK
  <2>6. step' \in Steps /\ (cycle' = NoPod <=> step' = "idle")
    BY <1>0 DEF TypeOK, AskInv, Steps
  <2> QED BY <1>0, <2>1, <2>2, <2>3, <2>4, <2>5, <2>6 DEF TypeOK
<1>2. CycleInv'
  BY <1>0 DEF CycleInv, AskInv, TypeOK
<1>3. AssignInv'
  BY <1>0 DEF AssignInv, AskInv, TypeOK
<1>4. GateInv'
  <2>1. CASE opened
    BY <1>0, <2>1 DEF GateInv
  <2>2. CASE ~opened
    <3>1. podToNodeMap' = podToNodeMap
      BY <2>2 DEF GateInv, TypeOK
    <3> QED BY <1>0, <2>2, <3>1 DEF GateInv, AskInv
  <2> QED BY <2>1, <2>2
<1>5. AgreeInv'
  BY <1>0 DEF AgreeInv, AskInv, TypeOK
<1>6. AskInv'
  BY DEF AskInv, TypeOK
<1> QED BY <1>1, <1>2, <1>3, <1>4, <1>5, <1>6

\* The invariant holds to begin with.
LEMMA InitInv == Init => Inv
<1> USE PluginAssumption
<1> SUFFICES ASSUME Init PROVE Inv
  OBVIOUS
<1>1. TypeOK
  BY PendingListed DEF Init, TypeOK, Assignments, NoNodes, MaybeNode, PodRecords, PendingPod,
     Phases, Steps
<1>2. CycleInv /\ AssignInv
  BY DEF Init, CycleInv, AssignInv, NoNodes
<1>3. GateInv /\ AgreeInv /\ AskInv
  BY DEF Init, GateInv, AgreeInv, AskInv
<1> QED BY <1>1, <1>2, <1>3 DEF Inv

\* A step of a scheduling cycle keeps it.
LEMMA CycleStepInv ==
  ASSUME Inv, Cycle
  PROVE  Inv'
BY GetTriggerInv, CheckPlanInv, LookupInv, NoAnswerInv, InvokeInv, PlannerAnswersInv,
   PlannerFailsInv, ChooseAnswerInv, UpdatePlanInv, UpdatePlanFailsInv, SelectHostInv,
   ReserveInv, ReserveFailsInv DEF Cycle

\* Every step keeps it.
LEMMA NextInv == Inv /\ [Next]_vars => Inv'
<1> SUFFICES ASSUME Inv, [Next]_vars PROVE Inv'
  OBVIOUS
<1>1. ASSUME NEW state \in {"none", "Planning", "Schedule"}, SetTrigger(state) PROVE Inv'
  BY <1>1, SetTriggerInv
<1>2. ASSUME NEW p \in Pods, DeletePod(p) \/ RunPod(p) PROVE Inv'
  BY <1>2, DeletePodInv, RunPodInv
<1>3. ASSUME NEW p \in Pods, NEW nodes \in SUBSET Nodes, StartCycle(p, nodes) PROVE Inv'
  BY <1>3, StartCycleInv
<1>4. ASSUME NEW p \in Pods, PostFilter(p) PROVE Inv'
  BY <1>4, PostFilterInv
<1>5. ASSUME NEW p \in Pods, Binding(p) PROVE Inv'
  BY <1>5, BindInv, BindFailsInv, UnreserveInv DEF Binding
<1>6. CASE Cycle
  BY <1>6, CycleStepInv
<1>7. ASSUME NEW s \in Planners, Planner(s) PROVE Inv'
  BY <1>7, WatchRunningInv, WatchDeletingInv, RemovePodFromPlannerInv DEF Planner
<1>8. ASSUME NEW s \in Planners, PlannerRestarts(s) PROVE Inv'
  BY <1>8, PlannerRestartsInv
<1>9. CASE UNCHANGED vars
  <2>1. TypeOK'
    BY <1>9 DEF Inv, vars, plannerVars, cycleVars, TypeOK
  <2>2. CycleInv' /\ AssignInv'
    BY <1>9 DEF Inv, vars, plannerVars, cycleVars, CycleInv, AssignInv
  <2>3. GateInv' /\ AgreeInv' /\ AskInv'
    BY <1>9 DEF Inv, vars, plannerVars, cycleVars, GateInv, AgreeInv, AskInv
  <2> QED BY <2>1, <2>2, <2>3 DEF Inv
<1> QED BY <1>1, <1>2, <1>3, <1>4, <1>5, <1>6, <1>7, <1>8, <1>9 DEF Next

\* The invariant holds in every reachable state.
THEOREM Invariance == Spec => []Inv
BY InitInv, NextInv, PTL DEF Spec

-----------------------------------------------------------------------------
(* What the invariant gives.                                               *)

\* The state of the scheduler, the planners and the plan is well typed.
THEOREM TypeCorrect == Spec => []TypeOK
<1>1. Inv => TypeOK
  BY DEF Inv
<1> QED BY <1>1, Invariance, PTL

\* Nothing is planned before the trigger was set to Schedule: findFit reads the
\* trigger before a planner is asked or the plan is written.
THEOREM NothingIsPlannedEarly == Spec => []NoPlanBeforeTrigger
<1>1. Inv => NoPlanBeforeTrigger
  BY DEF Inv, GateInv, NoPlanBeforeTrigger
<1> QED BY <1>1, Invariance, PTL

\* Only Reserve moves a pod from its cycle to its binding.
LEMMA OnlyReserveBinds ==
  ASSUME Inv, Next, NEW p \in Pods, queue[p] = "cycle", queue'[p] = "binding"
  PROVE  Reserve
<1> USE DEF Inv
<1>1. cycle = p /\ step # "unreserve" /\ queue \in [Pods -> {"queued", "cycle", "binding",
                                                              "unreserve", "done"}]
  BY DEF CycleInv, TypeOK
<1>2. ASSUME NEW state \in {"none", "Planning", "Schedule"}, SetTrigger(state) PROVE FALSE
  BY <1>2 DEF SetTrigger
<1>3. ASSUME NEW q \in Pods, DeletePod(q) \/ RunPod(q) \/ PostFilter(q) PROVE FALSE
  BY <1>3 DEF DeletePod, RunPod, PostFilter
<1>4. ASSUME NEW q \in Pods, NEW nodes \in SUBSET Nodes, StartCycle(q, nodes) PROVE FALSE
  BY <1>1, <1>4 DEF StartCycle, TypeOK
<1>5. ASSUME NEW q \in Pods, Binding(q) PROVE FALSE
  BY <1>1, <1>5 DEF Binding, Bind, BindFails, Unreserve, EndCycle
<1>6. ASSUME NEW s \in Planners, Planner(s) \/ PlannerRestarts(s) PROVE FALSE
  BY <1>6 DEF Planner, WatchRunning, WatchDeleting, RemovePodFromPlanner, PlannerRestarts,
     PlannerDone, GoTo
<1>7. CASE Cycle
  <2>1. GetTrigger \/ CheckPlan \/ Lookup \/ NoAnswer => queue'[p] # "binding"
    BY <1>1 DEF GetTrigger, CheckPlan, Lookup, NoAnswer, Assign, Found, GoTo, Unschedulable,
       EndCycle
  <2>2. ASSUME NEW a \in answers, ChooseAnswer(a) \/ UpdatePlan(a) \/ UpdatePlanFails(a)
        PROVE  FALSE
    BY <1>1, <2>2 DEF ChooseAnswer, UpdatePlan, UpdatePlanFails, Assign, GoTo, Unschedulable,
       EndCycle
  <2>3. ASSUME NEW s \in Planners, Invoke(s) PROVE FALSE
    BY <2>3 DEF Invoke, GoTo
  <2>4. ASSUME NEW a \in Assignments, PlannerAnswers(a) \/ PlannerFails(a) PROVE FALSE
    BY <2>4 DEF PlannerAnswers, PlannerFails, PlannerDone, GoTo
  <2>5. ASSUME NEW n \in Nodes, SelectHost(n) PROVE FALSE
    BY <2>5 DEF SelectHost, GoTo
  <2>6. ReserveFails => queue'[p] # "binding"
    BY <1>1 DEF ReserveFails
  <2> QED BY <1>7, <2>1, <2>2, <2>3, <2>4, <2>5, <2>6 DEF Cycle
<1> QED BY <1>2, <1>3, <1>4, <1>5, <1>6, <1>7 DEF Next

\* When Reserve lets a pod through, its assignment is the node it is reserved on and
\* the plan has that node or none, whatever was removed from the plan since findFit.
THEOREM ReservesAgree == Spec => ReserveAgrees
<1>1. ASSUME Inv, Next, NEW p \in Pods,
             queue[p] = "cycle", queue'[p] = "binding", assignment'[p] # NoNode
      PROVE  assignment'[p] = host'[p] /\ plan'[p] \in {host'[p], NoNode}
  <2>1. Reserve
    BY <1>1, OnlyReserveBinds
  <2>2. cycle = p
    BY <1>1 DEF Inv, CycleInv
  <2>3. plan \in Assignments /\ assignment \in Assignments /\ host' = host
    BY <1>1, <2>1 DEF Inv, TypeOK, Reserve
  <2>4. CASE assignment[p] \in {NoNode, host[p]}
    BY <1>1, <2>1, <2>2, <2>3, <2>4 DEF Reserve, Inv, AgreeInv
  <2>5. CASE assignment[p] \notin {NoNode, host[p]}
    BY <1>1, <2>1, <2>2, <2>3, <2>5 DEF Reserve, Moved, Assignments, NoNodes
  <2> QED BY <2>4, <2>5
<1>2. Inv /\ [Next]_vars =>
        [\A p \in Pods :
           queue[p] = "cycle" /\ queue'[p] = "binding" /\ assignment'[p] # NoNode
             => assignment'[p] = host'[p] /\ plan'[p] \in {host'[p], NoNode}]_vars
  BY <1>1
<1> QED BY <1>2, Invariance, PTL DEF Spec, ReserveAgrees

=============================================================================
