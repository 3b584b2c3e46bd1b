--------------------------- MODULE SchedulerPlugin ---------------------------
(***************************************************************************)
(* The PodSetPlanner plugin of the scheduler (internal/pkg/scheduler), with*)
(* what it works on: the trigger and the plan of one pod set, the planners *)
(* it asks, and the pods.                                                  *)
(*                                                                         *)
(* The scheduler places one pod at a time: the extension points from       *)
(* PreScore to Reserve run in its one scheduling cycle.  Binding a pod,    *)
(* and Unreserve when that fails, run in a goroutine for each pod, beside  *)
(* later cycles.  Planners watch the pods, and users edit the trigger and  *)
(* delete pods, at any time.                                               *)
(*                                                                         *)
(* The plan is used through the atomic calls of PlanStore.  A planner      *)
(* lists the pods in one step and answers in another; PodSetPlanner has    *)
(* the steps between them.  The filter and score plugins of Kubernetes are *)
(* left open: any nodes may be feasible, and any feasible node may win.    *)
(***************************************************************************)
EXTENDS Naturals, FiniteSets

CONSTANTS Pods,         \* the pods of one namespace
          Nodes,        \* the nodes of the cluster
          NoNode,       \* no node
          NoPod,        \* no pod
          Planners,     \* the services that plan
          NoPlanner,    \* no service
          Deployments,  \* the ways the pods and the services may be labelled
          MaxEvents     \* bound: the trigger changes, pods are deleted, hosts are
                        \* tainted and calls fail this often in all

ASSUME PluginAssumption ==
  /\ NoNode \notin Nodes /\ NoPod \notin Pods /\ NoPlanner \notin Planners
  /\ Deployments \subseteq [pods : SUBSET Pods, own : SUBSET Planners, default : SUBSET Planners]
  /\ MaxEvents \in Nat

VARIABLES labels,        \* the pods of the set, its own and the default planners
          trigger,       \* the state of the set's ScheduleTrigger
          opened,        \* has the trigger ever been in Schedule?
          plan,          \* plan[p]: the node of p in the SchedulePlan
          pods,          \* pods[p]: the pod in the API server
          podToNodeMap,  \* podToNodeMap[s][p]: the node planner s remembers for p
          seen,          \* seen[s][p]: the phase of p that s handled last
          removing,      \* removing[s]: the pods s has yet to delete from the plan
          queue,         \* queue[p]: where the scheduler has the pod
          assignment,    \* assignment[p]: the plugin's assignment state of p
          host,          \* host[p]: the node the scheduler chose for p
          cycle,         \* the pod in the scheduling cycle
          step,          \* where the cycle is
          feasible,      \* the nodes that passed the filters
          asked,         \* the planners that are still to be asked
          asking,        \* the planner being asked
          listed,        \* the pods it listed
          answers,       \* the answers so far
          events         \* how many of the bounded events happened

plannerVars == <<podToNodeMap, seen, removing>>
cycleVars == <<cycle, step, feasible, asked, asking, listed, answers>>
vars == <<labels, trigger, opened, plan, pods, plannerVars, queue, assignment, host,
          cycleVars, events>>

MaybeNode == Nodes \cup {NoNode}
NoNodes == [p \in Pods |-> NoNode]
Assignments == [Pods -> MaybeNode]

\* A pod that runs has reported its host IP.  A pod that was deleted with a node
\* is Deleting, one that was deleted without a node is Gone.
Phases == {"Pending", "Bound", "Running", "Deleting", "Gone"}
PodRecords == [phase : Phases, node : MaybeNode]
PendingPod == [phase |-> "Pending", node |-> NoNode]

Steps == {"idle", "trigger", "check", "lookup", "ask", "answer", "update", "select", "reserve",
          "unreserve"}

TypeOK ==
  /\ labels \in Deployments
  /\ trigger \in {"none", "Planning", "Schedule"}
  /\ opened \in BOOLEAN
  /\ plan \in Assignments
  /\ pods \in [Pods -> PodRecords]
  /\ podToNodeMap \in [Planners -> Assignments]
  /\ seen \in [Planners -> [Pods -> {"Pending", "Running", "Deleting"}]]
  /\ removing \in [Planners -> SUBSET Pods]
  /\ queue \in [Pods -> {"queued", "cycle", "binding", "unreserve", "done"}]
  /\ assignment \in Assignments
  /\ host \in Assignments
  /\ cycle \in Pods \cup {NoPod}
  /\ step \in Steps
  /\ feasible \in SUBSET Nodes
  /\ asked \in SUBSET Planners
  /\ asking \in Planners \cup {NoPlanner}
  /\ listed \in [Pods -> PodRecords]
  /\ answers \in SUBSET Assignments
  /\ events \in Nat
  /\ cycle = NoPod <=> step = "idle"

Init ==
  /\ labels \in Deployments
  /\ trigger \in {"none", "Planning", "Schedule"}
  /\ opened = (trigger = "Schedule")
  /\ plan = NoNodes
  /\ pods = [p \in Pods |-> PendingPod]
  /\ podToNodeMap = [s \in Planners |-> NoNodes]
  /\ seen = [s \in Planners |-> [p \in Pods |-> "Pending"]]
  /\ removing = [s \in Planners |-> {}]
  /\ queue = [p \in Pods |-> "queued"]
  /\ assignment = NoNodes
  /\ host = NoNodes
  /\ cycle = NoPod /\ step = "idle" /\ feasible = {}
  /\ asked = {} /\ asking = NoPlanner /\ answers = {}
  /\ listed = [p \in Pods |-> PendingPod]
  /\ events = 0

-----------------------------------------------------------------------------
(* The users, the kubelets and the binding.                                *)

\* One more of the bounded events: a change of the trigger or the pods by a user,
\* a host that is no longer eligible, or a call or a cycle that fails.
Happens ==
  /\ events < MaxEvents
  /\ events' = events + 1

\* A user or the controller sets the state of the trigger, or deletes it.
SetTrigger(state) ==
  /\ Happens
  /\ trigger # state
  /\ trigger' = state
  /\ opened' = (opened \/ state = "Schedule")
  /\ UNCHANGED <<labels, plan, pods, plannerVars, queue, assignment, host, cycleVars>>

DeletePod(p) ==
  /\ Happens
  /\ pods[p].phase \in {"Pending", "Bound", "Running"}
  /\ pods' = [pods EXCEPT ![p].phase = IF @ = "Pending" THEN "Gone" ELSE "Deleting"]
  /\ UNCHANGED <<labels, trigger, opened, plan, plannerVars, queue, assignment, host, cycleVars>>

RunPod(p) ==
  /\ pods[p].phase = "Bound"
  /\ pods' = [pods EXCEPT ![p].phase = "Running"]
  /\ UNCHANGED <<labels, trigger, opened, plan, plannerVars, queue, assignment, host, cycleVars,
                 events>>

\* The goroutine that binds pod p ends, and with it the cycle state of p.
Forget(p) ==
  /\ assignment' = [assignment EXCEPT ![p] = NoNode]
  /\ host' = [host EXCEPT ![p] = NoNode]

\* The pod is bound to the node that was reserved for it.
Bind(p) ==
  /\ queue[p] = "binding"
  /\ pods[p].phase = "Pending"
  /\ pods' = [pods EXCEPT ![p] = [phase |-> "Bound", node |-> host[p]]]
  /\ queue' = [queue EXCEPT ![p] = "done"]
  /\ Forget(p)
  /\ UNCHANGED <<labels, trigger, opened, plan, plannerVars, cycleVars, events>>

\* The pod is gone, or the call fails, or another plugin refuses the node.
BindFails(p) ==
  /\ queue[p] = "binding"
  /\ \/ pods[p].phase # "Pending" /\ UNCHANGED events
     \/ Happens
  /\ queue' = [queue EXCEPT ![p] = "unreserve"]
  /\ UNCHANGED <<labels, trigger, opened, plan, pods, plannerVars, assignment, host, cycleVars>>

-----------------------------------------------------------------------------
(* The calls of the plan, as PlanStore allows them.                        *)

\* PlannerService.Update: an answer that the plan does not hold becomes the plan.
Updated(a) ==
  IF \A p \in Pods : a[p] # NoNode => plan[p] = a[p] THEN plan ELSE a

\* Mutant: the pod's name is passed in place of the node's.
MovedToName(p, n) ==
  IF plan = NoNodes \/ plan[p] # NoNode THEN [plan EXCEPT ![p] = p] ELSE plan

\* PlannerService.UpdateAssignment: the pod's assignment is moved.  A plan without
\* the pod is left alone, and where there is none it is created.
Moved(p, n) ==
  IF plan = NoNodes \/ plan[p] # NoNode THEN [plan EXCEPT ![p] = n] ELSE plan

\* PlannerService.Delete: the pod's assignment is taken out, or with it the whole
\* resource, when nothing else was in the plan that was read.
Removed(p) == {[plan EXCEPT ![p] = NoNode], NoNodes}

-----------------------------------------------------------------------------
(* The planners.                                                           *)

\* What planner s can use of the pods it listed: no pod that is going away.
Live(p) == p \in labels.pods /\ listed[p].phase \in {"Pending", "Bound", "Running"}

\* Does planner s answer with a for the pod in the cycle?  A pod it remembers gets
\* the same node again, the pod being scheduled gets one of the nodes it is offered,
\* and any other pod any node or none.  So does a pod that runs, when its host is
\* not eligible now; else it keeps its host.
PlansFor(s, a) ==
  \A p \in Pods :
    /\ ~Live(p) => a[p] = NoNode
    /\ Live(p) /\ listed[p].phase # "Running" /\ podToNodeMap[s][p] # NoNode
         => a[p] = podToNodeMap[s][p]
    /\ Live(p) /\ listed[p].phase # "Running" /\ podToNodeMap[s][p] = NoNode /\ p = cycle
         => a[p] \in feasible \cup {NoNode}

\* Does pod p keep the host it runs on?
Stays(p, a) == listed[p].phase = "Running" /\ a[p] = listed[p].node

\* Planner s remembers the nodes it gave to pods, and not the hosts they keep.
Remembered(s, a) ==
  [podToNodeMap EXCEPT ![s] =
     [p \in Pods |-> IF a[p] # NoNode /\ ~Stays(p, a) THEN a[p] ELSE @[p]]]

\* The watch of planner s delivers a pod that runs: it is forgotten.
WatchRunning(s, p) ==
  /\ p \in labels.pods
  /\ pods[p].phase = "Running" /\ seen[s][p] = "Pending"
  /\ seen' = [seen EXCEPT ![s][p] = "Running"]
  /\ podToNodeMap' = [podToNodeMap EXCEPT ![s][p] = NoNode]
  /\ UNCHANGED <<labels, trigger, opened, plan, pods, removing, queue, assignment, host,
                 cycleVars, events>>

\* It delivers a pod that is being deleted: it is forgotten, and to be removed.  An
\* update that shows at once that the pod runs and that it is being deleted is
\* handled as that of a pod that runs.
WatchDeleting(s, p) ==
  /\ p \in labels.pods
  /\ pods[p].phase = "Deleting" /\ seen[s][p] # "Deleting"
  /\ seen' = [seen EXCEPT ![s][p] = "Deleting"]
  /\ podToNodeMap' = [podToNodeMap EXCEPT ![s][p] = NoNode]
  /\ \/ removing' = [removing EXCEPT ![s] = @ \cup {p}]
     \/ seen[s][p] = "Pending" /\ UNCHANGED removing
  /\ UNCHANGED <<labels, trigger, opened, plan, pods, queue, assignment, host, cycleVars,
                 events>>

\* The planner removes the pod from the plan, at once or in a retry; a Get that
\* fails ends the attempts.
RemovePodFromPlanner(s, p) ==
  /\ p \in removing[s]
  /\ removing' = [removing EXCEPT ![s] = @ \ {p}]
  /\ \/ plan' \in Removed(p) /\ UNCHANGED events
     \/ UNCHANGED plan /\ Happens
  /\ UNCHANGED <<labels, trigger, opened, pods, podToNodeMap, seen, queue, assignment, host,
                 cycleVars>>

-----------------------------------------------------------------------------
(* The scheduling cycle.                                                   *)

\* The cycle of a pod ends, with the pod where.
EndCycle(where) ==
  /\ queue' = [queue EXCEPT ![cycle] = where]
  /\ cycle' = NoPod /\ step' = "idle" /\ feasible' = {}
  /\ asked' = {} /\ asking' = NoPlanner /\ answers' = {}
  /\ listed' = [p \in Pods |-> PendingPod]

\* The cycle goes on at another step.
GoTo(s) ==
  /\ step' = s
  /\ UNCHANGED <<queue, cycle, feasible>>

\* No call of a planner is under way.
NotAsking == UNCHANGED <<asked, asking, listed, answers>>

\* The scheduler takes a pod from its queue, and some nodes pass its filters.  A
\* single one is taken without PreScore and Score.  PreScore lets a pod outside of
\* pod sets through, and begins findFit for the others.
StartCycle(p, nodes) ==
  /\ cycle = NoPod
  /\ queue[p] = "queued" /\ pods[p].phase = "Pending"
  /\ nodes # {}
  /\ cycle' = p
  /\ queue' = [queue EXCEPT ![p] = "cycle"]
  /\ feasible' = nodes
  /\ IF Cardinality(nodes) = 1
       THEN /\ step' = "reserve"
            /\ host' = [host EXCEPT ![p] = CHOOSE n \in nodes : TRUE]
       ELSE /\ step' = IF p \in labels.pods THEN "trigger" ELSE "select"
            /\ UNCHANGED host
  /\ NotAsking
  /\ UNCHANGED <<labels, trigger, opened, plan, pods, plannerVars, assignment, events>>

\* No node passes.  The cycle has no assignment state, so PostFilter nominates
\* no node and the pod goes back to the queue.
PostFilter(p) ==
  /\ cycle = NoPod
  /\ queue[p] = "queued" /\ pods[p].phase = "Pending"
  /\ Happens
  /\ UNCHANGED <<labels, trigger, opened, plan, pods, plannerVars, queue, assignment, host,
                 cycleVars>>

\* PreScore answers Unschedulable.
Unschedulable ==
  /\ EndCycle("queued")
  /\ UNCHANGED <<assignment, host>>

\* Mutant: a pod whose set has no trigger may be placed.
TriggerAllowsAbsent == trigger # "Planning"

TriggerAllows == trigger = "Schedule"

\* findFit gets the trigger; a pod is assigned when it says Schedule.
GetTrigger ==
  /\ step = "trigger"
  /\ \/ TriggerAllows /\ GoTo("check") /\ NotAsking /\ UNCHANGED <<assignment, host, events>>
     \/ ~TriggerAllows /\ Unschedulable /\ UNCHANGED events
     \/ Happens /\ Unschedulable
  /\ UNCHANGED <<labels, trigger, opened, plan, pods, plannerVars>>

\* The pod has a node: its assignment state is written, and the nodes are scored.
Assign(n) ==
  /\ assignment' = [assignment EXCEPT ![cycle] = n]
  /\ GoTo("select")
  /\ asked' = {} /\ asking' = NoPlanner /\ answers' = {}
  /\ listed' = [p \in Pods |-> PendingPod]
  /\ UNCHANGED host

\* findFit looks the pod up in the plan; the planned node is used when it is
\* feasible.  A check that fails is taken for a pod that is not in the plan.
CheckPlan ==
  /\ step = "check"
  /\ \/ plan[cycle] \in feasible /\ Assign(plan[cycle]) /\ UNCHANGED events
     \/ /\ \/ plan[cycle] \notin feasible /\ UNCHANGED events
           \/ Happens
        /\ GoTo("lookup") /\ NotAsking /\ UNCHANGED <<assignment, host>>
  /\ UNCHANGED <<labels, trigger, opened, plan, pods, plannerVars>>

\* The planners found are asked; without any, the pod is left to the scheduler.
Found(found) ==
  /\ GoTo(IF found = {} THEN "select" ELSE "ask")
  /\ asked' = found
  /\ UNCHANGED <<asking, listed, answers, assignment, host>>

\* Lookup: the set's own planners, and when there is none or the list fails, the
\* default ones.
Lookup ==
  /\ step = "lookup"
  /\ \/ labels.own # {} /\ Found(labels.own) /\ UNCHANGED events
     \/ labels.own = {} /\ Found(labels.default) /\ UNCHANGED events
     \/ Happens /\ Found(labels.default)
     \/ Happens /\ Unschedulable
  /\ UNCHANGED <<labels, trigger, opened, plan, pods, plannerVars>>

\* Invoke asks the planners one after the other; each lists the pods ...
Invoke(s) ==
  /\ step = "ask"
  /\ s \in asked
  /\ asking' = s
  /\ asked' = asked \ {s}
  /\ listed' = pods
  /\ GoTo("answer")
  /\ UNCHANGED <<labels, trigger, opened, plan, pods, plannerVars, assignment, host, answers,
                 events>>

\* The planner is done, and the next one may be asked.
PlannerDone(a) ==
  /\ answers' = answers \cup a
  /\ asking' = NoPlanner
  /\ listed' = [p \in Pods |-> PendingPod]
  /\ GoTo("ask")
  /\ UNCHANGED <<labels, trigger, opened, plan, pods, assignment, host, asked>>

\* Does the answer leave the pod in the cycle without a node, or a pod that runs
\* without its host?
Disturbed(a) ==
  \/ Live(cycle) /\ a[cycle] = NoNode
  \/ \E p \in Pods : Live(p) /\ listed[p].phase = "Running" /\ ~Stays(p, a)

\* ... and answers with its assignments, the pod in the cycle among them, ...
PlannerAnswers(a) ==
  /\ step = "answer"
  /\ PlansFor(asking, a)
  /\ podToNodeMap' = Remembered(asking, a)
  /\ IF Disturbed(a) THEN Happens ELSE UNCHANGED events
  /\ PlannerDone({a})
  /\ UNCHANGED <<seen, removing>>

\* ... or fails, perhaps after it remembered an answer that nobody gets.
PlannerFails(a) ==
  /\ step = "answer"
  /\ PlansFor(asking, a)
  /\ podToNodeMap' \in {podToNodeMap, Remembered(asking, a)}
  /\ Happens
  /\ PlannerDone({})
  /\ UNCHANGED <<seen, removing>>

\* Every planner was asked.  Each plan gets a random reward, and the best is taken.
ChooseAnswer(a) ==
  /\ step = "ask" /\ asked = {}
  /\ a \in answers
  /\ IF a[cycle] = NoNode
       THEN Unschedulable
       ELSE /\ answers' = {a}
            /\ GoTo("update")
            /\ UNCHANGED <<asked, asking, listed, assignment, host>>
  /\ UNCHANGED <<labels, trigger, opened, plan, pods, plannerVars, events>>

\* None of them answered.
NoAnswer ==
  /\ step = "ask" /\ asked = {} /\ answers = {}
  /\ Unschedulable
  /\ UNCHANGED <<labels, trigger, opened, plan, pods, plannerVars, events>>

\* findFit writes the answer to the plan.
UpdatePlan(a) ==
  /\ step = "update"
  /\ a \in answers
  /\ plan' = Updated(a)
  /\ Assign(a[cycle])
  /\ UNCHANGED <<labels, trigger, opened, pods, plannerVars, events>>

\* The update is refused, or only its answer is lost.
UpdatePlanFails(a) ==
  /\ step = "update"
  /\ a \in answers
  /\ plan' \in {plan, Updated(a)}
  /\ Happens
  /\ Unschedulable
  /\ UNCHANGED <<labels, trigger, opened, pods, plannerVars>>

\* Score prefers the assigned node, and other plugins may prefer another.
SelectHost(n) ==
  /\ step = "select"
  /\ n \in feasible
  /\ host' = [host EXCEPT ![cycle] = n]
  /\ GoTo("reserve")
  /\ NotAsking
  /\ UNCHANGED <<labels, trigger, opened, plan, pods, plannerVars, assignment, events>>

\* Mutant: Reserve takes the other node and leaves the plan alone.
ReserveKeepsPlan ==
  /\ step = "reserve"
  /\ assignment' = [assignment EXCEPT ![cycle] = IF @ = NoNode THEN NoNode ELSE host[cycle]]
  /\ EndCycle("binding")
  /\ UNCHANGED <<labels, trigger, opened, plan, pods, plannerVars, host, events>>

\* Mutant: Reserve refuses a node that is not the assigned one.
ReserveRefuses ==
  /\ step = "reserve"
  /\ IF assignment[cycle] \in {NoNode, host[cycle]}
       THEN EndCycle("binding") /\ UNCHANGED <<assignment, host>>
       ELSE EndCycle("queued") /\ Forget(cycle)
  /\ UNCHANGED <<labels, trigger, opened, plan, pods, plannerVars, events>>

\* Reserve: without an assignment state there is nothing to do; when the node is
\* not the assigned one, the plan is told.  The binding cycle begins.
Reserve ==
  /\ step = "reserve"
  /\ IF assignment[cycle] \in {NoNode, host[cycle]}
       THEN UNCHANGED <<plan, assignment>>
       ELSE /\ plan' = Moved(cycle, host[cycle])
            /\ assignment' = [assignment EXCEPT ![cycle] = host[cycle]]
  /\ EndCycle("binding")
  /\ UNCHANGED <<labels, trigger, opened, pods, plannerVars, host, events>>

\* The update of the plan fails, and so does Reserve.
ReserveFails ==
  /\ step = "reserve"
  /\ assignment[cycle] \notin {NoNode, host[cycle]}
  /\ Happens
  /\ plan' \in {plan, Moved(cycle, host[cycle])}
  /\ queue' = [queue EXCEPT ![cycle] = "unreserve"]
  /\ step' = "unreserve"
  /\ NotAsking
  /\ UNCHANGED <<labels, trigger, opened, pods, plannerVars, assignment, host, cycle, feasible>>

\* Unreserve removes the pod from the plan, if it has an assignment state; a call
\* that fails is not repeated.  Then the pod goes back to the queue.
Unreserve(p) ==
  LET where == IF pods[p].phase = "Pending" THEN "queued" ELSE "done"
  IN  /\ queue[p] = "unreserve"
      /\ \/ assignment[p] # NoNode /\ plan # NoNodes /\ plan' \in Removed(p) /\ UNCHANGED events
         \/ assignment[p] = NoNode /\ UNCHANGED <<plan, events>>
         \/ plan = NoNodes /\ UNCHANGED <<plan, events>>
         \/ assignment[p] # NoNode /\ Happens /\ plan' \in {plan} \cup Removed(p)
      /\ Forget(p)
      /\ IF cycle = p
           THEN EndCycle(where)
           ELSE queue' = [queue EXCEPT ![p] = where] /\ UNCHANGED cycleVars
      /\ UNCHANGED <<labels, trigger, opened, pods, plannerVars>>

\* A planner is killed and starts again.  A request it has fails.
PlannerRestarts(s) ==
  /\ Happens
  /\ podToNodeMap' = [podToNodeMap EXCEPT ![s] = NoNodes]
  /\ seen' = [seen EXCEPT ![s] =
                [p \in Pods |-> IF pods[p].phase \in {"Running", "Deleting"} THEN pods[p].phase
                                ELSE "Pending"]]
  /\ removing' = [removing EXCEPT ![s] = {}]
  /\ IF asking = s
       THEN PlannerDone({})
       ELSE UNCHANGED <<labels, trigger, opened, plan, pods, queue, assignment, host, cycleVars>>

-----------------------------------------------------------------------------

\* A step of the scheduling cycle, after it has begun.
Cycle ==
  \/ GetTrigger \/ CheckPlan \/ Lookup \/ NoAnswer
  \/ \E s \in Planners : Invoke(s)
  \/ \E a \in Assignments : PlannerAnswers(a) \/ PlannerFails(a)
  \/ \E a \in answers : ChooseAnswer(a) \/ UpdatePlan(a) \/ UpdatePlanFails(a)
  \/ \E n \in Nodes : SelectHost(n)
  \/ Reserve \/ ReserveFails

\* A step of the goroutine that binds pod p.
Binding(p) == Bind(p) \/ BindFails(p) \/ Unreserve(p)

\* A step of planner s outside of a request.
Planner(s) ==
  \E p \in Pods : WatchRunning(s, p) \/ WatchDeleting(s, p) \/ RemovePodFromPlanner(s, p)

Next ==
  \/ \E state \in {"none", "Planning", "Schedule"} : SetTrigger(state)
  \/ \E p \in Pods :
       \/ DeletePod(p) \/ RunPod(p)
       \/ \E nodes \in SUBSET Nodes : StartCycle(p, nodes)
       \/ PostFilter(p)
       \/ Binding(p)
  \/ Cycle
  \/ \E s \in Planners : Planner(s) \/ PlannerRestarts(s)

Spec == Init /\ [][Next]_vars

(***************************************************************************)
(* The scheduling cycle and the binding goroutines go on.  A pod that waits*)
(* gets its cycle again and again, for the queue is served in the order of *)
(* the last attempt: strong fairness, because the cycle is taken by other  *)
(* pods in between.  The users, the kubelets and the watch are not fair.   *)
(***************************************************************************)
Fairness ==
  /\ WF_vars(Cycle)
  /\ \A p \in Pods : /\ SF_vars(\E nodes \in SUBSET Nodes : StartCycle(p, nodes))
                     /\ WF_vars(Binding(p))

FairSpec == Spec /\ Fairness

-----------------------------------------------------------------------------
(* Properties.                                                             *)

(***************************************************************************)
(* Nothing is planned for a pod set, by a planner or in the SchedulePlan,  *)
(* before the trigger was set to Schedule (findFit reads it before the     *)
(* planners are asked, and the plan is written several calls later).       *)
(***************************************************************************)
NoPlanBeforeTrigger ==
  ~opened => plan = NoNodes /\ podToNodeMap = [s \in Planners |-> NoNodes]

(***************************************************************************)
(* When Reserve lets a pod with an assignment through, the assignment is   *)
(* the node the pod is reserved on, and the plan has that node or none for *)
(* it.  The plan was read or written several steps before, and binding     *)
(* goroutines and planners have removed pods from it since.                *)
(***************************************************************************)
ReserveAgrees ==
  [][\A p \in Pods :
       queue[p] = "cycle" /\ queue'[p] = "binding" /\ assignment'[p] # NoNode
         => assignment'[p] = host'[p] /\ plan'[p] \in {host'[p], NoNode}
    ]_vars

(***************************************************************************)
(* When the trigger stays in Schedule every pod that is not deleted gets   *)
(* its node, after however many failed calls, planners that forgot, nodes  *)
(* that are no longer feasible and bindings that failed.                   *)
(***************************************************************************)
PodsAreScheduled ==
  \A p \in Pods : <>[](trigger = "Schedule") => <>(pods[p].phase # "Pending")

(***************************************************************************)
(* "**Planning** - indicates that the pods in the set will not be assigned *)
(* to a node and the pod will remain in the `Pending` state"               *)
(* (README.md:33-34).  The trigger is read in PreScore, which the          *)
(* scheduler skips when a single node is feasible.                         *)
(***************************************************************************)
PlanningPodsWait ==
  [][\A p \in labels.pods :
       pods[p].phase = "Pending" /\ pods'[p].phase = "Bound" => trigger # "Planning"
    ]_vars

(***************************************************************************)
(* "The plan has the node assignments that were planned for the podset.    *)
(* This has to match the scheduler assignments for the podset."            *)
(* (QUICKSTART.md:176-177).  When every pod runs nothing changes the plan  *)
(* any more, and it may have another node for a pod that was bound without *)
(* an assignment state, or moved by Reserve behind the planner's back.     *)
(***************************************************************************)
PlanMatchesBinding ==
  (\A p \in Pods : pods[p].phase = "Running")
    => \A p \in labels.pods : plan[p] \in {pods[p].node, NoNode}

=============================================================================
