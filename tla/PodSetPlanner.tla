----------------------------- MODULE PodSetPlanner -----------------------------
(***************************************************************************)
(* The planner of pod sets (internal/pkg/planner): a gRPC service that     *)
(* answers BuildSchedulePlan with nodes for the pods of a set, and         *)
(* remembers them in podToNodeMap until it sees the pod run or go away.    *)
(*                                                                         *)
(* Four kinds of processes interleave: the handlers of concurrent requests,*)
(* the handler of the pod watch, the worker of the retry queue, and the    *)
(* cluster (users, kubelets, the scheduler's binding).  A request lists    *)
(* the pods and reads the nodes before it takes the planner's mutex; the   *)
(* watch handler deletes a pod from the SchedulePlan with the mutex held.  *)
(*                                                                         *)
(* The SchedulePlan is used through the atomic calls of PlanStore, which   *)
(* SchedulePlanClient implements.  Which nodes pass the filter predicates  *)
(* and which one scores best is left open.                                 *)
(***************************************************************************)
EXTENDS Naturals

CONSTANTS Callers,     \* the requests that can be under way at a time
          Pods,        \* the names of the pods of one pod set
          Nodes,       \* the nodes of the cluster
          NoNode,      \* no node
          Free,        \* the mutex is free
          Watch,       \* the handler of the pod watch, as a holder of the mutex
          ApiFaults,   \* may a request to the API server fail?
          MaxChanges,  \* bound: pods and nodes change this often
          MaxRequests, \* bound: this many requests are made
          MaxCrashes   \* bound: the planner restarts this often

ASSUME PlannerAssumption ==
  /\ Pods # {} /\ NoNode \notin Nodes
  /\ Free \notin Callers /\ Watch \notin Callers /\ Free # Watch
  /\ ApiFaults \in BOOLEAN
  /\ MaxChanges \in Nat /\ MaxRequests \in Nat /\ MaxCrashes \in Nat

VARIABLES pods,          \* pods[p]: the pod of that name in the API server
          seen,          \* seen[p]: the pod the watch delivered last
          taints,        \* taints[n]: the effects of the taints of node n
          plan,          \* plan[p]: the node of p in the SchedulePlan
          podToNodeMap,  \* podToNodeMap[p]: the node the planner gave p
          mutex,         \* who holds the planner's mutex
          removing,      \* the pod the watch handler is removing from the plan
          updateQueue,   \* the pods whose removal is to be retried
          step,          \* step[c]: where the handler of request c is
          scheduledPod,  \* scheduledPod[c]: the pod the scheduler is placing
          eligibleNodes, \* eligibleNodes[c]: the nodes the scheduler offers for it
          podList,       \* podList[c]: the pods c listed
          allEligible,   \* allEligible[c]: the nodes c found without taints
          todo,          \* todo[c]: the pods c has not planned yet
          current,       \* current[c]: the pod c is finding a node for
          assignmentMap, \* assignmentMap[c]: the answer of c
          changes, requests, crashes  \* how often the bounded events happened

plannerVars == <<seen, podToNodeMap, mutex, removing, updateQueue>>
callVars == <<step, scheduledPod, eligibleNodes, podList, allEligible, todo, current,
              assignmentMap>>
countVars == <<changes, requests, crashes>>
vars == <<pods, taints, plan, plannerVars, callVars, countVars>>

MaybeNode == Nodes \cup {NoNode}
NoNodes == [p \in Pods |-> NoNode]

\* A pod that has a node has a host IP, by which the planner finds the node.
PodRecords == [phase : {"Absent", "Pending", "Running", "Failed"}, deleting : BOOLEAN,
               node : MaybeNode, uid : Nat]
AbsentPod(u) == [phase |-> "Absent", deleting |-> FALSE, node |-> NoNode, uid |-> u]
PendingPod == [phase |-> "Pending", deleting |-> FALSE, node |-> NoNode, uid |-> 0]
Exists(pod) == pod.phase # "Absent"

\* A removal: a pod of a name, which the planner's call knows by its name only.
Removals == [pod : Pods, uid : Nat]

\* The effects of a node's taints: none, or ones that forbid scheduling, with or
\* without one that prefers otherwise.  (The latter alone makes no difference.)
TaintSets == {{}, {"NoSchedule"}, {"NoSchedule", "PreferNoSchedule"}}

TypeOK ==
  /\ pods \in [Pods -> PodRecords]
  /\ seen \in [Pods -> PodRecords]
  /\ taints \in [Nodes -> TaintSets]
  /\ plan \in [Pods -> MaybeNode]
  /\ podToNodeMap \in [Pods -> MaybeNode]
  /\ mutex \in Callers \cup {Free, Watch}
  /\ removing \in SUBSET Removals
  /\ updateQueue \in SUBSET Removals
  /\ step \in [Callers -> {"idle", "list", "nodes", "lock", "plan", "score", "answered"}]
  /\ scheduledPod \in [Callers -> Pods]
  /\ eligibleNodes \in [Callers -> SUBSET Nodes]
  /\ podList \in [Callers -> [Pods -> PodRecords]]
  /\ allEligible \in [Callers -> SUBSET Nodes]
  /\ todo \in [Callers -> SUBSET Pods]
  /\ current \in [Callers -> Pods]
  /\ assignmentMap \in [Callers -> [Pods -> MaybeNode]]
  /\ changes \in Nat /\ requests \in Nat /\ crashes \in Nat

AnyPod == CHOOSE p \in Pods : TRUE

\* NewPlanner: nothing is planned, and the watch has delivered nothing.
NewPlanner ==
  /\ seen = [p \in Pods |-> AbsentPod(0)]
  /\ podToNodeMap = NoNodes
  /\ mutex = Free
  /\ removing = {}
  /\ updateQueue = {}

NoCalls ==
  /\ step = [c \in Callers |-> "idle"]
  /\ scheduledPod = [c \in Callers |-> AnyPod]
  /\ eligibleNodes = [c \in Callers |-> {}]
  /\ podList = [c \in Callers |-> [p \in Pods |-> AbsentPod(0)]]
  /\ allEligible = [c \in Callers |-> {}]
  /\ todo = [c \in Callers |-> {}]
  /\ current = [c \in Callers |-> AnyPod]
  /\ assignmentMap = [c \in Callers |-> NoNodes]

Init ==
  /\ pods \in [Pods -> {AbsentPod(0), PendingPod}]
  /\ taints = [n \in Nodes |-> {}]
  /\ plan = NoNodes
  /\ NewPlanner
  /\ NoCalls
  /\ changes = 0 /\ requests = 0 /\ crashes = 0

-----------------------------------------------------------------------------
(* The cluster: users, the scheduler's binding, kubelets, taints.          *)

ChangePod(p, phase, deleting, node, uid) ==
  /\ changes < MaxChanges
  /\ changes' = changes + 1
  /\ pods' = [pods EXCEPT ![p] =
                [phase |-> phase, deleting |-> deleting, node |-> node, uid |-> uid]]
  /\ UNCHANGED <<taints, plan, plannerVars, callVars, requests, crashes>>

CreatePod(p) ==
  /\ ~Exists(pods[p])
  /\ ChangePod(p, "Pending", FALSE, NoNode, pods[p].uid + 1)

\* The pod is bound and its host IP reported.  The plugin only scores nodes:
\* the scheduler may bind the pod to any.
BindPod(p, n) ==
  /\ pods[p].phase = "Pending" /\ pods[p].node = NoNode
  /\ ChangePod(p, "Pending", FALSE, n, pods[p].uid)

RunPod(p) ==
  /\ pods[p].phase = "Pending" /\ pods[p].node # NoNode
  /\ ChangePod(p, "Running", pods[p].deleting, pods[p].node, pods[p].uid)

FailPod(p) ==
  /\ pods[p].phase \in {"Pending", "Running"} /\ pods[p].node # NoNode
  /\ ChangePod(p, "Failed", pods[p].deleting, pods[p].node, pods[p].uid)

\* A pod with a node is given time to end; a pod without one is gone at once.
DeletePod(p) ==
  /\ Exists(pods[p]) /\ ~pods[p].deleting
  /\ IF pods[p].node # NoNode
       THEN ChangePod(p, pods[p].phase, TRUE, pods[p].node, pods[p].uid)
       ELSE ChangePod(p, "Absent", FALSE, NoNode, pods[p].uid)

PodEnds(p) ==
  /\ pods[p].deleting
  /\ ChangePod(p, "Absent", FALSE, NoNode, pods[p].uid)

Taint(n, effects) ==
  /\ changes < MaxChanges
  /\ changes' = changes + 1
  /\ taints' = [taints EXCEPT ![n] = effects]
  /\ UNCHANGED <<pods, plan, plannerVars, callVars, requests, crashes>>

Cluster ==
  \/ \E p \in Pods : \/ CreatePod(p) \/ RunPod(p) \/ FailPod(p) \/ DeletePod(p) \/ PodEnds(p)
                     \/ \E n \in Nodes : BindPod(p, n)
  \/ \E n \in Nodes, effects \in TaintSets : Taint(n, effects)

-----------------------------------------------------------------------------
(* The pod watch: handlePodUpdate.                                         *)

\* Mutant: handlePodUpdate does not take the mutex.
HandlerMayRunUnlocked == TRUE

\* The handler takes the mutex.
HandlerMayRun == mutex = Free

\* The pod runs: the planner forgets its node.
BeganRunning(old, new) == old.phase # "Running" /\ new.phase = "Running"

\* The pod is being deleted.  A pod that began to run as well is not looked at.
BeganDeleting(old, new) == ~BeganRunning(old, new) /\ ~old.deleting /\ new.deleting

\* The planner has no handler for pods that are added and pods that are gone.
WatchIgnores(p) ==
  /\ seen[p] # pods[p]
  /\ removing = {}
  /\ ~Exists(seen[p]) \/ ~Exists(pods[p])
  /\ seen' = [seen EXCEPT ![p] = pods[p]]
  /\ UNCHANGED <<pods, taints, plan, podToNodeMap, mutex, removing, updateQueue, callVars,
                 countVars>>

\* updateFunc: the watch delivers a changed pod, perhaps after skipping states
\* of it, or a new pod in place of an old one of the same name.
HandlePodUpdate(p) ==
  LET old == seen[p]
      new == pods[p]
  IN  /\ old # new
      /\ removing = {}
      /\ Exists(old) /\ Exists(new)
      /\ HandlerMayRun
      /\ seen' = [seen EXCEPT ![p] = new]
      /\ podToNodeMap' = IF BeganRunning(old, new) \/ BeganDeleting(old, new)
                           THEN [podToNodeMap EXCEPT ![p] = NoNode]
                           ELSE podToNodeMap
      /\ IF BeganDeleting(old, new)
           THEN mutex' = Watch /\ removing' = {[pod |-> p, uid |-> new.uid]}
           ELSE UNCHANGED <<mutex, removing>>
      /\ UNCHANGED <<pods, taints, plan, updateQueue, callVars, countVars>>

(***************************************************************************)
(* A Delete call of the plan client, as PlanStore allows it: it may take   *)
(* the whole resource away when it read no other pod.  "retry" is a write  *)
(* that was refused, because the plan has changed or gone since it was     *)
(* read, or whose answer was lost; "error" is a Get that failed, which a   *)
(* plan that is gone makes it do.                                          *)
(***************************************************************************)
DeleteFromPlan(p, res) ==
  \/ /\ res = "ok" /\ plan # NoNodes
     /\ plan' \in {[plan EXCEPT ![p] = NoNode], NoNodes}
  \/ /\ res = "retry"
     /\ plan' \in {plan} \cup (IF ApiFaults THEN {[plan EXCEPT ![p] = NoNode], NoNodes} ELSE {})
  \/ /\ res = "error" /\ (plan = NoNodes \/ ApiFaults)
     /\ UNCHANGED plan

\* Mutant: the handler returns with the mutex held when the call failed.
RemovePodFromPlannerLocked(r, res) ==
  /\ r \in removing
  /\ DeleteFromPlan(r.pod, res)
  /\ removing' = {}
  /\ mutex' = IF res = "retry" THEN Watch ELSE Free
  /\ updateQueue' = IF res = "retry" THEN updateQueue \cup {r} ELSE updateQueue
  /\ UNCHANGED <<pods, taints, seen, podToNodeMap, callVars, countVars>>

\* Mutant: the name of the pod is queued, not the work item.
RemovePodFromPlannerByName(r, res) ==
  /\ r \in removing
  /\ DeleteFromPlan(r.pod, res)
  /\ removing' = {}
  /\ mutex' = Free
  /\ updateQueue' = IF res = "retry" THEN updateQueue \cup {r.pod} ELSE updateQueue
  /\ UNCHANGED <<pods, taints, seen, podToNodeMap, callVars, countVars>>

\* removePodFromPlanner: the call is made with the mutex held, and queued for a
\* retry when its write failed.  The handler returns.
RemovePodFromPlanner(r, res) ==
  /\ r \in removing
  /\ DeleteFromPlan(r.pod, res)
  /\ removing' = {}
  /\ mutex' = Free
  /\ updateQueue' = IF res = "retry" THEN updateQueue \cup {r} ELSE updateQueue
  /\ UNCHANGED <<pods, taints, seen, podToNodeMap, callVars, countVars>>

\* Mutant: an item that failed again is not put back.
ProcessUpdateForgets(r, res) ==
  /\ r \in updateQueue
  /\ DeleteFromPlan(r.pod, res)
  /\ updateQueue' = updateQueue \ {r}
  /\ UNCHANGED <<pods, taints, seen, podToNodeMap, mutex, removing, callVars, countVars>>

\* processUpdate: the worker repeats the call; an item that fails goes back.
ProcessUpdate(r, res) ==
  /\ r \in updateQueue
  /\ DeleteFromPlan(r.pod, res)
  /\ updateQueue' = IF res = "retry" THEN updateQueue ELSE updateQueue \ {r}
  /\ UNCHANGED <<pods, taints, seen, podToNodeMap, mutex, removing, callVars, countVars>>

-----------------------------------------------------------------------------
(* A request: BuildSchedulePlan and BuildPlan.                             *)

\* The scheduler asks for a plan, with the pod it places and the nodes for it.
Request(c, p, eligible) ==
  /\ step[c] = "idle"
  /\ requests < MaxRequests
  /\ pods[p].phase = "Pending" /\ pods[p].node = NoNode
  /\ requests' = requests + 1
  /\ step' = [step EXCEPT ![c] = "list"]
  /\ scheduledPod' = [scheduledPod EXCEPT ![c] = p]
  /\ eligibleNodes' = [eligibleNodes EXCEPT ![c] = eligible]
  /\ UNCHANGED <<pods, taints, plan, plannerVars, podList, allEligible, todo, current,
                 assignmentMap, changes, crashes>>

\* The handler of c is done, and its local variables are gone.
EndCall(c) ==
  /\ step' = [step EXCEPT ![c] = "idle"]
  /\ scheduledPod' = [scheduledPod EXCEPT ![c] = AnyPod]
  /\ eligibleNodes' = [eligibleNodes EXCEPT ![c] = {}]
  /\ podList' = [podList EXCEPT ![c] = [p \in Pods |-> AbsentPod(0)]]
  /\ allEligible' = [allEligible EXCEPT ![c] = {}]
  /\ todo' = [todo EXCEPT ![c] = {}]
  /\ current' = [current EXCEPT ![c] = AnyPod]
  /\ assignmentMap' = [assignmentMap EXCEPT ![c] = NoNodes]

\* The pods of the set are listed, from the API server.
ListPods(c) ==
  /\ step[c] = "list"
  /\ podList' = [podList EXCEPT ![c] = pods]
  /\ step' = [step EXCEPT ![c] = "nodes"]
  /\ UNCHANGED <<pods, taints, plan, plannerVars, scheduledPod, eligibleNodes, allEligible, todo,
                 current, assignmentMap, countVars>>

\* The list fails, and with it the request.
ListPodsFails(c) ==
  /\ step[c] = "list"
  /\ ApiFaults
  /\ EndCall(c)
  /\ UNCHANGED <<pods, taints, plan, plannerVars, countVars>>

\* getEligibleNodes: the nodes that may be used; without any, those with a taint
\* that only prefers otherwise, besides one that forbids.
GetEligibleNodes ==
  LET free == {n \in Nodes : "NoSchedule" \notin taints[n]}
  IN  IF free # {} THEN free ELSE {n \in Nodes : "PreferNoSchedule" \in taints[n]}

ReadNodes(c) ==
  /\ step[c] = "nodes"
  /\ allEligible' = [allEligible EXCEPT ![c] = GetEligibleNodes]
  /\ step' = [step EXCEPT ![c] = "lock"]
  /\ UNCHANGED <<pods, taints, plan, plannerVars, scheduledPod, eligibleNodes, podList, todo,
                 current, assignmentMap, countVars>>

\* Mutant: BuildPlan does not wait for the mutex.
MayLockAlways == TRUE

MayLock == mutex = Free

\* BuildPlan takes the mutex; pods that failed or are being deleted are skipped.
Lock(c) ==
  /\ step[c] = "lock"
  /\ MayLock
  /\ mutex' = c
  /\ step' = [step EXCEPT ![c] = "plan"]
  /\ todo' = [todo EXCEPT ![c] =
                {p \in Pods : podList[c][p].phase \in {"Pending", "Running"}
                                /\ ~podList[c][p].deleting}]
  /\ assignmentMap' = [assignmentMap EXCEPT ![c] = NoNodes]
  /\ UNCHANGED <<pods, taints, plan, seen, podToNodeMap, removing, updateQueue, scheduledPod,
                 eligibleNodes, podList, allEligible, current, countVars>>

\* The next pod of the list: the one being scheduled was moved to the top.
IsNext(c, p) ==
  /\ step[c] = "plan"
  /\ p \in todo[c]
  /\ scheduledPod[c] \in todo[c] => p = scheduledPod[c]

\* GetNodeName: the node that has the pod's host IP, else what was planned before.
\* A host that is not eligible now is no node.
GetNodeName(c, p) ==
  LET host == podList[c][p].node
  IN  IF host = NoNode THEN podToNodeMap[p]
      ELSE IF host \in GetEligibleNodes THEN host ELSE NoNode

\* The pod is dropped from the list, with node n in the answer or with no node.
Planned(c, p, n) ==
  /\ todo' = [todo EXCEPT ![c] = @ \ {p}]
  /\ assignmentMap' = [assignmentMap EXCEPT ![c] = [@ EXCEPT ![p] = n]]
  /\ UNCHANGED <<pods, taints, plan, seen, mutex, removing, updateQueue, scheduledPod,
                 eligibleNodes, podList, allEligible, countVars>>

\* The pod has a node already, which is the answer.
KeepNode(c, p) ==
  /\ IsNext(c, p)
  /\ GetNodeName(c, p) # NoNode
  /\ Planned(c, p, GetNodeName(c, p))
  /\ UNCHANGED <<podToNodeMap, step, current>>

\* The nodes a pod may get: for the scheduled pod those the scheduler offers, if
\* the planner knows them all; for another pod any (which pass the filters is open).
Candidates(c, p) ==
  IF p # scheduledPod[c] THEN allEligible[c]
  ELSE IF eligibleNodes[c] \subseteq allEligible[c] THEN eligibleNodes[c] ELSE {}

\* The pod has no node, and the filters run, with the mutex held.
FindCandidates(c, p) ==
  /\ IsNext(c, p)
  /\ GetNodeName(c, p) = NoNode
  /\ current' = [current EXCEPT ![c] = p]
  /\ step' = [step EXCEPT ![c] = "score"]
  /\ UNCHANGED <<pods, taints, plan, plannerVars, scheduledPod, eligibleNodes, podList,
                 allEligible, todo, assignmentMap, countVars>>

\* findFit scores the candidates and remembers the best: any of them.
SelectNode(c, n) ==
  /\ step[c] = "score"
  /\ n \in Candidates(c, current[c])
  /\ podToNodeMap' = [podToNodeMap EXCEPT ![current[c]] = n]
  /\ step' = [step EXCEPT ![c] = "plan"]
  /\ current' = [current EXCEPT ![c] = AnyPod]
  /\ Planned(c, current[c], n)

\* There is no candidate, none passes the filters, or the request's deadline
\* passes before one is scored: the pod gets no node.
SelectNoNode(c) ==
  /\ step[c] = "score"
  /\ step' = [step EXCEPT ![c] = "plan"]
  /\ current' = [current EXCEPT ![c] = AnyPod]
  /\ Planned(c, current[c], NoNode)
  /\ UNCHANGED podToNodeMap

\* BuildPlan unlocks the mutex and answers.
Answer(c) ==
  /\ step[c] = "plan"
  /\ todo[c] = {}
  /\ mutex' = Free
  /\ step' = [step EXCEPT ![c] = "answered"]
  /\ UNCHANGED <<pods, taints, plan, seen, podToNodeMap, removing, updateQueue, scheduledPod,
                 eligibleNodes, podList, allEligible, todo, current, assignmentMap,
                 countVars>>

-----------------------------------------------------------------------------
(* The scheduler, which writes the answer to the SchedulePlan.             *)

\* The assignments of an answer that the plan does not hold.
Holds(assignments) == \A p \in Pods : assignments[p] # NoNode => plan[p] = assignments[p]

\* findFit of the plugin, after the planner answered: an answer without the pod
\* is an error, any other becomes the plan.
SchedulerUpdatesPlan(c) ==
  /\ step[c] = "answered"
  /\ assignmentMap[c][scheduledPod[c]] # NoNode
  /\ plan' = IF Holds(assignmentMap[c]) THEN plan ELSE assignmentMap[c]
  /\ EndCall(c)
  /\ UNCHANGED <<pods, taints, plannerVars, countVars>>

\* The pod is not in the answer, the answer came too late, or the update failed.
SchedulerGivesUp(c) ==
  /\ step[c] = "answered"
  /\ EndCall(c)
  /\ UNCHANGED <<pods, taints, plan, plannerVars, countVars>>

\* The planner is killed and starts again; its requests end without an answer.
Restart ==
  /\ crashes < MaxCrashes
  /\ crashes' = crashes + 1
  /\ seen' = [p \in Pods |-> AbsentPod(0)]
  /\ podToNodeMap' = NoNodes
  /\ mutex' = Free
  /\ removing' = {}
  /\ updateQueue' = {}
  /\ step' = [c \in Callers |-> "idle"]
  /\ scheduledPod' = [c \in Callers |-> AnyPod]
  /\ eligibleNodes' = [c \in Callers |-> {}]
  /\ podList' = [c \in Callers |-> [p \in Pods |-> AbsentPod(0)]]
  /\ allEligible' = [c \in Callers |-> {}]
  /\ todo' = [c \in Callers |-> {}]
  /\ current' = [c \in Callers |-> AnyPod]
  /\ assignmentMap' = [c \in Callers |-> NoNodes]
  /\ UNCHANGED <<pods, taints, plan, changes, requests>>

Results == {"ok", "retry", "error"}

\* A step of the handler of request c that needs nobody.
Proceed(c) ==
  \/ ListPods(c) \/ ListPodsFails(c) \/ ReadNodes(c)
  \/ \E p \in Pods : KeepNode(c, p) \/ FindCandidates(c, p)
  \/ \E n \in Nodes : SelectNode(c, n)
  \/ SelectNoNode(c) \/ Answer(c)
  \/ SchedulerUpdatesPlan(c) \/ SchedulerGivesUp(c)

Next ==
  \/ Cluster
  \/ \E p \in Pods : WatchIgnores(p) \/ HandlePodUpdate(p)
  \/ \E res \in Results : \/ \E r \in removing : RemovePodFromPlanner(r, res)
                          \/ \E r \in updateQueue : ProcessUpdate(r, res)
  \/ \E c \in Callers :
       \/ \E p \in Pods, eligible \in SUBSET Nodes \ {{}} : Request(c, p, eligible)
       \/ Lock(c)
       \/ Proceed(c)
  \/ Restart

Spec == Init /\ [][Next]_vars

(***************************************************************************)
(* Handlers proceed and calls return.  A goroutine that waits for the      *)
(* mutex gets it, although others take it in between (Go's mutex hands     *)
(* itself to a waiter that starves), and a removal that is tried again and *)
(* again is not refused for ever: each conflict is another writer's        *)
(* success, and the writers are finitely many.  The cluster is not fair.   *)
(***************************************************************************)
Fairness ==
  /\ \A c \in Callers : WF_vars(Proceed(c)) /\ SF_vars(Lock(c))
  /\ \A p \in Pods : WF_vars(WatchIgnores(p)) /\ SF_vars(HandlePodUpdate(p))
  /\ WF_vars(\E r \in removing, res \in Results : RemovePodFromPlanner(r, res))
  /\ SF_vars(\E r \in updateQueue, res \in {"ok", "error"} : ProcessUpdate(r, res))

FairSpec == Spec /\ Fairness

-----------------------------------------------------------------------------
(* Properties.                                                             *)

(***************************************************************************)
(* The mutex keeps the requests and the watch handler apart, and whoever   *)
(* holds it is on the way to releasing it: it is held exactly by the       *)
(* request that is planning, or by the handler that is removing a pod,     *)
(* whatever fails and whenever the planner restarts.  So nobody waits for  *)
(* a mutex that has no holder.                                             *)
(***************************************************************************)
MutexHasHolder ==
  /\ \A c \in Callers : step[c] \in {"plan", "score"} <=> mutex = c
  /\ removing # {} <=> mutex = Watch

(***************************************************************************)
(* A pod keeps the node it was given until the planner forgets it: however *)
(* requests, watch events and deletions interleave, no request gives it    *)
(* another.  (The exception is a pod that was listed with a host: it is    *)
(* given a new node when the host is not eligible.)                        *)
(***************************************************************************)
PlannedPodStays ==
  [][\A p \in Pods :
       podToNodeMap[p] # NoNode /\ podToNodeMap'[p] \notin {NoNode, podToNodeMap[p]}
         => \E c \in Callers : mutex = c /\ podList[c][p].node # NoNode
    ]_vars

(***************************************************************************)
(* An answer is what the planner remembers at the moment it unlocks: the   *)
(* node of every pod that was listed without a host is in podToNodeMap, so *)
(* no pod was forgotten or moved while the answer was put together.        *)
(***************************************************************************)
AnswerIsRemembered ==
  [][\A c \in Callers :
       step[c] = "plan" /\ step'[c] = "answered"
         => \A p \in Pods :
              assignmentMap[c][p] # NoNode /\ podList[c][p].node = NoNode
                => podToNodeMap'[p] = assignmentMap[c][p]
    ]_vars

(***************************************************************************)
(* Every request is answered or fails: the mutex is always released, also  *)
(* by a watch handler whose call failed, and every waiting request gets it.*)
(***************************************************************************)
RequestsEnd == \A c \in Callers : step[c] # "idle" ~> step[c] = "idle"

(***************************************************************************)
(* A removal that met a conflict is not lost: it is tried again until the  *)
(* plan has no assignment for the pod.  (A Get that fails or a restart of  *)
(* the planner does lose it.)                                              *)
(***************************************************************************)
RetriedRemovalHappens ==
  \A p \in Pods : (\E r \in updateQueue : r.pod = p) ~> plan[p] = NoNode

(***************************************************************************)
(* "a check is first made to verify the the planned node is still valid    *)
(* for the pod and if not the plan is recalculated" (README.md:73-74).     *)
(* The planner answers with the node it remembers, without a look at the   *)
(* nodes the scheduler now offers.                                         *)
(***************************************************************************)
ReplanIsEligible ==
  [][\A c \in Callers :
       step[c] = "plan" /\ step'[c] = "answered" /\ podList[c][scheduledPod[c]].node = NoNode
         => assignmentMap[c][scheduledPod[c]] \in eligibleNodes[c] \cup {NoNode}
    ]_vars

(***************************************************************************)
(* Deleting the deployment "should cause the SchedulePlan resource         *)
(* instance to be deleted since all pods belonging to the podset are       *)
(* deleted" (QUICKSTART.md:188-189).  A pod that had no node yet is        *)
(* deleted without an update event, and stays in the plan.                 *)
(***************************************************************************)
PlanEndsWithPods ==
  <>[](\A p \in Pods : ~Exists(pods[p])) => <>[](plan = NoNodes)

=============================================================================
