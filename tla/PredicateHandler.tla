--------------------------- MODULE PredicateHandler ---------------------------
(***************************************************************************)
(* How a request of the planner finds nodes for the pods of a set          *)
(* (BuildPlan of internal/pkg/planner, FindNodesThatPassFilters and        *)
(* RunScorePredicates of pkg/podpredicates, Until of pkg/parallelize).     *)
(*                                                                         *)
(* For each pod in turn the filters are run for all nodes by parallel      *)
(* workers, which take chunks of nodes from a channel and append the nodes *)
(* that pass to one slice, under a lock.  The pods that were given a node  *)
(* earlier count as pods of that node.  The request's deadline, or the     *)
(* call's, may pass at any time, and a list of the pods on a node may fail.*)
(*                                                                         *)
(* The planner's mutex is held throughout, so podToNodeMap is this         *)
(* request's; PodSetPlanner has the steps before and after, and the others.*)
(* The nodes do not change here while the request plans; there they do.    *)
(***************************************************************************)
EXTENDS PodPredicates

CONSTANTS PodList,     \* the pods of the set, in the order they are planned
          Templates,   \* what a pod may look like
          Nodes,       \* the names of nodes
          NodeLists,   \* the nodes that the lister may return
          Orders(_),   \* the orders in which it may return a set of them
          NodeOf,      \* NodeOf[n]: the node of name n
          Listed,      \* Listed[n]: the pods that the API server has on n
          Workers,     \* the workers
          Placements,  \* where the pods of the set may be to begin with
          Offers,      \* the nodes the scheduler may offer for its pod
          NoNode,      \* no node
          NoPod,       \* no pod
          Free,        \* the lock is free
          ApiFaults    \* may a list fail?

Pods == ToSet(PodList)
MaybeNode == Nodes \cup {NoNode}
parallelism == Cardinality(Workers)

ASSUME HandlerAssumption ==
  /\ NoNode \notin Nodes /\ NoPod \notin Pods /\ Free \notin Workers
  /\ IsFiniteSet(Workers) /\ Workers # {} /\ IsFiniteSet(Nodes)
  /\ NodeLists \subseteq SUBSET Nodes
  /\ \A S \in SUBSET Nodes : Orders(S) \subseteq SetToSeqs(S)
  /\ Placements \subseteq [planned : [Pods -> MaybeNode], host : [Pods -> MaybeNode]]
  /\ Offers \subseteq SUBSET Nodes
  /\ ApiFaults \in BOOLEAN

\* There is a pod to plan and none is listed twice; the pods and the nodes have what
\* the predicates read.
ASSUME PodAssumption ==
  /\ PodList \in Seq(Pods) /\ PodList # <<>> /\ IsInjective(PodList)
  /\ \A p \in Templates \cup UNION {Listed[n] : n \in Nodes} : IsPod(p)
  /\ \A n \in Nodes : IsRequest(NodeOf[n].allocatable)

VARIABLES pod,            \* pod[p]: the pod of name p
          hostIP,         \* hostIP[p]: the node with the host IP of p, if it has one
          scheduledPod,   \* the pod the scheduler is placing, if it was listed
          offered,        \* the nodes the scheduler offers for it
          eligibleNodes,  \* the nodes of the cluster that may be planned, a sequence
          podToNodeMap,   \* podToNodeMap[p]: the node the planner gave p
          assignmentMap,  \* assignmentMap[p]: the node of p in the answer
          todo,           \* the pods that are still to be planned
          step,           \* where BuildPlan is
          expired,        \* which deadline has passed: none, the call's, the request's
          missed,         \* a list failed since the filters began
          toProcess,      \* the channel of chunks
          worker,         \* worker[w]: its step, and its next and last piece
          updateLock,     \* who holds the lock
          slice,          \* slice[w]: the slice that w is appending to
          filteredNodes   \* the nodes that passed

inputs == <<pod, hostIP, scheduledPod, offered, eligibleNodes>>
plans == <<podToNodeMap, assignmentMap>>
poolVars == <<toProcess, worker, updateLock, slice>>
vars == <<inputs, plans, todo, step, expired, missed, poolVars, filteredNodes>>

pieces == Len(eligibleNodes)
chunkSize == ChunkSize(pieces, parallelism)

\* The chunks of the pieces, numbered from zero.
Chunks == 0 .. ((pieces + chunkSize - 1) \div chunkSize) - 1

Idle == [step |-> "done", next |-> 0, end |-> 0]

TypeOK ==
  /\ pod \in [Pods -> {[t EXCEPT !.name = p] : t \in Templates, p \in Pods}]
  /\ hostIP \in [Pods -> MaybeNode]
  /\ scheduledPod \in Pods \cup {NoPod}
  /\ offered \in SUBSET Nodes
  /\ ToSet(eligibleNodes) \subseteq Nodes
  /\ podToNodeMap \in [Pods -> MaybeNode]
  /\ assignmentMap \in [Pods -> MaybeNode]
  /\ ToSet(todo) \subseteq Pods
  /\ step \in {"plan", "filter", "score", "done"}
  /\ expired \in {"none", "call", "request"}
  /\ missed \in BOOLEAN
  /\ ToSet(toProcess) \subseteq Chunks
  /\ \A w \in Workers : /\ worker[w].step \in {"take", "check", "lock", "append", "done"}
                        /\ 0 <= worker[w].next /\ worker[w].next <= worker[w].end
                        /\ worker[w].end <= pieces
  /\ updateLock \in Workers \cup {Free}
  /\ \A w \in Workers : ToSet(slice[w]) \subseteq Nodes
  /\ ToSet(filteredNodes) \subseteq Nodes

\* getEligibleNodes: the nodes without a taint that forbids pods; when there are
\* none, those of the others that have a taint that discourages them as well.  They
\* are in the order of the list, which is that of a map's iteration.
GetEligibleNodes(nodes) ==
  LET effects(n) == {t.effect : t \in NodeOf[n].taints}
      eligible == {n \in nodes : effects(n) \cap {"NoSchedule", "NoExecute"} = {}}
  IN  Orders(IF eligible = {} THEN {n \in nodes : "PreferNoSchedule" \in effects(n)} ELSE eligible)

Init ==
  /\ \E t \in [Pods -> Templates] : pod = [p \in Pods |-> [t[p] EXCEPT !.name = p]]
  /\ scheduledPod \in {Head(PodList), NoPod}
  /\ offered \in IF scheduledPod = NoPod THEN {{}} ELSE Offers
  /\ \E nodes \in NodeLists : eligibleNodes \in GetEligibleNodes(nodes)
  /\ \E placed \in Placements : podToNodeMap = placed.planned /\ hostIP = placed.host
  /\ assignmentMap = [p \in Pods |-> NoNode]
  /\ todo = PodList
  /\ step = "plan"
  /\ expired = "none" /\ missed = FALSE
  /\ toProcess = <<>>
  /\ worker = [w \in Workers |-> Idle]
  /\ updateLock = Free
  /\ slice = [w \in Workers |-> <<>>]
  /\ filteredNodes = <<>>

current == Head(todo)

\* A deadline passes: the one of this call of the filters, or the request's.
Expire ==
  /\ \/ step = "filter" /\ expired = "none" /\ expired' = "call"
     \/ step # "done" /\ expired # "request" /\ expired' = "request"
  /\ UNCHANGED <<inputs, plans, todo, step, missed, poolVars, filteredNodes>>

-----------------------------------------------------------------------------
(* BuildPlan.                                                              *)

\* GetNodeName: the eligible node that has the pod's host IP, or what was planned
\* for a pod without one.  A pod whose host is not eligible has no node, whatever is
\* planned for it.
GetNodeName(p) ==
  IF hostIP[p] = NoNode THEN podToNodeMap[p]
  ELSE IF hostIP[p] \in ToSet(eligibleNodes) THEN hostIP[p] ELSE NoNode

\* podSetHandlerImpl.List: the pods of the set that have node n.
PodSetPods(n) == {pod[p] : p \in {q \in Pods : GetNodeName(q) = n}}

Gone(p) == pod[p].deleting \/ pod[p].failed

\* The pod has a node already, and keeps it; a pod that is going away or has
\* failed is skipped.
SkipPod ==
  /\ step = "plan" /\ todo # <<>>
  /\ GetNodeName(current) # NoNode \/ Gone(current)
  /\ IF Gone(current)
       THEN UNCHANGED assignmentMap
       ELSE assignmentMap' = [assignmentMap EXCEPT ![current] = GetNodeName(current)]
  /\ todo' = Tail(todo)
  /\ UNCHANGED <<inputs, podToNodeMap, step, expired, missed, poolVars, filteredNodes>>

\* The pod being scheduled takes the nodes it is offered, without the filters.
TakeOffer ==
  /\ step = "plan" /\ todo # <<>>
  /\ GetNodeName(current) = NoNode /\ ~Gone(current)
  /\ current = scheduledPod
  /\ filteredNodes' = SetToSeq(offered)
  /\ step' = "score"
  /\ UNCHANGED <<inputs, plans, todo, expired, missed, poolVars>>

\* FindNodesThatPassFilters, with a deadline of its own, and Until: the chunks are
\* put into the channel, and no more workers are started than there are chunks.
StartFilters ==
  /\ step = "plan" /\ todo # <<>>
  /\ GetNodeName(current) = NoNode /\ ~Gone(current)
  /\ current # scheduledPod
  /\ expired' = IF expired = "request" THEN "request" ELSE "none"
  /\ missed' = FALSE
  /\ toProcess' = [i \in 1 .. Cardinality(Chunks) |-> i - 1]
  /\ \E started \in SUBSET Workers :
       /\ Cardinality(started) = Min({parallelism, Cardinality(Chunks)})
       /\ worker' = [w \in Workers |-> IF w \in started THEN [Idle EXCEPT !.step = "take"] ELSE Idle]
  /\ filteredNodes' = <<>>
  /\ step' = "filter"
  /\ UNCHANGED <<inputs, plans, todo, updateLock, slice>>

\* wg.Wait returns.  Without a node that passed, the pod gets none.
FiltersDone ==
  /\ step = "filter"
  /\ \A w \in Workers : worker[w].step = "done"
  /\ toProcess' = <<>>
  /\ IF filteredNodes = <<>>
       THEN todo' = Tail(todo) /\ step' = "plan"
       ELSE UNCHANGED todo /\ step' = "score"
  /\ UNCHANGED <<inputs, plans, expired, missed, worker, updateLock, slice, filteredNodes>>

\* RunScorePredicates: no score predicate is built in, so every node that is scored
\* before the request's deadline gets the same score.
RunScorePredicates ==
  IF expired = "request" THEN SUBSET ToSet(filteredNodes) ELSE {ToSet(filteredNodes)}

\* Mutant: a node that was offered is taken, eligible or not.
SelectNodeUnchecked(n) ==
  /\ step = "score"
  /\ n \in UNION RunScorePredicates
  /\ podToNodeMap' = [podToNodeMap EXCEPT ![current] = n]
  /\ assignmentMap' = [assignmentMap EXCEPT ![current] = n]
  /\ filteredNodes' = <<>>
  /\ todo' = Tail(todo)
  /\ step' = "plan"
  /\ UNCHANGED <<inputs, expired, missed, poolVars>>

\* findFit: selectNode picks one of the best nodes at random.
SelectNode(n) ==
  /\ step = "score"
  /\ n \in UNION RunScorePredicates
  /\ ToSet(filteredNodes) \subseteq ToSet(eligibleNodes)
  /\ podToNodeMap' = [podToNodeMap EXCEPT ![current] = n]
  /\ assignmentMap' = [assignmentMap EXCEPT ![current] = n]
  /\ filteredNodes' = <<>>
  /\ todo' = Tail(todo)
  /\ step' = "plan"
  /\ UNCHANGED <<inputs, expired, missed, poolVars>>

\* No node was scored before the request's deadline, none was offered, or one was
\* that is not eligible.
SelectNoNode ==
  /\ step = "score"
  /\ \/ {} \in RunScorePredicates
     \/ ~ToSet(filteredNodes) \subseteq ToSet(eligibleNodes)
  /\ filteredNodes' = <<>>
  /\ todo' = Tail(todo)
  /\ step' = "plan"
  /\ UNCHANGED <<inputs, plans, expired, missed, poolVars>>

\* The assignments are returned.
Return ==
  /\ step = "plan" /\ todo = <<>>
  /\ step' = "done"
  /\ UNCHANGED <<inputs, plans, todo, expired, missed, poolVars, filteredNodes>>

-----------------------------------------------------------------------------
(* ParallelizeUntil: the workers, and the check each piece is given to.    *)

worked == <<inputs, plans, todo, step, expired>>

\* Mutant: the end of the last chunk is one too far.
EndOfUnbounded(chunk) == (chunk + 1) * chunkSize

EndOf(chunk) == Min({(chunk + 1) * chunkSize, pieces})

\* The worker takes a chunk from the channel, or ends when it is empty.
TakeChunk(w) ==
  /\ worker[w].step = "take"
  /\ IF toProcess = <<>>
       THEN worker' = [worker EXCEPT ![w] = Idle] /\ UNCHANGED toProcess
       ELSE /\ worker' = [worker EXCEPT ![w] =
                            [step |-> "check", next |-> Head(toProcess) * chunkSize,
                             end |-> EndOf(Head(toProcess))]]
            /\ toProcess' = Tail(toProcess)
  /\ UNCHANGED <<worked, missed, updateLock, slice, filteredNodes>>

\* Worker w after the piece it is at.
NextPiece(w) ==
  LET i == worker[w].next + 1
  IN  [worker EXCEPT ![w].next = i, ![w].step = IF i < worker[w].end THEN "check" ELSE "take"]

PieceNode(w) == eligibleNodes[worker[w].next + 1]

\* Does the node that w is at pass?
Passes(n) == RunFilterPredicates(pod[current], NodeOf[n], Listed[n], PodSetPods(n))

\* The filters are run for the next node, unless the deadline has passed: then the
\* worker returns.
CheckPiece(w) ==
  /\ worker[w].step = "check"
  /\ worker' = IF expired # "none" THEN [worker EXCEPT ![w] = Idle]
               ELSE IF Passes(PieceNode(w)) THEN [worker EXCEPT ![w].step = "lock"]
               ELSE NextPiece(w)
  /\ UNCHANGED <<worked, missed, toProcess, updateLock, slice, filteredNodes>>

\* A list of the pods on the node fails, so the node does not pass.
CheckPieceFails(w) ==
  /\ worker[w].step = "check"
  /\ ApiFaults /\ expired = "none"
  /\ missed' = TRUE
  /\ worker' = NextPiece(w)
  /\ UNCHANGED <<worked, toProcess, updateLock, slice, filteredNodes>>

\* Mutant: the check does not wait for the lock.
MayUpdateAlways == TRUE

MayUpdate == updateLock = Free

\* The lock is taken and the slice read ...
LockSlice(w) ==
  /\ worker[w].step = "lock"
  /\ MayUpdate
  /\ updateLock' = w
  /\ slice' = [slice EXCEPT ![w] = filteredNodes]
  /\ worker' = [worker EXCEPT ![w].step = "append"]
  /\ UNCHANGED <<worked, missed, toProcess, filteredNodes>>

\* Mutant: the lock is not released.
AppendNodeLocked(w) ==
  /\ worker[w].step = "append"
  /\ filteredNodes' = Append(slice[w], PieceNode(w))
  /\ slice' = [slice EXCEPT ![w] = <<>>]
  /\ worker' = NextPiece(w)
  /\ UNCHANGED <<worked, missed, toProcess, updateLock>>

\* ... and the node appended, and the lock released.
AppendNode(w) ==
  /\ worker[w].step = "append"
  /\ filteredNodes' = Append(slice[w], PieceNode(w))
  /\ slice' = [slice EXCEPT ![w] = <<>>]
  /\ updateLock' = Free
  /\ worker' = NextPiece(w)
  /\ UNCHANGED <<worked, missed, toProcess>>

Worker(w) ==
  TakeChunk(w) \/ CheckPiece(w) \/ CheckPieceFails(w) \/ LockSlice(w) \/ AppendNode(w)

BuildPlan ==
  \/ SkipPod \/ TakeOffer \/ StartFilters \/ FiltersDone
  \/ \E n \in Nodes : SelectNode(n)
  \/ SelectNoNode \/ Return

Next == BuildPlan \/ Expire \/ \E w \in Workers : Worker(w)

(***************************************************************************)
(* The Go scheduler runs the request's goroutine and the workers.  Each    *)
(* worker takes the lock at most once for a piece, so weak fairness is     *)
(* enough for it.  Deadlines need not pass.                                *)
(***************************************************************************)
Fairness == WF_vars(BuildPlan) /\ \A w \in Workers : WF_vars(Worker(w))

Spec == Init /\ [][Next]_vars /\ Fairness

-----------------------------------------------------------------------------
(***************************************************************************)
(* PodSetPlanner's view of this request, the only one under way: it has    *)
(* listed its pods, those of a host with it, and holds the mutex until it  *)
(* returns.  While the filters and the scores run it is in step "score".   *)
(***************************************************************************)
request == "request"
ForRequest(value) == [c \in {request} |-> value]

listedPods ==
  [p \in Pods |-> [phase |-> IF pod[p].failed THEN "Failed" ELSE "Pending",
                   deleting |-> pod[p].deleting, node |-> hostIP[p], uid |-> 0]]

plannerStep ==
  CASE step = "plan" -> "plan"
    [] step \in {"filter", "score"} -> "score"
    [] step = "done" -> "answered"

plannerCurrent == IF plannerStep = "score" THEN current ELSE CHOOSE p \in Pods : TRUE

\* The pods that are still to be planned.
plannerTodo == {p \in ToSet(todo) : ~Gone(p)}

\* The taints that make the nodes eligible that are.
plannerTaints == [n \in Nodes |-> IF n \in ToSet(eligibleNodes) THEN {} ELSE {"NoSchedule"}]

Planner == INSTANCE PodSetPlanner WITH
  Callers <- {request}, Free <- "free", Watch <- "watch",
  MaxChanges <- 0, MaxRequests <- 0, MaxCrashes <- 0,
  pods <- listedPods, seen <- listedPods,
  taints <- plannerTaints,
  plan <- [p \in Pods |-> NoNode],
  mutex <- IF step = "done" THEN "free" ELSE request,
  removing <- {}, updateQueue <- {},
  step <- ForRequest(plannerStep),
  scheduledPod <- ForRequest(scheduledPod), eligibleNodes <- ForRequest(offered),
  podList <- ForRequest(listedPods), allEligible <- ForRequest(ToSet(eligibleNodes)),
  todo <- ForRequest(plannerTodo), current <- ForRequest(plannerCurrent),
  assignmentMap <- ForRequest(assignmentMap),
  changes <- 0, requests <- 0, crashes <- 0

\* BuildPlan there: a pod keeps its node, gets one of its candidates or none, or the
\* request is answered.
PlannerStep ==
  \/ \E p \in Pods : Planner!KeepNode(request, p) \/ Planner!FindCandidates(request, p)
  \/ \E n \in Nodes : Planner!SelectNode(request, n)
  \/ Planner!SelectNoNode(request) \/ Planner!Answer(request)

-----------------------------------------------------------------------------
(* Properties.                                                             *)

(***************************************************************************)
(* The nodes that FindNodesThatPassFilters returns are nodes that pass,    *)
(* none of them twice, whatever the workers' interleaving and the          *)
(* deadlines; and when no deadline passed and no list failed, they are all *)
(* of those nodes: no chunk is skipped and no append is lost.              *)
(***************************************************************************)
FiltersAreComplete ==
  step = "filter" /\ (\A w \in Workers : worker[w].step = "done") =>
    /\ IsInjective(filteredNodes)
    /\ \A n \in ToSet(filteredNodes) : Passes(n)
    /\ expired = "none" /\ ~missed =>
         \A n \in ToSet(eligibleNodes) : Passes(n) => n \in ToSet(filteredNodes)

\* The pod is given a node by the filters in this step.
FilteredTo(p, n) ==
  p # scheduledPod /\ step = "score" /\ assignmentMap[p] = NoNode /\ assignmentMap'[p] = n

\* Where a pod of the set is before this step: on its host, and if it has none,
\* where it is planned.
Place(p) == IF hostIP[p] # NoNode THEN hostIP[p] ELSE podToNodeMap[p]

\* The pods that are on node n: those the API server has there, and those of the
\* set that it does not list there.
On(n) ==
  LET placed == {pod[q] : q \in {r \in Pods : Place(r) = n}}
  IN  Listed[n] \cup {q \in placed : \A l \in Listed[n] : l.ns # q.ns \/ l.name # q.name}

\* Pods that an owner made from one template.
Replicas(p, q) ==
  p.owners # {} /\ p.ns = q.ns /\ p.owners = q.owners /\ p.containers = q.containers

(***************************************************************************)
(* A pod that is planned by the filters never gets a node with a live      *)
(* replica of it or with a pod it wants to be apart from, required or      *)
(* preferred, also when that pod has only been planned there, in this      *)
(* request or before, and is unknown to the API server.                    *)
(*                                                                         *)
(* A pod that has a host is on that host.  When the host is not eligible,  *)
(* BuildPlan plans another node for the pod, but List                      *)
(* (podset_handler.go:50) does not see it there, and the answer may have a *)
(* replica on the same node.  Pods of one owner that share some images but *)
(* not all are duplicates in the comment of duplicates.go:54-56, and not   *)
(* in its code; they are no replicas here.                                 *)
(***************************************************************************)
PlannedPodIsApart ==
  [][\A p \in Pods, n \in Nodes :
       FilteredTo(p, n)
         => \A q \in On(n) :
              /\ Replicas(pod[p], q) => q.deleting
              /\ q.name # p =>
                   \A t \in pod[p].required \cup pod[p].preferred :
                     ~(/\ t.selector \subseteq q.labels
                       /\ q.ns \in t.namespaces \/ (t.namespaces = {} /\ q.ns = pod[p].ns))
    ]_vars

(***************************************************************************)
(* A pod that is planned by the filters fits its node: it tolerates the    *)
(* taints against scheduling, and of every resource but ephemeral storage  *)
(* the node has what the containers request together and what each init    *)
(* container requests before them.                                         *)
(***************************************************************************)
PlannedPodFits ==
  [][\A p \in Pods, n \in Nodes :
       FilteredTo(p, n)
         => /\ \A t \in NodeOf[n].taints : t.effect = "NoSchedule" => t.key \in pod[p].tolerations
            /\ \A r \in Resources \ {"ephemeral-storage"} :
                 /\ Together(pod[p], r) <= NodeOf[n].allocatable[r]
                 /\ \A init \in ToSet(pod[p].inits) : init[r] <= NodeOf[n].allocatable[r]
    ]_vars

(***************************************************************************)
(* The workers and the filters do what PodSetPlanner says of a request: it *)
(* starts as Lock leaves it, and whatever the interleaving, the deadlines  *)
(* and the failures, every step is one of BuildPlan's there or invisible.  *)
(* So no pod gets a node that is not eligible or, if it is the one being   *)
(* scheduled, that was not offered; no pod is passed over or planned       *)
(* twice, and the answer is what the planner remembers.                    *)
(***************************************************************************)
ImplementsPlanner ==
  /\ plannerStep = "plan" /\ assignmentMap = Planner!NoNodes
  /\ plannerTodo = {p \in Pods : listedPods[p].phase # "Failed" /\ ~listedPods[p].deleting}
  /\ [][PlannerStep]_(Planner!vars)

(***************************************************************************)
(* BuildPlan returns: the workers end, the lock is released after every    *)
(* append, and the wait for the workers is over for every pod.             *)
(***************************************************************************)
PlanIsBuilt == <>(step = "done")

=============================================================================
