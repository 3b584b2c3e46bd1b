# A verification project for pallet

Pallet schedules Kubernetes pods in *pod sets*: the pods of a set wait until a
trigger says that the set is complete, are then planned together, and are bound
to the nodes of the plan. This directory holds TLA+ models of that program, the
TLC configurations that check them on small instances, and theorems about them
whose proofs TLAPS checks.

Source paths below are relative to the repository. `PROJECT.json` gives, for
every definition that models code, the lines it stands for.

## 1. Inventory

| part | state | operations | talks to |
|---|---|---|---|
| SchedulePlan client, `internal/pkg/client/scheduleplan_client.go` | none of its own; the SchedulePlan resource in the API server | `Get`, `Update`, `UpdateAssignment`, `Delete`, `CheckIfPodPresent`, `List` | API server; called by the plugin and by the planner |
| ScheduleTrigger controller, `controllers/planner/scheduletrigger_controller.go` | `scheduleTriggerMap`, one timer and one goroutine for each entry, a mutex | `Reconcile`, `checkAndAllocateScheduleTimer`, `deleteTimer`, `quietTimer`, `transitionToSchedule`, `ScheduleTimerReset` | informer cache, API server, Go timers |
| Pod set planner, `internal/pkg/planner/planner.go`, `api.go` | `podToNodeMap` and its mutex, `updateQueue`, node and pod informers | `BuildSchedulePlan`, `BuildPlan`, `GetNodeName`, `findFit`, `handlePodUpdate`, `removePodFromPlanner`, `processUpdate` | gRPC from the plugin; the plan client; the predicates |
| Scheduler plugin, `internal/pkg/scheduler/plugin.go` | the assignment in the cycle state | `PreScore`, `Score`, `PostFilter`, `Reserve`, `Unreserve`, `findFit` | trigger client, plan client, planner service |
| Planner lookup, `internal/pkg/scheduler/planner.go` | none | `Lookup`, `Invoke`, `Update`, `UpdateAssignment`, `Delete` | services, gRPC, plan client |
| Trigger client, `internal/pkg/client/scheduletrigger_client.go` | none | `Get`, `List`, `Update` (no caller) | API server |
| Predicates, `pkg/podpredicates`, `pkg/parallelize`, `internal/pkg/planner/podset_handler.go` | a registry | filters and scores: anti-affinity, duplicates, node fit | planner |
| SchedulePlan controller, version endpoint, commands, configuration, generated code | none that changes | | |

How they interact: the plugin's `findFit` reads the trigger, then the plan, and
when the plan has no usable node for the pod it asks a planner for one and
writes the answer to the plan. The planner remembers its answers, forgets a pod
that begins to run or to be deleted, and removes a deleted pod from the plan.
The controller moves a trigger with a quiet-time label from `Planning` to
`Schedule`. All three write resources that the others read, and nothing but the
API server's versions orders them.

What is hard here:

* **The plan** is read in one request and written in another, by the scheduling
  cycle, binding cycles, the planner's watch and its retry worker at once. Any
  failure of a read is taken for a missing plan, and the delete of the last
  assignment takes the resource away without a precondition. *Correct* means:
  one node for a pod, no lost assignment, and a call that reports success has
  done what it was asked.
* **The trigger controller** sends to an unbuffered channel with its mutex
  held, while the receiver may be in the middle of a transition; it reads a
  cache that lags; its timers exist in memory only. *Correct* means: no
  goroutine leaks, a blocked worker is released, the timer follows the label,
  and a transition undoes nobody's edit.
* **The planner** lists pods before it takes its mutex, calls the API server
  with the mutex held, and learns of pods from a watch that coalesces and that
  it follows for updates only. *Correct* means: a planned pod keeps its node,
  an answer agrees with the memory, requests end, and deleted pods leave the
  plan.
* **The plugin** reads the trigger and the plan early in a cycle and acts on
  them late, and its corrections of the plan do not reach the planner's memory.
  Every failed call makes the pod wait for another cycle. *Correct* means:
  nothing is planned before the trigger allows it, what `Reserve` lets through
  agrees with the plan, and pods are scheduled in the end.
* **The predicates** are run for many nodes by workers that share a slice and
  that a deadline stops, and have to count pods that exist only in the planner's
  memory. *Correct* means: no node is lost or kept twice, and a planned pod fits
  its node and is apart from the pods it has to be apart from.

The list of hazards, each at its line and with the properties that would catch
it, is in `PROJECT.json`.

## 2. Modules

| module | models | proofs |
|---|---|---|
| `PlanStore` | the promise of a SchedulePlan: atomic calls on the assignments of one pod set (abstract specification) | |
| `SchedulePlanClient` | the plan client, step by step, over the API server | `SchedulePlanClientProofs` |
| `ScheduleTriggerController` | the trigger controller | `ScheduleTriggerControllerProofs` |
| `PodSetPlanner` | the planner, using the plan through calls that `PlanStore` allows | `PodSetPlannerProofs` |
| `SchedulerPlugin` | the scheduler plugin and its planner service, composed with the trigger, the plan, the planners (their requests in two steps) and the pods | `SchedulerPluginProofs` |
| `PodPredicates` | the filters and the chunk size, as operators | `PodPredicatesProofs` |
| `PredicateHandler` | the steps in which `BuildPlan` has the predicates run by parallel workers; implements the open choice of `PodSetPlanner` | `PredicateHandlerProofs` |

`MCx` instantiates module `x` for TLC, with its symmetry sets where it has any. Operators
marked *Mutant* in the modules are plausible wrong versions of the definition
that follows them. No run and no theorem uses them as they stand: they serve to
show that each property can fail (the property's run fails when the definition
is replaced by the mutant).

### SchedulePlanClient

`object` is the resource (exists, assignments, resourceVersion) and `revision`
the API server's counter. A client `c` goes from `idle` to `get` (`Call`); the
read fails (`GetFails`) or succeeds (`GetPlan`), and there the method decides
what to write from what it read (`UpdatePlan`, `UpdateAssignmentPlan`,
`DeletePlan`, `CheckPlan`, `CreatePlan`). The write waits in `planRef[c]` and is
applied (`WriteOk`), applied with its answer lost (`WriteAnswerLost`), refused
(`WriteRefused`) or never sent (`WriteFails`). Assignments are sets of records:
the order of the list in the resource is not modelled, for no code depends on it
while a pod has one node (`OneNodePerPod`). `Store == INSTANCE PlanStore` maps
the resource's assignments to the abstract plan, and a call that has not
returned to a pending one. `PlanStore` has the two calls that do something else than
they say as actions of their own: `Drop`, a `Delete` that takes the whole resource
away, and `Ignore`, an `UpdateAssignment` that succeeds without adding its pod.

External: the API server. An update with a stale version is refused, a create of
something that exists is refused, a delete carries no precondition.

### ScheduleTriggerController

`trigger` is what the API server has and `cache` what the informer has seen;
`CacheSync` brings them together, skipping states in between, and enqueues the
key. There is one reconcile worker (the default of controller-runtime), whose
`Reconcile` is a read of the cache (`ReconcileGet`) and then `DeleteTimer` or
`CheckAndAllocateScheduleTimer`. When a timer has to go the worker is in step
`quit`, blocked in the send with the mutex held, until the goroutine receives
(`QuitReceived`). A reference `r` is a timer (`duration`, `armed`, `tick`, the
expiry in its channel) and a goroutine, which is waiting (`select`), or in its
transition (`get`, `update`). `Reset` leaves an expiry that is in the channel
where it is, as `time.Timer` does. `ScheduleTimerReset`, which nothing in the repository calls,
is an action that anyone may take. `Restart` keeps `trigger` only.

### PodSetPlanner

A request `c` goes through `list`, `nodes`, `lock`, then `plan` and `score` with
the mutex held, then `answered`; the scheduler then writes the answer to the plan
or gives up. `KeepNode` is the pod that has a node, by its host IP or in
`podToNodeMap`; `FindCandidates` and `SelectNode` are the others. The watch
handler runs in two steps, because it calls the API server with the mutex held
(`HandlePodUpdate`, `RemovePodFromPlanner`); the retry worker is `ProcessUpdate`.
`seen` is the pod the watch delivered last. Pods carry a `uid`, so that a pod that
is created again under its name is another pod. The cluster's actions (create,
bind, run, fail, delete, taint) are external.

Left open (`PredicateHandler` has it): which nodes pass the filters and which
scores best (`SelectNode` takes any candidate, `SelectNoNode` none), and which requests the scheduler makes
(`Request` allows any pod without a node and any set of nodes, more than the
plugin asks for, and several at a time, which a timed-out request and the next
one are).

`DeleteFromPlan` is the plan client's `Delete` as one step. It allows what
`PlanStore` does: `SchedulePlanClientProofs` proves that the client has no other
effect than one atomic change, or the loss of the whole resource by a delete.

### SchedulerPlugin

The scheduler has one scheduling cycle (`cycle`, `step`) and, beside it, a
goroutine for each pod that is being bound (`queue[p]`). `StartCycle` takes a pod
and the nodes that pass Kubernetes' filters. With a single one the vendored
scheduler goes to `Reserve` at once (`generic_scheduler.go:121`); otherwise
`PreScore` runs `findFit`: `GetTrigger`, `CheckPlan`, `Lookup`, `Invoke` of one
planner after the other, `ChooseAnswer` by a random reward, `UpdatePlan`. Then the
scheduler takes any feasible node (`SelectHost`: `Score` is one plugin of several),
and `Reserve` corrects the plan. `Bind` and `BindFails` with `Unreserve` are the
goroutine's. `assignment[p]` is the assignment state in the pod's `CycleState`.

`Updated`, `Moved` and `Removed` are the atomic effects that `PlanStore` allows. A
planner is its memory, what its watch has handled and its pending removals;
it lists the pods in one step (`Invoke`) and answers in another
(`PlannerAnswers`), so that what happens in between is seen. `labels` says which
pods are in the set and which planners are its own or the default ones.
A pod that runs keeps its host in an answer, unless the host is not eligible any
more (`Stays`, `Disturbed`). An update that shows a pod both running for the first
time and being deleted removes nothing from the plan (`WatchDeleting`).
`opened` is a history variable. The events that need not happen (edits of the
trigger, deletions, failing calls, answers without a node for the pod or without a
pod's host, restarts) are bounded by `MaxEvents` together.

External: the binding, the kubelet, users. When several triggers have the
label of the set, the client takes the first of the list; the model has one that
may change to any state.

### PodPredicates and PredicateHandler

`PodPredicates` has the filters as operators: `PodFitsNode`, `PodIsADuplicate`,
`AntiAffinityHolds`, with the merge of the pods on a node with those that were
only planned for it. Resource amounts are small numbers for four resources; labels
and selectors are sets (a selector is the set of labels it asks for, or `Invalid`).
`PredicateHandler` is `BuildPlan` with the planner's mutex held: for each pod
`SkipPod`, `TakeOffer` (the pod being scheduled is not filtered) or
`StartFilters`, in which workers take chunks of nodes from a channel
(`TakeChunk`), run the filters (`CheckPiece`, `CheckPieceFails`) and append under
a lock, in two steps (`LockSlice`, `AppendNode`). `Expire` is a deadline that
passes, the call's or the request's. `NodeLists` are the sets of nodes that the
lister may return, and `Orders(S)` the orders in which it may return the set `S`
(the lister iterates over a map). `hostIP` has the hosts of the pods, and `Placements`
are the nodes the pods may be planned for and run on when the request begins.
`GetNodeName` is the code's: a pod with a host is looked up among the eligible nodes
and never in `podToNodeMap`, both when `BuildPlan` asks whether a pod has a node and when
`List` asks which pods are on one (`PodSetPods`). `assignmentMap` is the answer. The
taints do not change during a request here. The properties state with their own
definitions what a planned pod may rely on, so that they check the operators too.

`Planner == INSTANCE PodSetPlanner` is the planner's view of the same request: the
filters and the scores are its step `score`, the sequence of pods its set `todo`
without those that are skipped, and `assignmentMap` the answer. The pods have the hosts
of `hostIP`, and the nodes that are not eligible are the tainted ones. The request
starts where `Lock` leaves it, so the refinement (`ImplementsPlanner`) is stated with
that state in the place of `Init`.

## 3. Runs

Every passing run is checked for safety or liveness with the bounds below.
`CHECK_DEADLOCK FALSE` is set because users, pods and requests are bounded and a
system nobody uses stops.

| run | instance | properties | states |
|---|---|---|---|
| `plan_client` | 2 callers, 2 pods, 2 nodes, calls begin until 3 writes are done, API faults | `TypeOK`, `OneNodePerPod`, `NoEmptyPlan`, `AcceptedWriteIsCurrent`, `SuccessIsEstablished`, `StoreSpec` | 15 thousand (symmetry) |
| `trigger` | 1 trigger, 2 timers, 2 durations, 3 edits, 1 restart, API faults | `TypeOK`, `OneTimerPerTrigger`, `TimerMatchesLabel`, `TransitionKeepsEdits`, `WorkerReturns`, `TimerFollowsLabel` | 114 thousand |
| `planner` | 2 requests at a time and in all, 1 pod, 2 nodes, 3 changes, 1 restart, API faults | `TypeOK`, `MutexHasHolder`, `PlannedPodStays`, `AnswerIsRemembered` | 1.6 million (symmetry) |
| `planner_liveness` | 2 requests, 1 pod, 1 node, 3 changes | `RequestsEnd`, `RetriedRemovalHappens` | 104 thousand |
| `scheduler` | 2 pods, 2 nodes, 2 planners deployed in 3 ways, 2 events | `TypeOK`, `NoPlanBeforeTrigger`, `ReserveAgrees`, `PodsAreScheduled` | 632 thousand |
| `filters` | 2 pods of 5 kinds, planned before, with a host or neither, 3 clusters of up to 6 nodes, 2 workers, API faults, deadlines | `TypeOK`, `FiltersAreComplete`, `PlannedPodIsApart`, `PlannedPodFits`, `ImplementsPlanner`, `PlanIsBuilt` | 731 thousand |

Why these bounds: two writes that race, a third that follows, and a version that
is stale by more than one need three writes; a timer that is stopped by a
deletion and started again after the trigger is back needs three edits; a pod
that is bound, runs and is deleted while a request is between its list and its
lock needs three changes, and two requests are what the mutex has to keep apart.
One pod is enough there, for pods meet only in the list of an answer; the theorems,
which have no bounds, cover the others. Two pods are what a scheduling cycle and a
binding goroutine need to race, and two events a failed call and a change of the
trigger or a deletion at the wrong time. Five eligible nodes for two workers are
three chunks, the last one shorter; the other two clusters have one eligible node and
none. One order of each cluster is checked, for the place of a node does not matter to
what passes; the theorems cover every order.

Six runs show a disagreement between the code and what the repository says of
it. TLC finds the property violated:

| run | property | what happens |
|---|---|---|
| `plan_delete` | `DeleteKeepsOthers` | A `Delete` that read a plan with one pod deletes the resource, with an assignment that was added since. |
| `trigger_lost_transition` | `QuietTriggerIsScheduled` | The only expiry meets a conflict and the trigger stays in `Planning`. |
| `planner_replan` | `ReplanIsEligible` | The planner repeats the node it remembers, which the scheduler no longer offers. |
| `planner_leftover` | `PlanEndsWithPods` | A pod without a node is deleted without an update event, and stays in the plan. |
| `scheduler_gate` | `PlanningPodsWait` | One node is feasible, `PreScore` is not called, and the pod is bound although its trigger is in `Planning`. |
| `scheduler_plan` | `PlanMatchesBinding` | All pods run without a failed call, and the plan has another node for one that was bound without an assignment state. |

### Fairness

*Controller.* Weak fairness of the informer (`CacheSync`, `Resync`), of the
worker's steps, of the timers, and of each goroutine: the Go scheduler runs what
can run, a timer expires, and controller-runtime watches and resyncs. Users and
restarts are not fair.

*Planner.* Weak fairness of each handler's own steps and of the API call of the
watch handler. Strong fairness of what waits for the mutex (`Lock`,
`HandlePodUpdate`): Go's mutex hands itself to a waiter that starves. Strong
fairness of a retry that is not refused: each conflict is another writer's success,
and a retry that meets none happens. That API calls return is an assumption:
the removal's context has no deadline. The cluster is not fair.

*Scheduler.* Weak fairness of the cycle and of each binding goroutine, whose calls
have deadlines. Strong fairness of the cycle of a pod that waits: the queue serves
pods in the order of their last attempt, and other pods take the cycle in between.
Users, kubelets, the watch and restarts are not fair.

*Filters.* Weak fairness of the request's goroutine and of each worker. A worker
takes the lock at most once for a piece, so nobody waits for it for ever.
Deadlines need not pass.

## 4. Proofs

The theorems hold for every value of the constants that the modules' assumptions
allow (`BoundsAssumption`, `ControllerAssumption`, `PlannerAssumption`,
`PluginAssumption`, `HandlerAssumption`, `PodAssumption`: the special values differ from
the others, the bounds are natural numbers, the workers and the nodes are finitely many,
a list has no node and no pod twice, and pods and nodes have natural amounts of each
resource). Each module of proofs about a specification states an inductive invariant (`IndInv`, `Inv`), one lemma for each
action or group of actions, and `NextInv` that combines them.

* **SchedulePlanClientProofs.** That an accepted write is current is not
  inductive: it needs that a version which was read is never given again
  (`VersionsBehind`: no version is ahead of the counter), that plans on their way
  hold one node for a pod (`PlansFunctional`), and what each kind of write
  carries (`WriteOf`). From it: `TypeCorrect`, `PlanIsConsistent` (one node for a
  pod), `PlanIsNeverEmpty`, `WritesAreCurrent`, `SuccessEstablished` (what a call
  that succeeds was asked for is so when it returns, or the call was an
  `UpdateAssignment` of a pod that an existing plan does not hold, and changed nothing),
  and `Implements`: the client implements `PlanStore`, each step being a call, an
  atomic effect, no effect, one of the two exceptions, or a stutter.
* **ScheduleTriggerControllerProofs.** `OneTimerPerTrigger` is inductive with the
  types and with what the worker is about to do (`WorkerOK`). That a settled
  controller has the right timer needs an account of the time in between
  (`CaughtUp`: a key that is not queued has the timer the cache asks for, or the
  worker is on its way to it). That a transition undoes no edit needs that a copy
  with the current version is the current trigger (`CopiesNotAhead`). From them:
  `TypeCorrect`, `NoTimerLeaks`, `TimersMatchLabels`, `EditsAreKept`.
* **PodSetPlannerProofs.** `MutexHasHolder` says who is inside, `Remembered` that the
  answer so far is in the memory, `CurrentIsUnplanned` that the pod whose
  predicates are running has not got a node meanwhile. From them: `TypeCorrect`,
  `MutexIsReleased` (the mutex never stays locked without a holder, which is the
  safety side of `RequestsEnd`), `PlannedPodsStay`, `AnswersAreRemembered`.
* **SchedulerPluginProofs.** That nothing is planned early needs `GateInv`: before
  the trigger opened no cycle is past it on its way to the plan, and no pod has an
  assignment that `Reserve` could write. That `Reserve` agrees with the plan needs
  `AgreeInv` (between `findFit` and `Reserve` the plan has the assigned node or
  none), which rests on who may have an assignment (`AssignInv`) and on the queue
  agreeing with the cycle (`CycleInv`, `AskInv`). From them: `TypeCorrect`,
  `NothingIsPlannedEarly`, `ReservesAgree`.
* **PodPredicatesProofs.** The operators. The sums over containers are folds of the
  community modules, and what a fold computes is an induction over its length; the
  library's induction theorems cannot be used, but that every set of numbers has a
  least member can (`LeastNumber`, from the well-foundedness of `<`), and gives what is
  needed (`UpTo`). `FoldExists` shows that the recursion of a fold has a solution, so
  that its `CHOOSE` is one. From it `RequestIsLargest`: a pod asks for the largest of the
  containers' sum and of each init container. Also here: `ChunkSizePositive` and
  `ChunksCover` (the chunks cover the nodes and none is empty), which rest on the integer
  square root existing, and `MergedPods` about the pods of a node.
* **PredicateHandlerProofs.** That the filters are complete needs an account of every
  piece: the channel holds the chunks not taken, in order (`QueueOK`); the ranges of the
  workers are disjoint and before the next chunk (`PiecesOK`); what was appended are
  pieces behind the workers, once each (`AppendedOK`), and all of them that pass
  (`BehindOK`); the worker that appends holds the lock and has the current slice
  (`LockOK`); a chunk that is left has a worker that will take it (`AwakeOK`). `PassedOK`
  carries what passed from the filters to the choice. From them, for any number of nodes,
  workers and pods: `TypeCorrect`, `FiltersComplete`, `PlannedPodsAreApart` (from the pods
  that run on the node and from those only planned there; section 5 has what it
  excepts), `PlannedPodsFit`. `Implements` needs besides that the pods still to do are listed once
  with the scheduled one first and have no answer yet (`TodoOK`), and that the scheduled pod is scored on the
  nodes offered (`ScoredOK`); each action is then mapped to a step of `PodSetPlanner` or
  to none. With it the theorems about a request of `PodSetPlanner` hold with the filters
  in the place of its open choice.

Only model-checked: `WorkerReturns`, `TimerFollowsLabel`, `RequestsEnd`,
`RetriedRemovalHappens`, `PodsAreScheduled`, `PlanIsBuilt` (liveness under fairness,
which TLAPS does not reach), and the violations. Every invariant and every action
property of the passing runs is stated by a theorem.

## 5. Not modelled

The SchedulePlan controller (its `Reconcile` does nothing), the version endpoint, the
commands, the configuration, the construction of REST clients and the generated
code have no state that changes. `ScheduleTriggerClient.Update` has no caller.

Within the modelled parts: logging, the names of resources (`helpers.go`) and of
labels, a registry of predicates from elsewhere, `List` calls of the clients, and
the rate limit of the retry queue (time is abstracted to order). `PreFilter`
returns `Success`.

Met while modelling, and not the subject of a run:

* `UpdateAssignment` succeeds and adds nothing when the plan exists without the pod
  (`scheduleplan_client.go:223`), though its comment (line 160) says that it
  "updates or creates". The model has it as it is (`UpdateAssignmentPlan`, `Moved`, and
  `Ignore` in `PlanStore`). `SuccessIsEstablished` asks of every other success that the
  plan has the assignment, and names this one as its exception; it is also why
  `ReserveAgrees` allows a plan without the pod.
* Nothing calls `ScheduleTimerReset`, so the quiet time counts from the moment the
  label was seen and not, as `README.md:43-45` says, from the last pod.
* A pod whose host was tainted after it was bound is not found among the eligible
  nodes (`planner.go:529`), and is planned again for another. `List`
  (`podset_handler.go:45`, "List returns all the pods for the podset assigned to the
  node") asks in the same way and does not see it on the new node, so that the filters
  may plan a replica of it for that node too. `PlannedPodIsApart` counts a pod with a
  host on its host, and does not deny this.
* `duplicates.go:54-56` says that duplicates have "at least one container with the
  same image"; the code compares all of them, so that pods of one owner that share
  some images may be planned for one node. `PlannedPodIsApart` keeps apart the pods of
  one template, on which comment and code agree. Two pods without an owner have no
  keys, and count as duplicates in the code; the property says nothing of them.
* `nodefit.go:68` leaves the requests of ephemeral storage out on both sides, and
  `SetMaxResource` does not: an init container that requests some fits no node. The
  fit compares with the whole node, without the pods that are on it.
* Anti-affinity is checked for the terms of the pod being planned, not for those of
  the pods that are there (`antiaffinity.go:96`).
* When every node has a taint that forbids scheduling, nodes are eligible that also
  discourage it (`planner.go:153`); the filter looks at `NoSchedule` alone, so
  that a pod may be planned for a node whose `NoExecute` taint it does not tolerate.
* `Lookup` takes any failure of the list of a set's planners for there being none
  (`planner.go:183` of the scheduler).

## 6. Plan

1. That the memory of a planner in `SchedulerPlugin` (its two steps of a request, its
   watch) is an abstraction of `PodSetPlanner`, as a refinement.
2. That the calls of the plan in `SchedulerPlugin` and `PodSetPlanner` are what the client
   does: `PlanStore` allows a delete of a missing plan to succeed, which the client does
   not, so it has to be made sharper first.
