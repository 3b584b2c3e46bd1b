----------------------- MODULE SchedulePlanClientProofs -----------------------
(***************************************************************************)
(* Proofs about SchedulePlanClient, for any sets of clients, pods and      *)
(* nodes, any number of writes, and with or without API faults.            *)
(***************************************************************************)
EXTENDS SchedulePlanClient, TLAPS

\* Requests differ from "no call" in their operation.
CallOps == {"Update", "UpdateAssignment", "Delete", "CheckIfPodPresent"}

(***************************************************************************)
(* The inductive invariant.  A plan in the API server, or on its way       *)
(* there, has one node for each pod; the resource exists exactly when it   *)
(* holds an assignment; no version is ahead of the API server's counter,   *)
(* so that a version that is read and a version that is written later      *)
(* differ; a write carries the effect of its call on the plan it was       *)
(* computed from.                                                          *)
(***************************************************************************)
VersionsBehind ==
  /\ object.version <= revision
  /\ \A c \in Clients : planRef[c].version <= revision

PlansFunctional ==
  /\ Store!Functional(object.plan)
  /\ \A c \in Clients : Store!Functional(planRef[c].plan)

WriteOf(c) ==
  /\ pc[c] # "idle" => req[c] \in Requests
  /\ pc[c] = "create" =>
       /\ req[c].op \in {"Update", "UpdateAssignment"}
       /\ planRef[c].plan # {}
       /\ planRef[c].plan = Store!Effect(req[c], {})
  /\ pc[c] = "put" =>
       /\ req[c].op \in {"Update", "UpdateAssignment", "Delete"}
       /\ planRef[c].plan # {}
       /\ PutAccepted(c) => planRef[c].plan = Store!Effect(req[c], object.plan)
  /\ pc[c] = "remove" => req[c].op = "Delete"

IndInv ==
  /\ TypeOK
  /\ VersionsBehind
  /\ PlansFunctional
  /\ NoEmptyPlan
  /\ \A c \in Clients : WriteOf(c)

-----------------------------------------------------------------------------
(* Facts about requests and plans.                                         *)

\* The arguments of a call by its operation: what the client's methods take.
LEMMA RequestFacts ==
  ASSUME NEW r \in Requests
  PROVE  /\ r.op \in CallOps
         /\ r # Store!NoRequest
         /\ r.op = "Update" => /\ r.assignments \in SUBSET PlanSpec
                               /\ Store!Functional(r.assignments)
                               /\ r.assignments # {}
         /\ r.op # "Update" => r.pod \in Pods
         /\ r.op = "UpdateAssignment" => r.node \in Nodes
BY DEF Requests, CallOps, PlanSpec, Store!Requests, Store!NoRequest, Store!Update,
   Store!UpdateAssignment, Store!Delete, Store!CheckIfPodPresent,
   Store!Assignments, Store!PlanSpec

\* A call's effect on a plan with one node per pod is again such a plan.
LEMMA EffectFacts ==
  ASSUME NEW r \in Requests, NEW P \in SUBSET PlanSpec, Store!Functional(P)
  PROVE  /\ Store!Effect(r, P) \in SUBSET PlanSpec
         /\ Store!Functional(Store!Effect(r, P))
<1>1. CASE r.op = "Update"
  BY <1>1, RequestFacts DEF Store!Effect
<1>2. CASE r.op = "UpdateAssignment"
  BY <1>2, RequestFacts
     DEF Store!Effect, Store!Others, Store!Functional, PlanSpec, Store!PlanSpec
<1>3. CASE r.op = "Delete"
  BY <1>3, RequestFacts DEF Store!Effect, Store!Others, Store!Functional
<1>4. CASE r.op = "CheckIfPodPresent"
  BY <1>4 DEF Store!Effect
<1> QED BY <1>1, <1>2, <1>3, <1>4, RequestFacts DEF CallOps

\* Delete removes nothing but the pod, and something when the pod is planned.
LEMMA OthersFacts ==
  ASSUME NEW P \in SUBSET PlanSpec, NEW p \in Pods
  PROVE  /\ Store!Others(P, p) \in SUBSET PlanSpec
         /\ p \notin Store!Assigned(Store!Others(P, p))
         /\ p \notin Store!Assigned(P) => Store!Others(P, p) = P
         /\ Store!Functional(P) => Store!Functional(Store!Others(P, p))
BY DEF Store!Others, Store!Assigned, Store!Functional

-----------------------------------------------------------------------------
(* The invariant.                                                          *)

\* No plan exists and no call is under way at first.
LEMMA InitInv == Init => IndInv
BY DEF Init, IndInv, TypeOK, Objects, NoObject, VersionsBehind, PlansFunctional,
   NoEmptyPlan, WriteOf, Store!Functional, Store!Results, Store!NoRequest

\* A call begins: nothing but the local state of the caller changes.
LEMMA CallInv ==
  ASSUME IndInv, NEW c \in Clients, NEW r \in Requests, Call(c, r)
  PROVE  IndInv'
<1> USE DEF IndInv, Call
<1>1. TypeOK'
  BY DEF TypeOK, Store!Results
<1>2. VersionsBehind'
  BY DEF VersionsBehind
<1>3. PlansFunctional' /\ NoEmptyPlan'
  BY DEF PlansFunctional, NoEmptyPlan
<1>4. ASSUME NEW d \in Clients PROVE WriteOf(d)'
  BY DEF WriteOf, PutAccepted, TypeOK
<1> QED BY <1>1, <1>2, <1>3, <1>4

(***************************************************************************)
(* A call returns without a change of the resource.                        *)
(***************************************************************************)
LEMMA ReturnInv ==
  ASSUME IndInv, NEW c \in Clients, NEW res \in Store!Results, Return(c, res),
         UNCHANGED <<object, revision, req>>
  PROVE  IndInv'
<1> USE DEF IndInv, Return
<1>1. TypeOK'
  BY DEF TypeOK, Objects, NoObject
<1>2. VersionsBehind'
  BY DEF VersionsBehind, TypeOK, NoObject
<1>3. PlansFunctional' /\ NoEmptyPlan'
  BY DEF PlansFunctional, NoEmptyPlan, TypeOK, NoObject, Store!Functional
<1>4. ASSUME NEW d \in Clients PROVE WriteOf(d)'
  BY DEF WriteOf, PutAccepted, TypeOK
<1> QED BY <1>1, <1>2, <1>3, <1>4

(***************************************************************************)
(* A call computes the plan it will write from what it read.               *)
(***************************************************************************)
LEMMA GoWriteInv ==
  ASSUME IndInv, NEW c \in Clients, pc[c] # "idle",
         NEW label \in {"create", "put", "remove"},
         NEW P \in SUBSET PlanSpec, Store!Functional(P),
         NEW v \in Nat, v <= revision,
         GoWrite(c, label, PlanObject(P, v)),
         label = "create" => /\ req[c].op \in {"Update", "UpdateAssignment"}
                             /\ P # {}
                             /\ P = Store!Effect(req[c], {}),
         label = "put" => /\ req[c].op \in {"Update", "UpdateAssignment", "Delete"}
                          /\ P # {}
                          /\ P = Store!Effect(req[c], object.plan),
         label = "remove" => req[c].op = "Delete",
         UNCHANGED <<object, revision, req>>
  PROVE  IndInv'
<1> USE DEF IndInv, GoWrite, PlanObject
<1>1. TypeOK'
  BY DEF TypeOK, Objects
<1>2. VersionsBehind'
  BY DEF VersionsBehind, TypeOK
<1>3. PlansFunctional' /\ NoEmptyPlan'
  BY DEF PlansFunctional, NoEmptyPlan, TypeOK
<1>4. ASSUME NEW d \in Clients PROVE WriteOf(d)'
  BY DEF WriteOf, PutAccepted, TypeOK
<1> QED BY <1>1, <1>2, <1>3, <1>4

(***************************************************************************)
(* A write is applied: the plan becomes the effect of the call, and every  *)
(* other call that still has to write now holds a stale version.           *)
(***************************************************************************)
LEMMA AppliedInv ==
  ASSUME IndInv, NEW c \in Clients, Applied(c), NEW res \in Store!Results,
         Return(c, res), UNCHANGED req
  PROVE  IndInv'
<1> USE DEF IndInv, Return
<1>0. /\ revision' = revision + 1
      /\ object'.version \in Nat /\ object'.version <= revision'
      /\ object' \in Objects
      /\ object'.exists <=> object'.plan # {}
      /\ Store!Functional(object'.plan)
      /\ object'.exists => object'.version = revision + 1
  <2>1. CASE /\ pc[c] \in {"create", "put"}
             /\ object' = PlanObject(planRef[c].plan, revision + 1)
             /\ revision' = revision + 1
    <3>1. planRef[c].plan \in SUBSET PlanSpec /\ revision \in Nat
      BY DEF TypeOK, Objects
    <3>2. planRef[c].plan # {} /\ Store!Functional(planRef[c].plan)
      BY <2>1 DEF WriteOf, PlansFunctional
    <3> QED BY <2>1, <3>1, <3>2 DEF PlanObject, Objects
  <2>2. CASE object' = NoObject /\ revision' = revision + 1
    BY <2>2 DEF TypeOK, NoObject, Objects, Store!Functional
  <2> QED BY <2>1, <2>2 DEF Applied
<1>1. TypeOK'
  BY <1>0 DEF TypeOK, Objects, NoObject
<1>2. VersionsBehind'
  BY <1>0 DEF VersionsBehind, TypeOK, Objects, NoObject
<1>3. PlansFunctional' /\ NoEmptyPlan'
  BY <1>0 DEF PlansFunctional, NoEmptyPlan, TypeOK, NoObject, Store!Functional
<1>4. ASSUME NEW d \in Clients PROVE WriteOf(d)'
  <2>1. CASE d = c
    BY <2>1 DEF WriteOf, TypeOK
  <2>2. CASE d # c
    <3>1. ~PutAccepted(d)'
      BY <1>0, <2>2 DEF PutAccepted, VersionsBehind, TypeOK, Objects
    <3> QED BY <2>2, <3>1 DEF WriteOf, TypeOK
  <2> QED BY <2>1, <2>2
<1> QED BY <1>1, <1>2, <1>3, <1>4

\* Get fails, and the call ends or goes on to create the plan.
LEMMA GetFailsInv ==
  ASSUME IndInv, NEW c \in Clients, GetFails(c)
  PROVE  IndInv'
<1> USE DEF IndInv
<1>0. /\ pc[c] = "get" /\ UNCHANGED <<object, revision, req>>
      /\ req[c] \in Requests /\ revision \in Nat /\ 0 <= revision
  BY DEF GetFails, WriteOf, TypeOK
<1>1. CASE req[c].op = "Update" /\ GoWrite(c, "create", PlanObject(req[c].assignments, 0))
  <2> DEFINE P == req[c].assignments
  <2>1. P \in SUBSET PlanSpec /\ Store!Functional(P) /\ P # {}
    BY <1>0, <1>1, RequestFacts
  <2>2. P = Store!Effect(req[c], {})
    BY <1>1 DEF Store!Effect
  <2> HIDE DEF P
  <2>3. GoWrite(c, "create", PlanObject(P, 0))
    BY <1>1 DEF P
  <2> QED BY <1>0, <1>1, <2>1, <2>2, <2>3, GoWriteInv
<1>2. CASE /\ req[c].op = "UpdateAssignment"
           /\ GoWrite(c, "create",
                      PlanObject({[pod |-> req[c].pod, node |-> req[c].node]}, 0))
  <2> DEFINE P == {[pod |-> req[c].pod, node |-> req[c].node]}
  <2>1. P \in SUBSET PlanSpec /\ Store!Functional(P) /\ P # {}
    BY <1>0, <1>2, RequestFacts DEF PlanSpec, Store!PlanSpec, Store!Functional
  <2>2. P = Store!Effect(req[c], {})
    BY <1>2 DEF Store!Effect, Store!Others
  <2> HIDE DEF P
  <2>3. GoWrite(c, "create", PlanObject(P, 0))
    BY <1>2 DEF P
  <2> QED BY <1>0, <1>2, <2>1, <2>2, <2>3, GoWriteInv
<1>3. CASE Return(c, "error")
  BY <1>0, <1>3, ReturnInv DEF Store!Results
<1> QED BY <1>1, <1>2, <1>3 DEF GetFails, CreatePlan

\* Get returns the plan: the call ends, or goes on to write its effect.
LEMMA GetPlanInv ==
  ASSUME IndInv, NEW c \in Clients, GetPlan(c)
  PROVE  IndInv'
<1> USE DEF IndInv
<1>0. /\ pc[c] = "get" /\ object.exists /\ UNCHANGED <<object, revision, req>>
      /\ req[c] \in Requests
      /\ object.version \in Nat /\ object.version <= revision
      /\ object.plan \in SUBSET PlanSpec /\ Store!Functional(object.plan)
  BY DEF GetPlan, WriteOf, TypeOK, Objects, VersionsBehind, PlansFunctional
<1>1. ASSUME NEW res \in {"ok", "absent"}, Return(c, res) PROVE IndInv'
  BY <1>0, <1>1, ReturnInv DEF Store!Results
<1>2. ASSUME NEW P, P = Store!Effect(req[c], object.plan), P # {},
             req[c].op # "CheckIfPodPresent",
             GoWrite(c, "put", PlanObject(P, object.version))
      PROVE  IndInv'
  <2>1. P \in SUBSET PlanSpec /\ Store!Functional(P)
    BY <1>0, <1>2, EffectFacts
  <2>2. req[c].op \in {"Update", "UpdateAssignment", "Delete"}
    BY <1>0, <1>2, RequestFacts DEF CallOps
  <2> QED BY <1>0, <1>2, <2>1, <2>2, GoWriteInv
<1>3. CASE req[c].op = "Update" /\ UpdatePlan(c)
  BY <1>0, <1>1, <1>2, <1>3, RequestFacts DEF UpdatePlan, Store!Effect
<1>4. CASE req[c].op = "UpdateAssignment" /\ UpdateAssignmentPlan(c)
  <2> DEFINE changed == {e \in object.plan : e.pod = req[c].pod /\ e.node # req[c].node}
             new == [pod |-> req[c].pod, node |-> req[c].node]
             P == (object.plan \ changed) \cup {new}
  <2>1. CASE changed = {}
    BY <1>1, <1>4, <2>1 DEF UpdateAssignmentPlan
  <2>2. CASE changed # {}
    <3>1. \A e \in object.plan \ changed : e.pod # req[c].pod
      BY <1>0, <2>2 DEF Store!Functional
    <3>2. P = Store!Effect(req[c], object.plan)
      BY <1>4, <3>1 DEF Store!Effect, Store!Others
    <3>3. GoWrite(c, "put", PlanObject(P, object.version))
      BY <1>4, <2>2 DEF UpdateAssignmentPlan
    <3>4. P # {}
      OBVIOUS
    <3> HIDE DEF P
    <3> QED BY <1>2, <1>4, <3>2, <3>3, <3>4
  <2> QED BY <2>1, <2>2
<1>5. CASE req[c].op = "Delete" /\ DeletePlan(c)
  <2> DEFINE P == Store!Others(object.plan, req[c].pod)
  <2>1. P = Store!Effect(req[c], object.plan)
    BY <1>5 DEF Store!Effect
  <2>2. CASE req[c].pod \notin Store!Assigned(object.plan)
    BY <1>1, <1>5, <2>2 DEF DeletePlan
  <2>3. CASE req[c].pod \in Store!Assigned(object.plan) /\ P = {}
    <3>1. GoWrite(c, "remove", PlanObject({}, object.version))
      BY <1>5, <2>3 DEF DeletePlan
    <3>2. Store!Functional({})
      BY DEF Store!Functional
    <3> QED BY <1>0, <1>5, <3>1, <3>2, GoWriteInv
  <2>4. CASE req[c].pod \in Store!Assigned(object.plan) /\ P # {}
    <3>1. GoWrite(c, "put", PlanObject(P, object.version))
      BY <1>5, <2>4 DEF DeletePlan
    <3> HIDE DEF P
    <3> QED BY <1>2, <1>5, <2>1, <2>4, <3>1
  <2> QED BY <2>2, <2>3, <2>4
<1>6. CASE req[c].op = "CheckIfPodPresent" /\ CheckPlan(c)
  BY <1>1, <1>6 DEF CheckPlan
<1> QED BY <1>3, <1>4, <1>5, <1>6 DEF GetPlan

\* Every step of the client keeps the invariant.
LEMMA NextInv == IndInv /\ [Next]_vars => IndInv'
<1> SUFFICES ASSUME IndInv, [Next]_vars PROVE IndInv'
  OBVIOUS
<1>1. ASSUME NEW c \in Clients, WriteOk(c) PROVE IndInv'
  BY <1>1, AppliedInv DEF WriteOk, Store!Results
<1>2. ASSUME NEW c \in Clients, WriteAnswerLost(c) PROVE IndInv'
  BY <1>2, AppliedInv DEF WriteAnswerLost, WriteError, Store!Results
<1>3. ASSUME NEW c \in Clients, WriteRefused(c) PROVE IndInv'
  BY <1>3, ReturnInv DEF WriteRefused, WriteError, Store!Results
<1>4. ASSUME NEW c \in Clients, WriteFails(c) PROVE IndInv'
  BY <1>4, ReturnInv DEF WriteFails, WriteError, Store!Results
<1>5. CASE UNCHANGED vars
  BY <1>5 DEF vars, IndInv, TypeOK, VersionsBehind, PlansFunctional, NoEmptyPlan,
     WriteOf, PutAccepted
<1> QED BY <1>1, <1>2, <1>3, <1>4, <1>5, CallInv, GetFailsInv, GetPlanInv DEF Next

\* The invariant holds in every reachable state.
THEOREM Invariance == Spec => []IndInv
BY InitInv, NextInv, PTL DEF Spec

-----------------------------------------------------------------------------
(* What the invariant gives.                                               *)

\* Every variable of the client and of the resource keeps its type.
THEOREM TypeCorrect == Spec => []TypeOK
<1>1. IndInv => TypeOK
  BY DEF IndInv
<1> QED BY <1>1, Invariance, PTL

(***************************************************************************)
(* No interleaving of calls, faults included, leaves two assignments of    *)
(* one pod in the plan.                                                    *)
(***************************************************************************)
THEOREM PlanIsConsistent == Spec => []OneNodePerPod
<1>1. IndInv => OneNodePerPod
  BY DEF IndInv, PlansFunctional, OneNodePerPod
<1> QED BY <1>1, Invariance, PTL

(***************************************************************************)
(* Nor does it leave a resource without an assignment: the Delete of the   *)
(* last one takes the resource with it.                                    *)
(***************************************************************************)
THEOREM PlanIsNeverEmpty == Spec => []NoEmptyPlan
<1>1. IndInv => NoEmptyPlan
  BY DEF IndInv
<1> QED BY <1>1, Invariance, PTL

(***************************************************************************)
(* The read and the write of a call are as good as one atomic step: what   *)
(* the API server accepts is the effect on the current plan.               *)
(***************************************************************************)
THEOREM WritesAreCurrent == Spec => []AcceptedWriteIsCurrent
<1>1. ASSUME IndInv, NEW c \in Clients, pc[c] = "create", CreateAccepted(c)
      PROVE  planRef[c].plan = Store!Effect(req[c], object.plan)
  BY <1>1 DEF IndInv, WriteOf, CreateAccepted, NoEmptyPlan
<1>2. ASSUME IndInv, NEW c \in Clients, pc[c] = "put", PutAccepted(c)
      PROVE  planRef[c].plan = Store!Effect(req[c], object.plan)
  BY <1>2 DEF IndInv, WriteOf
<1>3. IndInv => AcceptedWriteIsCurrent
  BY <1>1, <1>2 DEF AcceptedWriteIsCurrent
<1> QED BY <1>3, Invariance, PTL

(***************************************************************************)
(* A step of one call, seen as a step of the abstract plan: Applied is the *)
(* effect of the call, or the drop of the whole resource by a Delete.      *)
(***************************************************************************)
LEMMA AppliedEffect ==
  ASSUME IndInv, NEW c \in Clients, Applied(c)
  PROVE  \/ object'.plan = Store!Effect(req[c], object.plan)
         \/ req[c].op = "Delete" /\ object'.plan = {}
<1>1. CASE /\ pc[c] = "create" /\ CreateAccepted(c)
           /\ object' = PlanObject(planRef[c].plan, revision + 1)
  BY <1>1 DEF IndInv, WriteOf, CreateAccepted, NoEmptyPlan, PlanObject
<1>2. CASE /\ pc[c] = "put" /\ PutAccepted(c)
           /\ object' = PlanObject(planRef[c].plan, revision + 1)
  BY <1>2 DEF IndInv, WriteOf, PlanObject
<1>3. CASE pc[c] = "remove" /\ object' = NoObject
  BY <1>3 DEF IndInv, WriteOf, NoObject
<1> QED BY <1>1, <1>2, <1>3 DEF Applied

\* The effect of a call is what its caller asked for.
LEMMA EffectEstablishes ==
  ASSUME NEW r \in Requests, NEW P \in SUBSET PlanSpec, r.op # "CheckIfPodPresent"
  PROVE  /\ Store!Established(r, Store!Effect(r, P))
         /\ r.op = "Delete" => Store!Established(r, {})
<1>1. CASE r.op = "Update"
  BY <1>1 DEF Store!Established, Store!Effect
<1>2. CASE r.op = "UpdateAssignment"
  BY <1>2 DEF Store!Established, Store!Effect, Store!Others
<1>3. CASE r.op = "Delete"
  BY <1>3 DEF Store!Established, Store!Effect, Store!Others, Store!Assigned
<1> QED BY <1>1, <1>2, <1>3, RequestFacts DEF CallOps

\* A call that finds nothing to change returns "ok" only when that is so, or when
\* it is an UpdateAssignment of a pod that the plan does not hold.
LEMMA GetPlanReturns ==
  ASSUME IndInv, NEW c \in Clients, GetPlan(c), result'[c] = "ok", pc'[c] = "idle"
  PROVE  Store!Established(req[c], object.plan) \/ Store!Ignored(req[c], object.plan)
<1>0. pc'[c] # "put" /\ pc'[c] # "remove" /\ c \in DOMAIN pc
  BY DEF IndInv, TypeOK
<1>1. CASE req[c].op = "Update" /\ UpdatePlan(c)
  BY <1>0, <1>1 DEF UpdatePlan, GoWrite, Store!Established
<1>2. CASE req[c].op = "UpdateAssignment" /\ UpdateAssignmentPlan(c)
  <2>1. {e \in object.plan : e.pod = req[c].pod /\ e.node # req[c].node} = {}
    BY <1>0, <1>2 DEF UpdateAssignmentPlan, GoWrite
  <2>2. object.plan # {} /\ object.plan \in SUBSET PlanSpec
    BY DEF GetPlan, IndInv, NoEmptyPlan, TypeOK, Objects
  <2>3. CASE req[c].pod \notin Store!Assigned(object.plan)
    BY <1>2, <2>2, <2>3 DEF Store!Ignored
  <2>4. CASE req[c].pod \in Store!Assigned(object.plan)
    <3>1. PICK e \in object.plan : e.pod = req[c].pod
      BY <2>4 DEF Store!Assigned
    <3>2. e = [pod |-> req[c].pod, node |-> req[c].node]
      BY <2>1, <2>2, <3>1 DEF PlanSpec, Store!PlanSpec
    <3> QED BY <1>2, <3>1, <3>2 DEF Store!Established
  <2> QED BY <2>3, <2>4
<1>3. CASE req[c].op = "Delete" /\ DeletePlan(c)
  BY <1>0, <1>3 DEF DeletePlan, GoWrite, Store!Established
<1>4. CASE req[c].op = "CheckIfPodPresent" /\ CheckPlan(c)
  <2>1. result'[c] = IF req[c].pod \in Store!Assigned(object.plan) THEN "ok" ELSE "absent"
    BY <1>4 DEF CheckPlan, Return, IndInv, TypeOK
  <2>2. req[c].pod \in Store!Assigned(object.plan)
    BY <2>1
  <2> QED BY <1>4, <2>2 DEF Store!Established
<1> QED BY <1>1, <1>2, <1>3, <1>4 DEF GetPlan

(***************************************************************************)
(* The three ways a step of call c can look from outside: it goes on, it   *)
(* returns with the plan as it was, or it returns and the plan has changed *)
(* by the effect of the call (or was dropped by a Delete).                 *)
(***************************************************************************)
GoesOn(c) ==
  \E label \in {"create", "put", "remove"}, o \in Objects :
    GoWrite(c, label, o) /\ UNCHANGED <<object, req>>

Returns(c) ==
  \E res \in Store!Results \ {"none"} :
    /\ Return(c, res) /\ UNCHANGED <<object, req>>
    /\ res = "ok" => \/ Store!Established(req[c], object.plan)
                     \/ Store!Ignored(req[c], object.plan)

Changes(c) ==
  /\ \E res \in Store!Results \ {"none"} : Return(c, res) /\ UNCHANGED req
  /\ req[c].op # "CheckIfPodPresent"
  /\ \/ object'.plan = Store!Effect(req[c], object.plan)
     \/ req[c].op = "Delete" /\ object'.plan = {}

\* GetPlan goes on or returns.
LEMMA GetPlanShape ==
  ASSUME IndInv, NEW c \in Clients, GetPlan(c)
  PROVE  GoesOn(c) \/ Returns(c)
<1>0. /\ UNCHANGED <<object, req>> /\ req[c] \in Requests
      /\ object.plan \in SUBSET PlanSpec /\ object.version \in Nat
  BY DEF GetPlan, IndInv, WriteOf, TypeOK, Objects
<1>1. ASSUME NEW label \in {"put", "remove"}, NEW P \in SUBSET PlanSpec,
             GoWrite(c, label, PlanObject(P, object.version))
      PROVE  GoesOn(c)
  BY <1>0, <1>1 DEF GoesOn, PlanObject, Objects
<1>2. ASSUME NEW res \in {"ok", "absent"}, Return(c, res) PROVE Returns(c)
  <2>1. pc'[c] = "idle" /\ result'[c] = res
    BY <1>2 DEF Return, IndInv, TypeOK
  <2>2. res = "ok" => \/ Store!Established(req[c], object.plan)
                     \/ Store!Ignored(req[c], object.plan)
    BY <2>1, GetPlanReturns
  <2> QED BY <1>0, <1>2, <2>2 DEF Returns, Store!Results
<1>3. CASE req[c].op = "Update" /\ UpdatePlan(c)
  BY <1>0, <1>1, <1>2, <1>3, RequestFacts DEF UpdatePlan
<1>4. CASE req[c].op = "UpdateAssignment" /\ UpdateAssignmentPlan(c)
  <2> DEFINE changed == {e \in object.plan : e.pod = req[c].pod /\ e.node # req[c].node}
             P == (object.plan \ changed) \cup {[pod |-> req[c].pod, node |-> req[c].node]}
  <2>1. P \in SUBSET PlanSpec
    BY <1>0, <1>4, RequestFacts DEF PlanSpec, Store!PlanSpec
  <2>2. Return(c, "ok") \/ GoWrite(c, "put", PlanObject(P, object.version))
    BY <1>4 DEF UpdateAssignmentPlan
  <2> HIDE DEF P
  <2> QED BY <1>1, <1>2, <2>1, <2>2
<1>5. CASE req[c].op = "Delete" /\ DeletePlan(c)
  <2> DEFINE P == Store!Others(object.plan, req[c].pod)
  <2>1. P \in SUBSET PlanSpec
    BY <1>0 DEF Store!Others
  <2>2. \/ Return(c, "ok")
        \/ GoWrite(c, "remove", PlanObject({}, object.version))
        \/ GoWrite(c, "put", PlanObject(P, object.version))
    BY <1>5 DEF DeletePlan
  <2> HIDE DEF P
  <2> QED BY <1>1, <1>2, <2>1, <2>2
<1>6. CASE req[c].op = "CheckIfPodPresent" /\ CheckPlan(c)
  BY <1>2, <1>6 DEF CheckPlan
<1> QED BY <1>3, <1>4, <1>5, <1>6 DEF GetPlan

\* Every step of a call has one of the three shapes.
LEMMA StepShape ==
  ASSUME IndInv, NEW c \in Clients,
         GetFails(c) \/ GetPlan(c) \/ WriteOk(c) \/ WriteAnswerLost(c)
           \/ WriteRefused(c) \/ WriteFails(c)
  PROVE  pc[c] # "idle" /\ (GoesOn(c) \/ Returns(c) \/ Changes(c))
<1>0. pc[c] # "idle"
  BY DEF GetFails, GetPlan, WriteOk, WriteAnswerLost, WriteRefused, WriteFails, Applied
<1>r. req[c] \in Requests
  BY <1>0 DEF IndInv, WriteOf
<1>1. CASE GetFails(c)
  <2>1. CASE CreatePlan(c)
    <3>1. CASE req[c].op = "Update" /\ GoWrite(c, "create", PlanObject(req[c].assignments, 0))
      <4>1. PlanObject(req[c].assignments, 0) \in Objects
        BY <1>r, <3>1, RequestFacts DEF PlanObject, Objects
      <4> QED BY <1>0, <1>1, <3>1, <4>1 DEF GetFails, GoesOn
    <3>2. CASE /\ req[c].op = "UpdateAssignment"
               /\ GoWrite(c, "create",
                          PlanObject({[pod |-> req[c].pod, node |-> req[c].node]}, 0))
      <4>1. PlanObject({[pod |-> req[c].pod, node |-> req[c].node]}, 0) \in Objects
        BY <1>r, <3>2, RequestFacts DEF PlanObject, Objects, PlanSpec, Store!PlanSpec
      <4> QED BY <1>0, <1>1, <3>2, <4>1 DEF GetFails, GoesOn
    <3> QED BY <2>1, <3>1, <3>2 DEF CreatePlan
  <2>2. CASE Return(c, "error")
    BY <1>0, <1>1, <2>2 DEF GetFails, Returns, Store!Results
  <2> QED BY <1>1, <2>1, <2>2 DEF GetFails
<1>2. CASE GetPlan(c)
  BY <1>0, <1>2, GetPlanShape
<1>3. CASE WriteOk(c) \/ WriteAnswerLost(c)
  <2>1. Applied(c) /\ UNCHANGED req
    BY <1>3 DEF WriteOk, WriteAnswerLost
  <2>2. req[c].op # "CheckIfPodPresent"
    BY <2>1 DEF Applied, IndInv, WriteOf
  <2>3. \E res \in Store!Results \ {"none"} : Return(c, res)
    BY <1>3 DEF WriteOk, WriteAnswerLost, WriteError, Store!Results
  <2> QED BY <1>0, <2>1, <2>2, <2>3, AppliedEffect DEF Changes
<1>4. CASE WriteRefused(c) \/ WriteFails(c)
  BY <1>0, <1>4 DEF WriteRefused, WriteFails, WriteError, Returns, Store!Results
<1> QED BY <1>1, <1>2, <1>3, <1>4

(***************************************************************************)
(* A call that returns without an error has what it asked for, at the      *)
(* moment it returns, whether it wrote or found nothing to write, except   *)
(* for an UpdateAssignment of a pod that an existing plan does not hold.   *)
(***************************************************************************)
THEOREM SuccessEstablished == Spec => SuccessIsEstablished
<1> DEFINE Step(c) ==
             pc[c] # "idle" /\ pc'[c] = "idle" /\ result'[c] = "ok"
               => \/ Store!Established(req[c], object'.plan)
                  \/ Store!Ignored(req[c], object.plan) /\ UNCHANGED object
<1>1. ASSUME IndInv, NEW d \in Clients, NEW c \in Clients,
             GetFails(d) \/ GetPlan(d) \/ WriteOk(d) \/ WriteAnswerLost(d)
               \/ WriteRefused(d) \/ WriteFails(d)
      PROVE  Step(c)
  <2>1. GoesOn(d) \/ Returns(d) \/ Changes(d)
    BY <1>1, StepShape
  <2>2. CASE c # d
    <3>1. pc'[c] = pc[c]
      BY <1>1, <2>1, <2>2 DEF GoesOn, Returns, Changes, GoWrite, Return, IndInv, TypeOK
    <3> QED BY <3>1
  <2>3. CASE c = d /\ GoesOn(d)
    BY <1>1, <2>3 DEF GoesOn, GoWrite, IndInv, TypeOK
  <2>4. CASE c = d /\ Returns(d)
    BY <1>1, <2>4 DEF Returns, Return, IndInv, TypeOK
  <2>5. CASE c = d /\ Changes(d) /\ pc[c] # "idle"
    <3>1. req[c] \in Requests /\ object.plan \in SUBSET PlanSpec
      BY <1>1, <2>5 DEF IndInv, WriteOf, TypeOK, Objects
    <3> QED BY <2>5, <3>1, EffectEstablishes DEF Changes
  <2> QED BY <2>1, <2>2, <2>3, <2>4, <2>5
<1>2. ASSUME IndInv, NEW d \in Clients, NEW c \in Clients, NEW r \in Requests, Call(d, r)
      PROVE  Step(c)
  BY <1>2 DEF Call, IndInv, TypeOK
<1>3. IndInv /\ [Next]_vars => [\A c \in Clients : Step(c)]_vars
  BY <1>1, <1>2 DEF Next
<1> QED BY <1>3, Invariance, PTL DEF Spec, SuccessIsEstablished

(***************************************************************************)
(* The client implements the atomic plan of PlanStore.                     *)
(***************************************************************************)
THEOREM Implements == Spec => StoreSpec
<1> USE DEF Store!storeVars
<1>1. Init => Store!Init
  BY DEF Init, Store!Init, pending, NoObject, Store!NoRequest
<1>2. ASSUME IndInv, NEW c \in Clients, NEW r \in Requests, Call(c, r)
      PROVE  Store!Next
  <2>1. pending[c] = Store!NoRequest
    BY <1>2 DEF Call, pending, Store!NoRequest
  <2>2. pending' = [pending EXCEPT ![c] = r]
    BY <1>2 DEF Call, pending, IndInv, TypeOK
  <2>3. Store!Invoke(c, r)
    BY <1>2, <2>1, <2>2 DEF Call, Store!Invoke
  <2> QED BY <2>3 DEF Store!Next, Requests
<1>3. ASSUME IndInv, NEW c \in Clients, GoesOn(c), pc[c] # "idle"
      PROVE  UNCHANGED <<object.plan, pending, result>>
  BY <1>3 DEF GoesOn, GoWrite, pending, IndInv, TypeOK
<1>4. ASSUME IndInv, NEW c \in Clients, NEW res, Return(c, res), UNCHANGED req,
             pc[c] # "idle"
      PROVE  /\ Store!Respond(c, res)
             /\ pending[c] = req[c]
             /\ pending[c] # Store!NoRequest
  <2>1. pending' = [pending EXCEPT ![c] = Store!NoRequest]
    BY <1>4 DEF Return, pending, Store!NoRequest, IndInv, TypeOK
  <2>2. pending[c] = req[c] /\ req[c] \in Requests
    BY <1>4 DEF pending, IndInv, WriteOf
  <2> QED BY <1>4, <2>1, <2>2, RequestFacts DEF Store!Respond, Return
<1>5. ASSUME IndInv, NEW c \in Clients, Returns(c), pc[c] # "idle"
      PROVE  Store!NoEffect(c) \/ Store!Ignore(c)
  BY <1>4, <1>5 DEF Returns, Store!NoEffect, Store!Ignore
<1>6. ASSUME IndInv, NEW c \in Clients, Changes(c), pc[c] # "idle"
      PROVE  Store!TakeEffect(c) \/ Store!Drop(c)
  BY <1>4, <1>6 DEF Changes, Store!TakeEffect, Store!Drop
<1>7. ASSUME IndInv, [Next]_vars
      PROVE  [Store!Next]_(Store!storeVars)
  <2>1. CASE UNCHANGED vars
    BY <2>1 DEF vars, pending
  <2>2. ASSUME NEW c \in Clients,
               GetFails(c) \/ GetPlan(c) \/ WriteOk(c) \/ WriteAnswerLost(c)
                 \/ WriteRefused(c) \/ WriteFails(c)
        PROVE  [Store!Next]_(Store!storeVars)
    BY <1>3, <1>5, <1>6, <1>7, <2>2, StepShape DEF Store!Next
  <2> QED BY <1>2, <1>7, <2>1, <2>2 DEF Next
<1> QED BY <1>1, <1>7, Invariance, PTL DEF Spec, StoreSpec, Store!Spec

=============================================================================
