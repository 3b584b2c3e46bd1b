------------------------- MODULE SchedulePlanClient -------------------------
(***************************************************************************)
(* The client of the SchedulePlan resource of one pod set                  *)
(* (internal/pkg/client/scheduleplan_client.go) over the Kubernetes API    *)
(* server.  Each method reads the resource, computes a new plan from what  *)
(* it read, and writes it back in a second request; the callers - the      *)
(* scheduling cycle and the binding cycles of the scheduler, the planner's *)
(* pod watch and its retry worker - run concurrently in several processes. *)
(*                                                                         *)
(* The API server is external: Update carries the resourceVersion that was *)
(* read and is refused when it is stale, Create is refused when the        *)
(* resource exists, Delete carries no precondition.                        *)
(***************************************************************************)
EXTENDS Naturals

CONSTANTS Clients,      \* the goroutines that use the plan client
          Pods,         \* the pods of the pod set
          Nodes,        \* the nodes of the cluster
          ApiFaults,    \* may a request fail, or lose its answer?
          MaxRevision   \* bound: no call begins once this many writes are done

ASSUME BoundsAssumption == MaxRevision \in Nat /\ ApiFaults \in BOOLEAN

VARIABLES object,    \* the SchedulePlan resource in the API server
          revision,  \* the API server's last resourceVersion
          pc,        \* pc[c]: where client c is in its call
          req,       \* req[c]: the call and its arguments
          planRef,   \* planRef[c]: the resource the call is about to write
          result     \* result[c]: what the last call returned

vars == <<object, revision, pc, req, planRef, result>>

\* The call of c that has not returned.
pending == [c \in Clients |-> IF pc[c] = "idle" THEN [op |-> "none"] ELSE req[c]]

Store == INSTANCE PlanStore WITH plan <- object.plan

PlanSpec == Store!PlanSpec
Requests == Store!Requests

\* The resource: no resource is the record that does not exist, with no plan.
Objects == [exists : BOOLEAN, plan : SUBSET PlanSpec, version : Nat]
NoObject == [exists |-> FALSE, plan |-> {}, version |-> 0]

TypeOK ==
  /\ object \in Objects
  /\ revision \in Nat
  /\ pc \in [Clients -> {"idle", "get", "create", "put", "remove"}]
  /\ req \in [Clients -> Requests \cup {Store!NoRequest}]
  /\ planRef \in [Clients -> Objects]
  /\ result \in [Clients -> Store!Results]

Init ==
  /\ object = NoObject
  /\ revision = 0
  /\ pc = [c \in Clients |-> "idle"]
  /\ req = [c \in Clients |-> Store!NoRequest]
  /\ planRef = [c \in Clients |-> NoObject]
  /\ result = [c \in Clients |-> "none"]

-----------------------------------------------------------------------------
(* The steps of a call.                                                    *)

\* The call of c returns res; its local variables are gone.
Return(c, res) ==
  /\ pc' = [pc EXCEPT ![c] = "idle"]
  /\ result' = [result EXCEPT ![c] = res]
  /\ planRef' = [planRef EXCEPT ![c] = NoObject]

\* The call of c goes on to write o.
GoWrite(c, label, o) ==
  /\ pc' = [pc EXCEPT ![c] = label]
  /\ planRef' = [planRef EXCEPT ![c] = o]
  /\ UNCHANGED result

\* The resource that holds plan P and, in an update, the version that was read.
PlanObject(P, v) == [exists |-> TRUE, plan |-> P, version |-> v]

\* c calls a method of the client.
Call(c, r) ==
  /\ pc[c] = "idle"
  /\ revision < MaxRevision
  /\ pc' = [pc EXCEPT ![c] = "get"]
  /\ req' = [req EXCEPT ![c] = r]
  /\ result' = [result EXCEPT ![c] = "none"]
  /\ UNCHANGED <<object, revision, planRef>>

\* Update and UpdateAssignment take every error of Get, not only "not found",
\* as the absence of the plan and go on to create it.
CreatePlan(c) ==
  \/ /\ req[c].op = "Update"
     /\ GoWrite(c, "create", PlanObject(req[c].assignments, 0))
  \/ /\ req[c].op = "UpdateAssignment"
     /\ GoWrite(c, "create",
                PlanObject({[pod |-> req[c].pod, node |-> req[c].node]}, 0))

\* Mutant: Delete takes any error of Get for a plan that is gone.
GetFailsDeleteOk(c) ==
  /\ pc[c] = "get"
  /\ ~object.exists \/ ApiFaults
  /\ \/ CreatePlan(c)
     \/ req[c].op = "CheckIfPodPresent" /\ Return(c, "error")
     \/ req[c].op = "Delete" /\ Return(c, "ok")
  /\ UNCHANGED <<object, revision, req>>

\* Get fails: there is no plan, or the request failed.
GetFails(c) ==
  /\ pc[c] = "get"
  /\ ~object.exists \/ ApiFaults
  /\ \/ CreatePlan(c)
     \/ /\ req[c].op \in {"Delete", "CheckIfPodPresent"}
        /\ Return(c, "error")
  /\ UNCHANGED <<object, revision, req>>

\* Mutant: an assignment counts as present when the plan holds its pod.
UpdatePlanByPod(c) ==
  IF Store!Assigned(req[c].assignments) \subseteq Store!Assigned(object.plan)
    THEN Return(c, "ok")
    ELSE GoWrite(c, "put", PlanObject(req[c].assignments, object.version))

\* Mutant: the new assignments are appended and the old ones kept.
UpdatePlanAppends(c) ==
  IF req[c].assignments \subseteq object.plan
    THEN Return(c, "ok")
    ELSE GoWrite(c, "put",
                 PlanObject(object.plan \cup req[c].assignments, object.version))

\* Update compares whole assignments: those the plan does not hold are new, and
\* with one new assignment the plan becomes exactly the caller's map.
UpdatePlan(c) ==
  IF req[c].assignments \subseteq object.plan
    THEN Return(c, "ok")
    ELSE GoWrite(c, "put", PlanObject(req[c].assignments, object.version))

\* Mutant: the pod and the node of the new assignment are swapped.
UpdateAssignmentSwapped(c) ==
  LET changed == {e \in object.plan : e.pod = req[c].pod /\ e.node # req[c].node}
  IN  IF changed = {}
        THEN Return(c, "ok")
        ELSE GoWrite(c, "put",
               PlanObject((object.plan \ changed)
                            \cup {[pod |-> req[c].node, node |-> req[c].pod]},
                          object.version))

\* Mutant: the plan is replaced by the assignments that changed.
UpdateAssignmentOnly(c) ==
  IF \A e \in object.plan : e.pod = req[c].pod => e.node = req[c].node
    THEN Return(c, "ok")
    ELSE GoWrite(c, "put",
                 PlanObject({[pod |-> req[c].pod, node |-> req[c].node]}, object.version))

\* UpdateAssignment moves the pod's assignment to the node, if the plan has one
\* for another node; it adds none to a plan that exists.
UpdateAssignmentPlan(c) ==
  LET changed == {e \in object.plan : e.pod = req[c].pod /\ e.node # req[c].node}
  IN  IF changed = {}
        THEN Return(c, "ok")
        ELSE GoWrite(c, "put",
               PlanObject((object.plan \ changed)
                            \cup {[pod |-> req[c].pod, node |-> req[c].node]},
                          object.version))

\* Mutant: a plan without assignments is written back instead of deleted.
DeletePlanWrites(c) ==
  IF req[c].pod \notin Store!Assigned(object.plan)
    THEN Return(c, "ok")
    ELSE GoWrite(c, "put",
                 PlanObject(Store!Others(object.plan, req[c].pod), object.version))

\* Delete drops the pod's assignment, and the resource with the last one.
DeletePlan(c) ==
  LET newPlan == Store!Others(object.plan, req[c].pod)
  IN  IF req[c].pod \notin Store!Assigned(object.plan)
        THEN Return(c, "ok")
        ELSE IF newPlan = {}
               THEN GoWrite(c, "remove", PlanObject({}, object.version))
               ELSE GoWrite(c, "put", PlanObject(newPlan, object.version))

\* CheckIfPodPresent looks for the pod's assignment.
CheckPlan(c) ==
  Return(c, IF req[c].pod \in Store!Assigned(object.plan) THEN "ok" ELSE "absent")

\* Get returns the plan, and the method decides what to write from it.
GetPlan(c) ==
  /\ pc[c] = "get"
  /\ object.exists
  /\ \/ req[c].op = "Update" /\ UpdatePlan(c)
     \/ req[c].op = "UpdateAssignment" /\ UpdateAssignmentPlan(c)
     \/ req[c].op = "Delete" /\ DeletePlan(c)
     \/ req[c].op = "CheckIfPodPresent" /\ CheckPlan(c)
  /\ UNCHANGED <<object, revision, req>>

-----------------------------------------------------------------------------
(* The API server's answer to a write.                                     *)

\* Does the API server accept the write of c?
CreateAccepted(c) == ~object.exists
PutAccepted(c) == object.exists /\ planRef[c].version = object.version
RemoveAccepted(c) == object.exists

\* What a caller learns from a failed write: Delete asks for a retry.
WriteError(c) == IF req[c].op = "Delete" THEN "retry" ELSE "error"

Applied(c) ==
  \/ /\ pc[c] = "create" /\ CreateAccepted(c)
     /\ object' = PlanObject(planRef[c].plan, revision + 1)
     /\ revision' = revision + 1
  \/ /\ pc[c] = "put" /\ PutAccepted(c)
     /\ object' = PlanObject(planRef[c].plan, revision + 1)
     /\ revision' = revision + 1
  \/ /\ pc[c] = "remove" /\ RemoveAccepted(c)
     /\ object' = NoObject
     /\ revision' = revision + 1

WriteOk(c) == Applied(c) /\ Return(c, "ok") /\ UNCHANGED req

\* The write is applied and its answer is lost (the call's context expires).
WriteAnswerLost(c) ==
  ApiFaults /\ Applied(c) /\ Return(c, WriteError(c)) /\ UNCHANGED req

\* The write is refused: the resource exists, is gone or has changed.
WriteRefused(c) ==
  /\ \/ pc[c] = "create" /\ ~CreateAccepted(c)
     \/ pc[c] = "put" /\ ~PutAccepted(c)
     \/ pc[c] = "remove" /\ ~RemoveAccepted(c)
  /\ Return(c, WriteError(c))
  /\ UNCHANGED <<object, revision, req>>

\* The write does not reach the API server.
WriteFails(c) ==
  /\ ApiFaults
  /\ pc[c] \in {"create", "put", "remove"}
  /\ Return(c, WriteError(c))
  /\ UNCHANGED <<object, revision, req>>

Next ==
  \E c \in Clients :
    \/ \E r \in Requests : Call(c, r)
    \/ GetFails(c)
    \/ GetPlan(c)
    \/ WriteOk(c)
    \/ WriteAnswerLost(c)
    \/ WriteRefused(c)
    \/ WriteFails(c)

Spec == Init /\ [][Next]_vars

-----------------------------------------------------------------------------
(* Properties.                                                             *)

(***************************************************************************)
(* The plan never holds two assignments of one pod, however the calls      *)
(* interleave: the scheduler takes the first one it finds                  *)
(* (CheckIfPodPresent), and a second would make the choice arbitrary.      *)
(***************************************************************************)
OneNodePerPod == Store!Functional(object.plan)

(***************************************************************************)
(* The plan is read in one request and written in another, and between     *)
(* them other callers may change it.  Yet a plan that the API server would *)
(* accept is the effect of its call on the plan of this moment, not on the *)
(* plan that was read: no other caller's change is lost by it.             *)
(***************************************************************************)
AcceptedWriteIsCurrent ==
  \A c \in Clients :
    \/ pc[c] = "create" /\ CreateAccepted(c)
    \/ pc[c] = "put" /\ PutAccepted(c)
    => planRef[c].plan = Store!Effect(req[c], object.plan)

(***************************************************************************)
(* When a call returns without an error the plan agrees with it at that    *)
(* moment, also when the call wrote nothing because it found nothing to    *)
(* change: the assignments of an Update or an UpdateAssignment are in the  *)
(* plan, and after a Delete the pod is gone.  There is one exception, in   *)
(* which the code does not do what its comment says                        *)
(* (scheduleplan_client.go:160, "updates or creates"): an UpdateAssignment *)
(* of a pod that an existing plan does not hold succeeds and changes       *)
(* nothing.                                                                *)
(***************************************************************************)
SuccessIsEstablished ==
  [][\A c \in Clients :
       pc[c] # "idle" /\ pc'[c] = "idle" /\ result'[c] = "ok"
         => \/ Store!Established(req[c], object'.plan)
            \/ Store!Ignored(req[c], object.plan) /\ UNCHANGED object
    ]_vars

(***************************************************************************)
(* The resource is never left without an assignment: the Delete of the     *)
(* last pod removes it, and no other write empties it.                     *)
(***************************************************************************)
NoEmptyPlan == object.exists <=> object.plan # {}

(***************************************************************************)
(* The client implements the abstract plan: a call changes the plan by at  *)
(* most one atomic operation on the plan of that moment, whatever was read *)
(* before, and a call that returns without an error has established what   *)
(* it was asked for.  The two exceptions are actions of their own there: a *)
(* Delete that drops the whole plan, and an UpdateAssignment that is       *)
(* ignored.                                                                *)
(***************************************************************************)
StoreSpec == Store!Spec

(***************************************************************************)
(* Deleting the assignment of one pod leaves those of the others: "Delete  *)
(* deletes schedule planner spec by podname, namespace and podset"         *)
(* (scheduleplan_client.go:245).  The code deletes the resource without a  *)
(* precondition when the plan it read held no other pod, and loses what    *)
(* was added since.                                                        *)
(***************************************************************************)
DeleteKeepsOthers ==
  [][\A c \in Clients :
       pc[c] # "idle" /\ pc'[c] = "idle" /\ req[c].op = "Delete"
         => Store!Others(object'.plan, req[c].pod) = Store!Others(object.plan, req[c].pod)
    ]_vars

=============================================================================
