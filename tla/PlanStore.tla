------------------------------ MODULE PlanStore ------------------------------
(***************************************************************************)
(* What a SchedulePlan resource promises its users: it holds the pod to    *)
(* node assignments of one pod set, and a call that changes them is one    *)
(* atomic operation on the assignments held at that moment.                *)
(* SchedulePlanClient, whose calls read and write in separate requests,    *)
(* implements this specification; a module that uses the plan may use      *)
(* these atomic calls in place of the client's steps.                      *)
(***************************************************************************)

CONSTANTS Clients,  \* the callers
          Pods,     \* the pods of one pod set
          Nodes     \* the nodes of the cluster

VARIABLES plan,     \* the set of assignments
          pending,  \* pending[c]: the call of c that has not returned
          result    \* result[c]: what the last call of c returned

storeVars == <<plan, pending, result>>

\* One assignment of a plan (the Go type PlanSpec).
PlanSpec == [pod : Pods, node : Nodes]

\* At most one assignment for each pod.
Functional(P) == \A e1, e2 \in P : e1.pod = e2.pod => e1 = e2

\* The Go type map[string]string of pods to nodes, as a set of assignments.
Assignments == {P \in SUBSET PlanSpec : Functional(P)}

\* The assignments of P for pods other than p.
Others(P, p) == {e \in P : e.pod # p}

\* The pods that P assigns.
Assigned(P) == {e.pod : e \in P}

Update(m) == [op |-> "Update", assignments |-> m]
UpdateAssignment(p, n) == [op |-> "UpdateAssignment", pod |-> p, node |-> n]
Delete(p) == [op |-> "Delete", pod |-> p]
CheckIfPodPresent(p) == [op |-> "CheckIfPodPresent", pod |-> p]

\* The calls.  The planner's map always holds the pod being scheduled.
Requests ==
  {Update(m) : m \in Assignments \ {{}}}
    \cup {UpdateAssignment(p, n) : p \in Pods, n \in Nodes}
    \cup {Delete(p) : p \in Pods}
    \cup {CheckIfPodPresent(p) : p \in Pods}

NoRequest == [op |-> "none"]

\* "retry" is Delete's (true, err): the caller may repeat the call; "absent" is
\* CheckIfPodPresent's (false, nil, nil).
Results == {"none", "ok", "absent", "error", "retry"}

\* The plan after call r has changed the plan P.
Effect(r, P) ==
  IF r.op = "Update" THEN r.assignments
  ELSE IF r.op = "UpdateAssignment"
         THEN Others(P, r.pod) \cup {[pod |-> r.pod, node |-> r.node]}
  ELSE IF r.op = "Delete" THEN Others(P, r.pod)
  ELSE P

\* What the callers take a return without an error for.
Established(r, P) ==
  /\ r.op = "Update" => r.assignments \subseteq P
  /\ r.op = "UpdateAssignment" => [pod |-> r.pod, node |-> r.node] \in P
  /\ r.op = "Delete" => r.pod \notin Assigned(P)
  /\ r.op = "CheckIfPodPresent" => r.pod \in Assigned(P)

\* Does call r succeed on the plan P without doing what it says?  UpdateAssignment
\* "updates or creates planner spec assignment for the pod"
\* (scheduleplan_client.go:160), but adds no assignment to a plan that exists.
Ignored(r, P) ==
  r.op = "UpdateAssignment" /\ P # {} /\ r.pod \notin Assigned(P)

Init ==
  /\ plan = {}
  /\ pending = [c \in Clients |-> NoRequest]
  /\ result = [c \in Clients |-> "none"]

Invoke(c, r) ==
  /\ pending[c] = NoRequest
  /\ pending' = [pending EXCEPT ![c] = r]
  /\ result' = [result EXCEPT ![c] = "none"]
  /\ UNCHANGED plan

Respond(c, res) ==
  /\ pending' = [pending EXCEPT ![c] = NoRequest]
  /\ result' = [result EXCEPT ![c] = res]

\* The call takes effect; its answer may be lost.
TakeEffect(c) ==
  /\ pending[c] # NoRequest
  /\ plan' = Effect(pending[c], plan)
  /\ \E res \in Results \ {"none"} : Respond(c, res)

\* The call changes nothing: it fails, or what it asks for is established.
NoEffect(c) ==
  /\ pending[c] # NoRequest
  /\ \E res \in Results \ {"none"} :
       /\ res = "ok" => Established(pending[c], plan)
       /\ Respond(c, res)
  /\ UNCHANGED plan

\* An UpdateAssignment of a pod that the plan does not hold.
Ignore(c) ==
  /\ Ignored(pending[c], plan)
  /\ Respond(c, "ok")
  /\ UNCHANGED plan

\* A Delete that takes the whole resource away, with whatever it holds.
Drop(c) ==
  /\ pending[c].op = "Delete"
  /\ plan' = {}
  /\ \E res \in Results \ {"none"} : Respond(c, res)

Next ==
  \E c \in Clients :
    \/ \E r \in Requests : Invoke(c, r)
    \/ TakeEffect(c)
    \/ NoEffect(c)
    \/ Ignore(c)
    \/ Drop(c)

Spec == Init /\ [][Next]_storeVars

=============================================================================
