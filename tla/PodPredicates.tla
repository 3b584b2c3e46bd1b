---------------------------- MODULE PodPredicates ----------------------------
(***************************************************************************)
(* The filter predicates of the planner (pkg/podpredicates) and the size   *)
(* of the chunks they are run in (pkg/parallelize), as operators.          *)
(*                                                                         *)
(* A pod is a record with the fields the predicates read:                  *)
(*   name, ns, labels, owners, deleting and failed, of its metadata and    *)
(*   status;                                                               *)
(*   required and preferred, its anti-affinity terms;                      *)
(*   tolerations and selector, the taints it tolerates and the labels it   *)
(*   asks of a node;                                                       *)
(*   containers, a sequence of images with requests, and inits, the        *)
(*   requests of its init containers.                                      *)
(* A node has taints (pairs of a key and an effect), labels and            *)
(* allocatable resources.  A resource list gives each resource an amount,  *)
(* zero when it is absent.                                                 *)
(***************************************************************************)
EXTENDS Integers, SequencesExt

Resources == {"cpu", "memory", "ephemeral-storage", "gpu"}
None == [r \in Resources |-> 0]

IsRequest(rl) == rl \in [Resources -> Nat]

PodFields == {"name", "ns", "labels", "owners", "deleting", "failed", "required", "preferred",
              "tolerations", "selector", "containers", "inits"}

HasFields(p) == p = [field \in PodFields |-> p[field]]

IsPod(p) ==
  /\ HasFields(p)
  /\ Len(p.containers) \in Nat /\ DOMAIN p.containers = 1 .. Len(p.containers)
  /\ \A i \in DOMAIN p.containers : IsRequest(p.containers[i].requests)
  /\ Len(p.inits) \in Nat /\ DOMAIN p.inits = 1 .. Len(p.inits)
  /\ \A i \in DOMAIN p.inits : IsRequest(p.inits[i])

\* A term of a pod: the namespaces it looks at, and a selector, which may be one
\* that does not parse.
Term(namespaces, selector) == [namespaces |-> namespaces, selector |-> selector]
Invalid == {"invalid"}

-----------------------------------------------------------------------------
(* nodefit.go                                                              *)

\* Resource.Add leaves ephemeral storage out.
Add(r, rl) == [x \in Resources |-> IF x = "ephemeral-storage" THEN r[x] ELSE r[x] + rl[x]]

\* Resource.SetMaxResource does not.
SetMaxResource(r, rl) == [x \in Resources |-> IF rl[x] > r[x] THEN rl[x] ELSE r[x]]

NewResource(rl) == Add(None, rl)

\* The sum over the containers.
ContainersRequest(pod) == FoldLeft(LAMBDA r, c : Add(r, c.requests), None, pod.containers)

\* Mutant: the init containers are left out.
ComputeContainersOnly(pod) == ContainersRequest(pod)

\* The sum over the containers, but no less than any init container.
ComputePodResourceRequest(pod) ==
  FoldLeft(SetMaxResource, ContainersRequest(pod), pod.inits)

\* What the containers of a pod request together, for each resource alone.
Together(pod, r) == FoldLeft(LAMBDA total, c : total + c.requests[r], 0, pod.containers)

\* TolerationsTolerateTaintsWithFilter, for the taints that forbid scheduling.
ToleratesTaints(pod, node) ==
  \A t \in node.taints : t.effect = "NoSchedule" => t.key \in pod.tolerations

\* PodFitsCurrentNode
PodFitsCurrentNode(pod, node) == pod.selector \subseteq node.labels

\* podFitsNode.Filter: the request is compared with what the whole node has.
PodFitsNode(pod, node) ==
  LET allocatable == NewResource(node.allocatable)
      podRequest == ComputePodResourceRequest(pod)
  IN  /\ ToleratesTaints(pod, node)
      /\ PodFitsCurrentNode(pod, node)
      /\ podRequest = None \/ \A r \in Resources : allocatable[r] >= podRequest[r]

-----------------------------------------------------------------------------
(* utils.go, duplicates.go, antiaffinity.go                                *)

\* Mutant: the pods of the set are dropped.
MergeOnlyListed(pods, podsetPods) == pods

\* mergePods: a pod that was listed on the node wins over one of the same name.
MergePods(pods, podsetPods) ==
  pods \cup {p \in podsetPods : \A q \in pods : <<q.ns, q.name>> # <<p.ns, p.name>>}

\* getPodContainerKeys: the list of owners and images, sorted, that is, the number
\* of containers for each of them.
GetPodContainerKeys(pod) ==
  LET images == {pod.containers[i].image : i \in DOMAIN pod.containers}
  IN  [key \in {<<pod.ns, owner, image>> : owner \in pod.owners, image \in images} |->
         Cardinality({i \in DOMAIN pod.containers : pod.containers[i].image = key[3]})]

\* podIsADuplicate.Filter: pods on the node that are going away do not count.
PodIsADuplicate(pod, pods) ==
  \E q \in pods : ~q.deleting /\ GetPodContainerKeys(pod) = GetPodContainerKeys(q)

\* getPodAntiAffinityTerms: what is preferred is asked for as well.
GetPodAntiAffinityTerms(pod) == pod.required \cup pod.preferred

GetNamespaces(pod, term) == IF term.namespaces = {} THEN {pod.ns} ELSE term.namespaces

PodMatchesTerm(q, namespaces, term) == q.ns \in namespaces /\ term.selector \subseteq q.labels

\* checkPodsWithAntiAffinityExist: no pod of another name matches a term of this
\* pod.  A selector that does not parse fails; the terms of the others are not read.
AntiAffinityHolds(pod, pods) ==
  \A term \in GetPodAntiAffinityTerms(pod) :
    /\ term.selector # Invalid
    /\ \A q \in pods : q.name # pod.name => ~PodMatchesTerm(q, GetNamespaces(pod, term), term)

-----------------------------------------------------------------------------
(* predicate.go, parallelism.go                                            *)

\* RunFilterPredicates: the predicates of NewInTreeRegistry, in any order.
NewInTreeRegistry == {"PodFitsNode", "PodIsADuplicate", "PodAntiAffinity"}

Filter(name, pod, node, merged) ==
  CASE name = "PodFitsNode" -> PodFitsNode(pod, node)
    [] name = "PodIsADuplicate" -> ~PodIsADuplicate(pod, merged)
    [] name = "PodAntiAffinity" -> AntiAffinityHolds(pod, merged)

RunFilterPredicates(pod, node, pods, podsetPods) ==
  \A name \in NewInTreeRegistry : Filter(name, pod, node, MergePods(pods, podsetPods))

Sqrt(n) == CHOOSE s \in 0 .. n : s * s <= n /\ n < (s + 1) * (s + 1)

\* chunkSize: the nodes that a worker takes at a time.
ChunkSize(pieces, parallelism) ==
  LET size == Sqrt(pieces)
      r == (pieces \div parallelism) + 1
  IN  IF r < size THEN r ELSE IF size < 1 THEN 1 ELSE size

=============================================================================
