-------------------------- MODULE MCPredicateHandler --------------------------
(***************************************************************************)
(* A small instance of PredicateHandler: a cluster of five nodes for two   *)
(* workers, which is three chunks, the last of one node, and two clusters  *)
(* in which the nodes without a taint, or all nodes, are gone.             *)
(***************************************************************************)
EXTENDS PredicateHandler

CONSTANTS p1, p2,                     \* the pods of the set
          n1, n2, n3, n4, n5, n6, n7  \* nodes

MCPodList == <<p1, p2>>

MCNodeLists == {{n1, n2, n3, n4, n5, n6}, {n6, n7}, {n6}}

\* One order is enough: whether a node passes does not depend on its place in it.
MCOrders(S) == {SetToSeq(S)}

Requests(cpu, gpu) == [None EXCEPT !["cpu"] = cpu, !["gpu"] = gpu]

Plain == [taints |-> {}, labels |-> {}, allocatable |-> Requests(2, 1)]

Taint(key, effect) == [key |-> key, effect |-> effect]

MCNodeOf ==
  n1 :> Plain
  @@ n2 :> [Plain EXCEPT !.allocatable = Requests(1, 1)]
  @@ n3 :> [Plain EXCEPT !.labels = {"ssd"}, !.allocatable = Requests(2, 0)]
  @@ n4 :> [Plain EXCEPT !.labels = {"ssd"}, !.taints = {Taint("k", "PreferNoSchedule")}]
  @@ n5 :> Plain
  @@ n6 :> [Plain EXCEPT !.taints = {Taint("k", "NoSchedule")}]
  @@ n7 :> [Plain EXCEPT !.labels = {"ssd"},
                         !.taints = {Taint("k", "NoSchedule"), Taint("k", "PreferNoSchedule")}]

\* A replica of the set.
Web ==
  [name |-> "web", ns |-> "a", labels |-> {"web"}, owners |-> {"rs"}, deleting |-> FALSE,
   failed |-> FALSE, required |-> {}, preferred |-> {}, tolerations |-> {}, selector |-> {},
   containers |-> <<[image |-> "i", requests |-> Requests(1, 0)]>>, inits |-> <<>>]

\* A pod that is to be apart from the replicas, and whose init container is large.
Db ==
  [Web EXCEPT !.owners = {"db"}, !.labels = {"db"}, !.required = {Term({}, {"web"})},
              !.inits = <<Requests(2, 0)>>]

\* A pod without an owner, with a preferred term for another namespace.
Job ==
  [Web EXCEPT !.owners = {}, !.preferred = {Term({"b"}, {"x"})}, !.selector = {"ssd"},
              !.tolerations = {"k"},
              !.containers = <<Web.containers[1], [image |-> "j", requests |-> Requests(0, 1)]>>]

MCTemplates ==
  {Web, Db, Job,
   [Web EXCEPT !.failed = TRUE],
   [Web EXCEPT !.required = {Term({}, Invalid)},
               !.inits = <<[None EXCEPT !["ephemeral-storage"] = 1]>>]}

\* A replica that runs, one that ends, and a pod of another namespace.
MCListed ==
  [n \in Nodes |->
     CASE n = n5 -> {Web}
       [] n = n1 -> {[Web EXCEPT !.deleting = TRUE]}
       [] n = n4 -> {[Web EXCEPT !.ns = "b", !.labels = {"x"}]}
       [] OTHER -> {}]

First(n) == (p1 :> n) @@ (p2 :> NoNode)

\* Nothing is planned, or the first pod is; it has a host, or one that is tainted
\* since it was planned elsewhere.
MCPlacements ==
  {[planned |-> First(NoNode), host |-> First(NoNode)],
   [planned |-> First(n3), host |-> First(NoNode)],
   [planned |-> First(NoNode), host |-> First(n1)],
   [planned |-> First(n3), host |-> First(n6)]}

MCOffers == {{n2, n5}, {n2, n6}}

=============================================================================
