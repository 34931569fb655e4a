---------------------------- MODULE MCObjectCache ----------------------------
(***************************************************************************)
(* A small instance of the object cache: Pods of one name in two           *)
(* namespaces, one of them changing, and a cluster-scoped Node.            *)
(***************************************************************************)
EXTENDS ObjectCache

Obj(kind, name, ns, rev) == [kind |-> kind, name |-> name, namespace |-> ns, rev |-> rev]

MCClusters ==
    {pod \union {Obj("Pod", "p", "ns2", 1)} \union node :
        pod \in {{}, {Obj("Pod", "p", "ns1", 1)}, {Obj("Pod", "p", "ns1", 2)}},
        node \in {{}, {Obj("Node", "n", "", 1)}}}

MCNamespacedKinds == {"Pod"}

Read(kind, name, ns) == [kind |-> kind, name |-> name, namespace |-> ns]

MCRequests ==
    {Read("Pod", "*", "ns1"), Read("Pod", "p", "ns1"), Read("Pod", "*", "ns2"),
     Read("Node", "*", "ns1"), Read("Node", "n", "ns1")}
=============================================================================
