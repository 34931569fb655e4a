----------------------------- MODULE APIServer -----------------------------
(***************************************************************************)
(* The Kubernetes API server as the object cache of                        *)
(* pkg/discovery/utils.go uses it: lists and reads of objects, with and    *)
(* without a namespace, of a cluster that changes.  None of it is code of  *)
(* this repository.                                                        *)
(*                                                                         *)
(* An object is a record [kind, name, namespace, rev]; namespace is "" for *)
(* an object of a cluster-scoped kind, and rev grows whenever the object   *)
(* is changed or created again (metadata.resourceVersion).                 *)
(***************************************************************************)
EXTENDS Naturals

CONSTANTS
    Clusters,         \* the possible clusters: sets of objects
    NamespacedKinds,  \* the kinds whose objects are in a namespace
    Requests          \* the reads there may be: [kind, name, namespace], name "*" for a list

Reference == [kind : STRING, name : STRING, namespace : STRING]
Object == [kind : STRING, name : STRING, namespace : STRING, rev : Nat]

SameObject(o, p) == o.kind = p.kind /\ o.name = p.name /\ o.namespace = p.namespace

ASSUME ClustersAssumption ==
    \A c \in Clusters :
        /\ c \subseteq Object
        /\ \A o \in c : o.namespace = "" <=> o.kind \notin NamespacedKinds
        /\ \A o, p \in c : SameObject(o, p) => o = p
ASSUME RequestsAssumption == Requests \subseteq {r \in Reference : r.kind # "" /\ r.namespace # ""}

\* GET of the collection in a namespace; an error for a cluster-scoped kind.
ListIn(c, kind, namespace) == {o \in c : o.kind = kind /\ o.namespace = namespace}

\* GET of the collection without a namespace: the objects of all namespaces.
ListAll(c, kind) == {o \in c : o.kind = kind}

\* GET of one object in a namespace: at most one object, none being an error.
GetIn(c, r) == {o \in ListIn(c, r.kind, r.namespace) : o.name = r.name}

\* GET of one object without a namespace: only a cluster-scoped one.
GetAll(c, r) == {o \in ListIn(c, r.kind, "") : o.name = r.name}

\* The clusters that may follow those of the past.
Following(past) ==
    {c \in Clusters : \A d \in past : \A o \in d, p \in c : SameObject(o, p) => o.rev <= p.rev}
=============================================================================
