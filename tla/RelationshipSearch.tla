------------------------- MODULE RelationshipSearch -------------------------
(***************************************************************************)
(* The searches of pkg/discovery/relationships.go that find the resources  *)
(* related to a given one, as operators over the cluster's objects.        *)
(*                                                                         *)
(* objs is the sequence of the cluster's objects in the order in which the *)
(* API server lists them.  An object is a record:                          *)
(*   kind, name, namespace   namespace is "" for a cluster-scoped object   *)
(*   labels, selector        sets of <<key, value>>: Go maps               *)
(*   fields                  set of <<property, value>>: the occurrences   *)
(*                           of a property name in the object, of a list   *)
(*                           those in its first element that has one       *)
(*   env                     values of the containers' env variables       *)
(*   annotations             set of <<key, name>>: the annotation's value  *)
(*                           contains that name                            *)
(*   owners                  sequence of [kind, name]: ownerReferences     *)
(*   composed                sequence of the indices of the objects its    *)
(*                           entry in the composition store has as level-2 *)
(*                           children                                      *)
(* A relationship is a record [relType, lhs, target]: one entry of         *)
(* relationshipMap for one target kind.  relType is "label",               *)
(* "specproperty", "envvariable" (a specproperty on env), "annotation" or  *)
(* "owner reference"; lhs is the property or the annotation key.           *)
(*                                                                         *)
(* A search yields indices of objs.  Where Go's random map iteration order *)
(* decides the result, the operator yields the SET of possible results.    *)
(***************************************************************************)
EXTENDS Integers, Sequences

OwnerReference == [kind : STRING, name : STRING]

Object ==
    [kind : STRING, name : STRING, namespace : STRING,
     labels : SUBSET (STRING \X STRING), selector : SUBSET (STRING \X STRING),
     fields : SUBSET (STRING \X STRING), env : SUBSET STRING,
     annotations : SUBSET (STRING \X STRING),
     owners : Seq(OwnerReference), composed : Seq(Nat)]

SameNames(obj, other) == obj.kind = other.kind /\ obj.name = other.name

\* Objects and owners have a kind, and no object is composed of itself.
IsCluster(objs) ==
    /\ objs \in Seq(Object)
    /\ \A i \in DOMAIN objs :
          /\ objs[i].kind # ""
          /\ \A k \in DOMAIN objs[i].owners : objs[i].owners[k].kind # ""
          /\ \A k \in DOMAIN objs[i].composed :
                /\ objs[i].composed[k] \in DOMAIN objs
                /\ ~SameNames(objs[objs[i].composed[k]], objs[i])

\* getKubeObjectList: the objects of a kind in a namespace.  Listing a
\* cluster-scoped kind in a namespace fails and is retried without it.
Listed(objs, kind, ns) ==
    {i \in DOMAIN objs : objs[i].kind = kind /\ objs[i].namespace \in {ns, ""}}

\* getKubeObject: at most one object; the same retry without the namespace.
Get(objs, kind, name, ns) == {i \in Listed(objs, kind, ns) : objs[i].name = name}

\* An empty selector matches nothing.
subsetMatchMaps(map1, map2) == map1 # {} /\ map1 \subseteq map2

searchNameInLabels(name, labels) == \E l \in labels : l[2] = name

\* The selector of the object, read in its namespace only, empty if the
\* object cannot be read.
getSelectorLabels(objs, kind, name, ns) ==
    UNION {objs[i].selector : i \in {j \in Get(objs, kind, name, ns) : objs[j].namespace = ns}}

getLabels(objs, kind, name, ns) ==
    UNION {objs[i].labels : i \in Get(objs, kind, name, ns)}

\* Downstream: the objects of the target kind the selector selects; without
\* a selector, the ones that have the source's name as the value of a label.
searchLabels(objs, name, selector, target, ns) ==
    {j \in Listed(objs, target, ns) :
        IF selector # {} THEN subsetMatchMaps(selector, objs[j].labels)
                         ELSE searchNameInLabels(name, objs[j].labels)}

\* Upstream: the objects of the related kind whose selector selects labels.
searchSelectors(objs, related, labels, ns) ==
    {i \in Listed(objs, related, ns) : subsetMatchMaps(objs[i].selector, labels)}

\* What findFieldValue may return for a property: any of its occurrences,
\* wherever it is nested, since it walks maps in random order.
findFieldValue(obj, property) ==
    IF property = "namespace" THEN {obj.namespace}
    ELSE {f[2] : f \in {g \in obj.fields : g[1] = property}}

\* Downstream: the target the one value found names, if any.
FieldTargets(objs, kind, name, ns, property, target) ==
    LET values == UNION {findFieldValue(objs[i], property) : i \in Get(objs, kind, name, ns)}
    IN  IF values = {}
        THEN {{}}
        ELSE {{j \in Listed(objs, target, ns) : objs[j].name = v} : v \in values}

\* Upstream: the objects of the related kind whose one value found is name.
FieldSources(objs, kind, name, ns, property, related) ==
    LET values(i) == findFieldValue(objs[i], property)
        may  == {i \in Listed(objs, related, ns) :
                    Get(objs, kind, name, ns) # {} /\ name \in values(i)}
        must == {i \in may : values(i) = {name}}
    IN  {must \union some : some \in SUBSET (may \ must)}

EnvTargets(objs, kind, name, ns, target) ==
    {j \in Listed(objs, target, ns) :
        \E i \in Get(objs, kind, name, ns) : objs[j].name \in objs[i].env}

EnvSources(objs, kind, name, ns, related) ==
    {i \in Listed(objs, related, ns) :
        Get(objs, kind, name, ns) # {} /\ name \in objs[i].env}

\* lhsNs is the namespace of the annotated relation's source, rhsNs the one
\* searched for the annotated objects.
AnnotationTargets(objs, kind, name, lhsNs, rhsNs, key, target) ==
    {j \in Listed(objs, target, rhsNs) :
        Get(objs, kind, name, lhsNs) # {} /\ <<key, name>> \in objs[j].annotations}

AnnotationSources(objs, kind, name, lhsNs, rhsNs, key, related) ==
    {i \in Listed(objs, related, lhsNs) :
        \E j \in Get(objs, kind, name, rhsNs) : <<key, objs[i].name>> \in objs[j].annotations}

\* findOwner: only the first owner reference counts.
findOwner(obj) == IF obj.owners = <<>> THEN [kind |-> "", name |-> ""] ELSE obj.owners[1]
=============================================================================
