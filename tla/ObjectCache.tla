----------------------------- MODULE ObjectCache -----------------------------
(***************************************************************************)
(* The object cache of pkg/discovery/utils.go, through which the searches  *)
(* of a connections command read the cluster: getKubeObjectList and        *)
(* getKubeObject.                                                          *)
(*                                                                         *)
(* A read asks the API server in the namespace first and, when that fails  *)
(* for whatever reason, without one: an object of a cluster-scoped kind is *)
(* found that way, and so are the objects of all namespaces.  The lists    *)
(* are kept for the rest of the command.  The group, version and plural in *)
(* the caches' keys are functions of the kind and left out.                *)
(***************************************************************************)
EXTENDS APIServer, FiniteSets

CONSTANTS
    MaxChanges,  \* bound on the changes of the cluster
    MaxFaults    \* bound on the calls that fail without a reason in the cluster

ASSUME BoundsAssumption == MaxChanges \in Nat /\ MaxFaults \in Nat

VARIABLES
    cluster,
    pc,                   \* "idle", "ask", "retry" (without the namespace) or "error"
    request,              \* the arguments kind, instance and namespace
    kubeObjectListCache,  \* function from [kind, namespace] to sets of objects
    kubeObjectCache,      \* function from requests to objects; written, never read
    reply,                \* what the last read returned
    changes, faults

\* No part of the code: the clusters since the command and since the read in
\* progress began, and whether a call failed for no reason during the read.
VARIABLES past, recent, failed

vars == <<cluster, pc, request, kubeObjectListCache, kubeObjectCache, reply, changes, faults,
          past, recent, failed>>

caches == <<kubeObjectListCache, kubeObjectCache>>

NoRequest == [kind |-> "", name |-> "", namespace |-> ""]
NoReply == [to |-> NoRequest, found |-> {}, err |-> FALSE]
IsList == request.name = "*"
Key == [kind |-> request.kind, namespace |-> request.namespace]

\* cache[key] = value
Put(cache, key, value) ==
    [k \in DOMAIN cache \union {key} |-> IF k = key THEN value ELSE cache[k]]

Init ==
    /\ cluster \in Clusters
    /\ pc = "idle"
    /\ request = NoRequest
    /\ kubeObjectListCache = [k \in {} |-> {}]
    /\ kubeObjectCache = [k \in {} |-> {}]
    /\ reply = NoReply
    /\ changes = 0
    /\ faults = 0
    /\ past = {cluster}
    /\ recent = {cluster}
    /\ failed = FALSE

-----------------------------------------------------------------------------

\* A search calls getKubeObjectList or getKubeObject.
Ask ==
    /\ pc = "idle"
    /\ request' \in Requests
    /\ pc' = "ask"
    /\ recent' = {cluster}
    /\ failed' = FALSE
    /\ reply' = NoReply
    /\ UNCHANGED <<cluster, caches, changes, faults, past>>

Return(found, err) ==
    /\ pc' = "idle"
    /\ request' = NoRequest
    /\ reply' = [to |-> request, found |-> found, err |-> err]
    /\ UNCHANGED <<cluster, changes, faults, past, recent, failed>>

\* Mutant of Held: the cache is not looked at.
HeldNever == {}

\* Mutant of Held: the namespaces are not compared.
HeldAnywhere ==
    IF Key \in DOMAIN kubeObjectListCache
    THEN {o \in kubeObjectListCache[Key] : o.kind = request.kind /\ o.name = request.name}
    ELSE {}

\* What the cached list of the kind and namespace has of the object asked
\* for.  The namespaces are compared: an object of a cluster-scoped kind is
\* never held.
Held ==
    IF Key \in DOMAIN kubeObjectListCache
    THEN {o \in kubeObjectListCache[Key] :
             o.kind = request.kind /\ o.namespace = request.namespace /\ o.name = request.name}
    ELSE {}

ListHit ==
    /\ pc = "ask"
    /\ IsList
    /\ Key \in DOMAIN kubeObjectListCache
    /\ Return(kubeObjectListCache[Key], FALSE)
    /\ UNCHANGED caches

ObjectHit ==
    /\ pc = "ask"
    /\ ~IsList
    /\ Held # {}
    /\ Return(Held, FALSE)
    /\ UNCHANGED caches

Missed == pc = "ask" /\ (IF IsList THEN Key \notin DOMAIN kubeObjectListCache ELSE Held = {})

\* Mutant of KeepList: the list is kept under the kind alone.
KeepListOfKind(list) ==
    /\ kubeObjectListCache' = Put(kubeObjectListCache, [Key EXCEPT !.namespace = ""], list)
    /\ UNCHANGED kubeObjectCache
    /\ Return(list, FALSE)

KeepList(list) ==
    /\ kubeObjectListCache' = Put(kubeObjectListCache, Key, list)
    /\ UNCHANGED kubeObjectCache
    /\ Return(list, FALSE)

\* Mutant of KeepObject: the entry is the first one, without the name.
KeepUnnamed(o) ==
    /\ kubeObjectCache' = Put(kubeObjectCache, [request EXCEPT !.name = ""], o)
    /\ UNCHANGED kubeObjectListCache
    /\ Return({o}, FALSE)

KeepObject(o) ==
    /\ kubeObjectCache' = Put(kubeObjectCache, request, o)
    /\ UNCHANGED kubeObjectListCache
    /\ Return({o}, FALSE)

\* dynamicClient.Resource(gvk).Namespace(namespace).List
List ==
    /\ Missed
    /\ IsList
    /\ request.kind \in NamespacedKinds
    /\ KeepList(ListIn(cluster, request.kind, request.namespace))

\* dynamicClient.Resource(gvk).Namespace(namespace).Get
Get ==
    /\ Missed
    /\ ~IsList
    /\ \E o \in GetIn(cluster, request) : KeepObject(o)

Fault == faults < MaxFaults /\ faults' = faults + 1 /\ failed' = TRUE

\* "Check if this is a non-namespaced resource": so it may be, or the object
\* is not there, or the call failed.
Fails ==
    /\ Missed
    /\ pc' = "retry"
    /\ \/ /\ IF IsList THEN request.kind \notin NamespacedKinds ELSE GetIn(cluster, request) = {}
          /\ UNCHANGED <<faults, failed>>
       \/ Fault
    /\ UNCHANGED <<cluster, request, caches, reply, changes, past, recent>>

\* The same without the namespace; the list is kept under it all the same.
RetryList ==
    /\ pc = "retry"
    /\ IsList
    /\ KeepList(ListAll(cluster, request.kind))

RetryGet ==
    /\ pc = "retry"
    /\ ~IsList
    /\ \E o \in GetAll(cluster, request) : KeepObject(o)

RetryFails ==
    /\ pc = "retry"
    /\ pc' = "error"
    /\ \/ ~IsList /\ GetAll(cluster, request) = {} /\ UNCHANGED <<faults, failed>>
       \/ Fault
    /\ UNCHANGED <<cluster, request, caches, reply, changes, past, recent>>

ReturnError ==
    /\ pc = "error"
    /\ Return({}, TRUE)
    /\ UNCHANGED caches

\* Objects are created, changed and deleted while the command runs.
Change ==
    /\ changes < MaxChanges
    /\ changes' = changes + 1
    /\ cluster' \in Following(past)
    /\ past' = past \union {cluster'}
    /\ recent' = recent \union {cluster'}
    /\ UNCHANGED <<pc, request, caches, reply, faults, failed>>

Next ==
    \/ Ask \/ ListHit \/ ObjectHit \/ List \/ Get \/ Fails
    \/ RetryList \/ RetryGet \/ RetryFails \/ ReturnError
    \/ Change

Spec == Init /\ [][Next]_vars

-----------------------------------------------------------------------------
(* Properties *)

Keys == [kind : STRING, namespace : STRING]

\* Types of the variables.
TypeOK ==
    /\ cluster \in Clusters
    /\ pc \in {"idle", "ask", "retry", "error"}
    /\ request \in IF pc = "idle" THEN {NoRequest} ELSE Requests
    /\ DOMAIN kubeObjectListCache \subseteq Keys
    /\ kubeObjectListCache \in [DOMAIN kubeObjectListCache -> SUBSET Object]
    /\ DOMAIN kubeObjectCache \subseteq Requests
    /\ kubeObjectCache \in [DOMAIN kubeObjectCache -> Object]
    /\ reply \in [to : Requests \union {NoRequest}, found : SUBSET Object, err : BOOLEAN]
    /\ changes \in 0 .. MaxChanges
    /\ faults \in 0 .. MaxFaults
    /\ past \subseteq Clusters
    /\ recent \subseteq past
    /\ cluster \in recent
    /\ failed \in BOOLEAN

\* What is kept was true at one moment of the command: a list is the one of
\* the namespace, or the one of all namespaces, of a single cluster.
CacheTruthful ==
    /\ \A k \in DOMAIN kubeObjectListCache : \E c \in past :
          \/ k.kind \in NamespacedKinds
             /\ kubeObjectListCache[k] = ListIn(c, k.kind, k.namespace)
          \/ kubeObjectListCache[k] = ListAll(c, k.kind)
    /\ \A r \in DOMAIN kubeObjectCache : \E c \in past :
          kubeObjectCache[r] \in GetIn(c, r) \union GetAll(c, r)

\* A command that was told of an object of its namespace by a list is never
\* told of a newer one by a read of the object alone: when both caches have
\* it, the list's copy is no older.  (The searches read an object now from a
\* list, now alone.)
NeverBack ==
    \A r \in DOMAIN kubeObjectCache :
        LET key == [kind |-> r.kind, namespace |-> r.namespace]
        IN  key \in DOMAIN kubeObjectListCache =>
                \A o \in kubeObjectListCache[key] :
                    SameObject(o, kubeObjectCache[r]) /\ r.kind \in NamespacedKinds =>
                        kubeObjectCache[r].rev <= o.rev

\* The lists have objects of another namespace.
Wide ==
    {k \in DOMAIN kubeObjectListCache :
        \E o \in kubeObjectListCache[k] : o.namespace \notin {k.namespace, ""}}

\* The cache answers as ClusterReads says.
Reads == INSTANCE ClusterReads WITH
    listed <- DOMAIN kubeObjectListCache,
    wide   <- Wide

\* Every read is answered with what the API server would have said at one
\* moment of the command, of the read itself unless the kind was listed in
\* the namespace before; and in the namespace, unless listing there failed.
ReadsTruly == Reads!Spec
=============================================================================
