------------------------- MODULE ObjectCacheProofs -------------------------
(***************************************************************************)
(* Proofs about the object cache, for all clusters and requests: the types *)
(* of the variables, CacheTruthful, NeverBack, and that the cache          *)
(* implements ClusterReads.                                                *)
(***************************************************************************)
EXTENDS ObjectCache, TLAPS

-----------------------------------------------------------------------------
(* The inductive invariant *)

\* No cluster of the past has an object newer than the cluster's.
PastBefore == \A c \in past : \A o \in c, p \in cluster : SameObject(o, p) => o.rev <= p.rev

\* A list is tried without the namespace only if it is not held and the kind
\* is not in a namespace or a call failed; it is given up after a failed call.
ListGivenUp ==
    pc \in {"retry", "error"} /\ IsList =>
        /\ Key \notin DOMAIN kubeObjectListCache
        /\ request.kind \in NamespacedKinds \/ pc = "error" => failed

\* An object is tried without the namespace because it was not there in it,
\* and given up because it was not there without it either.
ObjectGivenUp ==
    ~IsList =>
        /\ pc \in {"retry", "error"} =>
              failed \/ request.kind \notin NamespacedKinds \/ \E c \in recent : GetIn(c, request) = {}
        /\ pc = "error" =>
              failed \/ \E c \in recent : \A o \in Reads!Limited(c, Key) : o.name # request.name

InductiveInv ==
    TypeOK /\ CacheTruthful /\ NeverBack /\ PastBefore /\ ListGivenUp /\ ObjectGivenUp

-----------------------------------------------------------------------------
(* Objects and requests *)

\* The objects of a cluster are objects, each there once, in a namespace if
\* their kind has namespaces.
LEMMA ClusterObject ==
    ASSUME NEW c \in Clusters, NEW o \in c
    PROVE  /\ o \in Object
           /\ o.rev \in Nat
           /\ o.namespace = "" <=> o.kind \notin NamespacedKinds
           /\ \A p \in c : SameObject(o, p) => o = p
BY ClustersAssumption DEF Object

\* A request names a kind and a namespace, and is not NoRequest.
LEMMA RequestFields ==
    ASSUME NEW r \in Requests
    PROVE  /\ r \in Reference
           /\ r # NoRequest
           /\ [kind |-> r.kind, namespace |-> r.namespace] \in Keys
           /\ r.namespace # ""
<1>1. r \in Reference /\ r.kind # "" /\ r.namespace # ""
  BY RequestsAssumption
<1>2. NoRequest.kind = ""
  BY DEF NoRequest
<1>3. r # NoRequest
  BY <1>1, <1>2
<1>4. QED
  BY <1>1, <1>3 DEF Reference, Keys

\* What the API server returns are objects of the cluster.
LEMMA Returned ==
    ASSUME NEW c \in Clusters, NEW r \in Requests
    PROVE  /\ ListIn(c, r.kind, r.namespace) \in SUBSET Object
           /\ ListAll(c, r.kind) \in SUBSET Object
           /\ GetIn(c, r) \in SUBSET Object
           /\ GetAll(c, r) \in SUBSET Object
BY ClusterObject DEF ListIn, ListAll, GetIn, GetAll

\* Listing a kind in a namespace, the kind having namespaces, gives what the
\* reader should see; without a namespace, all of it and more.
LEMMA ListsAreLimited ==
    ASSUME NEW c \in Clusters, NEW r \in Requests
    PROVE  LET key == [kind |-> r.kind, namespace |-> r.namespace]
           IN  /\ r.kind \in NamespacedKinds =>
                     /\ ListIn(c, r.kind, r.namespace) = Reads!Limited(c, key)
                     /\ ~Reads!IsWide(ListIn(c, r.kind, r.namespace), key)
               /\ Reads!IsWide(ListAll(c, r.kind), key) => r.kind \in NamespacedKinds
BY ClusterObject DEF ListIn, ListAll, Reads!Limited, Reads!IsWide

\* The reads of the refinement mapping are the API server's.
LEMMA SameReads ==
    ASSUME NEW c, NEW r
    PROVE  /\ Reads!ListAll(c, r) = ListAll(c, r)
           /\ Reads!Following(c) = Following(c)
BY DEF Reads!ListAll, ListAll, Reads!Following, Following, Reads!SameObject, SameObject

-----------------------------------------------------------------------------
(* The types *)

LEMMA InitType == Init => TypeOK
<1> SUFFICES ASSUME Init PROVE TypeOK
    OBVIOUS
<1>1. reply \in [to : Requests \union {NoRequest}, found : SUBSET Object, err : BOOLEAN]
  BY DEF Init, NoReply
<1>2. /\ kubeObjectListCache \in [{} -> SUBSET Object] /\ DOMAIN kubeObjectListCache = {}
      /\ kubeObjectCache \in [{} -> Object] /\ DOMAIN kubeObjectCache = {}
  BY DEF Init
<1>3. changes \in 0 .. MaxChanges /\ faults \in 0 .. MaxFaults
  BY BoundsAssumption DEF Init
<1>4. failed \in BOOLEAN /\ pc = "idle" /\ request = NoRequest
  BY DEF Init
<1>5. past \subseteq Clusters /\ recent \subseteq past /\ cluster \in recent
  BY DEF Init
<1>6. QED
  BY <1>1, <1>2, <1>3, <1>4, <1>5 DEF Init, TypeOK

LEMMA KeepListType ==
    ASSUME TypeOK, request \in Requests, NEW list \in SUBSET Object, KeepList(list)
    PROVE  /\ DOMAIN kubeObjectListCache' \subseteq Keys
           /\ kubeObjectListCache' \in [DOMAIN kubeObjectListCache' -> SUBSET Object]
           /\ reply' \in [to : Requests \union {NoRequest}, found : SUBSET Object, err : BOOLEAN]
BY RequestFields DEF TypeOK, KeepList, Put, Return, Key

LEMMA KeepObjectType ==
    ASSUME TypeOK, request \in Requests, NEW o \in Object, KeepObject(o)
    PROVE  /\ DOMAIN kubeObjectCache' \subseteq Requests
           /\ kubeObjectCache' \in [DOMAIN kubeObjectCache' -> Object]
           /\ reply' \in [to : Requests \union {NoRequest}, found : SUBSET Object, err : BOOLEAN]
BY DEF TypeOK, KeepObject, Put, Return

LEMMA FaultType ==
    ASSUME TypeOK, UNCHANGED <<faults, failed>> \/ Fault
    PROVE  faults' \in 0 .. MaxFaults /\ failed' \in BOOLEAN
<1>1. faults' \in 0 .. MaxFaults
  BY BoundsAssumption DEF TypeOK, Fault
<1>2. failed' \in BOOLEAN
  BY Zenon DEF TypeOK, Fault
<1>3. QED
  BY <1>1, <1>2

LEMMA TypeStep == TypeOK /\ [Next]_vars => TypeOK'
<1> SUFFICES ASSUME TypeOK, [Next]_vars PROVE TypeOK'
    OBVIOUS
<1> USE DEF TypeOK
<1>1. CASE Ask
  BY <1>1 DEF Ask, caches, NoReply
<1>2. CASE ListHit
  BY <1>2 DEF ListHit, Return, caches
<1>3. CASE ObjectHit
  <2>1. Held \in SUBSET Object
    BY DEF Held
  <2>2. QED
    BY <1>3, <2>1 DEF ObjectHit, Return, caches
<1>4. CASE List
  <2>1. request \in Requests /\ KeepList(ListIn(cluster, request.kind, request.namespace))
    BY <1>4 DEF List, Missed
  <2>2. ListIn(cluster, request.kind, request.namespace) \in SUBSET Object
    BY <2>1, Returned
  <2>3. QED
    BY <2>1, <2>2, KeepListType DEF KeepList, Return
<1>5. CASE Get
  <2>1. PICK o \in GetIn(cluster, request) : KeepObject(o)
    BY <1>5 DEF Get
  <2>2. request \in Requests /\ o \in Object
    BY <1>5, <2>1, Returned DEF Get, Missed
  <2>3. QED
    BY <2>1, <2>2, KeepObjectType DEF KeepObject, Return
<1>6. CASE Fails
  <2>1. UNCHANGED <<faults, failed>> \/ Fault
    BY <1>6 DEF Fails
  <2>2. faults' \in 0 .. MaxFaults /\ failed' \in BOOLEAN
    BY <2>1, FaultType
  <2>3. request \in Requests
    BY <1>6 DEF Fails, Missed
  <2>4. QED
    BY <1>6, <2>2, <2>3 DEF Fails, caches
<1>7. CASE RetryList
  <2>1. request \in Requests /\ KeepList(ListAll(cluster, request.kind))
    BY <1>7 DEF RetryList
  <2>2. ListAll(cluster, request.kind) \in SUBSET Object
    BY <2>1, Returned
  <2>3. QED
    BY <2>1, <2>2, KeepListType DEF KeepList, Return
<1>8. CASE RetryGet
  <2>1. PICK o \in GetAll(cluster, request) : KeepObject(o)
    BY <1>8 DEF RetryGet
  <2>2. request \in Requests /\ o \in Object
    BY <1>8, <2>1, Returned DEF RetryGet
  <2>3. QED
    BY <2>1, <2>2, KeepObjectType DEF KeepObject, Return
<1>9. CASE RetryFails
  <2>1. UNCHANGED <<faults, failed>> \/ Fault
    BY <1>9 DEF RetryFails
  <2>2. faults' \in 0 .. MaxFaults /\ failed' \in BOOLEAN
    BY <2>1, FaultType
  <2>3. request \in Requests
    BY <1>9 DEF RetryFails
  <2>4. QED
    BY <1>9, <2>2, <2>3 DEF RetryFails, caches
<1>10. CASE ReturnError
  BY <1>10 DEF ReturnError, Return, caches
<1>11. CASE Change
  BY <1>11, BoundsAssumption DEF Change, Following, caches
<1>12. CASE UNCHANGED vars
  BY <1>12 DEF vars
<1>13. QED
  BY <1>1, <1>2, <1>3, <1>4, <1>5, <1>6, <1>7, <1>8, <1>9, <1>10, <1>11, <1>12 DEF Next

\* The variables keep their types.
THEOREM TypeCorrect == Spec => []TypeOK
BY InitType, TypeStep, PTL DEF Spec

-----------------------------------------------------------------------------
(* What is kept *)

LEMMA KeepListTruth ==
    ASSUME TypeOK, CacheTruthful, request \in Requests, UNCHANGED past, NEW list, KeepList(list),
           \/ request.kind \in NamespacedKinds /\ list = ListIn(cluster, request.kind, request.namespace)
           \/ list = ListAll(cluster, request.kind)
    PROVE  CacheTruthful'
<1>1. \A k \in DOMAIN kubeObjectListCache' :
          \/ k = Key
          \/ k \in DOMAIN kubeObjectListCache /\ kubeObjectListCache'[k] = kubeObjectListCache[k]
  BY DEF KeepList, Put
<1>2. Key \in DOMAIN kubeObjectListCache' /\ kubeObjectListCache'[Key] = list
  BY DEF KeepList, Put
<1>3. Key.kind = request.kind /\ Key.namespace = request.namespace
  BY DEF Key
<1>4. cluster \in past
  BY DEF TypeOK
<1>5. ASSUME NEW k \in DOMAIN kubeObjectListCache'
      PROVE  \E c \in past : \/ /\ k.kind \in NamespacedKinds
                               /\ kubeObjectListCache'[k] = ListIn(c, k.kind, k.namespace)
                            \/ kubeObjectListCache'[k] = ListAll(c, k.kind)
  <2>1. CASE k = Key
    BY <2>1, <1>2, <1>3, <1>4
  <2>2. CASE k # Key
    BY <2>2, <1>1, <1>5 DEF CacheTruthful
  <2>3. QED
    BY <2>1, <2>2
<1>6. UNCHANGED kubeObjectCache
  BY DEF KeepList
<1>7. QED
  BY <1>5, <1>6 DEF CacheTruthful

LEMMA KeepObjectTruth ==
    ASSUME TypeOK, CacheTruthful, request \in Requests, UNCHANGED past, NEW o, KeepObject(o),
           o \in GetIn(cluster, request) \union GetAll(cluster, request)
    PROVE  CacheTruthful'
<1>1. \A r \in DOMAIN kubeObjectCache' :
          \/ r = request /\ kubeObjectCache'[r] = o
          \/ r \in DOMAIN kubeObjectCache /\ kubeObjectCache'[r] = kubeObjectCache[r]
  BY DEF KeepObject, Put
<1>2. UNCHANGED kubeObjectListCache /\ cluster \in past
  BY DEF KeepObject, TypeOK
<1>3. QED
  BY <1>1, <1>2 DEF CacheTruthful

LEMMA InitTruth == Init => CacheTruthful
BY DEF Init, CacheTruthful

LEMMA TruthStep == TypeOK /\ CacheTruthful /\ [Next]_vars => CacheTruthful'
<1> SUFFICES ASSUME TypeOK, CacheTruthful, [Next]_vars PROVE CacheTruthful'
    OBVIOUS
<1>1. CASE UNCHANGED caches /\ past \subseteq past'
  BY <1>1 DEF CacheTruthful, caches
<1>2. CASE Ask \/ ListHit \/ ObjectHit \/ Fails \/ RetryFails \/ ReturnError \/ Change \/ UNCHANGED vars
  BY <1>1, <1>2 DEF Ask, ListHit, ObjectHit, Fails, RetryFails, ReturnError, Change, Return, vars, caches
<1>3. CASE List
  BY <1>3, KeepListTruth DEF List, Missed, TypeOK, KeepList, Return
<1>4. CASE RetryList
  BY <1>4, KeepListTruth DEF RetryList, TypeOK, KeepList, Return
<1>5. CASE Get
  BY <1>5, KeepObjectTruth DEF Get, Missed, TypeOK, KeepObject, Return
<1>6. CASE RetryGet
  BY <1>6, KeepObjectTruth DEF RetryGet, TypeOK, KeepObject, Return
<1>7. QED
  BY <1>2, <1>3, <1>4, <1>5, <1>6 DEF Next

\* What is kept was true at one moment of the command: a list is the one of
\* the namespace or of all namespaces, an object the one asked for.
THEOREM Truthful == Spec => []CacheTruthful
BY InitType, TypeStep, InitTruth, TruthStep, PTL DEF Spec

-----------------------------------------------------------------------------
(* Order *)

LEMMA InitPast == Init => PastBefore
<1> SUFFICES ASSUME Init, NEW o \in cluster, NEW p \in cluster, SameObject(o, p) PROVE o.rev <= p.rev
    BY DEF Init, PastBefore
<1>1. o = p /\ o.rev \in Nat
  BY ClusterObject DEF Init
<1>2. QED
  BY <1>1

LEMMA PastStep == TypeOK /\ PastBefore /\ [Next]_vars => PastBefore'
<1> SUFFICES ASSUME TypeOK, PastBefore, [Next]_vars PROVE PastBefore'
    OBVIOUS
<1>1. CASE UNCHANGED <<cluster, past>>
  BY <1>1 DEF PastBefore
<1>2. CASE Change
  <2> SUFFICES ASSUME NEW c \in past', NEW o \in c, NEW p \in cluster', SameObject(o, p)
               PROVE  o.rev <= p.rev
    BY DEF PastBefore
  <2>1. cluster' \in Clusters /\ past' = past \union {cluster'}
    BY <1>2 DEF Change, Following
  <2>2. CASE c \in past
    BY <1>2, <2>2 DEF Change, Following
  <2>3. CASE c = cluster'
    <3>1. o = p /\ o.rev \in Nat
      BY <2>1, <2>3, ClusterObject
    <3>2. QED
      BY <3>1
  <2>4. QED
    BY <2>1, <2>2, <2>3
<1>3. QED
  BY <1>1, <1>2 DEF Next, Ask, ListHit, ObjectHit, List, Get, Fails, RetryList, RetryGet, RetryFails,
                    ReturnError, KeepList, KeepObject, Return, vars

LEMMA KeepListOrder ==
    ASSUME TypeOK, CacheTruthful, NeverBack, PastBefore, request \in Requests,
           NEW list \in SUBSET cluster, KeepList(list)
    PROVE  NeverBack'
<1> SUFFICES ASSUME NEW r \in DOMAIN kubeObjectCache',
                    NEW key, key = [kind |-> r.kind, namespace |-> r.namespace],
                    key \in DOMAIN kubeObjectListCache',
                    NEW o \in kubeObjectListCache'[key], SameObject(o, kubeObjectCache'[r]),
                    r.kind \in NamespacedKinds
             PROVE  kubeObjectCache'[r].rev <= o.rev
    BY DEF NeverBack
<1>1. UNCHANGED kubeObjectCache
  BY DEF KeepList
<1>2. \/ key = Key /\ kubeObjectListCache'[key] = list
      \/ key \in DOMAIN kubeObjectListCache /\ kubeObjectListCache'[key] = kubeObjectListCache[key]
  BY DEF KeepList, Put
<1>3. CASE kubeObjectListCache'[key] = list
  <2>1. PICK c \in past : kubeObjectCache[r] \in c
    BY <1>1 DEF CacheTruthful, GetIn, GetAll, ListIn
  <2>2. o \in cluster /\ SameObject(kubeObjectCache[r], o)
    BY <1>1, <1>3 DEF SameObject
  <2>3. QED
    BY <1>1, <2>1, <2>2 DEF PastBefore
<1>4. CASE key \in DOMAIN kubeObjectListCache /\ kubeObjectListCache'[key] = kubeObjectListCache[key]
  BY <1>1, <1>4 DEF NeverBack
<1>5. QED
  BY <1>2, <1>3, <1>4

LEMMA KeepObjectOrder ==
    ASSUME TypeOK, NeverBack, request \in Requests, NEW q, KeepObject(q),
           \/ Held = {} /\ q \in GetIn(cluster, request)
           \/ q \in GetAll(cluster, request)
    PROVE  NeverBack'
<1> SUFFICES ASSUME NEW r \in DOMAIN kubeObjectCache',
                    NEW key, key = [kind |-> r.kind, namespace |-> r.namespace],
                    key \in DOMAIN kubeObjectListCache',
                    NEW o \in kubeObjectListCache'[key], SameObject(o, kubeObjectCache'[r]),
                    r.kind \in NamespacedKinds
             PROVE  kubeObjectCache'[r].rev <= o.rev
    BY DEF NeverBack
<1>1. UNCHANGED kubeObjectListCache
  BY DEF KeepObject
<1>2. CASE r = request /\ kubeObjectCache'[r] = q
  <2>1. key = Key
    BY <1>2 DEF Key
  <2>2. q \notin GetAll(cluster, request)
    BY <1>2, ClusterObject DEF GetAll, ListIn, TypeOK
  <2>3. o \in Held
    BY <1>1, <1>2, <2>1, <2>2 DEF Held, GetIn, ListIn, SameObject
  <2>4. QED
    BY <2>2, <2>3
<1>3. CASE r \in DOMAIN kubeObjectCache /\ kubeObjectCache'[r] = kubeObjectCache[r]
  BY <1>1, <1>3 DEF NeverBack
<1>4. QED
  BY <1>2, <1>3 DEF KeepObject, Put

LEMMA InitOrder == Init => NeverBack
BY DEF Init, NeverBack

LEMMA OrderStep ==
    TypeOK /\ CacheTruthful /\ NeverBack /\ PastBefore /\ [Next]_vars => NeverBack'
<1> SUFFICES ASSUME TypeOK, CacheTruthful, NeverBack, PastBefore, [Next]_vars PROVE NeverBack'
    OBVIOUS
<1>1. CASE UNCHANGED caches
  BY <1>1 DEF NeverBack, caches
<1>2. CASE List
  BY <1>2, KeepListOrder DEF List, Missed, TypeOK, ListIn
<1>3. CASE RetryList
  BY <1>3, KeepListOrder DEF RetryList, TypeOK, ListAll
<1>4. CASE Get
  BY <1>4, KeepObjectOrder DEF Get, Missed, TypeOK
<1>5. CASE RetryGet
  BY <1>5, KeepObjectOrder DEF RetryGet, TypeOK
<1>6. QED
  BY <1>1, <1>2, <1>3, <1>4, <1>5
     DEF Next, Ask, ListHit, ObjectHit, Fails, RetryFails, ReturnError, Change, vars, caches

\* A read of one object is never newer than what a list of its namespace told.
THEOREM ListsNoOlder == Spec => []NeverBack
BY InitType, TypeStep, InitTruth, TruthStep, InitPast, PastStep, InitOrder, OrderStep, PTL DEF Spec

-----------------------------------------------------------------------------
(* The calls that fail *)

LEMMA InitGivenUp == Init => ListGivenUp /\ ObjectGivenUp
BY DEF Init, ListGivenUp, ObjectGivenUp

\* An object that is there neither in the namespace nor without one is not
\* among those the reader should see.
LEMMA NotThere ==
    ASSUME TypeOK, ObjectGivenUp, pc = "retry", ~IsList, GetAll(cluster, request) = {}
    PROVE  failed \/ \E c \in recent : \A o \in Reads!Limited(c, Key) : o.name # request.name
<1>1. Key.kind = request.kind /\ Key.namespace = request.namespace /\ request.namespace # ""
  BY RequestFields DEF Key, TypeOK
<1>2. cluster \in recent /\ recent \subseteq Clusters
  BY DEF TypeOK
<1>3. CASE request.kind \notin NamespacedKinds
  <2>1. cluster \in Clusters
    BY <1>2
  <2>2. ASSUME NEW o \in Reads!Limited(cluster, Key) PROVE o.name # request.name
    <3>1. o \in cluster /\ o.kind = request.kind
      BY <1>1 DEF Reads!Limited
    <3>2. o.namespace = ""
      BY <1>3, <2>1, <3>1, ClusterObject
    <3>3. QED
      BY <3>1, <3>2 DEF GetAll, ListIn
  <2>3. QED
    BY <1>2, <2>2
<1>4. CASE request.kind \in NamespacedKinds /\ \E c \in recent : GetIn(c, request) = {}
  <2>1. PICK c \in recent : GetIn(c, request) = {}
    BY <1>4
  <2>2. \A o \in Reads!Limited(c, Key) : o.name # request.name
    BY <1>1, <1>2, <1>4, <2>1, ClusterObject DEF Reads!Limited, GetIn, ListIn
  <2>3. QED
    BY <2>2
<1>5. failed \/ request.kind \notin NamespacedKinds \/ \E c \in recent : GetIn(c, request) = {}
  BY DEF ObjectGivenUp
<1>6. QED
  BY <1>3, <1>4, <1>5

LEMMA GivenUpStep ==
    TypeOK /\ ListGivenUp /\ ObjectGivenUp /\ [Next]_vars => ListGivenUp' /\ ObjectGivenUp'
<1> SUFFICES ASSUME TypeOK, ListGivenUp, ObjectGivenUp, [Next]_vars
             PROVE  ListGivenUp' /\ ObjectGivenUp'
    OBVIOUS
<1>1. CASE pc' \notin {"retry", "error"}
  BY <1>1 DEF ListGivenUp, ObjectGivenUp
<1>2. CASE Ask \/ ListHit \/ ObjectHit \/ List \/ Get \/ RetryList \/ RetryGet \/ ReturnError
  BY <1>1, <1>2
     DEF Ask, ListHit, ObjectHit, List, Get, RetryList, RetryGet, ReturnError, KeepList, KeepObject, Return
<1>3. CASE Fails
  <2>1. UNCHANGED <<request, kubeObjectListCache, recent>> /\ pc' = "retry" /\ cluster \in recent
    BY <1>3 DEF Fails, caches, TypeOK
  <2>2. ListGivenUp'
    BY <1>3, <2>1 DEF Fails, Missed, Fault, ListGivenUp, IsList, Key
  <2>3. ObjectGivenUp'
    BY <1>3, <2>1 DEF Fails, Fault, ObjectGivenUp, IsList
  <2>4. QED
    BY <2>2, <2>3
<1>4. CASE RetryFails
  <2>1. UNCHANGED <<request, kubeObjectListCache, recent>> /\ pc = "retry" /\ pc' = "error"
    BY <1>4 DEF RetryFails, caches
  <2>2. UNCHANGED failed \/ failed'
    BY <1>4 DEF RetryFails, Fault
  <2>3. ListGivenUp'
    BY <1>4, <2>1, <2>2 DEF RetryFails, Fault, ListGivenUp, IsList, Key
  <2>4. IsList' = IsList /\ Key' = Key
    BY <2>1 DEF IsList, Key
  <2>5. ~IsList => failed' \/ \E c \in recent : \A o \in Reads!Limited(c, Key) : o.name # request.name
    BY <1>4, <2>1, <2>2, NotThere DEF RetryFails, Fault
  <2>6. ~IsList => failed' \/ request.kind \notin NamespacedKinds \/ \E c \in recent : GetIn(c, request) = {}
    BY <2>1, <2>2 DEF ObjectGivenUp
  <2>7. ObjectGivenUp'
    BY <2>1, <2>4, <2>5, <2>6 DEF ObjectGivenUp
  <2>8. QED
    BY <2>3, <2>7
<1>5. CASE Change
  <2>1. UNCHANGED <<pc, request, kubeObjectListCache, failed>> /\ recent \subseteq recent'
    BY <1>5 DEF Change, caches
  <2>2. IsList' = IsList /\ Key' = Key
    BY <2>1 DEF IsList, Key
  <2>3. QED
    BY <2>1, <2>2 DEF ListGivenUp, ObjectGivenUp
<1>6. CASE UNCHANGED vars
  BY <1>6 DEF vars, ListGivenUp, ObjectGivenUp, IsList, Key
<1>7. QED
  BY <1>2, <1>3, <1>4, <1>5, <1>6 DEF Next

-----------------------------------------------------------------------------
(* The inductive invariant, and the refinement *)

LEMMA InitInv == Init => InductiveInv
BY InitType, InitTruth, InitOrder, InitPast, InitGivenUp DEF InductiveInv

LEMMA StepInv == InductiveInv /\ [Next]_vars => InductiveInv'
BY TypeStep, TruthStep, OrderStep, PastStep, GivenUpStep DEF InductiveInv

LEMMA InitReads == Init => Reads!Init
BY DEF Init, Reads!Init, Wide, NoRequest, NoReply, Reads!NoRequest, Reads!NoReply

\* Keeping a list adds its kind and namespace to those listed, and to those
\* with objects of another namespace if the list has such.
LEMMA KeptList ==
    ASSUME NEW list, KeepList(list), Key \notin DOMAIN kubeObjectListCache
    PROVE  /\ DOMAIN kubeObjectListCache' = DOMAIN kubeObjectListCache \union {Key}
           /\ Wide' = IF Reads!IsWide(list, Key) THEN Wide \union {Key} ELSE Wide
<1>1. /\ DOMAIN kubeObjectListCache' = DOMAIN kubeObjectListCache \union {Key}
      /\ kubeObjectListCache'[Key] = list
      /\ \A k \in DOMAIN kubeObjectListCache : kubeObjectListCache'[k] = kubeObjectListCache[k]
  BY DEF KeepList, Put
<1>2. QED
  BY <1>1 DEF Wide, Reads!IsWide

LEMMA AskReads == TypeOK /\ Ask => Reads!Ask
BY DEF TypeOK, Ask, Reads!Ask, caches, Wide, NoRequest, NoReply, Reads!NoRequest, Reads!NoReply

LEMMA SameRequest ==
    ASSUME TypeOK, pc # "idle"
    PROVE  /\ request \in Requests /\ request # Reads!NoRequest
           /\ Reads!Key(request) = Key
           /\ Reads!IsList(request) <=> IsList
           /\ Key.kind = request.kind /\ Key.namespace = request.namespace
BY RequestFields DEF TypeOK, NoRequest, Reads!NoRequest, Reads!Key, Key, Reads!IsList, IsList

LEMMA ListHitReads == InductiveInv /\ ListHit => Reads!AnswerList
<1> SUFFICES ASSUME InductiveInv, ListHit PROVE Reads!AnswerList
    OBVIOUS
<1> DEFINE found == kubeObjectListCache[Key]
<1>1. /\ request # Reads!NoRequest /\ Reads!IsList(request) /\ Reads!Key(request) = Key
      /\ request \in Requests
      /\ Key.kind = request.kind /\ Key.namespace = request.namespace
  BY SameRequest DEF InductiveInv, ListHit
<1>2. Key \in DOMAIN kubeObjectListCache /\ Reads!Moments = past
  BY <1>1 DEF ListHit, Reads!Moments
<1>3. PICK c \in past : \/ request.kind \in NamespacedKinds
                           /\ found = ListIn(c, request.kind, request.namespace)
                        \/ found = ListAll(c, request.kind)
  BY <1>1, <1>2 DEF InductiveInv, CacheTruthful
<1>4. found \in {Reads!Limited(c, Key), Reads!ListAll(c, request.kind)}
  <2>1. c \in Clusters
    BY DEF InductiveInv, TypeOK
  <2>2. QED
    BY <1>1, <1>3, <2>1, ListsAreLimited, SameReads DEF Key
<1>5. Reads!IsWide(found, Key) => Key \in Wide
  BY <1>2 DEF Reads!IsWide, Wide
<1>6. UNCHANGED <<kubeObjectListCache, Wide>>
  BY DEF ListHit, caches, Wide
<1>7. Reads!Answer(found, FALSE)
  BY DEF ListHit, Return, Reads!Answer, NoRequest, Reads!NoRequest
<1>8. Wide' = IF Reads!IsWide(found, Key) THEN Wide \union {Key} ELSE Wide
  BY <1>5, <1>6
<1>9. DOMAIN kubeObjectListCache' = DOMAIN kubeObjectListCache \union {Key}
  BY <1>2, <1>6
<1>10. QED
  BY <1>1, <1>2, <1>4, <1>5, <1>7, <1>8, <1>9 DEF Reads!AnswerList

\* A list that is kept is an answer from the cluster as it is.
LEMMA KeepListReads ==
    ASSUME InductiveInv, pc # "idle", IsList, Key \notin DOMAIN kubeObjectListCache,
           NEW list, KeepList(list),
           \/ request.kind \in NamespacedKinds /\ list = ListIn(cluster, request.kind, request.namespace)
           \/ (request.kind \in NamespacedKinds => failed) /\ list = ListAll(cluster, request.kind)
    PROVE  Reads!AnswerList
<1>1. /\ request # Reads!NoRequest /\ Reads!IsList(request) /\ Reads!Key(request) = Key
      /\ request \in Requests
      /\ Key.kind = request.kind /\ Key.namespace = request.namespace
  BY SameRequest DEF InductiveInv
<1>2. Reads!Moments = recent /\ cluster \in recent /\ cluster \in Clusters
  BY <1>1 DEF Reads!Moments, InductiveInv, TypeOK
<1>3. list \in {Reads!Limited(cluster, Key), Reads!ListAll(cluster, request.kind)}
  BY <1>1, <1>2, ListsAreLimited, SameReads DEF Key
<1>4. Reads!IsWide(list, Key) => failed
  BY <1>1, <1>2, ListsAreLimited DEF Key
<1>5. Reads!Answer(list, FALSE)
  BY DEF KeepList, Return, Reads!Answer, NoRequest, Reads!NoRequest
<1>6. QED
  BY <1>1, <1>2, <1>3, <1>4, <1>5, KeptList DEF Reads!AnswerList

LEMMA ListReads == InductiveInv /\ (List \/ RetryList) => Reads!AnswerList
<1>1. InductiveInv /\ List => Reads!AnswerList
  BY KeepListReads DEF List, Missed
<1>2. InductiveInv /\ RetryList => Reads!AnswerList
  BY KeepListReads DEF RetryList, InductiveInv, ListGivenUp
<1>3. QED
  BY <1>1, <1>2

LEMMA ObjectHitReads == InductiveInv /\ ObjectHit => Reads!AnswerObject
<1> SUFFICES ASSUME InductiveInv, ObjectHit PROVE Reads!AnswerObject
    OBVIOUS
<1>1. /\ request # Reads!NoRequest /\ ~Reads!IsList(request) /\ Reads!Key(request) = Key
      /\ Key.kind = request.kind /\ Key.namespace = request.namespace
  BY SameRequest DEF InductiveInv, ObjectHit
<1>2. Key \in DOMAIN kubeObjectListCache /\ Reads!Moments = past
  BY <1>1 DEF ObjectHit, Held, Reads!Moments
<1>3. PICK c \in past : kubeObjectListCache[Key] \subseteq c
  BY <1>2 DEF InductiveInv, CacheTruthful, ListIn, ListAll
<1>4. PICK o \in Held : TRUE
  BY DEF ObjectHit
<1>5. o \in c /\ o.kind = request.kind /\ o.namespace = request.namespace /\ o.name = request.name
  BY <1>2, <1>3, <1>4 DEF Held
<1>6. Held = {o}
  <2>1. c \in Clusters
    BY DEF InductiveInv, TypeOK
  <2>2. \A p \in Held : SameObject(o, p) /\ p \in c
    BY <1>2, <1>3, <1>5 DEF Held, SameObject
  <2>3. QED
    BY <1>4, <1>5, <2>1, <2>2, ClusterObject
<1>7. o \in Reads!Limited(c, Key)
  BY <1>1, <1>5 DEF Reads!Limited
<1>8. Reads!Answer({o}, FALSE)
  BY <1>6 DEF ObjectHit, Return, Reads!Answer, NoRequest, Reads!NoRequest
<1>9. UNCHANGED <<DOMAIN kubeObjectListCache, Wide>>
  BY DEF ObjectHit, caches, Wide
<1>10. QED
  BY <1>1, <1>2, <1>5, <1>7, <1>8, <1>9 DEF Reads!AnswerObject

LEMMA ObjectReads == InductiveInv /\ (Get \/ RetryGet) => Reads!AnswerObject
<1> SUFFICES ASSUME InductiveInv, Get \/ RetryGet PROVE Reads!AnswerObject
    OBVIOUS
<1>1. /\ request # Reads!NoRequest /\ ~Reads!IsList(request) /\ Reads!Key(request) = Key
      /\ Key.kind = request.kind /\ Key.namespace = request.namespace
  BY SameRequest DEF InductiveInv, Get, RetryGet, Missed
<1>2. cluster \in Reads!Moments
  BY DEF Reads!Moments, InductiveInv, TypeOK
<1>3. PICK o \in GetIn(cluster, request) \union GetAll(cluster, request) : KeepObject(o)
  BY DEF Get, RetryGet
<1>4. o \in Reads!Limited(cluster, Key) /\ o.name = request.name
  BY <1>1, <1>3 DEF Reads!Limited, GetIn, GetAll, ListIn
<1>5. Reads!Answer({o}, FALSE) /\ UNCHANGED <<DOMAIN kubeObjectListCache, Wide>>
  BY <1>3 DEF KeepObject, Return, Reads!Answer, NoRequest, Reads!NoRequest, Wide
<1>6. QED
  BY <1>1, <1>2, <1>4, <1>5 DEF Reads!AnswerObject

LEMMA ErrorReads == InductiveInv /\ ReturnError => Reads!AnswerError
<1> SUFFICES ASSUME InductiveInv, ReturnError PROVE Reads!AnswerError
    OBVIOUS
<1>1. /\ request # Reads!NoRequest /\ Reads!Key(request) = Key
      /\ Reads!IsList(request) <=> IsList
  BY SameRequest DEF InductiveInv, ReturnError
<1>2. \/ failed
      \/ ~IsList /\ \E c \in recent : \A o \in Reads!Limited(c, Key) : o.name # request.name
  BY DEF InductiveInv, ListGivenUp, ObjectGivenUp, ReturnError
<1>3. Reads!Answer({}, TRUE) /\ UNCHANGED <<DOMAIN kubeObjectListCache, Wide>>
  BY DEF ReturnError, Return, Reads!Answer, NoRequest, Reads!NoRequest, Wide, caches
<1>4. QED
  BY <1>1, <1>2, <1>3 DEF Reads!AnswerError

\* A call that fails is a failed call of the abstract read if it failed for
\* no reason in the cluster, and no step of it otherwise.
LEMMA FailsReads == TypeOK /\ (Fails \/ RetryFails) => Reads!CallFails \/ UNCHANGED Reads!vars
<1> SUFFICES ASSUME TypeOK, Fails \/ RetryFails PROVE Reads!CallFails \/ UNCHANGED Reads!vars
    OBVIOUS
<1>1. UNCHANGED <<cluster, past, recent, request, reply, DOMAIN kubeObjectListCache, Wide>>
  BY DEF Fails, RetryFails, caches, Wide
<1>2. request # Reads!NoRequest
  BY SameRequest DEF Fails, RetryFails, Missed
<1>3. failed' = TRUE \/ UNCHANGED failed
  BY DEF Fails, RetryFails, Fault
<1>4. QED
  BY <1>1, <1>2, <1>3 DEF Reads!CallFails, Reads!vars

LEMMA ChangeReads == Change => Reads!Change
BY SameReads DEF Change, Reads!Change, caches, Wide

LEMMA StutterReads == UNCHANGED vars => UNCHANGED Reads!vars
BY DEF vars, Reads!vars, Wide

LEMMA StepReads == InductiveInv /\ [Next]_vars => [Reads!Next]_(Reads!vars)
BY AskReads, ListHitReads, ListReads, ObjectHitReads, ObjectReads, ErrorReads, FailsReads, ChangeReads,
   StutterReads
   DEF Next, Reads!Next, InductiveInv

\* The cache implements ClusterReads: every read is answered with what the
\* API server would have said at one moment of the command.
THEOREM Implements == Spec => ReadsTruly
BY InitInv, StepInv, InitReads, StepReads, PTL DEF Spec, ReadsTruly, Reads!Spec
=============================================================================
