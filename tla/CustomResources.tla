--------------------------- MODULE CustomResources ---------------------------
(***************************************************************************)
(* The two loops over the cluster's CRDs: the one that fills the maps of   *)
(* the kinds (readKindCompositionFile and parseCRDAnnotions of             *)
(* pkg/discovery/discovery.go), on whose behalf /composition and the       *)
(* connections command then look up the kind asked for, and the one that   *)
(* answers man (GetUsageDetails of pkg/discovery/operatordocs.go).         *)
(* /resourceDetails uses the maps as earlier requests left them.           *)
(*                                                                         *)
(* Both list the CRDs and then get each of them, while CRDs and ConfigMaps *)
(* change and calls fail.  The maps live as long as the process; requests  *)
(* follow each other (two that write the maps at once are the subject of   *)
(* CompositionServer).                                                     *)
(*                                                                         *)
(* A CRD is a record [name, kind, plural, group, version, composition,     *)
(* rels, usage].  rels are the keys of its relationship annotations: pairs *)
(* of a type and a number, 0 for the key without a number.  usage is the   *)
(* place of its manual, [namespace, name], or one of the values below.     *)
(* A path is the part of a URL that kindVersionMap holds, split at its     *)
(* slashes: <<"apis", "apps", "v1">> or <<"api", "v1">>.                   *)
(***************************************************************************)
EXTENDS Integers, Sequences, FiniteSets, SequencesExt

CONSTANTS
    Clusters,     \* possible [crds, configMaps]: a set of CRDs and a function from places to texts
    BuiltinKinds, \* the kinds of types.go: function to [plural, path, group, composition, rels]
    Files,        \* values of KIND_COMPOSITION_FILE: NoFile, or functions from kinds to
                  \* [plural, endpoint, composition]
    Requests,     \* [to, kind, namespace], to being "composition", "details" or "man"
    MaxChanges,   \* bound on the changes of the cluster
    MaxFaults     \* bound on the calls that fail

NoFile == [k \in {} |-> {}]
NoUsage == [namespace |-> "", name |-> ""]
NoDot == [namespace |-> "", name |-> "."]  \* an annotation with no dot to split it at
NotFoundText == "Could not find usage details data."
NoRequest == [to |-> "", kind |-> "", namespace |-> ""]
NoReply == [to |-> NoRequest, says |-> ""]

DefaultComposition ==
    {"Deployment", "StatefulSet", "DaemonSet", "ReplicationController", "Service", "Secret",
     "PodDisruptionBudget", "ServiceAccount", "PersistentVolumeClaim"}

RelTypes == {"specproperty", "label", "annotation"}

CRD == [name : STRING, kind : STRING, plural : STRING, group : STRING, version : STRING,
        composition : SUBSET STRING, rels : SUBSET (RelTypes \X Nat),
        usage : [namespace : STRING, name : STRING]]

Paths == Seq(STRING) \ {<<>>}

\* The API server has one CRD of a name, and none without a group; no ConfigMap
\* has the name that stands for an annotation without a dot.
ASSUME ClustersAssumption ==
    \A c \in Clusters :
        /\ c.crds \subseteq CRD
        /\ \A crd \in c.crds : IsFiniteSet(crd.rels) /\ crd.group # ""
        /\ \A crd, other \in c.crds : crd.name = other.name => crd = other
        /\ DOMAIN c.configMaps \subseteq [namespace : STRING, name : STRING \ {"."}]
        /\ \A p \in DOMAIN c.configMaps : c.configMaps[p] \in STRING
\* The relationships of types.go are not numbered.
ASSUME BuiltinKindsAssumption ==
    \A k \in DOMAIN BuiltinKinds :
        /\ k \in STRING
        /\ BuiltinKinds[k] \in [plural : STRING, path : Paths, group : STRING,
                                composition : SUBSET STRING, rels : Seq(STRING \X Nat)]
        /\ \A i \in DOMAIN BuiltinKinds[k].rels : BuiltinKinds[k].rels[i][2] = 0
ASSUME FilesAssumption ==
    \A f \in Files : \A k \in DOMAIN f :
        /\ k \in STRING
        /\ f[k] \in [plural : STRING, endpoint : Paths, composition : SUBSET STRING]
ASSUME RequestsAssumption ==
    Requests \subseteq [to : {"composition", "details", "man"}, kind : STRING, namespace : STRING]
\* A fact of TLA+ that the provers do not know.
ASSUME StringsAssumption ==
    {"", ".", "panic", "api", "apis", NotFoundText} \union RelTypes \union DefaultComposition \subseteq STRING
ASSUME BoundsAssumption == MaxChanges \in Nat /\ MaxFaults \in Nat

VARIABLES
    cluster,
    file,               \* what the environment variable names
    KindPluralMap, kindVersionMap, kindGroupMap,
    compositionMap, crdcompositionMap, relationshipMap,
    pc,                 \* "idle", "list" (a request came in), "get", "configmap" or "look"
    request,
    todo,               \* names of CRDs to get
    place,              \* of the ConfigMap to read
    usageDetailsData,
    reply,              \* [to, says]: a text, the kind whose compositions are answered, or where
                        \* the API server is asked for details
    changes, faults

\* No part of the code: every CRD there ever was, the clusters since the
\* request came in, whether a call failed for no reason during it, and
\* whether the CRDs are still those of a complete read.
VARIABLES seen, since, failed, current

kinds == <<KindPluralMap, kindVersionMap, kindGroupMap, compositionMap, crdcompositionMap,
           relationshipMap>>
reader == <<pc, request, todo, place, usageDetailsData, reply>>
history == <<seen, since, current>>
vars == <<cluster, file, kinds, reader, changes, faults, history, failed>>

\* m[key] = value, for all keys of f
Update(m, f) == [k \in DOMAIN m \union DOMAIN f |-> IF k \in DOMAIN f THEN f[k] ELSE m[k]]

\* m[key] = value
Put(m, key, value) == Update(m, [k \in {key} |-> value])

Init ==
    /\ cluster \in Clusters
    /\ file \in Files
    /\ KindPluralMap = [k \in DOMAIN BuiltinKinds |-> BuiltinKinds[k].plural]
    /\ kindVersionMap = [k \in DOMAIN BuiltinKinds |-> BuiltinKinds[k].path]
    /\ kindGroupMap = [k \in DOMAIN BuiltinKinds |-> BuiltinKinds[k].group]
    /\ compositionMap = [k \in DOMAIN BuiltinKinds |-> BuiltinKinds[k].composition]
    /\ crdcompositionMap = [k \in {} |-> {}]
    /\ relationshipMap = [k \in DOMAIN BuiltinKinds |-> BuiltinKinds[k].rels]
    /\ pc = "idle" /\ request = NoRequest /\ todo = {} /\ place = NoUsage
    /\ usageDetailsData = "" /\ reply = NoReply
    /\ changes = 0 /\ faults = 0
    /\ seen = cluster.crds /\ since = {cluster} /\ failed = FALSE /\ current = FALSE

-----------------------------------------------------------------------------
(* One CRD *)

\* Mutant of NextRel: the key without a number counts too.
NextRelCountsAll(acc, rel) ==
    IF rel[2] \in {0, acc.count} THEN [count |-> acc.count + 1, rels |-> Append(acc.rels, rel)]
    ELSE acc

\* One round of the loop of parseRels over an annotation of the type: counted
\* up from 1, a number is taken only when it is its turn.
NextRel(acc, rel) ==
    IF rel[2] = acc.count THEN [count |-> acc.count + 1, rels |-> Append(acc.rels, rel)]
    ELSE IF rel[2] = 0 THEN [acc EXCEPT !.rels = Append(@, rel)]
    ELSE acc

\* The loop over the annotations of the type, in the order Go meets them.
Taken(order) ==
    LET acc[i \in 0 .. Len(order)] ==
            IF i = 0 THEN [count |-> 1, rels |-> <<>>] ELSE NextRel(acc[i - 1], order[i])
    IN  acc[Len(order)].rels

\* What parseRels may return: the order is any.
parseRels(rels, type) ==
    {Taken(order) : order \in SetToSeqs({rel \in rels : rel[1] = type})}

getAllRelationships(rels) ==
    {specProperty \o label \o annotation :
        specProperty \in parseRels(rels, "specproperty"),
        label \in parseRels(rels, "label"),
        annotation \in parseRels(rels, "annotation")}

CompositionOf(crd) == IF crd.composition = {} THEN DefaultComposition ELSE crd.composition

\* Mutant of PathOf: written as types.go writes that of Ingress.
BarePathOf(crd) == <<crd.group, crd.version>>

\* "apis/" + group + "/" + version
PathOf(crd) == <<"apis", crd.group, crd.version>>

Register(crd, componentKinds) ==
    LET kind == crd.kind
    IN  /\ KindPluralMap' = Put(KindPluralMap, kind, crd.plural)
        /\ kindVersionMap' = Put(kindVersionMap, kind, PathOf(crd))
        /\ kindGroupMap' = Put(kindGroupMap, kind, crd.group)
        /\ compositionMap' = Put(compositionMap, kind, componentKinds)
        /\ crdcompositionMap' = Put(crdcompositionMap, kind, componentKinds)
        /\ \E allRels \in getAllRelationships(crd.rels) :
              relationshipMap' = Put(relationshipMap, kind, allRels)

\* Mutant of parseCRDAnnotions: a kind that is registered keeps its
\* composition when the annotation is gone.
parseKeepsComposition(crd) ==
    Register(crd, IF crd.composition = {} /\ crd.kind \in DOMAIN compositionMap
                  THEN compositionMap[crd.kind] ELSE CompositionOf(crd))

parseCRDAnnotions(crd) == Register(crd, CompositionOf(crd))

-----------------------------------------------------------------------------
(* Steps *)

Fault == faults < MaxFaults /\ faults' = faults + 1 /\ failed' = TRUE
NoFault == UNCHANGED <<faults, failed>>

Ask ==
    /\ pc = "idle"
    /\ request' \in Requests
    /\ pc' = "list"
    /\ reply' = NoReply
    /\ since' = {cluster}
    /\ failed' = FALSE
    /\ UNCHANGED <<cluster, file, kinds, todo, place, usageDetailsData, changes, faults, seen, current>>

Answer(says) ==
    /\ pc' = "idle"
    /\ request' = NoRequest
    /\ todo' = {}
    /\ place' = NoUsage
    /\ usageDetailsData' = ""
    /\ reply' = [to |-> request, says |-> says]

\* The read is over: man is answered, a composition looked up.
Leave(says) ==
    \/ request.to = "man" /\ Answer(says)
    \/ /\ request.to = "composition"
       /\ pc' = "look"
       /\ todo' = {}
       /\ UNCHANGED <<request, place, usageDetailsData, reply>>

\* Mutant of ReadFile: the versions begin anew with each read.
ReadFileAnew ==
    /\ pc = "list"
    /\ request.to = "composition"
    /\ file # NoFile
    /\ KindPluralMap' = Update(KindPluralMap, [k \in DOMAIN file |-> file[k].plural])
    /\ kindVersionMap' = [k \in DOMAIN file |-> file[k].endpoint]
    /\ compositionMap' = Update(compositionMap, [k \in DOMAIN file |-> file[k].composition])
    /\ Leave("")
    /\ UNCHANGED <<cluster, file, kindGroupMap, crdcompositionMap, relationshipMap, changes, history>>
    /\ NoFault

\* ioutil.ReadFile and yaml.Unmarshal: the group is not in the file and not
\* written.
ReadFile ==
    /\ pc = "list"
    /\ request.to = "composition"
    /\ file # NoFile
    /\ KindPluralMap' = Update(KindPluralMap, [k \in DOMAIN file |-> file[k].plural])
    /\ kindVersionMap' = Update(kindVersionMap, [k \in DOMAIN file |-> file[k].endpoint])
    /\ compositionMap' = Update(compositionMap, [k \in DOMAIN file |-> file[k].composition])
    /\ Leave("")
    /\ UNCHANGED <<cluster, file, kindGroupMap, crdcompositionMap, relationshipMap, changes, history>>
    /\ NoFault

UsesCRDs == request.to = "man" \/ (request.to = "composition" /\ file = NoFile)

\* CustomResourceDefinitions().List
ListCRDs ==
    /\ pc = "list"
    /\ UsesCRDs
    /\ todo' = {crd.name : crd \in cluster.crds}
    /\ pc' = "get"
    /\ UNCHANGED <<cluster, file, kinds, request, place, usageDetailsData, reply, changes, history>>
    /\ NoFault

\* The file or the list of CRDs cannot be read.
ListFails ==
    /\ pc = "list"
    /\ Leave("")
    /\ Fault
    /\ UNCHANGED <<cluster, file, kinds, changes, history>>

\* CustomResourceDefinitions().Get for the kinds.
GetCRD ==
    /\ pc = "get"
    /\ request.to = "composition"
    /\ \E crd \in cluster.crds :
          /\ crd.name \in todo
          /\ parseCRDAnnotions(crd)
          /\ todo' = todo \ {crd.name}
    /\ UNCHANGED <<cluster, file, pc, request, place, usageDetailsData, reply, changes, history>>
    /\ NoFault

\* Mutant of IsAsked: man is asked by the plural.
IsAskedByPlural(crd) == crd.plural = request.kind

IsAsked(crd) == crd.kind = request.kind

\* Mutant of IsPlace: an annotation without a dot is taken for a place.
IsAnyText(usage) == usage # NoUsage

IsPlace(usage) == usage \notin {NoUsage, NoDot}

\* The same for man: the CRDs of other kinds are passed over.
GetManCRD ==
    /\ pc = "get"
    /\ request.to = "man"
    /\ \E crd \in cluster.crds :
          /\ crd.name \in todo
          /\ todo' = todo \ {crd.name}
          /\ \/ /\ IsAsked(crd) /\ IsPlace(crd.usage)
                /\ pc' = "configmap"
                /\ place' = crd.usage
             \/ /\ ~IsAsked(crd) \/ crd.usage = NoUsage
                /\ UNCHANGED <<pc, place>>
    /\ UNCHANGED <<cluster, file, kinds, request, usageDetailsData, reply, changes, history>>
    /\ NoFault

\* fields[1] is out of range; in the server net/http recovers.
ManPanics ==
    /\ pc = "get"
    /\ request.to = "man"
    /\ \E crd \in cluster.crds :
          crd.name \in todo /\ IsAsked(crd) /\ crd.usage = NoDot
    /\ Answer("panic")
    /\ UNCHANGED <<cluster, file, kinds, changes, history>>
    /\ NoFault

\* A CRD was deleted since the list, or the call failed: the rest is not read,
\* and for man what was found is thrown away (GetUsageDetails returns manPage).
GetFails ==
    /\ pc = "get"
    /\ todo # {}
    /\ Leave("")
    /\ \/ \E name \in todo : (\A crd \in cluster.crds : crd.name # name) /\ NoFault
       \/ Fault
    /\ UNCHANGED <<cluster, file, kinds, changes, history>>

\* Mutant of FullPlace: the namespace in the annotation is not used.
RequestsPlace == [place EXCEPT !.namespace = request.namespace]

\* Where the manual is: a place without a namespace is in the request's.
FullPlace == [place EXCEPT !.namespace = IF @ = "" THEN request.namespace ELSE @]

readConfigMap ==
    /\ pc = "configmap"
    /\ FullPlace \in DOMAIN cluster.configMaps
    /\ usageDetailsData' = cluster.configMaps[FullPlace]
    /\ pc' = "get"
    /\ place' = NoUsage
    /\ UNCHANGED <<cluster, file, kinds, request, todo, reply, changes, history>>
    /\ NoFault

readConfigMapFails ==
    /\ pc = "configmap"
    /\ (FullPlace \notin DOMAIN cluster.configMaps /\ NoFault) \/ Fault
    /\ usageDetailsData' = NotFoundText
    /\ pc' = "get"
    /\ place' = NoUsage
    /\ UNCHANGED <<cluster, file, kinds, request, todo, reply, changes, history>>

\* Mutant of LoopEnds: one CRD too early.
LoopEndsEarly == Cardinality(todo) <= 1

LoopEnds == todo = {}

\* The end of the loop over the CRDs.
Finish ==
    /\ pc = "get"
    /\ LoopEnds
    /\ Leave(usageDetailsData)
    /\ current' = (current \/ (request.to = "composition" /\ since = {cluster}))
    /\ UNCHANGED <<cluster, file, kinds, changes, seen, since>>
    /\ NoFault

\* Mutant of HasPlural: the inner resourceKindPlural hides the outer one.
HasAnyPlural(kind, plural) == TRUE

\* KindPluralMap[kind] == plural, in lower case, as plurals are
HasPlural(kind, plural) == KindPluralMap[kind] = plural

\* GetCompositions: to the plural of the kind asked for, and back to the first
\* kind with that plural, in any order (once for each entry of the store).
Look ==
    /\ pc = "look"
    /\ \/ /\ request.kind \in DOMAIN KindPluralMap
          /\ \E kind \in DOMAIN KindPluralMap :
                HasPlural(kind, KindPluralMap[request.kind]) /\ Answer(kind)
       \/ request.kind \notin DOMAIN KindPluralMap /\ Answer("")
    /\ UNCHANGED <<cluster, file, kinds, changes, history>>
    /\ NoFault

Nowhere == [path |-> <<"">>, plural |-> ""]

\* Where the maps say a kind is; Go's zero values for one they do not have.
Endpoint(kind) ==
    IF kind \in DOMAIN KindPluralMap
    THEN [path |-> kindVersionMap[kind], plural |-> KindPluralMap[kind]]
    ELSE Nowhere

\* The details of a resource, which the API server is asked for at the path as
\* it is written: the kinds are not read before.
QueryResource ==
    /\ pc = "list"
    /\ request.to = "details"
    /\ Answer(Endpoint(request.kind))
    /\ UNCHANGED <<cluster, file, kinds, changes, history>>
    /\ NoFault

Change ==
    /\ changes < MaxChanges
    /\ changes' = changes + 1
    /\ cluster' \in Clusters \ {cluster}
    /\ seen' = seen \union cluster'.crds
    /\ since' = since \union {cluster'}
    /\ current' = FALSE
    /\ UNCHANGED <<file, kinds, reader, faults, failed>>

Next ==
    \/ Ask \/ ReadFile \/ ListCRDs \/ ListFails
    \/ GetCRD \/ GetManCRD \/ ManPanics \/ GetFails
    \/ readConfigMap \/ readConfigMapFails
    \/ Finish \/ Look \/ QueryResource
    \/ Change

Spec == Init /\ [][Next]_vars

-----------------------------------------------------------------------------
(* What the maps are used for *)

\* The group and version a kind's resources are listed with: the version is
\* what follows the last slash of the path.
getKindAPIDetails(kind) ==
    [group |-> IF kind \in DOMAIN kindGroupMap THEN kindGroupMap[kind] ELSE "",
     version |-> Last(kindVersionMap[kind])]

\* Where the API server has the resources of a group and version.
Address(group, version) == IF group = "" THEN <<"api", version>> ELSE <<"apis", group, version>>

-----------------------------------------------------------------------------
(* Properties *)

CRDs == UNION {c.crds : c \in Clusters}

\* Types of the variables; between requests nothing is left to read, and what
\* is read as a manual is a place that an annotation really gives.
TypeOK ==
    /\ cluster \in Clusters /\ file \in Files
    /\ \A m \in {KindPluralMap, kindGroupMap} : m \in [DOMAIN m -> STRING]
    /\ kindVersionMap \in [DOMAIN kindVersionMap -> Paths]
    /\ \A m \in {compositionMap, crdcompositionMap} : m \in [DOMAIN m -> SUBSET STRING]
    /\ \A k \in DOMAIN relationshipMap : relationshipMap[k] \in Seq(STRING \X Nat)
    /\ pc \in {"idle", "list", "get", "configmap", "look"}
    /\ request \in IF pc = "idle" THEN {NoRequest} ELSE Requests
    /\ todo \subseteq {crd.name : crd \in CRDs}
    /\ todo # {} => pc \in {"get", "configmap"}
    /\ place \in [namespace : STRING, name : STRING] \ {NoDot}
    /\ place # NoUsage <=> pc = "configmap"
    /\ usageDetailsData \in STRING
    /\ reply.to \in Requests \union {NoRequest}
    /\ reply.says \in IF reply.to.to = "details"
                      THEN [path : Paths, plural : STRING]
                      ELSE STRING
    /\ changes \in 0 .. MaxChanges /\ faults \in 0 .. MaxFaults
    /\ seen \subseteq CRDs /\ since \subseteq Clusters
    /\ failed \in BOOLEAN /\ current \in BOOLEAN

\* All the maps have of a CRD's kind is of this CRD.
IsRegistered(crd) ==
    /\ crd.kind \in DOMAIN crdcompositionMap
    /\ KindPluralMap[crd.kind] = crd.plural
    /\ kindVersionMap[crd.kind] = PathOf(crd)
    /\ kindGroupMap[crd.kind] = crd.group
    /\ compositionMap[crd.kind] = CompositionOf(crd)
    /\ crdcompositionMap[crd.kind] = CompositionOf(crd)
    /\ relationshipMap[crd.kind] \in getAllRelationships(crd.rels)

IsBuiltin(kind) ==
    /\ kind \in DOMAIN BuiltinKinds \ DOMAIN crdcompositionMap
    /\ KindPluralMap[kind] = BuiltinKinds[kind].plural
    /\ kindVersionMap[kind] = BuiltinKinds[kind].path
    /\ kindGroupMap[kind] = BuiltinKinds[kind].group
    /\ compositionMap[kind] = BuiltinKinds[kind].composition
    /\ relationshipMap[kind] = BuiltinKinds[kind].rels

\* Without a file, the six maps always agree: what they have of a kind is the
\* built-in, or of one CRD as it was at one moment, however many CRDs and
\* versions of them were read, and wherever reads broke off.
KindsWhole ==
    file = NoFile =>
        \A kind \in DOMAIN KindPluralMap :
            IsBuiltin(kind) \/ \E crd \in seen : crd.kind = kind /\ IsRegistered(crd)

\* Once one read went through undisturbed every CRD is registered, or another
\* of its kind, and stays so until the CRDs change, whatever reads fail.
CurrentRegistered ==
    current =>
        \A crd \in cluster.crds : \E other \in cluster.crds :
            other.kind = crd.kind /\ IsRegistered(other)

\* A number above 1 comes after the one below it, and none comes twice.
InOrder(rels) ==
    /\ \A i \in DOMAIN rels :
          rels[i][2] > 1 => \E j \in 1 .. i - 1 : rels[j] = <<rels[i][1], rels[i][2] - 1>>
    /\ \A i, j \in DOMAIN rels : rels[i] = rels[j] /\ rels[i][2] > 0 => i = j

\* In whatever order the annotations are met, a numbered relationship is
\* registered only after all its predecessors, and the first and the one
\* without a number of every CRD are never lost.
RelationsInOrder ==
    /\ \A kind \in DOMAIN relationshipMap : InOrder(relationshipMap[kind])
    /\ current =>
          \A crd \in cluster.crds :
              (\A other \in cluster.crds : other.kind = crd.kind => other = crd) =>
                  \A rel \in crd.rels :
                      rel[2] \in {0, 1} => \E i \in DOMAIN relationshipMap[crd.kind] :
                                               relationshipMap[crd.kind][i] = rel

\* A kind that is known stays known: a read that fails midway, or finds a CRD
\* gone, takes nothing away.
NothingForgotten ==
    [][\A m \in 1 .. Len(kinds) : DOMAIN kinds[m] \subseteq DOMAIN (kinds[m])']_vars

\* A composition asked for by a CRD's kind is answered for that kind if no
\* call failed, the cluster did not change meanwhile and no other kind ever
\* had the plural: earlier failed reads and vanished CRDs do not matter.
LookupRight ==
    LET kind == reply.to.kind
        mine == {crd \in seen : crd.kind = kind}
    IN  /\ reply.to.to = "composition" /\ file = NoFile
        /\ since = {cluster} /\ ~failed
        /\ \E crd \in cluster.crds : crd.kind = kind
        /\ \A crd \in mine :
              /\ \A other \in seen : other.plural = crd.plural => other.kind = kind
              /\ \A k \in DOMAIN BuiltinKinds : BuiltinKinds[k].plural = crd.plural => k = kind
        => reply.says = kind

AddressOf(crd) == [path |-> Address(crd.group, crd.version), plural |-> crd.plural]
WrittenIn(k) == [path |-> BuiltinKinds[k].path, plural |-> BuiltinKinds[k].plural]

\* The details of a resource are asked for at the address of one CRD of its
\* kind or at the path types.go has for the built-in (for Namespace, Secret
\* and Ingress that is the address of nothing), never at a mixture, and at
\* no path only if there is no such built-in; and at the address of a CRD that
\* is there now, once one read for a composition went through, until the CRDs
\* change.
DetailsAsked ==
    LET kind == reply.to.kind
        mine(crds) == {AddressOf(crd) : crd \in {c \in crds : c.kind = kind}}
        builtin == {WrittenIn(k) : k \in {kind} \intersect DOMAIN BuiltinKinds}
    IN  reply.to.to = "details" /\ file = NoFile =>
            /\ reply.says \in mine(seen) \union builtin \/ (builtin = {} /\ reply.says = Nowhere)
            /\ current /\ mine(cluster.crds) # {} => reply.says \in mine(cluster.crds)

PlaceOf(crd, namespace) ==
    [crd.usage EXCEPT !.namespace = IF @ = "" THEN namespace ELSE @]

\* A manual that is answered was the text, during the request, of a ConfigMap
\* that a CRD of the kind named during the request.
ManTrue ==
    reply.to.to = "man" /\ reply.says \notin {"", NotFoundText, "panic"} =>
        \E c, d \in since : \E crd \in c.crds :
            /\ crd.kind = reply.to.kind
            /\ LET p == PlaceOf(crd, reply.to.namespace)
               IN  p \in DOMAIN d.configMaps /\ d.configMaps[p] = reply.says

\* If no call failed and the cluster did not change, the manual is one of
\* those the CRDs of the kind name, and there is one if all they name exist.
ManComplete ==
    LET mine == {crd \in cluster.crds : crd.kind = reply.to.kind /\ crd.usage # NoUsage}
        there == {crd \in mine : PlaceOf(crd, reply.to.namespace) \in DOMAIN cluster.configMaps}
    IN  reply.to.to = "man" /\ since = {cluster} /\ ~failed =>
            /\ mine = {} => reply.says = ""
            /\ mine # {} /\ there = mine =>
                  \E crd \in mine :
                      reply.says = cluster.configMaps[PlaceOf(crd, reply.to.namespace)]

\* The resources of a kind that the file has are listed at the endpoint the
\* file gives it.
EndpointsKept ==
    \A kind \in DOMAIN file \intersect DOMAIN kindVersionMap :
        LET api == getKindAPIDetails(kind)
        IN  Address(api.group, api.version) = kindVersionMap[kind]
=============================================================================
