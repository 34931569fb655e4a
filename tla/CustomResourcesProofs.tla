----------------------- MODULE CustomResourcesProofs -----------------------
(*************************************************************************)
(* Proofs about the maps of the kinds, the kinds that are looked up in   *)
(* them, the relationships and the manuals, for all CRDs, ConfigMaps,    *)
(* files and requests: every property of the run kinds_any.              *)
(*                                                                       *)
(* What is registered of a kind is one CRD (WholeInv), and all are once  *)
(* a read went through (ReadInv); the other invariants rest on these.    *)
(* parseRels is a loop over the annotations in any order: Counted says   *)
(* what it has after each round.                                         *)
(*************************************************************************)
EXTENDS CustomResources, ListProofs

-----------------------------------------------------------------------------
(* Maps *)

\* A map that is written has its old keys and the new ones, and keeps the
\* values of the others.
LEMMA UpdateProperties ==
    ASSUME NEW m, NEW f
    PROVE  /\ DOMAIN Update(m, f) = DOMAIN m \union DOMAIN f
           /\ \A k \in DOMAIN f : Update(m, f)[k] = f[k]
           /\ \A k \in DOMAIN m \ DOMAIN f : Update(m, f)[k] = m[k]
BY DEF Update

\* The map mm is m with a value put at a key.
IsPut(m, mm, key, value) ==
    /\ DOMAIN mm = DOMAIN m \union {key}
    /\ mm[key] = value
    /\ \A k \in DOMAIN m : k # key => mm[k] = m[k]

LEMMA PutProperties ==
    ASSUME NEW m, NEW mm, NEW key, NEW value, mm = Put(m, key, value)
    PROVE  IsPut(m, mm, key, value)
BY DEF Put, Update, IsPut

\* Registering a CRD puts a value at its kind in every map.
LEMMA KindPut ==
    ASSUME NEW crd, parseCRDAnnotions(crd)
    PROVE  /\ IsPut(KindPluralMap, KindPluralMap', crd.kind, crd.plural)
           /\ IsPut(kindVersionMap, kindVersionMap', crd.kind, PathOf(crd))
           /\ IsPut(kindGroupMap, kindGroupMap', crd.kind, crd.group)
           /\ IsPut(compositionMap, compositionMap', crd.kind, CompositionOf(crd))
           /\ IsPut(crdcompositionMap, crdcompositionMap', crd.kind, CompositionOf(crd))
           /\ \E allRels \in getAllRelationships(crd.rels) :
                 IsPut(relationshipMap, relationshipMap', crd.kind, allRels)
<1>1. PICK allRels \in getAllRelationships(crd.rels) :
          relationshipMap' = Put(relationshipMap, crd.kind, allRels)
  BY DEF parseCRDAnnotions, Register
<1>2. /\ KindPluralMap' = Put(KindPluralMap, crd.kind, crd.plural)
      /\ kindVersionMap' = Put(kindVersionMap, crd.kind, PathOf(crd))
      /\ kindGroupMap' = Put(kindGroupMap, crd.kind, crd.group)
      /\ compositionMap' = Put(compositionMap, crd.kind, CompositionOf(crd))
      /\ crdcompositionMap' = Put(crdcompositionMap, crd.kind, CompositionOf(crd))
  BY DEF parseCRDAnnotions, Register
<1>3. QED
  BY <1>1, <1>2, PutProperties

\* Registering a CRD makes it the one registered,
LEMMA Registered ==
    ASSUME NEW crd, parseCRDAnnotions(crd)
    PROVE  IsRegistered(crd)'
<1>1. IsPut(KindPluralMap, KindPluralMap', crd.kind, crd.plural)
  BY KindPut
<1>2. IsPut(kindVersionMap, kindVersionMap', crd.kind, PathOf(crd))
  BY KindPut
<1>3. IsPut(kindGroupMap, kindGroupMap', crd.kind, crd.group)
  BY KindPut
<1>4. IsPut(compositionMap, compositionMap', crd.kind, CompositionOf(crd))
  BY KindPut
<1>5. IsPut(crdcompositionMap, crdcompositionMap', crd.kind, CompositionOf(crd))
  BY KindPut
<1>6. PICK allRels \in getAllRelationships(crd.rels) :
          IsPut(relationshipMap, relationshipMap', crd.kind, allRels)
  BY KindPut
<1>7. QED
  BY <1>1, <1>2, <1>3, <1>4, <1>5, <1>6 DEF IsPut, IsRegistered

\* and leaves other kinds.
LEMMA OtherKinds ==
    ASSUME NEW crd, parseCRDAnnotions(crd), NEW k, k # crd.kind
    PROVE  /\ k \in DOMAIN KindPluralMap' <=> k \in DOMAIN KindPluralMap
           /\ k \in DOMAIN crdcompositionMap' <=> k \in DOMAIN crdcompositionMap
           /\ k \in DOMAIN KindPluralMap => KindPluralMap'[k] = KindPluralMap[k]
           /\ k \in DOMAIN kindVersionMap => kindVersionMap'[k] = kindVersionMap[k]
           /\ k \in DOMAIN kindGroupMap => kindGroupMap'[k] = kindGroupMap[k]
           /\ k \in DOMAIN compositionMap => compositionMap'[k] = compositionMap[k]
           /\ k \in DOMAIN crdcompositionMap => crdcompositionMap'[k] = crdcompositionMap[k]
           /\ k \in DOMAIN relationshipMap => relationshipMap'[k] = relationshipMap[k]
<1>1. IsPut(KindPluralMap, KindPluralMap', crd.kind, crd.plural)
  BY KindPut
<1>2. IsPut(kindVersionMap, kindVersionMap', crd.kind, PathOf(crd))
  BY KindPut
<1>3. IsPut(kindGroupMap, kindGroupMap', crd.kind, crd.group)
  BY KindPut
<1>4. IsPut(compositionMap, compositionMap', crd.kind, CompositionOf(crd))
  BY KindPut
<1>5. IsPut(crdcompositionMap, crdcompositionMap', crd.kind, CompositionOf(crd))
  BY KindPut
<1>6. PICK allRels \in getAllRelationships(crd.rels) :
          IsPut(relationshipMap, relationshipMap', crd.kind, allRels)
  BY KindPut
<1>7. QED
  BY <1>1, <1>2, <1>3, <1>4, <1>5, <1>6 DEF IsPut

LEMMA KindsAdded ==
    ASSUME NEW crd, parseCRDAnnotions(crd)
    PROVE  /\ DOMAIN KindPluralMap' = DOMAIN KindPluralMap \union {crd.kind}
           /\ DOMAIN kindVersionMap' = DOMAIN kindVersionMap \union {crd.kind}
           /\ DOMAIN kindGroupMap' = DOMAIN kindGroupMap \union {crd.kind}
           /\ DOMAIN compositionMap' = DOMAIN compositionMap \union {crd.kind}
           /\ DOMAIN crdcompositionMap' = DOMAIN crdcompositionMap \union {crd.kind}
           /\ DOMAIN relationshipMap' = DOMAIN relationshipMap \union {crd.kind}
BY KindPut DEF IsPut

-----------------------------------------------------------------------------
(* Nothing forgotten *)

LEMMA KindsGrow ==
    ASSUME [Next]_vars
    PROVE  /\ DOMAIN KindPluralMap \subseteq DOMAIN KindPluralMap'
           /\ DOMAIN kindVersionMap \subseteq DOMAIN kindVersionMap'
           /\ DOMAIN kindGroupMap \subseteq DOMAIN kindGroupMap'
           /\ DOMAIN compositionMap \subseteq DOMAIN compositionMap'
           /\ DOMAIN crdcompositionMap \subseteq DOMAIN crdcompositionMap'
           /\ DOMAIN relationshipMap \subseteq DOMAIN relationshipMap'
<1>1. CASE GetCRD
  BY <1>1, KindsAdded DEF GetCRD
<1>2. CASE ReadFile
  BY <1>2, UpdateProperties DEF ReadFile
<1>3. CASE UNCHANGED kinds
  BY <1>3 DEF kinds
<1>4. QED
  BY <1>1, <1>2, <1>3
     DEF Next, vars, Ask, ListCRDs, ListFails, GetManCRD, ManPanics, GetFails, readConfigMap,
         readConfigMapFails, Finish, Look, QueryResource, Change

\* A kind that is known stays known, wherever a read breaks off.
THEOREM KindsKept == Spec => NothingForgotten
<1>1. ASSUME [Next]_vars
      PROVE  \A m \in 1 .. Len(kinds) : DOMAIN kinds[m] \subseteq DOMAIN (kinds[m])'
  <2>1. Len(kinds) = 6
    BY DEF kinds
  <2>2. ASSUME NEW m \in 1 .. 6 PROVE DOMAIN kinds[m] \subseteq DOMAIN (kinds[m])'
    BY <1>1, KindsGrow DEF kinds
  <2>3. QED
    BY <2>1, <2>2
<1>2. QED
  BY <1>1, PTL DEF Spec, NothingForgotten

-----------------------------------------------------------------------------
(* The maps agree *)

\* Without a file the maps know the same kinds.
KindsAgree ==
    file = NoFile =>
        /\ DOMAIN kindVersionMap = DOMAIN KindPluralMap
        /\ DOMAIN kindGroupMap = DOMAIN KindPluralMap
        /\ DOMAIN compositionMap = DOMAIN KindPluralMap
        /\ DOMAIN relationshipMap = DOMAIN KindPluralMap
        /\ DOMAIN crdcompositionMap \subseteq DOMAIN KindPluralMap

CRDsSeen == cluster.crds \subseteq seen

WholeInv == KindsWhole /\ KindsAgree /\ CRDsSeen

LEMMA InitWhole == Init => WholeInv
<1> SUFFICES ASSUME Init PROVE WholeInv
    OBVIOUS
<1>1. KindsAgree /\ CRDsSeen
  BY DEF Init, KindsAgree, CRDsSeen
<1>2. \A kind \in DOMAIN KindPluralMap : IsBuiltin(kind)
  BY DEF Init, IsBuiltin
<1>3. QED
  BY <1>1, <1>2 DEF WholeInv, KindsWhole

\* What is registered of another kind than the one being put stays so.
LEMMA OthersKept ==
    ASSUME file = NoFile, KindsAgree, NEW crd, parseCRDAnnotions(crd), NEW other, other.kind # crd.kind
    PROVE  IsRegistered(other) => IsRegistered(other)'
<1> SUFFICES ASSUME IsRegistered(other) PROVE IsRegistered(other)'
    OBVIOUS
<1>1. /\ other.kind \in DOMAIN crdcompositionMap /\ other.kind \in DOMAIN KindPluralMap
      /\ other.kind \in DOMAIN kindVersionMap /\ other.kind \in DOMAIN kindGroupMap
      /\ other.kind \in DOMAIN compositionMap /\ other.kind \in DOMAIN relationshipMap
  BY DEF IsRegistered, KindsAgree
<1>2. /\ KindPluralMap'[other.kind] = KindPluralMap[other.kind]
      /\ kindVersionMap'[other.kind] = kindVersionMap[other.kind]
      /\ kindGroupMap'[other.kind] = kindGroupMap[other.kind]
      /\ compositionMap'[other.kind] = compositionMap[other.kind]
      /\ crdcompositionMap'[other.kind] = crdcompositionMap[other.kind]
      /\ relationshipMap'[other.kind] = relationshipMap[other.kind]
      /\ other.kind \in DOMAIN crdcompositionMap'
  BY <1>1, OtherKinds
<1>3. QED
  BY <1>2 DEF IsRegistered

LEMMA WholeStep == WholeInv /\ [Next]_vars => WholeInv'
<1> SUFFICES ASSUME WholeInv, [Next]_vars PROVE WholeInv'
    OBVIOUS
<1>1. CASE GetCRD
  <2>1. PICK crd \in cluster.crds : parseCRDAnnotions(crd)
    BY <1>1 DEF GetCRD
  <2>2. UNCHANGED <<cluster, file, seen>>
    BY <1>1 DEF GetCRD, history
  <2>3. KindsAgree'
    BY <2>1, <2>2, KindsAdded DEF KindsAgree, WholeInv
  <2>4. ASSUME file = NoFile, NEW kind \in DOMAIN KindPluralMap'
        PROVE  IsBuiltin(kind)' \/ \E c \in seen : c.kind = kind /\ IsRegistered(c)'
    <3>1. CASE kind = crd.kind
      BY <2>1, <3>1, Registered DEF WholeInv, CRDsSeen
    <3>2. CASE kind # crd.kind
      <4>1. kind \in DOMAIN KindPluralMap
        BY <2>1, <2>4, <3>2, OtherKinds
      <4>2. CASE IsBuiltin(kind)
        <5>1. /\ kind \in DOMAIN kindVersionMap /\ kind \in DOMAIN kindGroupMap
              /\ kind \in DOMAIN compositionMap /\ kind \in DOMAIN relationshipMap
          BY <2>4, <4>1 DEF WholeInv, KindsAgree
        <5>2. /\ KindPluralMap'[kind] = KindPluralMap[kind] /\ kindVersionMap'[kind] = kindVersionMap[kind]
              /\ kindGroupMap'[kind] = kindGroupMap[kind] /\ compositionMap'[kind] = compositionMap[kind]
              /\ relationshipMap'[kind] = relationshipMap[kind]
              /\ kind \in DOMAIN crdcompositionMap' <=> kind \in DOMAIN crdcompositionMap
          BY <2>1, <3>2, <4>1, <5>1, OtherKinds
        <5>3. QED
          BY <3>2, <4>2, <5>2 DEF IsBuiltin
      <4>3. CASE \E c \in seen : c.kind = kind /\ IsRegistered(c)
        BY <2>1, <2>4, <3>2, <4>3, OthersKept DEF WholeInv
      <4>4. QED
        BY <2>4, <4>1, <4>2, <4>3 DEF WholeInv, KindsWhole
    <3>3. QED
      BY <3>1, <3>2
  <2>5. KindsWhole'
    BY <2>2, <2>4 DEF KindsWhole
  <2>6. CRDsSeen'
    BY <2>2 DEF WholeInv, CRDsSeen
  <2>7. QED
    BY <2>3, <2>5, <2>6 DEF WholeInv
<1>2. CASE ReadFile
  BY <1>2 DEF ReadFile, WholeInv, KindsWhole, KindsAgree, CRDsSeen, history
<1>3. CASE UNCHANGED <<kinds, file>> /\ seen \subseteq seen' /\ cluster'.crds \subseteq seen'
  <2>1. KindsAgree' /\ CRDsSeen'
    BY <1>3 DEF WholeInv, KindsAgree, CRDsSeen, kinds
  <2>2. \A crd : IsRegistered(crd)' = IsRegistered(crd)
    BY <1>3 DEF IsRegistered, kinds
  <2>3. \A kind : IsBuiltin(kind)' = IsBuiltin(kind)
    BY <1>3 DEF IsBuiltin, kinds
  <2>4. KindsWhole'
    BY <1>3, <2>2, <2>3 DEF WholeInv, KindsWhole, kinds
  <2>5. QED
    BY <2>1, <2>4 DEF WholeInv
<1>4. CASE Change
  BY <1>3, <1>4 DEF Change, WholeInv, CRDsSeen
<1>5. CASE ~GetCRD /\ ~ReadFile /\ ~Change
  <2>1. UNCHANGED <<kinds, file, seen, cluster>>
    BY <1>5
       DEF Next, vars, history, Ask, ListCRDs, ListFails, GetManCRD, ManPanics, GetFails, readConfigMap,
           readConfigMapFails, Finish, Look, QueryResource
  <2>2. QED
    BY <1>3, <2>1 DEF WholeInv, CRDsSeen
<1>6. QED
  BY <1>1, <1>2, <1>4, <1>5

\* Without a file, what the maps have of a kind is the built-in, or of one
\* CRD as it was at one moment.
THEOREM WholeKinds == Spec => []KindsWhole
<1>1. WholeInv => KindsWhole
  BY DEF WholeInv
<1>2. QED
  BY <1>1, InitWhole, WholeStep, PTL DEF Spec

-----------------------------------------------------------------------------
(* A complete read *)

Stands(crd) == \E other \in cluster.crds : other.kind = crd.kind /\ IsRegistered(other)

\* CRDs are read only if there is no file.
ForMan == pc = "configmap" => request.to = "man"

NoFileRead == current \/ (pc = "get" /\ request.to = "composition") => file = NoFile

\* As long as nothing changed, what was got is registered.
ReadSoFar ==
    pc = "get" /\ request.to = "composition" /\ since = {cluster} =>
        \A crd \in cluster.crds : crd.name \notin todo => Stands(crd)

ReadInv == KindsAgree /\ cluster \in Clusters /\ cluster \in since /\ ForMan /\ NoFileRead /\ ReadSoFar
           /\ CurrentRegistered

LEMMA InitRead == Init => ReadInv
<1> SUFFICES ASSUME Init PROVE ReadInv
    OBVIOUS
<1>1. KindsAgree
  BY InitWhole DEF WholeInv
<1>2. QED
  BY <1>1 DEF Init, ReadInv, ForMan, NoFileRead, ReadSoFar, CurrentRegistered

LEMMA StandsKept ==
    ASSUME file = NoFile, KindsAgree, UNCHANGED cluster, NEW crd \in cluster.crds, parseCRDAnnotions(crd),
           NEW c, Stands(c) \/ c = crd
    PROVE  Stands(c)'
<1>1. CASE c.kind = crd.kind
  BY <1>1, Registered DEF Stands
<1>2. CASE Stands(c) /\ c.kind # crd.kind
  BY <1>2, OthersKept DEF Stands
<1>3. QED
  BY <1>1, <1>2

LEMMA ReadStep == WholeInv /\ ReadInv /\ [Next]_vars => ReadInv'
<1> SUFFICES ASSUME WholeInv, ReadInv, [Next]_vars PROVE ReadInv'
    OBVIOUS
<1> KindsAgree'
  BY WholeStep DEF WholeInv
<1> ForMan'
  BY DEF ReadInv, ForMan, Next, vars, reader, Ask, ReadFile, ListCRDs, ListFails, GetCRD, GetManCRD, ManPanics,
         GetFails, readConfigMap, readConfigMapFails, Finish, Look, QueryResource, Change, Leave, Answer
<1>1. CASE GetCRD
  <2>1. PICK crd \in cluster.crds :
            crd.name \in todo /\ parseCRDAnnotions(crd) /\ todo' = todo \ {crd.name}
    BY <1>1 DEF GetCRD
  <2>2. UNCHANGED <<cluster, file, pc, request, since, current>> /\ file = NoFile
    BY <1>1 DEF GetCRD, history, ReadInv, NoFileRead
  <2>3. ASSUME NEW c \in cluster.crds, Stands(c) \/ c.name = crd.name PROVE Stands(c)'
    BY <2>1, <2>2, <2>3, StandsKept, ClustersAssumption DEF ReadInv
  <2>4. ReadSoFar'
    BY <2>1, <2>2, <2>3 DEF ReadInv, ReadSoFar
  <2>5. CurrentRegistered'
    BY <2>2, <2>3 DEF ReadInv, CurrentRegistered, Stands
  <2>6. QED
    BY <2>2, <2>4, <2>5 DEF ReadInv, NoFileRead
<1>2. CASE ReadFile
  <2>1. ~current /\ ~current'
    BY <1>2 DEF ReadFile, ReadInv, NoFileRead, history
  <2>2. pc' # "get"
    BY <1>2 DEF ReadFile, Leave, Answer
  <2>3. QED
    BY <1>2, <2>1, <2>2 DEF ReadFile, ReadInv, NoFileRead, ReadSoFar, CurrentRegistered, history
<1>3. CASE Change
  <2>1. ~current' /\ since' # {cluster'} /\ cluster' \in since' /\ cluster' \in Clusters
    BY <1>3 DEF Change, ReadInv
  <2>2. QED
    BY <1>3, <2>1 DEF Change, ReadInv, NoFileRead, ReadSoFar, CurrentRegistered, reader
<1>4. CASE ~GetCRD /\ ~ReadFile /\ ~Change
  <2>1. UNCHANGED <<kinds, file, cluster>>
    BY <1>4
       DEF Next, vars, Ask, ListCRDs, ListFails, GetManCRD, ManPanics, GetFails, readConfigMap,
           readConfigMapFails, Finish, Look, QueryResource
  <2>2. \A crd : IsRegistered(crd)' = IsRegistered(crd)
    BY <2>1 DEF IsRegistered, kinds
  <2>3. \A crd : Stands(crd)' = Stands(crd)
    BY <2>1, <2>2 DEF Stands
  <2>4. CASE UNCHANGED <<pc, request, todo, since, current>>
    BY <2>1, <2>2, <2>3, <2>4 DEF ReadInv, NoFileRead, ReadSoFar, CurrentRegistered
  <2>5. CASE pc' # "get" /\ (current' => current) /\ since' \in {since, {cluster}}
    BY <2>1, <2>2, <2>5 DEF ReadInv, NoFileRead, ReadSoFar, CurrentRegistered
  <2>6. CASE ListCRDs
    BY <2>1, <2>2, <2>6 DEF ListCRDs, UsesCRDs, ReadInv, NoFileRead, ReadSoFar, CurrentRegistered, history
  <2>7. CASE Finish
    <3>1. pc' # "get" /\ UNCHANGED since
      BY <2>7 DEF Finish, Leave, Answer
    <3>2. CASE current' => current
      BY <2>5, <3>1, <3>2
    <3>3. CASE request.to = "composition" /\ since = {cluster}
      <4>1. pc = "get" /\ todo = {}
        BY <2>7 DEF Finish, LoopEnds
      <4>2. \A crd \in cluster.crds : Stands(crd)'
        BY <2>3, <3>3, <4>1 DEF ReadInv, ReadSoFar
      <4>3. CurrentRegistered'
        BY <2>1, <4>2 DEF CurrentRegistered, Stands
      <4>4. QED
        BY <2>1, <3>1, <3>3, <4>1, <4>3 DEF ReadInv, NoFileRead, ReadSoFar
    <3>4. QED
      BY <2>7, <3>2, <3>3, Zenon DEF Finish
  <2>8. CASE GetManCRD \/ readConfigMap \/ readConfigMapFails
    <3>1. UNCHANGED <<request, since, current>> /\ (request.to # "composition" \/ pc' # "get")
      BY <2>8 DEF GetManCRD, readConfigMap, readConfigMapFails, history, ReadInv, ForMan
    <3>2. QED
      BY <2>1, <2>2, <3>1 DEF ReadInv, NoFileRead, ReadSoFar, CurrentRegistered
  <2>9. CASE Ask
    BY <2>5, <2>9 DEF Ask
  <2>10. CASE ListFails \/ ManPanics \/ GetFails \/ Look \/ QueryResource
    <3>1. pc' # "get"
      BY <2>10 DEF ListFails, ManPanics, GetFails, Look, QueryResource, Leave, Answer
    <3>2. UNCHANGED <<since, current>>
      BY <2>10 DEF ListFails, ManPanics, GetFails, Look, QueryResource, history
    <3>3. QED
      BY <2>5, <3>1, <3>2
  <2>11. CASE UNCHANGED vars
    BY <2>4, <2>11 DEF vars, reader, history
  <2>12. QED
    BY <1>4, <2>6, <2>7, <2>8, <2>9, <2>10, <2>11 DEF Next
<1>5. QED
  BY <1>1, <1>2, <1>3, <1>4

\* After an undisturbed read every CRD's kind is registered, until CRDs change.
THEOREM ReadRegisters == Spec => []CurrentRegistered
<1>1. ReadInv => CurrentRegistered
  BY DEF ReadInv
<1>2. QED
  BY <1>1, InitWhole, WholeStep, InitRead, ReadStep, PTL DEF Spec

-----------------------------------------------------------------------------
(* The manual *)

\* A CRD of the kind named the place of the text, both since the request came.
Told(asked, text) ==
    \E c, d \in since : \E crd \in c.crds :
        /\ crd.kind = asked.kind
        /\ LET p == PlaceOf(crd, asked.namespace)
           IN  p \in DOMAIN d.configMaps /\ d.configMaps[p] = text

PlaceNamed ==
    pc = "configmap" => \E c \in since : \E crd \in c.crds : crd.kind = request.kind /\ place = crd.usage

FoundTrue ==
    request.to = "man" /\ usageDetailsData \notin {"", NotFoundText, "panic"} => Told(request, usageDetailsData)

NothingYet == pc \in {"idle", "list"} => usageDetailsData = ""

LooksForKind == pc = "look" => request.to = "composition"

ManInv == cluster \in since /\ PlaceNamed /\ FoundTrue /\ NothingYet /\ LooksForKind /\ ManTrue

LEMMA InitMan == Init => ManInv
<1> SUFFICES ASSUME Init PROVE ManInv
  OBVIOUS
<1>1. cluster \in since /\ pc = "idle" /\ usageDetailsData = "" /\ request.to = "" /\ reply.to.to = ""
  BY DEF Init, NoReply, NoRequest
<1>2. QED
  BY <1>1 DEF ManInv, PlaceNamed, FoundTrue, NothingYet, LooksForKind, ManTrue

\* What was told stays told as the cluster changes.
LEMMA ToldKept ==
    ASSUME since \subseteq since', NEW asked, NEW text, Told(asked, text)
    PROVE  Told(asked, text)'
BY DEF Told, PlaceOf

\* An answer to man is a text that was told, or none.
LEMMA AnswerTrue ==
    ASSUME ManInv, NEW says, Answer(says), UNCHANGED <<cluster, since>>,
           \/ request.to # "man"
           \/ says \in {"", "panic"}
           \/ says = usageDetailsData
    PROVE  ManInv'
<1>1. pc' = "idle" /\ request' = NoRequest /\ usageDetailsData' = "" /\ reply' = [to |-> request, says |-> says]
  BY DEF Answer
<1>2. (cluster \in since)' /\ PlaceNamed' /\ FoundTrue' /\ NothingYet' /\ LooksForKind'
  BY <1>1 DEF ManInv, PlaceNamed, FoundTrue, NothingYet, LooksForKind, NoRequest
<1>3. SUFFICES ASSUME request.to = "man", says \notin {"", NotFoundText, "panic"}
               PROVE  Told(request, says)
  BY <1>1, <1>2 DEF ManInv, ManTrue, Told
<1>4. QED
  BY <1>3 DEF ManInv, FoundTrue

LEMMA ManStep == ManInv /\ [Next]_vars => ManInv'
<1> SUFFICES ASSUME ManInv, [Next]_vars PROVE ManInv'
  OBVIOUS
<1>1. CASE Ask
  <2>1. cluster' \in since' /\ pc' = "list" /\ usageDetailsData' = "" /\ reply'.to.to = ""
    BY <1>1 DEF Ask, ManInv, NothingYet, NoReply, NoRequest
  <2>2. QED
    BY <2>1 DEF ManInv, PlaceNamed, FoundTrue, NothingYet, LooksForKind, ManTrue
<1>2. ASSUME NEW says \in {"", "panic", usageDetailsData}, Leave(says), UNCHANGED <<cluster, since>>
      PROVE  ManInv'
  <2>1. CASE Answer(says)
    BY <1>2, <2>1, AnswerTrue
  <2>2. CASE request.to = "composition" /\ pc' = "look" /\ UNCHANGED <<request, place, usageDetailsData, reply>>
    BY <1>2, <2>2, ZenonT(40) DEF ManInv, PlaceNamed, FoundTrue, NothingYet, LooksForKind, ManTrue, PlaceOf, Told
  <2>3. QED
    BY <1>2, <2>1, <2>2 DEF Leave
<1>3. CASE ReadFile \/ ListFails \/ GetFails \/ Finish
  <2>1. UNCHANGED <<cluster, since>>
    BY <1>3 DEF ReadFile, ListFails, GetFails, Finish, history
  <2>2. Leave("") \/ Leave(usageDetailsData)
    BY <1>3 DEF ReadFile, ListFails, GetFails, Finish
  <2>3. QED
    BY <1>2, <2>1, <2>2
<1>4. CASE ManPanics
  BY <1>4, AnswerTrue DEF ManPanics, history
<1>5. CASE Look
  <2>1. PICK says : Answer(says)
    BY <1>5 DEF Look
  <2>2. QED
    BY <1>5, <2>1, AnswerTrue DEF Look, history, ManInv, LooksForKind
<1>6. CASE QueryResource
  BY <1>6, AnswerTrue DEF QueryResource, history
<1>7. CASE ListCRDs \/ GetCRD
  <2>1. UNCHANGED <<cluster, since, request, usageDetailsData, reply>> /\ pc' = "get"
    BY <1>7 DEF ListCRDs, GetCRD, history
  <2>2. QED
    BY <2>1, ZenonT(40) DEF ManInv, PlaceNamed, FoundTrue, NothingYet, LooksForKind, ManTrue, PlaceOf, Told
<1>8. CASE GetManCRD
  <2>1. UNCHANGED <<cluster, since, request, usageDetailsData, reply>> /\ pc = "get"
    BY <1>8 DEF GetManCRD, history
  <2>2. \/ pc' = "get"
        \/ pc' = "configmap" /\ \E crd \in cluster.crds : crd.kind = request.kind /\ place' = crd.usage
    BY <1>8, <2>1 DEF GetManCRD, IsAsked
  <2>3. PlaceNamed'
    BY <2>1, <2>2 DEF ManInv, PlaceNamed
  <2>4. QED
    BY <2>1, <2>2, <2>3, ZenonT(40) DEF ManInv, FoundTrue, NothingYet, LooksForKind, ManTrue, PlaceOf, Told
<1>9. CASE readConfigMap
  <2>1. /\ UNCHANGED <<cluster, since, request, reply>> /\ pc = "configmap" /\ pc' = "get"
        /\ FullPlace \in DOMAIN cluster.configMaps /\ usageDetailsData' = cluster.configMaps[FullPlace]
    BY <1>9 DEF readConfigMap, history
  <2>2. PICK c \in since : \E crd \in c.crds : crd.kind = request.kind /\ place = crd.usage
    BY <2>1 DEF ManInv, PlaceNamed
  <2>3. PICK crd \in c.crds : crd.kind = request.kind /\ place = crd.usage
    BY <2>2
  <2>4. PlaceOf(crd, request.namespace) = FullPlace
    BY <2>3 DEF PlaceOf, FullPlace
  <2>5. Told(request, usageDetailsData')
    BY <2>1, <2>2, <2>3, <2>4 DEF Told, ManInv
  <2>6. FoundTrue'
    BY <2>1, <2>5 DEF FoundTrue, Told, PlaceOf
  <2>7. QED
    BY <2>1, <2>6 DEF ManInv, PlaceNamed, NothingYet, LooksForKind, ManTrue, PlaceOf, Told
<1>10. CASE readConfigMapFails
  <2>1. UNCHANGED <<cluster, since, request, reply>> /\ pc' = "get" /\ usageDetailsData' = NotFoundText
    BY <1>10 DEF readConfigMapFails, history
  <2>2. QED
    BY <2>1 DEF ManInv, PlaceNamed, FoundTrue, NothingYet, LooksForKind, ManTrue, PlaceOf, Told
<1>11. CASE Change
  <2>1. since \subseteq since' /\ cluster' \in since' /\ UNCHANGED <<pc, request, place, usageDetailsData, reply>>
    BY <1>11 DEF Change, reader
  <2>2. PlaceNamed' /\ NothingYet' /\ LooksForKind'
    BY <2>1 DEF ManInv, PlaceNamed, NothingYet, LooksForKind
  <2>3. FoundTrue'
    BY <2>1, ToldKept DEF ManInv, FoundTrue
  <2>4. ManTrue <=> (reply.to.to = "man" /\ reply.says \notin {"", NotFoundText, "panic"}
                         => Told(reply.to, reply.says))
    BY DEF ManTrue, Told
  <2>5. ManTrue' <=> (reply.to.to = "man" /\ reply.says \notin {"", NotFoundText, "panic"}
                          => Told(reply.to, reply.says)')
    BY <2>1 DEF ManTrue, Told
  <2>6. ManTrue'
    BY <2>1, <2>4, <2>5, ToldKept DEF ManInv
  <2>7. QED
    BY <2>1, <2>2, <2>3, <2>6 DEF ManInv
<1>12. CASE UNCHANGED vars
  <2>1. UNCHANGED <<cluster, since, pc, request, place, usageDetailsData, reply>>
    BY <1>12 DEF vars, reader, history
  <2>2. QED
    BY <2>1, ZenonT(40) DEF ManInv, PlaceNamed, FoundTrue, NothingYet, LooksForKind, ManTrue, PlaceOf, Told
<1>13. QED
  BY <1>1, <1>3, <1>4, <1>5, <1>6, <1>7, <1>8, <1>9, <1>10, <1>11, <1>12 DEF Next

\* A manual that is answered was, during the request, that of a CRD of the kind.
THEOREM ManualsTrue == Spec => []ManTrue
<1>1. ManInv => ManTrue
  BY DEF ManInv
<1>2. QED
  BY <1>1, InitMan, ManStep, PTL DEF Spec

-----------------------------------------------------------------------------
(* The details of a resource *)

\* While a request is served there is no answer.
NoneYet == pc # "idle" => reply.to.to = ""

DetailsInv == NoneYet /\ DetailsAsked

LEMMA InitDetails == Init => DetailsInv
<1> SUFFICES ASSUME Init PROVE DetailsInv
  OBVIOUS
<1>1. reply.to.to = ""
  BY DEF Init, NoReply, NoRequest
<1> QED BY <1>1 DEF DetailsInv, NoneYet, DetailsAsked

\* Every CRD has a group, so that its path is an address.
GroupsNamed ==
    /\ \A crd \in cluster.crds : crd.group # ""
    /\ \A crd \in seen : crd.group # ""

LEMMA InitGroups == Init => GroupsNamed
BY ClustersAssumption DEF Init, GroupsNamed

LEMMA GroupsStep == GroupsNamed /\ [Next]_vars => GroupsNamed'
<1> SUFFICES ASSUME GroupsNamed, [Next]_vars PROVE GroupsNamed'
  OBVIOUS
<1>1. CASE Change
  BY <1>1, ClustersAssumption DEF Change, GroupsNamed
<1>2. CASE UNCHANGED <<cluster, seen>>
  BY <1>2 DEF GroupsNamed
<1>3. CASE ~Change
  <2>1. UNCHANGED <<cluster, seen>>
    BY <1>3 DEF Next, vars, history, Ask, ReadFile, ListCRDs, ListFails, GetCRD, GetManCRD, ManPanics, GetFails,
                readConfigMap, readConfigMapFails, Finish, Look, QueryResource
  <2> QED BY <1>2, <2>1
<1> QED BY <1>1, <1>3

\* What the maps have of a kind is the address of a CRD, or the built-in's path.
LEMMA EndpointWhole ==
    ASSUME WholeInv, GroupsNamed, file = NoFile, NEW kind \in DOMAIN KindPluralMap
    PROVE  \/ kind \in DOMAIN BuiltinKinds /\ Endpoint(kind) = WrittenIn(kind)
           \/ \E crd \in seen : crd.kind = kind /\ Endpoint(kind) = AddressOf(crd)
<1>1. CASE IsBuiltin(kind)
  BY <1>1 DEF IsBuiltin, Endpoint, WrittenIn
<1>2. CASE \E crd \in seen : crd.kind = kind /\ IsRegistered(crd)
  <2>1. PICK crd \in seen : crd.kind = kind /\ IsRegistered(crd)
    BY <1>2
  <2>2. crd.group # ""
    BY <2>1 DEF GroupsNamed
  <2>3. Endpoint(kind) = AddressOf(crd)
    BY <2>1, <2>2 DEF IsRegistered, Endpoint, AddressOf, Address, PathOf
  <2> QED BY <2>1, <2>3
<1> QED BY <1>1, <1>2 DEF WholeInv, KindsWhole

\* A built-in kind is known from the start.
BuiltinsKnown == DOMAIN BuiltinKinds \subseteq DOMAIN KindPluralMap

LEMMA InitBuiltins == Init => BuiltinsKnown
BY DEF Init, BuiltinsKnown

LEMMA BuiltinsStep == BuiltinsKnown /\ [Next]_vars => BuiltinsKnown'
BY KindsGrow DEF BuiltinsKnown

LEMMA DetailsStep == WholeInv /\ ReadInv /\ ManInv /\ BuiltinsKnown /\ GroupsNamed /\ DetailsInv /\ [Next]_vars => DetailsInv'
<1> SUFFICES ASSUME WholeInv, ReadInv, ManInv, BuiltinsKnown, GroupsNamed, DetailsInv, [Next]_vars PROVE DetailsInv'
  OBVIOUS
<1>1. CASE QueryResource
  <2>1. /\ request.to = "details" /\ pc' = "idle"
        /\ reply' = [to |-> request, says |-> Endpoint(request.kind)]
        /\ UNCHANGED <<cluster, file, kinds, seen, current>>
    BY <1>1 DEF QueryResource, Answer, history
  <2> DEFINE kind == request.kind
             mine(crds) == {AddressOf(crd) : crd \in {c \in crds : c.kind = kind}}
             builtin == {WrittenIn(k) : k \in {kind} \intersect DOMAIN BuiltinKinds}
  <2>2. SUFFICES ASSUME file = NoFile
                 PROVE  /\ \/ Endpoint(kind) \in mine(seen) \union builtin
                           \/ builtin = {} /\ Endpoint(kind) = Nowhere
                        /\ current /\ mine(cluster.crds) # {} => Endpoint(kind) \in mine(cluster.crds)
    BY <2>1 DEF DetailsInv, NoneYet, DetailsAsked
  <2>3. \/ Endpoint(kind) \in mine(seen) \union builtin
        \/ builtin = {} /\ Endpoint(kind) = Nowhere
    <3>1. CASE kind \in DOMAIN KindPluralMap
      BY <2>2, <3>1, EndpointWhole
    <3>2. CASE kind \notin DOMAIN KindPluralMap
      BY <3>2 DEF Endpoint, BuiltinsKnown
    <3> QED BY <3>1, <3>2
  <2>4. ASSUME current, mine(cluster.crds) # {} PROVE Endpoint(kind) \in mine(cluster.crds)
    <3>1. PICK crd \in cluster.crds : crd.kind = kind
      BY <2>4
    <3>2. PICK other \in cluster.crds : other.kind = kind /\ IsRegistered(other)
      BY <2>4, <3>1 DEF ReadInv, CurrentRegistered
    <3>3. kind \in DOMAIN KindPluralMap
      BY <2>2, <3>2 DEF IsRegistered, WholeInv, KindsAgree
    <3>4. other.group # ""
      BY <3>2 DEF GroupsNamed
    <3>5. Endpoint(kind) = AddressOf(other)
      BY <3>2, <3>3, <3>4 DEF IsRegistered, Endpoint, AddressOf, Address, PathOf
    <3> QED BY <3>2, <3>5
  <2> QED BY <2>3, <2>4
<1>2. ASSUME NEW says, Answer(says), request.to # "details" PROVE DetailsInv'
  BY <1>2 DEF Answer, DetailsInv, NoneYet, DetailsAsked
<1>3. ASSUME reply'.to.to = "" PROVE DetailsInv'
  BY <1>3 DEF DetailsInv, NoneYet, DetailsAsked
<1>4. ASSUME pc # "idle", UNCHANGED reply PROVE DetailsInv'
  BY <1>3, <1>4 DEF DetailsInv, NoneYet
<1>5. CASE Ask
  BY <1>3, <1>5 DEF Ask, NoReply, NoRequest
<1>6. ASSUME NEW says, pc # "idle", Leave(says) PROVE DetailsInv'
  BY <1>2, <1>4, <1>6 DEF Leave
<1>7. CASE ReadFile \/ ListFails \/ GetFails \/ Finish
  <2>1. pc # "idle"
    BY <1>7 DEF ReadFile, ListFails, GetFails, Finish
  <2>2. Leave("") \/ Leave(usageDetailsData)
    BY <1>7 DEF ReadFile, ListFails, GetFails, Finish
  <2> QED BY <1>6, <2>1, <2>2
<1>8. CASE ListCRDs \/ GetCRD \/ GetManCRD \/ readConfigMap \/ readConfigMapFails
  <2>1. pc # "idle" /\ UNCHANGED reply
    BY <1>8 DEF ListCRDs, GetCRD, GetManCRD, readConfigMap, readConfigMapFails
  <2> QED BY <1>4, <2>1
<1>9. CASE ManPanics
  BY <1>2, <1>9 DEF ManPanics
<1>10. CASE Look
  <2>1. pc = "look" /\ \E says : Answer(says)
    BY <1>10 DEF Look
  <2> QED BY <1>2, <2>1 DEF ManInv, LooksForKind
<1>11. CASE Change
  <2>1. UNCHANGED <<file, pc, reply>> /\ seen \subseteq seen' /\ ~current'
    BY <1>11 DEF Change, reader
  <2> QED BY <2>1 DEF DetailsInv, NoneYet, DetailsAsked
<1>12. CASE UNCHANGED vars
  <2>1. UNCHANGED <<cluster, file, pc, reply, seen, current>>
    BY <1>12 DEF vars, reader, history
  <2> QED BY <2>1 DEF DetailsInv, NoneYet, DetailsAsked
<1> QED BY <1>1, <1>5, <1>7, <1>8, <1>9, <1>10, <1>11, <1>12 DEF Next

\* /resourceDetails, which does not read the kinds, asks at the address of one
\* CRD of the kind or at the path types.go gives the built-in (not an address
\* for Namespace, Secret and Ingress), and at the address of a CRD that is
\* there now once a composition was asked for undisturbed.
THEOREM DetailsTrue == Spec => []DetailsAsked
<1>1. DetailsInv => DetailsAsked
  BY DEF DetailsInv
<1> QED BY <1>1, InitWhole, WholeStep, InitRead, ReadStep, InitMan, ManStep, InitBuiltins, BuiltinsStep,
           InitGroups, GroupsStep, InitDetails, DetailsStep, PTL DEF Spec

-----------------------------------------------------------------------------
(* The kind that is looked up *)

\* The CRDs still to get are there, as long as nothing changed.
TodoThere ==
    pc \in {"get", "configmap"} /\ since = {cluster} =>
        \A name \in todo : \E crd \in cluster.crds : crd.name = name

\* A kind is looked up after a read that broke off, or a complete one.
LookReady == pc = "look" /\ file = NoFile /\ since = {cluster} /\ ~failed => current

LookupInv == cluster \in since /\ TodoThere /\ LookReady /\ LooksForKind /\ NoneYet /\ LookupRight

LEMMA InitLookup == Init => LookupInv
<1> SUFFICES ASSUME Init PROVE LookupInv
  OBVIOUS
<1>1. cluster \in since /\ pc = "idle" /\ reply.to.to = ""
  BY DEF Init, NoReply, NoRequest
<1> QED BY <1>1 DEF LookupInv, TodoThere, LookReady, LooksForKind, NoneYet, LookupRight

\* The kind with the plural of the one asked for is that kind.
LEMMA PluralOfOne ==
    ASSUME WholeInv, CurrentRegistered, current, file = NoFile,
           NEW kind, \E crd \in cluster.crds : crd.kind = kind,
           \A crd \in {c \in seen : c.kind = kind} :
              /\ \A other \in seen : other.plural = crd.plural => other.kind = kind
              /\ \A k \in DOMAIN BuiltinKinds : BuiltinKinds[k].plural = crd.plural => k = kind
    PROVE  /\ kind \in DOMAIN KindPluralMap
           /\ \A k \in DOMAIN KindPluralMap : KindPluralMap[k] = KindPluralMap[kind] => k = kind
<1>1. PICK crd \in cluster.crds : crd.kind = kind /\ IsRegistered(crd)
  BY DEF CurrentRegistered
<1>2. crd \in seen /\ kind \in DOMAIN KindPluralMap /\ KindPluralMap[kind] = crd.plural
  BY <1>1 DEF WholeInv, CRDsSeen, KindsAgree, IsRegistered
<1>3. ASSUME NEW k \in DOMAIN KindPluralMap, KindPluralMap[k] = crd.plural
      PROVE  k = kind
  <2>1. CASE IsBuiltin(k)
    BY <1>1, <1>2, <1>3, <2>1 DEF IsBuiltin
  <2>2. CASE \E c \in seen : c.kind = k /\ IsRegistered(c)
    <3>1. PICK c \in seen : c.kind = k /\ IsRegistered(c)
      BY <2>2
    <3>2. c.plural = crd.plural
      BY <1>3, <3>1 DEF IsRegistered
    <3>3. crd \in {x \in seen : x.kind = kind}
      BY <1>1, <1>2
    <3> QED BY <3>1, <3>2, <3>3
  <2> QED BY <1>3, <2>1, <2>2 DEF WholeInv, KindsWhole
<1> QED BY <1>2, <1>3

LEMMA LookupStep == WholeInv /\ ReadInv /\ LookupInv /\ [Next]_vars => LookupInv'
<1> SUFFICES ASSUME WholeInv, ReadInv, LookupInv, [Next]_vars PROVE LookupInv'
  OBVIOUS
\* Whatever is answered to other requests does not matter.
<1>1. ASSUME NEW says, Answer(says), request.to # "composition", UNCHANGED <<cluster, since>> PROVE LookupInv'
  <2>1. pc' = "idle" /\ reply'.to.to # "composition"
    BY <1>1 DEF Answer
  <2> QED BY <1>1, <2>1 DEF LookupInv, TodoThere, LookReady, LooksForKind, NoneYet, LookupRight
\* Before the answer.
<1>2. /\ reply'.to.to = ""
      /\ (cluster \in since)'
      /\ TodoThere'
      /\ LookReady'
      /\ LooksForKind'
      => LookupInv'
  BY DEF LookupInv, NoneYet, LookupRight
<1>3. ASSUME pc \in {"list", "get"}, \E says : Leave(says), UNCHANGED <<cluster, since>>
      PROVE  LookReady' => LookupInv'
  <2> PICK says : Leave(says)
    BY <1>3
  <2>1. CASE request.to = "man" /\ Answer(says)
    BY <1>1, <1>3, <2>1
  <2>2. CASE request.to = "composition" /\ pc' = "look" /\ UNCHANGED <<request, reply>>
    <3>1. reply'.to.to = "" /\ TodoThere' /\ LooksForKind'
      BY <1>3, <2>2 DEF LookupInv, NoneYet, TodoThere, LooksForKind
    <3>2. (cluster \in since)'
      BY <1>3 DEF LookupInv
    <3> QED BY <1>2, <3>1, <3>2
  <2> QED BY <1>3, <2>1, <2>2 DEF Leave
<1>4. CASE Ask
  <2>1. reply'.to.to = "" /\ pc' = "list" /\ (cluster \in since)'
    BY <1>4 DEF Ask, NoReply, NoRequest
  <2> QED BY <1>2, <2>1 DEF TodoThere, LookReady, LooksForKind
<1>5. CASE ReadFile
  <2>1. pc = "list" /\ (\E says : Leave(says)) /\ UNCHANGED <<cluster, file, since>> /\ file # NoFile
    BY <1>5 DEF ReadFile, history
  <2>2. LookReady'
    BY <2>1 DEF LookupInv, LookReady
  <2> QED BY <1>3, <2>1, <2>2
<1>6. CASE ListFails
  <2>1. pc = "list" /\ (\E says : Leave(says)) /\ UNCHANGED <<cluster, since>> /\ failed'
    BY <1>6 DEF ListFails, Fault, history
  <2>2. LookReady'
    BY <2>1 DEF LookupInv, LookReady
  <2> QED BY <1>3, <2>1, <2>2
<1>7. CASE GetFails
  <2>1. pc = "get" /\ (\E says : Leave(says)) /\ UNCHANGED <<cluster, since>>
    BY <1>7 DEF GetFails, history
  <2>2. since = {cluster} => failed'
    BY <1>7, <2>1 DEF LookupInv, GetFails, TodoThere, Fault
  <2>3. LookReady'
    BY <2>1, <2>2 DEF LookReady
  <2> QED BY <1>3, <2>1, <2>3
<1>8. CASE Finish
  <2>1. pc = "get" /\ Leave(usageDetailsData) /\ UNCHANGED <<cluster, since>>
        /\ (request.to = "composition" /\ since = {cluster} => current')
    BY <1>8 DEF Finish
  <2>2. CASE request.to = "man" /\ Answer(usageDetailsData)
    BY <1>1, <2>1, <2>2
  <2>4. request.to = "composition" \/ (request.to = "man" /\ Answer(usageDetailsData))
    BY <2>1 DEF Leave
  <2>3. CASE request.to = "composition"
    <3>1. LookReady'
      BY <2>1, <2>3 DEF LookReady
    <3>2. \E says : Leave(says)
      BY <2>1
    <3> QED BY <1>3, <2>1, <3>1, <3>2
  <2> QED BY <2>2, <2>3, <2>4
<1>9. CASE ListCRDs
  <2>1. pc = "list" /\ pc' = "get" /\ UNCHANGED <<cluster, since, reply>>
        /\ todo' = {crd.name : crd \in cluster.crds}
    BY <1>9 DEF ListCRDs, history
  <2> QED BY <1>2, <2>1 DEF LookupInv, NoneYet, TodoThere, LookReady, LooksForKind
<1>10. CASE GetCRD \/ GetManCRD \/ readConfigMap \/ readConfigMapFails
  <2>1. /\ pc \in {"get", "configmap"} /\ pc' \in {"get", "configmap"}
        /\ UNCHANGED <<cluster, since, reply>> /\ todo' \subseteq todo
    BY <1>10 DEF GetCRD, GetManCRD, readConfigMap, readConfigMapFails, history
  <2> QED BY <1>2, <2>1 DEF LookupInv, NoneYet, TodoThere, LookReady, LooksForKind
<1>11. CASE ManPanics
  BY <1>1, <1>11 DEF ManPanics, history
<1>12. CASE QueryResource
  BY <1>1, <1>12 DEF QueryResource, history
<1>13. CASE Look
  <2>1. pc = "look" /\ request.to = "composition" /\ UNCHANGED <<cluster, file, seen, since, failed>>
    BY <1>13 DEF Look, history, NoFault, LookupInv, LooksForKind
  <2>2. PICK says :
           /\ Answer(says)
           /\ request.kind \in DOMAIN KindPluralMap =>
                 says \in DOMAIN KindPluralMap /\ KindPluralMap[says] = KindPluralMap[request.kind]
    BY <1>13 DEF Look, HasPlural
  <2>3. pc' = "idle" /\ reply' = [to |-> request, says |-> says]
    BY <2>2 DEF Answer
  <2>4. LookupRight'
    <3> DEFINE kind == request.kind
    <3>1. SUFFICES ASSUME file = NoFile, since = {cluster}, ~failed,
                          \E crd \in cluster.crds : crd.kind = kind,
                          \A crd \in {c \in seen : c.kind = kind} :
                             /\ \A other \in seen : other.plural = crd.plural => other.kind = kind
                             /\ \A k \in DOMAIN BuiltinKinds :
                                   BuiltinKinds[k].plural = crd.plural => k = kind
                   PROVE  says = kind
      BY <2>1, <2>3 DEF LookupRight
    <3>2. current
      BY <2>1, <3>1 DEF LookupInv, LookReady
    <3> QED BY <2>2, <3>1, <3>2, PluralOfOne DEF ReadInv
  <2> QED BY <2>1, <2>3, <2>4 DEF LookupInv, TodoThere, LookReady, LooksForKind, NoneYet
<1>14. CASE Change
  <2>1. UNCHANGED <<file, pc, reply, failed>> /\ (cluster \in since)' /\ since' # {cluster'}
    BY <1>14 DEF LookupInv, Change, reader
  <2>2. LooksForKind' /\ NoneYet'
    BY <1>14, <2>1 DEF LookupInv, LooksForKind, NoneYet, Change, reader
  <2> QED BY <2>1, <2>2 DEF LookupInv, TodoThere, LookReady, LookupRight
<1>15. CASE UNCHANGED vars
  <2>1. UNCHANGED <<cluster, file, pc, request, todo, reply, seen, since, current, failed>>
    BY <1>15 DEF vars, reader, history
  <2>2. LookupRight'
    BY <2>1 DEF LookupInv, LookupRight
  <2>3. TodoThere' /\ LookReady' /\ LooksForKind' /\ NoneYet'
    BY <2>1 DEF LookupInv, TodoThere, LookReady, LooksForKind, NoneYet
  <2>4. (cluster \in since)'
    BY <2>1 DEF LookupInv
  <2> QED BY <2>2, <2>3, <2>4 DEF LookupInv
<1> QED BY <1>4, <1>5, <1>6, <1>7, <1>8, <1>9, <1>10, <1>11, <1>12, <1>13, <1>14, <1>15 DEF Next

\* A composition asked for by a CRD's kind is answered for that kind, although
\* it is looked up by its plural, if no other kind has the plural: a complete
\* read goes before, whatever earlier reads left in the maps.
THEOREM LooksUpKind == Spec => []LookupRight
<1>1. LookupInv => LookupRight
  BY DEF LookupInv
<1> QED BY <1>1, InitWhole, WholeStep, InitRead, ReadStep, InitLookup, LookupStep, PTL DEF Spec

-----------------------------------------------------------------------------
(* The manual is not lost *)

Calm == since = {cluster} /\ ~failed

\* The CRDs of the kind that name a manual, whether all manuals are there, and
\* their texts.
Naming(kind) == {crd \in cluster.crds : crd.kind = kind /\ crd.usage # NoUsage}

AllThere(asked) ==
    \A crd \in Naming(asked.kind) : PlaceOf(crd, asked.namespace) \in DOMAIN cluster.configMaps

IsManual(asked, text) ==
    \E crd \in Naming(asked.kind) : text = cluster.configMaps[PlaceOf(crd, asked.namespace)]

Complete(asked, text) ==
    /\ Naming(asked.kind) = {} => text = ""
    /\ Naming(asked.kind) # {} /\ AllThere(asked) => IsManual(asked, text)

\* The text found so far is a manual as soon as one CRD that names one was read.
ManSoFar ==
    request.to = "man" /\ Calm =>
        /\ pc = "get" =>
              /\ Naming(request.kind) = {} => usageDetailsData = ""
              /\ (\E crd \in Naming(request.kind) : crd.name \notin todo) /\ AllThere(request) =>
                    IsManual(request, usageDetailsData)
        /\ pc = "configmap" => \E crd \in Naming(request.kind) : place = crd.usage

ManFull == reply.to.to = "man" /\ Calm => Complete(reply.to, reply.says)

LEMMA ManFullComplete == ManFull => ManComplete
<1> SUFFICES ASSUME ManFull, reply.to.to = "man", since = {cluster}, ~failed
             PROVE  LET mine == {crd \in cluster.crds : crd.kind = reply.to.kind /\ crd.usage # NoUsage}
                        there == {crd \in mine : PlaceOf(crd, reply.to.namespace) \in DOMAIN cluster.configMaps}
                    IN  /\ mine = {} => reply.says = ""
                        /\ mine # {} /\ there = mine =>
                              \E crd \in mine :
                                  reply.says = cluster.configMaps[PlaceOf(crd, reply.to.namespace)]
  BY DEF ManComplete
<1> DEFINE mine == Naming(reply.to.kind)
           there == {crd \in mine : PlaceOf(crd, reply.to.namespace) \in DOMAIN cluster.configMaps}
<1>1. Complete(reply.to, reply.says)
  BY DEF ManFull, Calm
<1>2. there = mine => AllThere(reply.to)
  BY DEF AllThere
<1>3. /\ mine = {} => reply.says = ""
      /\ mine # {} /\ there = mine =>
            \E crd \in mine : reply.says = cluster.configMaps[PlaceOf(crd, reply.to.namespace)]
  BY <1>1, <1>2 DEF Complete, IsManual
<1> QED BY <1>3 DEF Naming

FullInv == ManSoFar /\ ManFull

LEMMA InitFull == Init => FullInv
<1> SUFFICES ASSUME Init PROVE FullInv
  OBVIOUS
<1>1. request.to = "" /\ reply.to.to = ""
  BY DEF Init, NoReply, NoRequest
<1> QED BY <1>1 DEF FullInv, ManSoFar, ManFull

\* An answer that is complete leaves nothing to be done for this request.
LEMMA AnswerFull ==
    ASSUME NEW says, Answer(says), UNCHANGED <<cluster, since>>,
           request.to = "man" /\ Calm' => Complete(request, says)
    PROVE  FullInv'
<1>1. pc' = "idle" /\ reply'.to = request /\ reply'.says = says
  BY DEF Answer
<1>2. ManSoFar'
  BY <1>1 DEF ManSoFar
<1>3. ASSUME request.to = "man", Calm' PROVE Complete(reply.to, reply.says)'
  BY <1>1, <1>3 DEF Complete, Naming, AllThere, IsManual, PlaceOf
<1> QED BY <1>1, <1>2, <1>3 DEF FullInv, ManFull

LEMMA LeaveFull ==
    ASSUME LookupInv, NEW says, pc # "idle", Leave(says), UNCHANGED <<cluster, since>>,
           request.to = "man" /\ Calm' => Complete(request, says)
    PROVE  FullInv'
<1>1. CASE Answer(says)
  BY <1>1, AnswerFull
<1>2. CASE pc' = "look" /\ UNCHANGED reply
  BY <1>2 DEF FullInv, ManSoFar, ManFull, LookupInv, NoneYet
<1> QED BY <1>1, <1>2 DEF Leave

\* Between the reads of a request nothing is answered.
LEMMA MidFull ==
    ASSUME LookupInv, pc # "idle", UNCHANGED reply, ManSoFar'
    PROVE  FullInv'
BY DEF FullInv, ManFull, LookupInv, NoneYet

LEMMA FullStep == ReadInv /\ ManInv /\ LookupInv /\ FullInv /\ [Next]_vars => FullInv'
<1> SUFFICES ASSUME ReadInv, ManInv, LookupInv, FullInv, [Next]_vars PROVE FullInv'
  OBVIOUS
<1>a. cluster \in Clusters /\ cluster \in since
  BY DEF ReadInv
<1>1. CASE Ask
  <2>1. pc' = "list" /\ reply'.to.to = ""
    BY <1>1 DEF Ask, NoReply, NoRequest
  <2> QED BY <2>1 DEF FullInv, ManSoFar, ManFull
<1>2. CASE ReadFile
  <2>1. request.to # "man" /\ Leave("") /\ UNCHANGED <<cluster, since>> /\ pc # "idle"
    BY <1>2 DEF ReadFile, history
  <2> QED BY <2>1, LeaveFull
<1>3. CASE ListFails
  <2>1. Leave("") /\ UNCHANGED <<cluster, since>> /\ failed' /\ pc # "idle"
    BY <1>3 DEF ListFails, Fault, history
  <2>2. ~Calm'
    BY <2>1 DEF Calm
  <2> QED BY <2>1, <2>2, LeaveFull
<1>4. CASE GetFails
  <2>1. Leave("") /\ UNCHANGED <<cluster, since>> /\ pc = "get"
    BY <1>4 DEF GetFails, history
  <2>2. ~Calm'
    BY <1>4, <2>1 DEF GetFails, Fault, Calm, LookupInv, TodoThere
  <2> QED BY <2>1, <2>2, LeaveFull
<1>5. CASE Finish
  <2>1. pc = "get" /\ todo = {} /\ Leave(usageDetailsData) /\ UNCHANGED <<cluster, since, failed>>
    BY <1>5 DEF Finish, LoopEnds, NoFault
  <2>2. ASSUME request.to = "man", Calm' PROVE Complete(request, usageDetailsData)
    <3>1. Calm
      BY <2>1, <2>2 DEF Calm
    <3> QED BY <2>1, <2>2, <3>1 DEF FullInv, ManSoFar, Complete
  <2> QED BY <2>1, <2>2, LeaveFull
<1>6. CASE ManPanics
  <2>1. /\ Answer("panic") /\ UNCHANGED <<cluster, since>>
        /\ \E crd \in cluster.crds : crd.kind = request.kind /\ crd.usage = NoDot
    BY <1>6 DEF ManPanics, IsAsked, history
  <2>2. PICK crd \in cluster.crds : crd.kind = request.kind /\ crd.usage = NoDot
    BY <2>1
  <2>3. crd \in Naming(request.kind)
    <3>1. NoDot.name # NoUsage.name
      BY DEF NoDot, NoUsage
    <3> QED BY <2>2, <3>1 DEF Naming
  <2>4. PlaceOf(crd, request.namespace).name = "."
    <3>1. NoDot = [namespace |-> "", name |-> "."]
      BY DEF NoDot
    <3>2. \A ns : [NoDot EXCEPT !.namespace = ns].name = "."
      BY <3>1
    <3> QED BY <2>2, <3>2 DEF PlaceOf
  <2>5. PlaceOf(crd, request.namespace) \notin DOMAIN cluster.configMaps
    BY <1>a, <2>4, ClustersAssumption
  <2>6. Complete(request, "panic")
    BY <2>3, <2>5 DEF Complete, AllThere
  <2> QED BY <2>1, <2>6, AnswerFull
<1>7. CASE Look
  <2>1. request.to # "man" /\ (\E says : Answer(says)) /\ UNCHANGED <<cluster, since>>
    BY <1>7 DEF Look, history, LookupInv, LooksForKind
  <2> QED BY <2>1, AnswerFull
<1>8. CASE QueryResource
  <2>1. request.to # "man" /\ (\E says : Answer(says)) /\ UNCHANGED <<cluster, since>>
    BY <1>8 DEF QueryResource, history
  <2> QED BY <2>1, AnswerFull
<1>9. CASE ListCRDs
  <2>1. /\ pc = "list" /\ pc' = "get" /\ todo' = {crd.name : crd \in cluster.crds}
        /\ UNCHANGED <<cluster, request, usageDetailsData, reply>>
    BY <1>9 DEF ListCRDs
  <2>2. usageDetailsData = ""
    BY <2>1 DEF ManInv, NothingYet
  <2>3. \A kind : \A crd \in Naming(kind)' : crd.name \in todo'
    BY <2>1 DEF Naming
  <2>4. ManSoFar'
    BY <2>1, <2>2, <2>3 DEF ManSoFar
  <2> QED BY <2>1, <2>4, MidFull
<1>10. CASE GetCRD
  <2>1. pc = "get" /\ request'.to # "man" /\ UNCHANGED reply
    BY <1>10 DEF GetCRD
  <2>2. ManSoFar'
    BY <2>1 DEF ManSoFar
  <2> QED BY <2>1, <2>2, MidFull
<1>11. CASE GetManCRD
  <2>1. /\ pc = "get" /\ UNCHANGED <<cluster, request, usageDetailsData, reply, since, failed>>
        /\ (Calm' <=> Calm)
    BY <1>11 DEF GetManCRD, NoFault, history, Calm
  <2>2. PICK crd \in cluster.crds :
           /\ todo' = todo \ {crd.name}
           /\ \/ crd.kind = request.kind /\ crd.usage # NoUsage /\ pc' = "configmap" /\ place' = crd.usage
              \/ (crd.kind # request.kind \/ crd.usage = NoUsage) /\ pc' = "get"
    BY <1>11 DEF GetManCRD, IsAsked, IsPlace
  <2>3. /\ Naming(request.kind)' = Naming(request.kind)
        /\ AllThere(request)' = AllThere(request)
        /\ IsManual(request, usageDetailsData)' = IsManual(request, usageDetailsData)
    BY <2>1 DEF Naming, AllThere, IsManual, PlaceOf
  <2>4. CASE pc' = "configmap"
    <3>1. crd \in Naming(request.kind) /\ place' = crd.usage
      BY <2>2, <2>4 DEF Naming
    <3>2. ManSoFar'
      BY <2>3, <2>4, <3>1 DEF ManSoFar
    <3> QED BY <2>1, <3>2, MidFull
  <2>5. CASE pc' = "get"
    <3>1. crd \notin Naming(request.kind)
      BY <2>2, <2>5 DEF Naming
    <3>2. \A c \in Naming(request.kind) : c.name \notin todo' => c.name \notin todo
      BY <1>a, <2>2, <3>1, ClustersAssumption DEF Naming
    <3>3. ManSoFar'
      BY <2>1, <2>3, <2>5, <3>2 DEF FullInv, ManSoFar
    <3> QED BY <2>1, <3>3, MidFull
  <2> QED BY <2>2, <2>4, <2>5
<1>12. CASE readConfigMap
  <2>1. /\ pc = "configmap" /\ pc' = "get" /\ UNCHANGED <<cluster, request, reply, since, failed>>
        /\ FullPlace \in DOMAIN cluster.configMaps /\ usageDetailsData' = cluster.configMaps[FullPlace]
        /\ (Calm' <=> Calm)
    BY <1>12 DEF readConfigMap, NoFault, history, Calm
  <2>2. ASSUME request.to = "man", Calm
        PROVE  IsManual(request, usageDetailsData') /\ Naming(request.kind) # {}
    <3>1. PICK crd \in Naming(request.kind) : place = crd.usage
      BY <2>1, <2>2 DEF FullInv, ManSoFar
    <3>2. FullPlace = PlaceOf(crd, request.namespace)
      BY <3>1 DEF FullPlace, PlaceOf
    <3> QED BY <2>1, <3>1, <3>2 DEF IsManual
  <2>3. /\ Naming(request.kind)' = Naming(request.kind)
        /\ IsManual(request, usageDetailsData)' = IsManual(request, usageDetailsData')
    BY <2>1 DEF Naming, IsManual, PlaceOf
  <2>4. ManSoFar'
    BY <2>1, <2>2, <2>3 DEF ManSoFar
  <2> QED BY <2>1, <2>4, MidFull
<1>13. CASE readConfigMapFails
  <2>1. /\ pc = "configmap" /\ pc' = "get" /\ UNCHANGED <<cluster, request, reply, since>>
        /\ Calm' => Calm /\ FullPlace \notin DOMAIN cluster.configMaps
    BY <1>13 DEF readConfigMapFails, NoFault, Fault, history, Calm
  <2>2. ASSUME request.to = "man", Calm'
        PROVE  ~AllThere(request) /\ Naming(request.kind) # {}
    <3>1. PICK crd \in Naming(request.kind) : place = crd.usage
      BY <2>1, <2>2 DEF FullInv, ManSoFar
    <3>2. FullPlace = PlaceOf(crd, request.namespace)
      BY <3>1 DEF FullPlace, PlaceOf
    <3> QED BY <2>1, <2>2, <3>1, <3>2 DEF AllThere
  <2>3. Naming(request.kind)' = Naming(request.kind) /\ AllThere(request)' = AllThere(request)
    BY <2>1 DEF Naming, AllThere, PlaceOf
  <2>4. ManSoFar'
    BY <2>1, <2>2, <2>3 DEF ManSoFar
  <2> QED BY <2>1, <2>4, MidFull
<1>14. CASE Change
  <2>1. since' # {cluster'}
    BY <1>14, <1>a DEF Change
  <2> QED BY <2>1 DEF FullInv, ManSoFar, ManFull, Calm
<1>15. CASE UNCHANGED vars
  <2>1. UNCHANGED <<cluster, pc, request, todo, place, usageDetailsData, reply, since, failed>>
    BY <1>15 DEF vars, reader, history
  <2>2. ManSoFar' = ManSoFar
    BY <2>1 DEF ManSoFar, Calm, Naming, AllThere, IsManual, PlaceOf
  <2>3. ManFull' = ManFull
    BY <2>1 DEF ManFull, Calm, Complete, Naming, AllThere, IsManual, PlaceOf
  <2> QED BY <2>2, <2>3 DEF FullInv
<1> QED BY <1>1, <1>2, <1>3, <1>4, <1>5, <1>6, <1>7, <1>8, <1>9, <1>10, <1>11, <1>12, <1>13, <1>14, <1>15
        DEF Next

\* If no call failed and nothing changed, the manual is one the CRDs of the
\* kind name, and one of them is found if all they name exist.
THEOREM ManualsFound == Spec => []ManComplete
<1>1. FullInv => ManComplete
  BY ManFullComplete DEF FullInv
<1> QED BY <1>1, InitWhole, WholeStep, InitRead, ReadStep, InitMan, ManStep, InitLookup, LookupStep,
           InitFull, FullStep, PTL DEF Spec

-----------------------------------------------------------------------------
(* The relationships of a CRD *)

\* The loop of Taken.
RelLoop(order, n, f) ==
    f = [i \in 0 .. n |-> IF i = 0 THEN [count |-> 1, rels |-> <<>>] ELSE NextRel(f[i - 1], order[i])]

LEMMA RelLoopExists == ASSUME NEW order, NEW n \in Nat PROVE \E f : RelLoop(order, n, f)
<1> DEFINE S == {m \in Nat : \E f : RelLoop(order, m, f)}
           none == [count |-> 1, rels |-> <<>>]
<1>1. 0 \in S
  <2>1. RelLoop(order, 0, [i \in 0 .. 0 |-> none])
    BY DEF RelLoop
  <2> QED BY <2>1
<1>2. ASSUME NEW m \in S PROVE m + 1 \in S
  <2>1. PICK f : RelLoop(order, m, f)
    BY <1>2
  <2> DEFINE last == NextRel(f[m], order[m + 1])
             g == [i \in 0 .. m + 1 |-> IF i = m + 1 THEN last ELSE f[i]]
  <2>2. \A i \in 0 .. m + 1 : i # m + 1 => g[i] = f[i] /\ i \in 0 .. m
    OBVIOUS
  <2>3. g[m + 1] = last
    OBVIOUS
  <2> HIDE DEF none
  <2>4. \A i \in 0 .. m : f[i] = IF i = 0 THEN none ELSE NextRel(f[i - 1], order[i])
    BY <2>1 DEF RelLoop, none
  <2> HIDE DEF last
  <2>5. \A i \in 0 .. m + 1 : g[i] = IF i = 0 THEN none ELSE NextRel(g[i - 1], order[i])
    <3> SUFFICES ASSUME NEW i \in 0 .. m + 1
                 PROVE  g[i] = IF i = 0 THEN none ELSE NextRel(g[i - 1], order[i])
      OBVIOUS
    <3>1. CASE i = m + 1
      BY <2>2, <2>3, <3>1 DEF last
    <3>2. CASE i # m + 1
      BY <2>2, <2>4, <3>2
    <3> QED BY <3>1, <3>2
  <2>6. g = [i \in 0 .. m + 1 |-> IF i = 0 THEN none ELSE NextRel(g[i - 1], order[i])]
    BY <2>5
  <2>7. \E h : RelLoop(order, m + 1, h)
    BY <2>6 DEF RelLoop, none
  <2> QED BY <2>7
<1>3. S = Nat
  BY <1>1, <1>2, NatSetInduction
<1> QED BY <1>3

Rel == RelTypes \X Nat

\* Whether a list has only relationships of the type, each a member of a set.
OfType(rels, type, R) == rels \in Seq(Rel) /\ \A i \in DOMAIN rels : rels[i] \in R /\ rels[i][1] = type

\* What the loop has after n rounds: all the numbers below the one it counts
\* to, in order, and of what it met the ones without a number and the first.
Counted(acc, order, n, type, R) ==
    /\ acc \in [count : Nat, rels : Seq(Rel)] /\ acc.count # 0
    /\ OfType(acc.rels, type, R)
    /\ \A i \in DOMAIN acc.rels : acc.rels[i][2] < acc.count
    /\ \A k \in 1 .. acc.count - 1 : \E i \in DOMAIN acc.rels : acc.rels[i] = <<type, k>>
    /\ InOrder(acc.rels)
    /\ \A j \in 1 .. n : order[j][2] = 0 => \E i \in DOMAIN acc.rels : acc.rels[i] = order[j]
    /\ \A j \in 1 .. n : order[j][2] = 1 => acc.count > 1

LEMMA CountedNone ==
    ASSUME NEW order, NEW type, NEW R
    PROVE  Counted([count |-> 1, rels |-> <<>>], order, 0, type, R)
BY DEF Counted, OfType, InOrder

\* One more relationship at the end.
LEMMA AppendRel ==
    ASSUME NEW type, NEW R, NEW rels, OfType(rels, type, R), NEW rel \in R, rel \in Rel, rel[1] = type
    PROVE  LET longer == Append(rels, rel)
           IN  /\ OfType(longer, type, R)
               /\ Len(rels) \in Nat /\ DOMAIN longer = 1 .. Len(rels) + 1 /\ DOMAIN rels = 1 .. Len(rels)
               /\ \A i \in DOMAIN rels : longer[i] = rels[i]
               /\ longer[Len(rels) + 1] = rel
BY DEF OfType

LEMMA CountedNext ==
    ASSUME NEW type, NEW R \in SUBSET Rel, NEW acc, NEW order, NEW n \in Nat,
           Counted(acc, order, n, type, R),
           order[n + 1] \in R, order[n + 1][1] = type
    PROVE  Counted(NextRel(acc, order[n + 1]), order, n + 1, type, R)
<1> DEFINE rel == order[n + 1]
           c == acc.count
           rels == acc.rels
           longer == Append(rels, rel)
<1>1. rel \in Rel /\ rel = <<type, rel[2]>> /\ rel[2] \in Nat
  BY DEF Rel
<1>2. /\ c \in Nat /\ c # 0 /\ OfType(rels, type, R) /\ InOrder(rels)
      /\ \A i \in DOMAIN rels : rels[i][2] < c
      /\ \A k \in 1 .. c - 1 : \E i \in DOMAIN rels : rels[i] = <<type, k>>
      /\ acc = [count |-> c, rels |-> rels]
  BY DEF Counted
<1>3. /\ OfType(longer, type, R)
      /\ Len(rels) \in Nat /\ DOMAIN longer = 1 .. Len(rels) + 1 /\ DOMAIN rels = 1 .. Len(rels)
      /\ \A i \in DOMAIN rels : longer[i] = rels[i]
      /\ longer[Len(rels) + 1] = rel
  BY <1>1, <1>2, AppendRel
<1>4. \A i \in DOMAIN rels : rels[i] \in Rel /\ rels[i][2] \in Nat
  BY <1>2 DEF OfType, Rel
<1>5. /\ \A j \in 1 .. n : order[j][2] = 0 => \E i \in DOMAIN rels : rels[i] = order[j]
      /\ \A j \in 1 .. n : order[j][2] = 1 => c > 1
  BY DEF Counted
<1> HIDE DEF longer, rel, c, rels
<1>6. ASSUME \/ rel[2] = c /\ c # 0
             \/ rel[2] = 0
      PROVE  InOrder(longer)
  <2>1. ASSUME NEW i \in DOMAIN longer, longer[i][2] > 1
        PROVE  \E j \in 1 .. i - 1 : longer[j] = <<longer[i][1], longer[i][2] - 1>>
    <3>1. CASE i \in DOMAIN rels
      <4>1. PICK j \in 1 .. i - 1 : rels[j] = <<rels[i][1], rels[i][2] - 1>>
        BY <1>2, <1>3, <2>1, <3>1 DEF InOrder
      <4>2. j \in DOMAIN rels
        BY <1>3, <3>1
      <4> QED BY <1>3, <3>1, <4>1, <4>2
    <3>2. CASE i = Len(rels) + 1
      <4>1. rel[2] = c /\ c - 1 \in 1 .. c - 1 /\ longer[i] = rel
        BY <1>2, <1>3, <1>6, <2>1, <3>2
      <4>2. PICK j \in DOMAIN rels : rels[j] = <<type, c - 1>>
        BY <1>2, <4>1
      <4>3. j \in 1 .. i - 1 /\ longer[j] = rels[j] /\ longer[i][1] = type /\ longer[i][2] - 1 = c - 1
        BY <1>1, <1>3, <3>2, <4>1, <4>2
      <4> QED BY <4>2, <4>3
    <3> QED BY <1>3, <2>1, <3>1, <3>2
  <2>2. ASSUME NEW i \in DOMAIN longer, NEW j \in DOMAIN longer, longer[i] = longer[j], longer[i][2] > 0
        PROVE  i = j
    <3>1. CASE i \in DOMAIN rels /\ j \in DOMAIN rels
      BY <1>2, <1>3, <2>2, <3>1 DEF InOrder
    <3>2. CASE i = Len(rels) + 1 /\ j \in DOMAIN rels
      <4>1. rel[2] = c /\ rels[j] = rel /\ rels[j][2] < c
        BY <1>2, <1>3, <1>6, <2>2, <3>2
      <4> QED BY <1>2, <4>1
    <3>3. CASE j = Len(rels) + 1 /\ i \in DOMAIN rels
      <4>1. rel[2] = c /\ rels[i] = rel /\ rels[i][2] < c
        BY <1>2, <1>3, <1>6, <2>2, <3>3
      <4> QED BY <1>2, <4>1
    <3> QED BY <1>3, <2>2, <3>1, <3>2, <3>3
  <2> QED BY <2>1, <2>2 DEF InOrder
<1>7. \A x : (\E i \in DOMAIN rels : rels[i] = x) => \E i \in DOMAIN longer : longer[i] = x
  BY <1>3
<1>8. \E i \in DOMAIN longer : longer[i] = rel
  BY <1>3
<1>9. \A j \in 1 .. n + 1 : j \in 1 .. n \/ order[j] = rel
  BY DEF rel
<1>10. longer \in Seq(Rel)
  BY <1>3 DEF OfType
<1>11. CASE rel[2] = c
  <2> DEFINE next == [count |-> c + 1, rels |-> longer]
  <2>1. NextRel(acc, rel) = next
    BY <1>11 DEF NextRel, c, longer, rels
  <2>2. next.count = c + 1 /\ next.rels = longer /\ next \in [count : Nat, rels : Seq(Rel)]
    BY <1>2, <1>10
  <2> HIDE DEF next
  <2>3. \A i \in DOMAIN longer : longer[i][2] < c + 1
    BY <1>2, <1>3, <1>4, <1>11
  <2>4. \A k \in 1 .. c : \E i \in DOMAIN longer : longer[i] = <<type, k>>
    <3> SUFFICES ASSUME NEW k \in 1 .. c PROVE \E i \in DOMAIN longer : longer[i] = <<type, k>>
      OBVIOUS
    <3>1. CASE k = c
      BY <1>1, <1>8, <1>11, <3>1
    <3>2. CASE k # c
      <4>1. k \in 1 .. c - 1
        BY <1>2, <3>2
      <4> QED BY <1>2, <1>7, <4>1
    <3> QED BY <3>1, <3>2
  <2>5. \A j \in 1 .. n + 1 : order[j][2] = 0 => \E i \in DOMAIN longer : longer[i] = order[j]
    BY <1>5, <1>7, <1>8, <1>9
  <2>6. (c + 1) - 1 = c /\ c + 1 # 0 /\ c + 1 > 1
    BY <1>2
  <2>7. InOrder(longer)
    BY <1>2, <1>6, <1>11
  <2>8. Counted(next, order, n + 1, type, R)
    BY <1>3, <2>2, <2>3, <2>4, <2>5, <2>6, <2>7 DEF Counted
  <2> QED BY <2>1, <2>8 DEF rel
<1>12. CASE rel[2] # c /\ rel[2] = 0
  <2> DEFINE next == [count |-> c, rels |-> longer]
  <2>1. NextRel(acc, rel) = next
    BY <1>2, <1>12 DEF NextRel, c, longer, rels
  <2>2. next.count = c /\ next.rels = longer /\ next \in [count : Nat, rels : Seq(Rel)]
    BY <1>2, <1>10
  <2> HIDE DEF next
  <2>3. \A i \in DOMAIN longer : longer[i][2] < c
    BY <1>2, <1>3, <1>4, <1>12
  <2>4. \A k \in 1 .. c - 1 : \E i \in DOMAIN longer : longer[i] = <<type, k>>
    BY <1>2, <1>7
  <2>5. \A j \in 1 .. n + 1 : order[j][2] = 0 => \E i \in DOMAIN longer : longer[i] = order[j]
    BY <1>5, <1>7, <1>8, <1>9
  <2>6. \A j \in 1 .. n + 1 : order[j][2] = 1 => c > 1
    BY <1>5, <1>9, <1>12
  <2>7. InOrder(longer)
    BY <1>6, <1>12
  <2>8. Counted(next, order, n + 1, type, R)
    BY <1>2, <1>3, <2>2, <2>3, <2>4, <2>5, <2>6, <2>7 DEF Counted
  <2> QED BY <2>1, <2>8 DEF rel
<1>13. CASE rel[2] # c /\ rel[2] # 0
  <2>1. NextRel(acc, rel) = acc
    BY <1>13 DEF NextRel, c
  <2>2. \A j \in 1 .. n + 1 : order[j][2] = 0 => \E i \in DOMAIN rels : rels[i] = order[j]
    BY <1>5, <1>9, <1>13
  <2>3. \A j \in 1 .. n + 1 : order[j][2] = 1 => c > 1
    <3>1. rel[2] = 1 => c > 1
      BY <1>2, <1>13
    <3> QED BY <1>5, <1>9, <3>1
  <2>4. Counted(acc, order, n + 1, type, R)
    BY <2>2, <2>3 DEF Counted, c, rels
  <2> QED BY <2>1, <2>4 DEF rel
<1> QED BY <1>11, <1>12, <1>13

\* What a list of the numbered relationships of a type should be.
Orderly(r, type, R) ==
    /\ OfType(r, type, R) /\ InOrder(r)
    /\ \A rel \in R : rel[1] = type /\ rel[2] \in {0, 1} => \E i \in DOMAIN r : r[i] = rel

LEMMA TakenOrderly ==
    ASSUME NEW type, NEW R \in SUBSET Rel, NEW n \in Nat, NEW order \in [1 .. n -> {rel \in R : rel[1] = type}],
           \A rel \in R : rel[1] = type => \E j \in 1 .. n : order[j] = rel
    PROVE  Orderly(Taken(order), type, R)
<1> DEFINE f == CHOOSE f : RelLoop(order, n, f)
<1>1. RelLoop(order, n, f)
  BY RelLoopExists, Zenon
<1>2. Len(order) = n
  OBVIOUS
<1>3. Taken(order) = f[n].rels
  BY <1>2 DEF Taken, RelLoop
<1> HIDE DEF f
<1> DEFINE none == [count |-> 1, rels |-> <<>>]
<1>n. Counted(none, order, 0, type, R)
  BY CountedNone
<1> HIDE DEF none
<1>4. \A i \in 0 .. n : f[i] = IF i = 0 THEN none ELSE NextRel(f[i - 1], order[i])
  BY <1>1 DEF RelLoop, none
<1> DEFINE T == {m \in Nat : m <= n => Counted(f[m], order, m, type, R)}
<1>5. 0 \in T
  <2>1. 0 \in 0 .. n
    OBVIOUS
  <2>2. f[0] = none
    BY <1>4, <2>1
  <2> QED BY <1>n, <2>2
<1>6. ASSUME NEW m \in T PROVE m + 1 \in T
  <2> SUFFICES ASSUME m + 1 <= n PROVE Counted(f[m + 1], order, m + 1, type, R)
    OBVIOUS
  <2>1. m \in Nat /\ m <= n /\ m + 1 \in 0 .. n /\ m + 1 \in 1 .. n /\ (m + 1) - 1 = m /\ m + 1 # 0
    OBVIOUS
  <2>2. f[m + 1] = NextRel(f[m], order[m + 1])
    BY <1>4, <2>1
  <2>3. order[m + 1] \in R /\ order[m + 1][1] = type
    BY <2>1
  <2>4. Counted(f[m], order, m, type, R)
    BY <1>6, <2>1
  <2>5. Counted(NextRel(f[m], order[m + 1]), order, m + 1, type, R)
    BY <2>1, <2>3, <2>4, CountedNext
  <2> QED BY <2>2, <2>5
<1>7. T = Nat
  <2>1. T \in SUBSET Nat
    OBVIOUS
  <2> HIDE DEF T
  <2> QED BY <1>5, <1>6, <2>1, NatSetInduction
<1>8. Counted(f[n], order, n, type, R)
  BY <1>7
<1> DEFINE r == f[n].rels
<1>9. OfType(r, type, R) /\ InOrder(r)
  BY <1>8 DEF Counted
<1>10. ASSUME NEW rel \in R, rel[1] = type, rel[2] \in {0, 1} PROVE \E i \in DOMAIN r : r[i] = rel
  <2>1. PICK j \in 1 .. n : order[j] = rel
    BY <1>10
  <2>2. CASE rel[2] = 0
    BY <1>8, <2>1, <2>2 DEF Counted
  <2>3. CASE rel[2] = 1
    <3>1. f[n].count \in Nat /\ f[n].count > 1
      BY <1>8, <2>1, <2>3 DEF Counted
    <3>2. 1 \in 1 .. f[n].count - 1
      BY <3>1
    <3>3. rel = <<type, 1>>
      BY <1>10, <2>3 DEF Rel
    <3> QED BY <1>8, <3>2, <3>3 DEF Counted
  <2> QED BY <1>10, <2>2, <2>3
<1> QED BY <1>3, <1>9, <1>10 DEF Orderly

LEMMA parseRelsOrderly ==
    ASSUME NEW type, NEW R \in SUBSET Rel, IsFiniteSet(R), NEW r \in parseRels(R, type)
    PROVE  Orderly(r, type, R)
<1> DEFINE S == {rel \in R : rel[1] = type}
<1>1. IsFiniteSet(S)
  BY FS_Subset
<1>2. PICK order \in SetToSeqs(S) : r = Taken(order)
  BY DEF parseRels
<1>3. /\ Cardinality(S) \in Nat /\ order \in [1 .. Cardinality(S) -> S]
      /\ \A x \in S : \E j \in 1 .. Cardinality(S) : order[j] = x
  <2> HIDE DEF S
  <2> QED BY <1>1, SetToSeqsProperty
<1>4. \A rel \in R : rel[1] = type => \E j \in 1 .. Cardinality(S) : order[j] = rel
  BY <1>3
<1> QED BY <1>2, <1>3, <1>4, TakenOrderly

\* Two lists in order, of different types, one after the other.
LEMMA OrderlyBoth ==
    ASSUME NEW a \in Seq(Rel), NEW b \in Seq(Rel), InOrder(a), InOrder(b),
           \A i \in DOMAIN a, j \in DOMAIN b : a[i][1] # b[j][1]
    PROVE  /\ a \o b \in Seq(Rel) /\ InOrder(a \o b)
           /\ \A i \in DOMAIN a : \E k \in DOMAIN (a \o b) : (a \o b)[k] = a[i]
           /\ \A j \in DOMAIN b : \E k \in DOMAIN (a \o b) : (a \o b)[k] = b[j]
           /\ \A k \in DOMAIN (a \o b) : (\E i \in DOMAIN a : (a \o b)[k] = a[i])
                                         \/ (\E j \in DOMAIN b : (a \o b)[k] = b[j])
<1> DEFINE c == a \o b
           n == Len(a)
<1>1. /\ c \in Seq(Rel) /\ n \in Nat /\ Len(b) \in Nat
      /\ DOMAIN c = 1 .. n + Len(b) /\ DOMAIN a = 1 .. n /\ DOMAIN b = 1 .. Len(b)
  OBVIOUS
<1>2. \A i \in DOMAIN a : i \in DOMAIN c /\ c[i] = a[i]
  OBVIOUS
<1>3. \A k \in DOMAIN c : k \notin DOMAIN a => k - n \in DOMAIN b /\ c[k] = b[k - n]
  OBVIOUS
<1>4. \A j \in DOMAIN b : n + j \in DOMAIN c /\ c[n + j] = b[j] /\ n + j \notin DOMAIN a
  <2> SUFFICES ASSUME NEW j \in DOMAIN b
               PROVE  n + j \in DOMAIN c /\ c[n + j] = b[j] /\ n + j \notin DOMAIN a
    OBVIOUS
  <2>1. n + j \in DOMAIN c /\ n + j \notin DOMAIN a /\ (n + j) - n = j
    BY <1>1
  <2> HIDE DEF c, n
  <2> QED BY <1>3, <2>1
<1> HIDE DEF c, n
<1>5. ASSUME NEW k \in DOMAIN c, c[k][2] > 1
      PROVE  \E l \in 1 .. k - 1 : c[l] = <<c[k][1], c[k][2] - 1>>
  <2>1. CASE k \in DOMAIN a
    <3>1. PICK l \in 1 .. k - 1 : a[l] = <<a[k][1], a[k][2] - 1>>
      BY <1>2, <1>5, <2>1 DEF InOrder
    <3>2. l \in DOMAIN a
      BY <1>1, <2>1
    <3> QED BY <1>2, <2>1, <3>1, <3>2
  <2>2. CASE k \notin DOMAIN a
    <3>1. k - n \in DOMAIN b /\ c[k] = b[k - n]
      BY <1>3, <2>2
    <3>2. PICK l \in 1 .. (k - n) - 1 : b[l] = <<b[k - n][1], b[k - n][2] - 1>>
      BY <1>5, <3>1 DEF InOrder
    <3>3. l \in DOMAIN b /\ n + l \in 1 .. k - 1
      BY <1>1, <3>1
    <3> QED BY <1>4, <3>1, <3>2, <3>3
  <2> QED BY <2>1, <2>2
<1>6. ASSUME NEW k \in DOMAIN c, NEW l \in DOMAIN c, c[k] = c[l], c[k][2] > 0 PROVE k = l
  <2>1. CASE k \in DOMAIN a /\ l \in DOMAIN a
    BY <1>2, <1>6, <2>1 DEF InOrder
  <2>2. CASE k \notin DOMAIN a /\ l \notin DOMAIN a
    <3>1. k - n = l - n
      BY <1>3, <1>6, <2>2 DEF InOrder
    <3> QED BY <1>1, <3>1
  <2>3. CASE k \in DOMAIN a /\ l \notin DOMAIN a
    BY <1>2, <1>3, <1>6, <2>3
  <2>4. CASE k \notin DOMAIN a /\ l \in DOMAIN a
    BY <1>2, <1>3, <1>6, <2>4
  <2> QED BY <2>1, <2>2, <2>3, <2>4
<1>7. InOrder(c)
  BY <1>5, <1>6 DEF InOrder
<1>8. /\ \A i \in DOMAIN a : \E k \in DOMAIN c : c[k] = a[i]
      /\ \A j \in DOMAIN b : \E k \in DOMAIN c : c[k] = b[j]
      /\ \A k \in DOMAIN c : (\E i \in DOMAIN a : c[k] = a[i]) \/ (\E j \in DOMAIN b : c[k] = b[j])
  BY <1>2, <1>3, <1>4
<1> QED BY <1>1, <1>7, <1>8 DEF c

\* What a CRD's relationships are in the map: in order, with the first of a
\* type and those without a number.
LEMMA RelationshipsOrderly ==
    ASSUME NEW R \in SUBSET Rel, IsFiniteSet(R), NEW r \in getAllRelationships(R)
    PROVE  /\ r \in Seq(Rel) /\ InOrder(r)
           /\ \A rel \in R : rel[2] \in {0, 1} => \E i \in DOMAIN r : r[i] = rel
<1>1. PICK s \in parseRels(R, "specproperty"), l \in parseRels(R, "label"), a \in parseRels(R, "annotation") :
          r = s \o l \o a
  BY DEF getAllRelationships
<1>2. Orderly(s, "specproperty", R) /\ Orderly(l, "label", R) /\ Orderly(a, "annotation", R)
  BY parseRelsOrderly
<1>3. /\ s \in Seq(Rel) /\ l \in Seq(Rel) /\ a \in Seq(Rel) /\ InOrder(s) /\ InOrder(l) /\ InOrder(a)
      /\ \A i \in DOMAIN s : s[i][1] = "specproperty"
      /\ \A i \in DOMAIN l : l[i][1] = "label"
      /\ \A i \in DOMAIN a : a[i][1] = "annotation"
  BY <1>2 DEF Orderly, OfType
<1> DEFINE b == s \o l
<1>4. /\ b \in Seq(Rel) /\ InOrder(b)
      /\ \A i \in DOMAIN s : \E k \in DOMAIN b : b[k] = s[i]
      /\ \A j \in DOMAIN l : \E k \in DOMAIN b : b[k] = l[j]
      /\ \A k \in DOMAIN b : (\E i \in DOMAIN s : b[k] = s[i]) \/ (\E j \in DOMAIN l : b[k] = l[j])
  <2>1. \A i \in DOMAIN s, j \in DOMAIN l : s[i][1] # l[j][1]
    BY <1>3
  <2> QED BY <1>3, <2>1, OrderlyBoth
<1>5. r = b \o a
  BY <1>1
<1> HIDE DEF b
<1>6. /\ r \in Seq(Rel) /\ InOrder(r)
      /\ \A i \in DOMAIN b : \E k \in DOMAIN r : r[k] = b[i]
      /\ \A j \in DOMAIN a : \E k \in DOMAIN r : r[k] = a[j]
  <2>1. \A i \in DOMAIN b : b[i][1] \in {"specproperty", "label"}
    <3> SUFFICES ASSUME NEW i \in DOMAIN b PROVE b[i][1] \in {"specproperty", "label"}
      OBVIOUS
    <3>1. (\E k \in DOMAIN s : b[i] = s[k]) \/ (\E k \in DOMAIN l : b[i] = l[k])
      BY <1>4
    <3> QED BY <1>3, <3>1
  <2>2. \A i \in DOMAIN b, j \in DOMAIN a : b[i][1] # a[j][1]
    BY <1>3, <2>1
  <2> DEFINE c == b \o a
  <2>3. /\ c \in Seq(Rel) /\ InOrder(c)
        /\ \A i \in DOMAIN b : \E k \in DOMAIN c : c[k] = b[i]
        /\ \A j \in DOMAIN a : \E k \in DOMAIN c : c[k] = a[j]
    BY <1>3, <1>4, <2>2, OrderlyBoth, ZenonT(40)
  <2>4. r = c
    BY <1>5
  <2> HIDE DEF c
  <2> QED BY <2>3, <2>4
<1>7. ASSUME NEW rel \in R, rel[2] \in {0, 1} PROVE \E i \in DOMAIN r : r[i] = rel
  <2>1. rel[1] \in {"specproperty", "label", "annotation"}
    BY DEF Rel, RelTypes
  <2>2. \/ \E i \in DOMAIN s : s[i] = rel
        \/ \E i \in DOMAIN l : l[i] = rel
        \/ \E i \in DOMAIN a : a[i] = rel
    BY <1>2, <1>7, <2>1 DEF Orderly
  <2> QED BY <1>4, <1>6, <2>2
<1> QED BY <1>6, <1>7

\* What the relationships of every kind are in the map.
RelsOrdered == \A kind \in DOMAIN relationshipMap : InOrder(relationshipMap[kind])

LEMMA CRDRels ==
    ASSUME cluster \in Clusters, NEW crd \in cluster.crds
    PROVE  crd \in CRD /\ crd.rels \in SUBSET Rel /\ IsFiniteSet(crd.rels)
<1>1. crd \in CRD /\ IsFiniteSet(crd.rels)
  BY ClustersAssumption
<1> QED BY <1>1 DEF CRD, Rel

LEMMA InitRels == Init => RelsOrdered
<1> SUFFICES ASSUME Init, NEW kind \in DOMAIN BuiltinKinds PROVE InOrder(BuiltinKinds[kind].rels)
  BY DEF Init, RelsOrdered
<1>1. \A i \in DOMAIN BuiltinKinds[kind].rels : BuiltinKinds[kind].rels[i][2] = 0
  BY BuiltinKindsAssumption
<1> QED BY <1>1 DEF InOrder

LEMMA RelsStep == ReadInv /\ RelsOrdered /\ [Next]_vars => RelsOrdered'
<1> SUFFICES ASSUME ReadInv, RelsOrdered, [Next]_vars PROVE RelsOrdered'
  OBVIOUS
<1>1. CASE GetCRD
  <2>1. PICK crd \in cluster.crds : parseCRDAnnotions(crd)
    BY <1>1 DEF GetCRD
  <2>2. PICK allRels \in getAllRelationships(crd.rels) :
            IsPut(relationshipMap, relationshipMap', crd.kind, allRels)
    BY <2>1, KindPut
  <2>3. InOrder(allRels)
    BY CRDRels, RelationshipsOrderly DEF ReadInv
  <2> QED BY <2>2, <2>3 DEF RelsOrdered, IsPut
<1>2. CASE ~GetCRD
  <2>1. UNCHANGED relationshipMap
    BY <1>2 DEF Next, vars, kinds, Ask, ReadFile, ListCRDs, ListFails, GetManCRD, ManPanics, GetFails,
                readConfigMap, readConfigMapFails, Finish, Look, QueryResource, Change
  <2> QED BY <2>1 DEF RelsOrdered
<1> QED BY <1>1, <1>2

\* The first relationship of a type, and those without a number, are there
\* after a complete read.
LEMMA FirstRels ==
    ASSUME ReadInv, current, NEW crd \in cluster.crds,
           \A other \in cluster.crds : other.kind = crd.kind => other = crd,
           NEW rel \in crd.rels, rel[2] \in {0, 1}
    PROVE  \E i \in DOMAIN relationshipMap[crd.kind] : relationshipMap[crd.kind][i] = rel
<1>1. IsRegistered(crd)
  BY DEF ReadInv, CurrentRegistered
<1>2. relationshipMap[crd.kind] \in getAllRelationships(crd.rels)
  BY <1>1 DEF IsRegistered
<1>3. crd.rels \in SUBSET Rel /\ IsFiniteSet(crd.rels)
  BY CRDRels DEF ReadInv
<1> QED BY <1>2, <1>3, RelationshipsOrderly

\* In whatever order the annotations are met, a relationship is registered
\* after all its predecessors, and none that should be first is lost.
THEOREM RelationsOrdered == Spec => []RelationsInOrder
<1>1. ReadInv /\ RelsOrdered => RelationsInOrder
  BY FirstRels DEF RelsOrdered, RelationsInOrder
<1> QED BY <1>1, InitWhole, WholeStep, InitRead, ReadStep, InitRels, RelsStep, PTL DEF Spec

-----------------------------------------------------------------------------
(* Types *)

\* TypeOK's part about the maps, and what the answers need of them.
MapsTyped ==
    /\ KindPluralMap \in [DOMAIN KindPluralMap -> STRING]
    /\ kindGroupMap \in [DOMAIN kindGroupMap -> STRING]
    /\ kindVersionMap \in [DOMAIN kindVersionMap -> Paths]
    /\ compositionMap \in [DOMAIN compositionMap -> SUBSET STRING]
    /\ crdcompositionMap \in [DOMAIN crdcompositionMap -> SUBSET STRING]
    /\ \A k \in DOMAIN relationshipMap : relationshipMap[k] \in Seq(STRING \X Nat)
    /\ DOMAIN KindPluralMap \subseteq STRING
    /\ DOMAIN kindVersionMap = DOMAIN KindPluralMap

ReaderTyped ==
    /\ pc \in {"idle", "list", "get", "configmap", "look"}
    /\ request \in IF pc = "idle" THEN {NoRequest} ELSE Requests
    /\ todo \subseteq {crd.name : crd \in CRDs}
    /\ todo # {} => pc \in {"get", "configmap"}
    /\ place \in [namespace : STRING, name : STRING] \ {NoDot}
    /\ place # NoUsage <=> pc = "configmap"
    /\ usageDetailsData \in STRING

ReplyTyped ==
    /\ reply.to \in Requests \union {NoRequest}
    /\ reply.says \in IF reply.to.to = "details"
                      THEN [path : Paths, plural : STRING]
                      ELSE STRING

HistoryTyped ==
    /\ cluster \in Clusters /\ file \in Files
    /\ changes \in 0 .. MaxChanges /\ faults \in 0 .. MaxFaults
    /\ seen \subseteq CRDs /\ since \subseteq Clusters
    /\ failed \in BOOLEAN /\ current \in BOOLEAN

LEMMA UpdateTyped ==
    ASSUME NEW m, NEW f, NEW S, m \in [DOMAIN m -> S], f \in [DOMAIN f -> S]
    PROVE  Update(m, f) \in [DOMAIN Update(m, f) -> S]
BY DEF Update

LEMMA PutTyped ==
    ASSUME NEW m, NEW key, NEW value, NEW S, m \in [DOMAIN m -> S], value \in S
    PROVE  Put(m, key, value) \in [DOMAIN Put(m, key, value) -> S]
BY UpdateTyped DEF Put

LEMMA CompositionTyped == ASSUME NEW crd \in CRD PROVE CompositionOf(crd) \in SUBSET STRING
<1>1. DefaultComposition \in SUBSET STRING
  BY StringsAssumption
<1>2. crd.composition \in SUBSET STRING
  BY DEF CRD
<1> QED BY <1>1, <1>2 DEF CompositionOf

LEMMA RelsTyped == Seq(Rel) \subseteq Seq(STRING \X Nat)
<1>1. RelTypes \subseteq STRING
  BY StringsAssumption
<1>2. Rel \subseteq STRING \X Nat
  BY <1>1 DEF Rel
<1> QED BY <1>2

LEMMA PathTyped == ASSUME NEW crd \in CRD PROVE PathOf(crd) \in Paths
<1>1. crd.group \in STRING /\ crd.version \in STRING /\ "apis" \in STRING
  BY StringsAssumption DEF CRD
<1>2. PathOf(crd) \in Seq(STRING)
  BY <1>1 DEF PathOf
<1>3. Len(PathOf(crd)) = 3
  BY DEF PathOf
<1> QED BY <1>2, <1>3 DEF Paths

\* No place is a place, as far as types go.
LEMMA NoUsageTyped == NoUsage \in [namespace : STRING, name : STRING] \ {NoDot}
<1>1. "" \in STRING
  BY StringsAssumption
<1>2. NoUsage.name = "" /\ NoDot.name = "."
  BY DEF NoUsage, NoDot
<1> QED BY <1>1, <1>2 DEF NoUsage

LEMMA InitMaps == Init => MapsTyped
<1> SUFFICES ASSUME Init PROVE MapsTyped
  OBVIOUS
<1>1. \A k \in DOMAIN BuiltinKinds :
         /\ k \in STRING /\ BuiltinKinds[k].plural \in STRING /\ BuiltinKinds[k].group \in STRING
         /\ BuiltinKinds[k].path \in Paths /\ BuiltinKinds[k].composition \in SUBSET STRING
         /\ BuiltinKinds[k].rels \in Seq(STRING \X Nat)
  BY BuiltinKindsAssumption
<1> QED BY <1>1 DEF Init, MapsTyped

LEMMA MapsStep == HistoryTyped /\ MapsTyped /\ [Next]_vars => MapsTyped'
<1> SUFFICES ASSUME HistoryTyped, MapsTyped, [Next]_vars PROVE MapsTyped'
  OBVIOUS
<1>1. CASE GetCRD
  <2>1. PICK crd \in cluster.crds : parseCRDAnnotions(crd)
    BY <1>1 DEF GetCRD
  <2>2. crd \in CRD /\ crd.rels \in SUBSET Rel /\ IsFiniteSet(crd.rels)
    BY CRDRels DEF HistoryTyped
  <2>3. /\ crd.kind \in STRING /\ crd.plural \in STRING /\ crd.group \in STRING
        /\ PathOf(crd) \in Paths
    BY <2>2, PathTyped DEF CRD
  <2>4. PICK allRels \in getAllRelationships(crd.rels) :
            relationshipMap' = Put(relationshipMap, crd.kind, allRels)
    BY <2>1 DEF parseCRDAnnotions, Register
  <2>5. allRels \in Seq(STRING \X Nat)
    BY <2>2, RelationshipsOrderly, RelsTyped
  <2>6. /\ KindPluralMap' = Put(KindPluralMap, crd.kind, crd.plural)
        /\ kindVersionMap' = Put(kindVersionMap, crd.kind, PathOf(crd))
        /\ kindGroupMap' = Put(kindGroupMap, crd.kind, crd.group)
        /\ compositionMap' = Put(compositionMap, crd.kind, CompositionOf(crd))
        /\ crdcompositionMap' = Put(crdcompositionMap, crd.kind, CompositionOf(crd))
    BY <2>1 DEF parseCRDAnnotions, Register
  <2>7. KindPluralMap' \in [DOMAIN KindPluralMap' -> STRING]
    BY <2>3, <2>6, PutTyped DEF MapsTyped
  <2>8. kindGroupMap' \in [DOMAIN kindGroupMap' -> STRING]
    BY <2>3, <2>6, PutTyped DEF MapsTyped
  <2>9. kindVersionMap' \in [DOMAIN kindVersionMap' -> Paths]
    BY <2>3, <2>6, PutTyped DEF MapsTyped
  <2>10. /\ compositionMap' \in [DOMAIN compositionMap' -> SUBSET STRING]
         /\ crdcompositionMap' \in [DOMAIN crdcompositionMap' -> SUBSET STRING]
    BY <2>2, <2>6, CompositionTyped, PutTyped DEF MapsTyped
  <2>11. \A k \in DOMAIN relationshipMap' : relationshipMap'[k] \in Seq(STRING \X Nat)
    <3>1. IsPut(relationshipMap, relationshipMap', crd.kind, allRels)
      BY <2>4, PutProperties
    <3> QED BY <2>5, <3>1 DEF MapsTyped, IsPut
  <2>12. DOMAIN KindPluralMap' \subseteq STRING /\ DOMAIN kindVersionMap' = DOMAIN KindPluralMap'
    BY <2>1, <2>3, KindsAdded, ZenonT(40) DEF MapsTyped
  <2> QED BY <2>7, <2>8, <2>9, <2>10, <2>11, <2>12 DEF MapsTyped
<1>2. CASE ReadFile
  <2> DEFINE plurals == [k \in DOMAIN file |-> file[k].plural]
             endpoints == [k \in DOMAIN file |-> file[k].endpoint]
             compositions == [k \in DOMAIN file |-> file[k].composition]
  <2>1. \A k \in DOMAIN file :
           /\ k \in STRING /\ file[k].plural \in STRING /\ file[k].composition \in SUBSET STRING
           /\ file[k].endpoint \in Paths
    BY FilesAssumption DEF HistoryTyped
  <2>2. /\ KindPluralMap' = Update(KindPluralMap, plurals)
        /\ kindVersionMap' = Update(kindVersionMap, endpoints)
        /\ compositionMap' = Update(compositionMap, compositions)
        /\ UNCHANGED <<kindGroupMap, crdcompositionMap, relationshipMap>>
    BY <1>2 DEF ReadFile
  <2>3. /\ plurals \in [DOMAIN plurals -> STRING] /\ DOMAIN plurals \subseteq STRING
        /\ endpoints \in [DOMAIN endpoints -> Paths]
        /\ compositions \in [DOMAIN compositions -> SUBSET STRING]
        /\ DOMAIN endpoints = DOMAIN plurals
    BY <2>1
  <2> HIDE DEF plurals, endpoints, compositions
  <2>4. KindPluralMap' \in [DOMAIN KindPluralMap' -> STRING]
    BY <2>2, <2>3, UpdateTyped DEF MapsTyped
  <2>5. kindVersionMap' \in [DOMAIN kindVersionMap' -> Paths]
    BY <2>2, <2>3, UpdateTyped DEF MapsTyped
  <2>6. compositionMap' \in [DOMAIN compositionMap' -> SUBSET STRING]
    BY <2>2, <2>3, UpdateTyped DEF MapsTyped
  <2>7. DOMAIN KindPluralMap' \subseteq STRING /\ DOMAIN kindVersionMap' = DOMAIN KindPluralMap'
    <3>1. DOMAIN KindPluralMap' = DOMAIN KindPluralMap \union DOMAIN plurals
      BY <2>2, UpdateProperties
    <3>2. DOMAIN kindVersionMap' = DOMAIN kindVersionMap \union DOMAIN endpoints
      BY <2>2, UpdateProperties
    <3> QED BY <2>3, <3>1, <3>2 DEF MapsTyped
  <2> QED BY <2>2, <2>4, <2>5, <2>6, <2>7 DEF MapsTyped
<1>3. CASE ~GetCRD /\ ~ReadFile
  <2>1. UNCHANGED kinds
    BY <1>3 DEF Next, vars, Ask, ListCRDs, ListFails, GetManCRD, ManPanics, GetFails,
                readConfigMap, readConfigMapFails, Finish, Look, QueryResource, Change
  <2> QED BY <2>1 DEF MapsTyped, kinds
<1> QED BY <1>1, <1>2, <1>3

LEMMA InitHistory == Init => HistoryTyped
<1> SUFFICES ASSUME Init PROVE HistoryTyped
  OBVIOUS
<1>1. 0 \in 0 .. MaxChanges /\ 0 \in 0 .. MaxFaults
  BY BoundsAssumption
<1>2. cluster.crds \subseteq CRDs
  BY DEF Init, CRDs
<1> QED BY <1>1, <1>2 DEF Init, HistoryTyped

LEMMA HistoryStep == HistoryTyped /\ [Next]_vars => HistoryTyped'
<1> SUFFICES ASSUME HistoryTyped, [Next]_vars PROVE HistoryTyped'
  OBVIOUS
<1>1. Fault \/ NoFault => faults' \in 0 .. MaxFaults /\ failed' \in BOOLEAN
  <2>1. Fault => faults' \in 0 .. MaxFaults
    BY BoundsAssumption DEF HistoryTyped, Fault
  <2>2. Fault => failed' \in BOOLEAN
    BY DEF Fault
  <2>3. NoFault => faults' \in 0 .. MaxFaults /\ failed' \in BOOLEAN
    BY Zenon DEF HistoryTyped, NoFault
  <2> QED BY <2>1, <2>2, <2>3
<1>2. CASE Ask
  BY <1>2 DEF Ask, HistoryTyped
<1>3. CASE Change
  <2>1. changes' \in 0 .. MaxChanges
    BY <1>3, BoundsAssumption DEF Change, HistoryTyped
  <2>2. cluster' \in Clusters /\ cluster'.crds \subseteq CRDs
    BY <1>3 DEF Change, CRDs
  <2> QED BY <1>3, <2>1, <2>2 DEF Change, HistoryTyped
<1>4. CASE Finish
  <2>1. current' \in BOOLEAN
    BY <1>4, Zenon DEF Finish, HistoryTyped
  <2>2. NoFault /\ UNCHANGED <<cluster, file, changes, seen, since>>
    BY <1>4 DEF Finish
  <2> QED BY <1>1, <2>1, <2>2 DEF HistoryTyped
<1>5. CASE UNCHANGED vars
  BY <1>5 DEF vars, history, HistoryTyped
<1>6. CASE ~Ask /\ ~Change /\ ~Finish /\ Next
  <2>1. UNCHANGED <<cluster, file, changes, seen, since, current>> /\ (Fault \/ NoFault)
    BY <1>6 DEF Next, history, ReadFile, ListCRDs, ListFails, GetCRD, GetManCRD, ManPanics, GetFails,
                readConfigMap, readConfigMapFails, Look, QueryResource
  <2> QED BY <1>1, <2>1 DEF HistoryTyped
<1> QED BY <1>2, <1>3, <1>4, <1>5, <1>6

LEMMA InitReader == Init => ReaderTyped /\ ReplyTyped
<1> SUFFICES ASSUME Init PROVE ReaderTyped /\ ReplyTyped
  OBVIOUS
<1>1. "" \in STRING
  BY StringsAssumption
<1>2. reply.to = NoRequest /\ reply.to.to = "" /\ reply.says = ""
  BY DEF Init, NoReply, NoRequest
<1> QED BY <1>1, <1>2, NoUsageTyped DEF Init, ReaderTyped, ReplyTyped

LEMMA AnswerReader == ASSUME NEW says, Answer(says) PROVE ReaderTyped'
BY StringsAssumption, NoUsageTyped DEF Answer, ReaderTyped

LEMMA LeaveReader ==
    ASSUME ReaderTyped, pc \in {"list", "get"}, NEW says, Leave(says)
    PROVE  ReaderTyped'
<1>1. CASE Answer(says)
  BY <1>1, AnswerReader
<1>2. CASE pc' = "look" /\ todo' = {} /\ UNCHANGED <<request, place, usageDetailsData>>
  BY <1>2 DEF ReaderTyped
<1> QED BY <1>1, <1>2 DEF Leave

LEMMA ReaderStep == HistoryTyped /\ ReaderTyped /\ [Next]_vars => ReaderTyped'
<1> SUFFICES ASSUME HistoryTyped, ReaderTyped, [Next]_vars PROVE ReaderTyped'
  OBVIOUS
<1>1. CASE Ask
  BY <1>1 DEF Ask, ReaderTyped
<1>2. CASE ReadFile \/ ListFails \/ GetFails \/ Finish
  <2>1. pc \in {"list", "get"} /\ (Leave("") \/ Leave(usageDetailsData))
    BY <1>2 DEF ReadFile, ListFails, GetFails, Finish
  <2> QED BY <2>1, LeaveReader
<1>3. CASE ManPanics \/ Look \/ QueryResource
  <2>1. \E says : Answer(says)
    BY <1>3 DEF ManPanics, Look, QueryResource
  <2> QED BY <2>1, AnswerReader
<1>4. CASE ListCRDs
  <2>1. {crd.name : crd \in cluster.crds} \subseteq {crd.name : crd \in CRDs}
    BY DEF HistoryTyped, CRDs
  <2> QED BY <1>4, <2>1 DEF ListCRDs, ReaderTyped
<1>5. CASE GetCRD
  BY <1>5 DEF GetCRD, ReaderTyped
<1>6. CASE GetManCRD
  <2>1. /\ pc = "get" /\ UNCHANGED <<request, usageDetailsData>> /\ todo' \subseteq todo
        /\ \/ /\ pc' = "configmap"
              /\ \E crd \in cluster.crds : place' = crd.usage /\ crd.usage \notin {NoUsage, NoDot}
           \/ UNCHANGED <<pc, place>>
    BY <1>6 DEF GetManCRD, IsPlace
  <2>2. CASE UNCHANGED <<pc, place>>
    BY <2>1, <2>2 DEF ReaderTyped
  <2>3. CASE pc' = "configmap" /\ \E crd \in cluster.crds : place' = crd.usage /\ crd.usage \notin {NoUsage, NoDot}
    <3>1. PICK crd \in cluster.crds : place' = crd.usage /\ crd.usage \notin {NoUsage, NoDot}
      BY <2>3
    <3>2. crd.usage \in [namespace : STRING, name : STRING]
      BY ClustersAssumption DEF HistoryTyped, CRD
    <3> QED BY <2>1, <2>3, <3>1, <3>2 DEF ReaderTyped
  <2> QED BY <2>1, <2>2, <2>3
<1>7. CASE readConfigMap
  <2>1. usageDetailsData' \in STRING
    BY <1>7, ClustersAssumption DEF readConfigMap, HistoryTyped
  <2> QED BY <1>7, <2>1, NoUsageTyped DEF readConfigMap, ReaderTyped
<1>8. CASE readConfigMapFails
  <2>1. usageDetailsData' \in STRING
    BY <1>8, StringsAssumption DEF readConfigMapFails
  <2> QED BY <1>8, <2>1, NoUsageTyped DEF readConfigMapFails, ReaderTyped
<1>9. CASE Change \/ UNCHANGED vars
  <2>1. UNCHANGED <<pc, request, todo, place, usageDetailsData>>
    BY <1>9 DEF Change, vars, reader
  <2> QED BY <2>1 DEF ReaderTyped
<1> QED BY <1>1, <1>2, <1>3, <1>4, <1>5, <1>6, <1>7, <1>8, <1>9 DEF Next

LEMMA SegmentTyped == ASSUME NEW x \in STRING PROVE <<x>> \in Paths
<1>1. ASSUME NEW S, NEW y \in S PROVE <<y>> \in Seq(S)
  BY <1>1
<1>2. Len(<<x>>) = 1
  OBVIOUS
<1>3. Len(<<>>) = 0
  OBVIOUS
<1> QED BY <1>1, <1>2, <1>3 DEF Paths

\* An endpoint from the maps, or none.
LEMMA EndpointTyped ==
    ASSUME MapsTyped, NEW kind
    PROVE  Endpoint(kind) \in [path : Paths, plural : STRING]
<1>1. "" \in STRING
  BY StringsAssumption
<1>2. CASE kind \in DOMAIN KindPluralMap
  <2>1. KindPluralMap[kind] \in STRING /\ kindVersionMap[kind] \in Paths
    BY <1>2 DEF MapsTyped
  <2> QED BY <1>2, <2>1 DEF Endpoint
<1>3. CASE kind \notin DOMAIN KindPluralMap
  <2>1. <<"">> \in Paths
    BY <1>1, SegmentTyped
  <2> QED BY <1>1, <1>3, <2>1 DEF Endpoint, Nowhere
<1> QED BY <1>2, <1>3

LEMMA AnswerReply ==
    ASSUME NEW says, Answer(says), request \in Requests,
           says \in IF request.to = "details"
                    THEN [path : Paths, plural : STRING]
                    ELSE STRING
    PROVE  ReplyTyped'
<1>1. reply'.to = request /\ reply'.says = says
  BY DEF Answer
<1> QED BY <1>1 DEF ReplyTyped

LEMMA ReplyStep ==
    MapsTyped /\ ReaderTyped /\ LooksForKind /\ ReplyTyped /\ [Next]_vars => ReplyTyped'
<1> SUFFICES ASSUME MapsTyped, ReaderTyped, LooksForKind, ReplyTyped, [Next]_vars PROVE ReplyTyped'
  OBVIOUS
<1>1. CASE Ask
  <2>1. reply'.to = NoRequest /\ reply'.to.to = "" /\ reply'.says = ""
    BY <1>1 DEF Ask, NoReply, NoRequest
  <2> QED BY <2>1, StringsAssumption DEF ReplyTyped
<1>2. ASSUME NEW says \in STRING, Answer(says), pc # "idle", request.to # "details" PROVE ReplyTyped'
  <2>1. request \in Requests
    BY <1>2 DEF ReaderTyped
  <2> QED BY <1>2, <2>1, AnswerReply
<1>3. ASSUME UNCHANGED reply PROVE ReplyTyped'
  BY <1>3 DEF ReplyTyped
<1>4. CASE ReadFile \/ ListFails \/ GetFails \/ Finish
  <2>1. pc \in {"list", "get"} /\ (Leave("") \/ Leave(usageDetailsData))
    BY <1>4 DEF ReadFile, ListFails, GetFails, Finish
  <2>2. PICK says \in STRING : Leave(says)
    BY <2>1, StringsAssumption DEF ReaderTyped
  <2>3. UNCHANGED reply \/ (request.to = "man" /\ Answer(says))
    BY <2>2 DEF Leave
  <2> QED BY <1>2, <1>3, <2>1, <2>3
<1>5. CASE ManPanics
  BY <1>2, <1>5, StringsAssumption DEF ManPanics
<1>6. CASE Look
  <2>1. pc = "look" /\ \E says \in STRING : Answer(says)
    BY <1>6, StringsAssumption DEF Look, MapsTyped
  <2> QED BY <1>2, <2>1 DEF LooksForKind
<1>7. CASE QueryResource
  <2>1. request.to = "details" /\ request \in Requests /\ Answer(Endpoint(request.kind))
    BY <1>7 DEF QueryResource, ReaderTyped
  <2> QED BY <2>1, EndpointTyped, AnswerReply
<1>8. CASE ListCRDs \/ GetCRD \/ GetManCRD \/ readConfigMap \/ readConfigMapFails \/ Change \/ UNCHANGED vars
  <2>1. UNCHANGED reply
    BY <1>8 DEF ListCRDs, GetCRD, GetManCRD, readConfigMap, readConfigMapFails, Change, vars, reader
  <2> QED BY <1>3, <2>1
<1> QED BY <1>1, <1>4, <1>5, <1>6, <1>7, <1>8 DEF Next

\* The maps, the request being served and its answer have their types;
\* between requests nothing is left to read.
THEOREM TypeCorrect == Spec => []TypeOK
<1>1. MapsTyped /\ HistoryTyped /\ ReaderTyped /\ ReplyTyped => TypeOK
  BY DEF MapsTyped, HistoryTyped, ReaderTyped, ReplyTyped, TypeOK
<1>2. ManInv => LooksForKind
  BY DEF ManInv
<1> QED BY <1>1, <1>2, InitMan, ManStep, InitMaps, MapsStep, InitHistory, HistoryStep, InitReader, ReaderStep,
           ReplyStep, PTL DEF Spec
=============================================================================
