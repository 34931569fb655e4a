--------------------------- MODULE RelativesProofs ---------------------------
(***************************************************************************)
(* Theorems about the connections command, for every cluster, every input, *)
(* every ignore list and any number of failing searches: the types, that a *)
(* resource is visited once (VisitedUnique), that the visited list only    *)
(* grows and its levels only fall (VisitedMonotone), and that a relation   *)
(* is reported again only where it was found from the root                 *)
(* (RepeatedOnlyFromRoot).                                                 *)
(***************************************************************************)
EXTENDS Relatives, WellFoundedInduction, SequenceTheorems, TLAPS

-----------------------------------------------------------------------------
(* The list operators *)

LEMMA MinProperty ==
    ASSUME NEW S, S \subseteq Nat, S # {}
    PROVE  Min(S) \in S /\ \A j \in S : Min(S) <= j
<1> DEFINE R == OpToRel(<, Nat)
<1>1. IsWellFoundedOn(R, Nat)
  BY NatLessThanWellFounded
<1>2. ASSUME NEW m \in Nat, NEW n \in Nat, m < n
      PROVE  <<m, n>> \in R
  BY <1>2, Zenon DEF OpToRel
<1> HIDE DEF R
<1>3. PICK x \in S : \A y \in S : <<y, x>> \notin R
  BY <1>1, WFMin
<1>4. ASSUME NEW y \in S PROVE x <= y
  <2>1. y \in Nat /\ x \in Nat /\ ~ (y < x)
    BY <1>2, <1>3, Zenon
  <2> QED BY <2>1
<1>5. \E i \in S : \A y \in S : i <= y
  BY <1>4
<1> QED BY <1>5, Zenon DEF Min

\* The loop over a batch always has a first item to take.
LEMMA ForemostProperty ==
    ASSUME NEW items \in SUBSET Item, items # {}
    PROVE  Foremost(items) \in items
<1> DEFINE S == {item[1] : item \in items}
<1>1. S \subseteq Nat /\ S # {}
  BY DEF Item
<1>2. PICK item \in items : item[1] = Min(S)
  BY <1>1, MinProperty
<1>3. \A other \in items : item[1] <= other[1]
  BY <1>1, <1>2, MinProperty
<1> QED BY <1>3, Zenon DEF Foremost

\* Dropping an element and adding one at the end keeps a list of connections.
LEMMA RemoveAtType ==
    ASSUME NEW S, NEW s \in Seq(S), NEW i \in 1 .. Len(s)
    PROVE  /\ RemoveAt(s, i) \in Seq(S)
           /\ Len(RemoveAt(s, i)) = Len(s) - 1
           /\ \A k \in 1 .. Len(s) - 1 : RemoveAt(s, i)[k] = IF k < i THEN s[k] ELSE s[k + 1]
<1> DEFINE front == SubSeq(s, 1, i - 1)
           back  == SubSeq(s, i + 1, Len(s))
<1>1. /\ front \in Seq(S) /\ Len(front) = i - 1
      /\ \A k \in 1 .. i - 1 : front[k] = s[k]
  BY SubSeqProperties
<1>2. /\ back \in Seq(S) /\ Len(back) = Len(s) - i
      /\ \A k \in 1 .. Len(s) - i : back[k] = s[i + k]
  BY SubSeqProperties
<1>3. RemoveAt(s, i) = front \o back
  BY DEF RemoveAt
<1> HIDE DEF front, back
<1>4. front \o back \in Seq(S) /\ Len(front \o back) = Len(s) - 1
  <2>1. front \o back \in Seq(S) /\ Len(front \o back) = Len(front) + Len(back)
    BY <1>1, <1>2, ConcatProperties
  <2>2. Len(s) \in Nat /\ i \in Int
    OBVIOUS
  <2> QED BY <1>1, <1>2, <2>1, <2>2
<1>5. \A k \in 1 .. Len(s) - 1 : (front \o back)[k] = IF k < i THEN s[k] ELSE s[k + 1]
  <2> SUFFICES ASSUME NEW k \in 1 .. Len(s) - 1
               PROVE  (front \o back)[k] = IF k < i THEN s[k] ELSE s[k + 1]
    OBVIOUS
  <2>1. (front \o back)[k] = IF k <= i - 1 THEN front[k] ELSE back[k - (i - 1)]
    BY <1>1, <1>2, ConcatProperties
  <2>2. CASE k < i
    BY <1>1, <2>1, <2>2
  <2>3. CASE ~(k < i)
    <3>1. k - (i - 1) \in 1 .. Len(s) - i /\ i + (k - (i - 1)) = k + 1
      BY <2>3
    <3> QED BY <1>2, <2>1, <2>3, <3>1
  <2> QED BY <2>2, <2>3
<1> QED BY <1>3, <1>4, <1>5

LEMMA ReversesMin ==
    ASSUME NEW all \in Seq(Connection), NEW c \in Connection, Reverses(all, c) # {}
    PROVE  Min(Reverses(all, c)) \in 1 .. Len(all)
<1>1. Reverses(all, c) \subseteq 1 .. Len(all) /\ 1 .. Len(all) \subseteq Nat
  BY DEF Reverses
<1>2. Reverses(all, c) \subseteq Nat
  BY <1>1
<1> QED BY <1>1, <1>2, MinProperty

LEMMA AppendConnectionsType ==
    ASSUME NEW all \in Seq(Connection), NEW c \in Connection
    PROVE  AppendConnections(all, c) \in Seq(Connection)
<1>1. CASE Reverses(all, c) = {}
  BY <1>1, AppendProperties DEF AppendConnections
<1>2. CASE Reverses(all, c) # {}
  <2>1. Min(Reverses(all, c)) \in 1 .. Len(all)
    BY <1>2, ReversesMin
  <2> QED BY <1>2, <2>1, RemoveAtType, AppendProperties DEF AppendConnections
<1> QED BY <1>1, <1>2

\* d tells the relation c again.
Repeats(c, d) == IsReverse(c, d) \/ compareConnectionsRelType(c, d)

\* The part of RepeatedOnlyFromRoot that is about a list.
RepeatsFromRoot(s) == \A i, j \in DOMAIN s : i < j /\ Repeats(s[i], s[j]) => s[j].level = 1

LEMMA AppendRepeats ==
    ASSUME NEW s \in Seq(Connection), NEW c \in Connection, RepeatsFromRoot(s),
           c.level = 1 \/ \A i \in DOMAIN s : ~Repeats(s[i], c)
    PROVE  RepeatsFromRoot(Append(s, c))
<1> DEFINE new == Append(s, c)
<1>1. /\ Len(s) \in Nat /\ new[Len(s) + 1] = c /\ \A i \in DOMAIN s : new[i] = s[i]
      /\ DOMAIN s = 1 .. Len(s) /\ DOMAIN new = 1 .. Len(s) + 1
  BY AppendProperties, LenProperties
<1> HIDE DEF new
<1>2. ASSUME NEW i \in DOMAIN new, NEW j \in DOMAIN new, i < j, Repeats(new[i], new[j])
      PROVE  new[j].level = 1
  <2>1. i \in DOMAIN s
    BY <1>1, <1>2
  <2>2. CASE j \in DOMAIN s
    BY <1>1, <1>2, <2>1, <2>2 DEF RepeatsFromRoot
  <2>3. CASE j = Len(s) + 1
    BY <1>1, <1>2, <2>1, <2>3
  <2> QED BY <1>1, <2>2, <2>3
<1> QED BY <1>2 DEF RepeatsFromRoot, new

LEMMA RemoveRepeats ==
    ASSUME NEW s \in Seq(Connection), NEW m \in 1 .. Len(s), RepeatsFromRoot(s)
    PROVE  RepeatsFromRoot(RemoveAt(s, m))
<1> DEFINE rest == RemoveAt(s, m)
           old(k) == IF k < m THEN k ELSE k + 1
<1>1. /\ rest \in Seq(Connection)
      /\ Len(rest) = Len(s) - 1
      /\ \A k \in 1 .. Len(s) - 1 : rest[k] = IF k < m THEN s[k] ELSE s[k + 1]
  BY RemoveAtType
<1> HIDE DEF rest
<1>2. ASSUME NEW i \in DOMAIN rest, NEW j \in DOMAIN rest, i < j, Repeats(rest[i], rest[j])
      PROVE  rest[j].level = 1
  <2>1. /\ i \in 1 .. Len(s) - 1 /\ j \in 1 .. Len(s) - 1 /\ Len(s) \in Nat
    BY <1>1
  <2>2. /\ old(i) \in DOMAIN s /\ old(j) \in DOMAIN s /\ old(i) < old(j)
        /\ rest[i] = s[old(i)] /\ rest[j] = s[old(j)]
    BY <1>1, <1>2, <2>1
  <2> HIDE DEF old
  <2> QED BY <1>2, <2>2 DEF RepeatsFromRoot
<1> QED BY <1>2 DEF RepeatsFromRoot, rest

LEMMA AppendConnectionsRepeats ==
    ASSUME NEW all \in Seq(Connection), NEW c \in Connection, RepeatsFromRoot(all)
    PROVE  RepeatsFromRoot(AppendConnections(all, c))
<1>1. CASE Reverses(all, c) = {}
  <2>1. \A i \in DOMAIN all : ~IsReverse(all[i], c)
    BY <1>1 DEF Reverses
  <2>2. CASE \E i \in DOMAIN all : compareConnectionsRelType(all[i], c)
    BY <1>1, <2>2 DEF AppendConnections
  <2>3. CASE \A i \in DOMAIN all : ~compareConnectionsRelType(all[i], c)
    <3>1. \A i \in DOMAIN all : ~Repeats(all[i], c)
      BY <2>1, <2>3 DEF Repeats
    <3> QED BY <1>1, <2>3, <3>1, AppendRepeats DEF AppendConnections
  <2> QED BY <2>2, <2>3
<1>2. CASE Reverses(all, c) # {} /\ c.level = 1
  <2> DEFINE rest == RemoveAt(all, Min(Reverses(all, c)))
  <2>1. rest \in Seq(Connection) /\ RepeatsFromRoot(rest)
    BY <1>2, ReversesMin, RemoveAtType, RemoveRepeats
  <2>2. AppendConnections(all, c) = Append(rest, c)
    BY <1>2 DEF AppendConnections
  <2> HIDE DEF rest
  <2> QED BY <1>2, <2>1, <2>2, AppendRepeats
<1>3. CASE Reverses(all, c) # {} /\ c.level # 1
  BY <1>3 DEF AppendConnections
<1> QED BY <1>1, <1>2, <1>3

\* appendConnections1 keeps a list in which every resource is once, and
\* neither loses a resource nor raises a level.
LEMMA appendConnections1Properties ==
    ASSUME NEW all \in Seq(Visit), NEW c \in Visit,
           \A i, j \in DOMAIN all : compareConnections(all[i], all[j]) => i = j
    PROVE  LET new == appendConnections1(all, c)
           IN  /\ new \in Seq(Visit)
               /\ \A i, j \in DOMAIN new : compareConnections(new[i], new[j]) => i = j
               /\ Len(new) >= Len(all)
               /\ \A i \in DOMAIN all :
                     compareConnections(all[i], new[i]) /\ new[i].level <= all[i].level
<1> DEFINE P == {i \in DOMAIN all : compareConnections(c, all[i])}
<1> DEFINE new == appendConnections1(all, c)
<1>0. \A i \in DOMAIN all : all[i] \in Visit /\ all[i].level \in Nat
  <2>1. \A i \in DOMAIN all : all[i] \in Visit
    BY ElementOfSeq
  <2> QED BY <2>1 DEF Visit
<1>1. CASE P = {}
  <2>1. new = Append(all, c)
    BY <1>1 DEF appendConnections1
  <2>2. \A i \in DOMAIN all : ~compareConnections(all[i], c) /\ ~compareConnections(c, all[i])
    BY <1>1 DEF compareConnections
  <2> HIDE DEF new
  <2>3. /\ new \in Seq(Visit) /\ Len(new) = Len(all) + 1 /\ new[Len(all) + 1] = c
        /\ \A i \in DOMAIN all : new[i] = all[i]
        /\ \A i \in DOMAIN new : i \in DOMAIN all \/ i = Len(all) + 1
    BY <2>1, AppendProperties
  <2>4. \A i, j \in DOMAIN new : compareConnections(new[i], new[j]) => i = j
    BY <2>2, <2>3
  <2>5. \A i \in DOMAIN all :
           compareConnections(all[i], new[i]) /\ new[i].level <= all[i].level
    <3> SUFFICES ASSUME NEW i \in DOMAIN all
                 PROVE  compareConnections(all[i], new[i]) /\ new[i].level <= all[i].level
      OBVIOUS
    <3>1. new[i] = all[i] /\ all[i].level \in Nat
      BY <1>0, <2>3
    <3> QED BY <3>1 DEF compareConnections
  <2>6. Len(new) >= Len(all)
    BY <2>3
  <2> QED BY <2>3, <2>4, <2>5, <2>6 DEF new
<1>2. CASE P # {}
  <2>1. Min(P) \in DOMAIN all
    BY <1>2, MinProperty
  <2> DEFINE m == Min(P)
  <2>2. new = all \/ (all[m].level > c.level /\ new = [all EXCEPT ![m].level = c.level])
    BY <1>2 DEF appendConnections1
  <2> HIDE DEF m, new, P
  <2>3. CASE new = all
    BY <1>0, <2>3 DEF compareConnections, new
  <2>4. CASE all[m].level > c.level /\ new = [all EXCEPT ![m].level = c.level]
    <3>1. m \in DOMAIN all /\ all[m] \in Visit
      BY <2>1 DEF m
    <3>2. [all[m] EXCEPT !.level = c.level] \in Visit
      BY <3>1 DEF Visit
    <3>3. new = [all EXCEPT ![m] = [all[m] EXCEPT !.level = c.level]]
      BY <2>4
    <3>4. new \in Seq(Visit) /\ Len(new) = Len(all) /\ DOMAIN new = DOMAIN all
      BY <3>1, <3>2, <3>3, ExceptSeq
    <3>5. ASSUME NEW i \in DOMAIN all
          PROVE  /\ new[i].kind = all[i].kind /\ new[i].name = all[i].name
                 /\ new[i].namespace = all[i].namespace /\ new[i].level <= all[i].level
      <4>1. CASE i = m
        <5>1. new[i] = [all[m] EXCEPT !.level = c.level]
          BY <3>1, <3>3, <4>1
        <5>2. /\ new[i].kind = all[m].kind /\ new[i].name = all[m].name
              /\ new[i].namespace = all[m].namespace /\ new[i].level = c.level
          BY <3>1, <5>1 DEF Visit
        <5>3. all[m].level > c.level /\ all[m].level \in Nat /\ c.level \in Nat
          BY <1>0, <2>4, <3>1 DEF Visit
        <5>4. c.level <= all[m].level
          BY <5>3
        <5> QED BY <4>1, <5>2, <5>4
      <4>2. CASE i # m
        BY <1>0, <3>3, <4>2
      <4> QED BY <4>1, <4>2
    <3>6. \A i, j \in DOMAIN new : compareConnections(new[i], new[j]) => i = j
      BY <3>4, <3>5 DEF compareConnections
    <3> QED BY <3>4, <3>5, <3>6 DEF new, compareConnections
  <2> QED BY <2>2, <2>3, <2>4 DEF new
<1> QED BY <1>1, <1>2

-----------------------------------------------------------------------------
(* The searches *)

LEMMA TasksType == ASSUME NEW kind \in STRING PROVE Tasks(kind) \subseteq Task
<1> USE DEF Downstream, Upstream, Parent, Children, Composition
<1>0. \A n \in Nat : \A p \in 1 .. n : p \in Nat \ {0} /\ n > 0
  OBVIOUS
<1>1. \A k \in Kinds : /\ Rels(k) = RelationshipMap[k] /\ Len(Rels(k)) \in Nat
                        /\ DOMAIN Rels(k) = 1 .. Len(Rels(k))
  <2> SUFFICES ASSUME NEW k \in Kinds
               PROVE  /\ Rels(k) = RelationshipMap[k] /\ Len(Rels(k)) \in Nat
                      /\ DOMAIN Rels(k) = 1 .. Len(Rels(k))
    OBVIOUS
  <2>1. Rels(k) = RelationshipMap[k]
    BY DEF Rels
  <2>2. RelationshipMap[k] \in Seq(RelationshipType)
    BY KindsAssumption
  <2> QED BY <2>1, <2>2, LenProperties
<1>2. \A k : k \notin Kinds => DOMAIN Rels(k) = {}
  BY DEF Rels
<1>3. ASSUME NEW p \in DOMAIN Rels(kind)
      PROVE  [stage |-> Downstream, src |-> kind, pos |-> p] \in Task
  <2>1. kind \in Kinds
    BY <1>2
  <2>2. p \in 1 .. Len(RelationshipMap[kind]) /\ Len(RelationshipMap[kind]) \in Nat
    BY <1>1, <2>1
  <2>3. p \in Nat \ {0} /\ Len(RelationshipMap[kind]) > 0
    BY <1>0, <2>2, Zenon
  <2> QED BY <2>1, <2>3 DEF Task
<1>4. ASSUME NEW k \in Kinds, NEW r \in 1 .. Cardinality(Matching(k, kind)),
             NEW p \in Matching(k, kind)
      PROVE  [stage |-> Upstream, src |-> k, pos |-> (r - 1) * Len(Rels(k)) + p] \in Task
  <2>1. p \in 1 .. Len(Rels(k)) /\ Len(Rels(k)) \in Nat /\ r - 1 \in Nat
    BY <1>1 DEF Matching
  <2>2. (r - 1) * Len(Rels(k)) \in Nat
    BY <2>1
  <2>3. (r - 1) * Len(Rels(k)) + p \in Nat \ {0}
    BY <2>1, <2>2
  <2>4. k \in STRING /\ Len(Rels(k)) > 0 /\ Rels(k) = RelationshipMap[k]
    BY <1>0, <1>1, <2>1, KindsAssumption, Zenon
  <2>5. \A n \in Nat \ {0} : [stage |-> Upstream, src |-> k, pos |-> n] \in Task
    BY <2>4 DEF Task
  <2> QED BY <2>3, <2>5
<1>5. \A s \in {Parent, Children, Composition} : [stage |-> s, src |-> kind, pos |-> 1] \in Task
  BY DEF Task
<1>6. ASSUME NEW t, t \in Tasks(kind) PROVE t \in Task
  <2>1. CASE \E p \in DOMAIN Rels(kind) : t = [stage |-> Downstream, src |-> kind, pos |-> p]
    BY <1>3, <2>1
  <2>2. CASE \E k \in Kinds : \E r \in 1 .. Cardinality(Matching(k, kind)), p \in Matching(k, kind) :
                t = [stage |-> Upstream, src |-> k, pos |-> (r - 1) * Len(Rels(k)) + p]
    BY <1>4, <2>2
  <2>3. CASE \E s \in {Parent, Children, Composition} : t = [stage |-> s, src |-> kind, pos |-> 1]
    BY <1>5, <2>3
  <2> QED BY <1>6, <2>1, <2>2, <2>3 DEF Tasks
<1> QED BY <1>6

LEMMA RelationshipProperty ==
    ASSUME NEW t \in Task, t.stage \in {Downstream, Upstream}
    PROVE  Relationship(t).relType \in STRING
<1> DEFINE rels == Rels(t.src)
           n == ((t.pos - 1) % Len(rels)) + 1
<1>1. t.src \in Kinds /\ rels = RelationshipMap[t.src] /\ Len(rels) > 0 /\ t.pos - 1 \in Nat
  BY DEF Task, Rels
<1>2. rels \in Seq(RelationshipType)
  BY <1>1, KindsAssumption
<1>3. Len(rels) \in Nat \ {0}
  BY <1>1, <1>2
<1>4. n \in 1 .. Len(rels)
  <2> HIDE DEF rels
  <2> QED BY <1>1, <1>3
<1>5. Relationship(t) = rels[n]
  BY DEF Relationship
<1> HIDE DEF rels, n
<1>6. Relationship(t) \in RelationshipType
  BY <1>2, <1>4, <1>5, ElementOfSeq
<1> QED BY <1>6 DEF RelationshipType

\* What every search works with: the state outside the traversal's lists.
Context == IsCluster(objs) /\ input \in Resource /\ nsSearch \in STRING

LEMMA ObjectsType ==
    ASSUME Context
    PROVE  objs \in Seq(Object) /\ DOMAIN objs \subseteq Nat /\ Len(objs) \in Nat
<1>1. objs \in Seq(Object)
  BY DEF Context, IsCluster
<1> QED BY <1>1

LEMMA RelativeOfType ==
    ASSUME Context, NEW f \in FrameType, NEW i \in DOMAIN objs, NEW relType \in STRING
    PROVE  RelativeOf(f, i, relType) \in Connection
<1>1. objs[i] \in Object
  BY ObjectsType
<1>2. Self(f) \in Resource
  BY DEF Self, FrameType, Resource
<1> QED BY <1>1, <1>2 DEF RelativeOf, Connection, FrameType, Object

LEMMA FoundAreObjects ==
    ASSUME NEW f, NEW rel, NEW related
    PROVE  /\ \A S \in FoundDownstream(f, rel) : S \subseteq DOMAIN objs
           /\ \A S \in FoundUpstream(f, related, rel) : S \subseteq DOMAIN objs
<1>1. \A kind, ns : Listed(objs, kind, ns) \subseteq DOMAIN objs
  BY DEF Listed
<1>2. \A S \in FieldTargets(objs, f.kind, f.name, f.ns, rel.lhs, rel.target) : S \subseteq DOMAIN objs
  BY <1>1 DEF FieldTargets
<1>3. \A S \in FieldSources(objs, f.kind, f.name, f.ns, rel.lhs, related) : S \subseteq DOMAIN objs
  BY <1>1 DEF FieldSources
<1>4. \A S \in FoundDownstream(f, rel) : S \subseteq DOMAIN objs
  BY <1>1, <1>2 DEF FoundDownstream, searchLabels, EnvTargets, AnnotationTargets
<1>5. \A S \in FoundUpstream(f, related, rel) : S \subseteq DOMAIN objs
  BY <1>1, <1>3 DEF FoundUpstream, searchSelectors, EnvSources, AnnotationSources
<1> QED BY <1>4, <1>5

LEMMA findOwnerType ==
    ASSUME NEW obj \in Object
    PROVE  findOwner(obj) \in OwnerReference
<1>1. obj.owners \in Seq(OwnerReference)
  BY DEF Object
<1>2. CASE obj.owners = <<>>
  BY <1>2, LiteralsAssumption DEF findOwner, OwnerReference
<1>3. CASE obj.owners # <<>>
  <2>1. Len(obj.owners) \in Nat \ {0}
    BY <1>1, <1>3, EmptySeq
  <2>2. obj.owners[1] \in OwnerReference
    BY <1>1, <2>1, ElementOfSeq
  <2> QED BY <1>3, <2>2 DEF findOwner
<1> QED BY <1>2, <1>3

\* Whatever a task finds is a batch of connections.
LEMMA BatchType ==
    ASSUME Context, NEW f \in FrameType, NEW t \in Task, NEW batch, batch \in Batches(f, t)
    PROVE  batch \in SUBSET Item
<1>0. objs \in Seq(Object) /\ DOMAIN objs \subseteq Nat /\ Len(objs) \in Nat
  BY ObjectsType
<1>1. \A i \in DOMAIN objs : objs[i] \in Object
  BY <1>0
<1>2. \A kind, ns : Listed(objs, kind, ns) \subseteq DOMAIN objs
  BY DEF Listed
<1>3. \A kind, name, ns : Get(objs, kind, name, ns) \subseteq DOMAIN objs
  BY <1>2 DEF Get
<1>4. CASE t.stage \in {Downstream, Upstream}
  <2>1. PICK S \in SUBSET (DOMAIN objs) :
           batch = {<<i, RelativeOf(f, i, Relationship(t).relType)>> : i \in S}
    <3>0. t.stage # Parent /\ t.stage # Children
      BY <1>4 DEF Downstream, Upstream, Parent, Children
    <3>1. batch \in RelatedBatches(f, t)
      BY <1>4, <3>0, Zenon DEF Batches
    <3>2. PICK S : /\ S \in FoundDownstream(f, Relationship(t))
                               \union FoundUpstream(f, t.src, Relationship(t))
                   /\ batch = {<<i, RelativeOf(f, i, Relationship(t).relType)>> : i \in S}
      BY <3>1 DEF RelatedBatches
    <3> QED BY <3>2, FoundAreObjects
  <2>2. \A i \in S : RelativeOf(f, i, Relationship(t).relType) \in Connection
    BY <1>4, <2>1, RelationshipProperty, RelativeOfType
  <2> QED BY <1>0, <2>1, <2>2 DEF Item
<1>5. CASE t.stage = Parent
  <2>1. batch = ParentBatch(f)
    BY <1>5 DEF Batches, Parent, Children, Downstream, Upstream
  <2>2. ASSUME NEW i \in DOMAIN objs
        PROVE  OwnerOf(f, findOwner(objs[i])) \in Connection
    <3>1. findOwner(objs[i]) \in OwnerReference
      BY <1>1, findOwnerType
    <3>2. Self(f) \in Resource /\ NoPeer \in Resource
      BY LiteralsAssumption DEF Self, NoPeer, FrameType, Resource
    <3>3. "owner reference" \in STRING /\ f.level \in Nat /\ f.ns \in STRING
      BY LiteralsAssumption DEF FrameType
    <3> QED BY <3>1, <3>2, <3>3 DEF OwnerOf, Connection, OwnerReference
  <2>3. ASSUME NEW item, item \in ParentBatch(f)
        PROVE  \E i \in DOMAIN objs : item = <<i, OwnerOf(f, findOwner(objs[i]))>>
    BY <1>3, <2>3 DEF ParentBatch
  <2>4. ASSUME NEW item, item \in ParentBatch(f) PROVE item \in Item
    <3>1. PICK i \in DOMAIN objs : item = <<i, OwnerOf(f, findOwner(objs[i]))>>
      BY <2>3, <2>4
    <3> QED BY <1>0, <2>2, <3>1 DEF Item
  <2> QED BY <2>1, <2>4
<1>6. CASE t.stage = Children
  <2>1. PICK ks \in ChildKindLists : batch = ChildrenBatch(f, ks)
    BY <1>6 DEF Batches, Parent, Children, Downstream, Upstream
  <2>2. ks \in Seq(STRING) /\ DOMAIN ks \subseteq Nat \ {0}
    BY KindsAssumption
  <2>3. ASSUME NEW k \in DOMAIN ks, NEW i \in DOMAIN objs
        PROVE  <<(k - 1) * Len(objs) + i, RelativeOf(f, i, "owner reference")>> \in Item
    <3>1. k - 1 \in Nat /\ i \in Nat
      BY <1>0, <2>2
    <3>2. (k - 1) * Len(objs) \in Nat
      BY <1>0, <3>1
    <3>3. (k - 1) * Len(objs) + i \in Nat
      BY <3>1, <3>2
    <3>4. RelativeOf(f, i, "owner reference") \in Connection
      BY RelativeOfType, LiteralsAssumption
    <3> QED BY <3>3, <3>4 DEF Item
  <2>4. ASSUME NEW item, item \in ChildrenBatch(f, ks)
        PROVE  \E k \in DOMAIN ks, i \in DOMAIN objs :
                  item = <<(k - 1) * Len(objs) + i, RelativeOf(f, i, "owner reference")>>
    BY <1>2, <2>4 DEF ChildrenBatch
  <2>5. ASSUME NEW item, item \in ChildrenBatch(f, ks) PROVE item \in Item
    <3>1. PICK k \in DOMAIN ks, i \in DOMAIN objs :
             item = <<(k - 1) * Len(objs) + i, RelativeOf(f, i, "owner reference")>>
      BY <2>4, <2>5
    <3> QED BY <2>3, <3>1
  <2> QED BY <2>1, <2>5
<1>7. CASE t.stage \notin {Downstream, Upstream, Parent, Children}
  <2>1. batch = CompositionBatch(f)
    BY <1>7 DEF Batches
  <2>2. ASSUME NEW i \in DOMAIN objs, NEW k \in DOMAIN objs[i].composed
        PROVE  <<k, ComposedOf(f, objs[i].composed[k])>> \in Item
    <3>1. objs[i].composed \in Seq(Nat)
      BY <1>1 DEF Object
    <3>2. k \in Nat
      BY <3>1
    <3>3. objs[i].composed[k] \in DOMAIN objs
      BY DEF Context, IsCluster
    <3>4. RelativeOf(f, objs[i].composed[k], "owner reference") \in Connection
      BY <3>3, RelativeOfType, LiteralsAssumption
    <3>5. objs[objs[i].composed[k]].namespace \in STRING
      BY <1>1, <3>3 DEF Object
    <3>6. ComposedOf(f, objs[i].composed[k]) \in Connection
      BY <3>4, <3>5 DEF ComposedOf, Connection
    <3> QED BY <3>2, <3>6 DEF Item
  <2> QED BY <1>3, <2>1, <2>2 DEF CompositionBatch
<1> QED BY <1>4, <1>5, <1>6, <1>7

LEMMA FailedBatchType ==
    ASSUME Context, NEW f \in FrameType, NEW t \in Task, NEW batch, batch \in FailedBatches(f, t)
    PROVE  batch \in SUBSET Item
<1>1. \A name, target, ns : searchLabels(objs, name, {}, target, ns) \subseteq DOMAIN objs
  BY DEF searchLabels, Listed
<1>2. DOMAIN objs \subseteq Nat
  BY ObjectsType
<1>3. "label" \in STRING
  BY LiteralsAssumption
<1>4. \A i \in DOMAIN objs : RelativeOf(f, i, "label") \in Connection
  BY <1>3, RelativeOfType
<1> QED BY <1>1, <1>2, <1>4 DEF FailedBatches, Item
-----------------------------------------------------------------------------
(* The steps *)

InductiveInv == TypeOK /\ VisitedUnique /\ RepeatedOnlyFromRoot

\* What a step does to the visited list, if it adds at most one resource.
VisitedKept == visited' \in Seq(Visit) /\ VisitedUnique' /\ VisitedGrows

LEMMA VisitKept ==
    ASSUME visited \in Seq(Visit), VisitedUnique, NEW c \in Visit,
           visited' = appendConnections1(visited, c)
    PROVE  VisitedKept
<1>1. \A i, j \in DOMAIN visited : compareConnections(visited[i], visited[j]) => i = j
  BY DEF VisitedUnique
<1> QED BY <1>1, appendConnections1Properties DEF VisitedKept, VisitedUnique, VisitedGrows

LEMMA VisitedSame ==
    ASSUME visited \in Seq(Visit), VisitedUnique, UNCHANGED visited
    PROVE  VisitedKept
<1>1. \A i \in DOMAIN visited : visited[i].level \in Nat
  <2>1. \A i \in DOMAIN visited : visited[i] \in Visit
    BY ElementOfSeq
  <2> QED BY <2>1 DEF Visit
<1>2. VisitedGrows
  BY <1>1 DEF VisitedGrows, compareConnections
<1> QED BY <1>2 DEF VisitedKept, VisitedUnique

LEMMA FrameProperty ==
    ASSUME NEW level \in Nat, NEW kind \in STRING, NEW name \in STRING, NEW ns \in STRING
    PROVE  Frame(level, kind, name, ns) \in FrameType
BY TasksType, LiteralsAssumption DEF Frame, FrameType

LEMMA GetRelativesType ==
    ASSUME nsSearch \in STRING, visited \in Seq(Visit), VisitedUnique,
           NEW below \in Seq(FrameType), NEW level \in Nat,
           NEW kind \in STRING, NEW name \in STRING, NEW namespace \in STRING,
           GetRelatives(below, level, kind, name, namespace)
    PROVE  VisitedKept /\ nsSearch' \in STRING /\ stack' \in Seq(FrameType)
<1> DEFINE ns == IF kind = "Namespace" THEN name ELSE namespace
<1>1. ns \in STRING
  OBVIOUS
<1>2. CASE checkIgnored(kind, name)
  BY <1>2, VisitedSame DEF GetRelatives
<1>3. CASE ~checkIgnored(kind, name)
  <2>1. [level |-> level, kind |-> kind, name |-> name, namespace |-> ns] \in Visit
    BY <1>1 DEF Visit
  <2>2. visited' = appendConnections1(visited,
                      [level |-> level, kind |-> kind, name |-> name, namespace |-> ns])
    BY <1>3 DEF GetRelatives
  <2>3. VisitedKept
    BY <2>1, <2>2, VisitKept
  <2>4. stack' \in Seq(FrameType)
    <3>1. stack' = Append(below, Frame(level, kind, name, ns))
      BY <1>3 DEF GetRelatives
    <3>2. Frame(level, kind, name, ns) \in FrameType
      BY <1>1, FrameProperty
    <3> HIDE DEF ns
    <3> QED BY <3>1, <3>2, AppendProperties
  <2>5. nsSearch' \in STRING
    BY <1>3 DEF GetRelatives
  <2> QED BY <2>3, <2>4, <2>5
<1> QED BY <1>2, <1>3

LEMMA TopType ==
    ASSUME TypeOK, Searching
    PROVE  /\ Top \in FrameType
           /\ Len(stack) \in 1 .. Len(stack) /\ Len(stack) \in Nat
           /\ \A f \in FrameType : [stack EXCEPT ![Len(stack)] = f] \in Seq(FrameType)
<1>1. stack \in Seq(FrameType) /\ stack # <<>>
  BY DEF TypeOK, Searching
<1>2. Len(stack) \in 1 .. Len(stack) /\ Len(stack) \in Nat
  BY <1>1, EmptySeq, LenProperties
<1>3. Top \in FrameType
  BY <1>1, <1>2, ElementOfSeq DEF Top
<1> QED BY <1>1, <1>2, <1>3, ExceptSeq

\* A search keeps the types of the running activation.
LEMMA SearchType ==
    ASSUME TypeOK, Searching, NEW t \in Task, NEW batch \in SUBSET Item, Search(t, batch)
    PROVE  stack' \in Seq(FrameType)
<1> DEFINE seen == filterConnections(visited, batch)
           peers == IF t.stage \in {Downstream, Upstream} THEN batch ELSE {}
           f == [Top EXCEPT !.todo = Top.todo \ {t}, !.src = t.src, !.peers = peers,
                            !.unseen = batch \ seen, !.seen = seen]
<1>1. seen \in SUBSET Item /\ peers \in SUBSET Item
  BY DEF filterConnections
<1>2. t.src \in STRING
  BY DEF Task
<1>3. Top \in FrameType
  BY TopType
<1>4. stack' = [stack EXCEPT ![Len(stack)] = f]
  BY DEF Search
<1> HIDE DEF seen, peers
<1>5. f \in FrameType
  BY <1>1, <1>2, <1>3 DEF FrameType
<1> QED BY <1>4, <1>5, TopType

LEMMA InitInv == ASSUME Init PROVE InductiveInv
<1>1. objs \in Clusters /\ input \in Inputs
  BY DEF Init
<1>2. IsCluster(objs) /\ input \in Resource
  BY <1>1, ClustersAssumption, InputsAssumption DEF Resource
<1>3. nsSearch \in STRING
  BY LiteralsAssumption DEF Init
<1>4. faults \in 0 .. MaxFaults
  <2>1. faults = 0 /\ MaxFaults \in Nat
    BY FaultsAssumption DEF Init
  <2> QED BY <2>1
<1>5. visited = <<>> /\ total = <<>> /\ stack = <<>> /\ phase = "start"
  BY DEF Init
<1>6. visited \in Seq(Visit) /\ total \in Seq(Connection) /\ stack \in Seq(FrameType)
  BY <1>5
<1>7. VisitedUnique /\ RepeatedOnlyFromRoot
  BY <1>5 DEF VisitedUnique, RepeatedOnlyFromRoot
<1> QED BY <1>2, <1>3, <1>4, <1>5, <1>6, <1>7 DEF InductiveInv, TypeOK

LEMMA StepInv == ASSUME InductiveInv, Next PROVE InductiveInv' /\ VisitedGrows
<1>1. TypeOK /\ VisitedUnique /\ RepeatedOnlyFromRoot
  BY DEF InductiveInv
<1>2. /\ IsCluster(objs) /\ input \in Resource /\ visited \in Seq(Visit)
      /\ total \in Seq(Connection) /\ nsSearch \in STRING /\ stack \in Seq(FrameType)
      /\ faults \in 0 .. MaxFaults
  BY <1>1 DEF TypeOK
\* What remains to be shown of each action.
<1> DEFINE TotalKept == total' \in Seq(Connection) /\ RepeatedOnlyFromRoot'
<1>3. SUFFICES /\ phase' \in {"start", "search", "printed", "absent"}
               /\ UNCHANGED <<objs, input>>
               /\ VisitedKept /\ TotalKept
               /\ nsSearch' \in STRING /\ stack' \in Seq(FrameType)
               /\ faults' \in 0 .. MaxFaults
  BY <1>2 DEF InductiveInv, TypeOK, VisitedKept, IsCluster
<1>4. ASSUME UNCHANGED visited PROVE VisitedKept
  BY <1>1, <1>2, <1>4, VisitedSame
<1>5. ASSUME UNCHANGED total PROVE TotalKept
  BY <1>1, <1>2, <1>5 DEF RepeatedOnlyFromRoot
<1>6. ASSUME NEW c \in Connection, total' = AppendConnections(total, c) PROVE TotalKept
  BY <1>1, <1>2, <1>6, AppendConnectionsType, AppendConnectionsRepeats
     DEF RepeatedOnlyFromRoot, RepeatsFromRoot, Repeats
<1> HIDE DEF TotalKept
<1>7. CASE Start
  <2>1. input.kind \in STRING /\ input.name \in STRING /\ input.namespace \in STRING
    BY <1>2 DEF Resource
  <2>2. VisitedKept /\ nsSearch' \in STRING /\ stack' \in Seq(FrameType)
    <3>1. GetRelatives(<<>>, 1, input.kind, input.name, input.namespace)
      BY <1>7 DEF Start
    <3>2. <<>> \in Seq(FrameType) /\ 1 \in Nat
      OBVIOUS
    <3> QED BY <1>1, <1>2, <2>1, <3>1, <3>2, GetRelativesType
  <2>3. [level |-> 0, kind |-> input.kind, name |-> input.name,
         namespace |-> input.namespace, relType |-> "", peer |-> NoPeer] \in Connection
    BY <2>1, LiteralsAssumption DEF Connection, NoPeer, Resource
  <2>4. TotalKept
    BY <1>6, <1>7, <2>3 DEF Start, Root
  <2> QED BY <1>2, <1>7, <2>2, <2>4 DEF Start
<1>8. CASE NotFound
  <2>1. faults' \in 0 .. MaxFaults
    BY <1>2, <1>8, FaultsAssumption DEF NotFound
  <2> QED BY <1>2, <1>4, <1>5, <1>8, <2>1 DEF NotFound
<1>9. CASE SearchTask
  <2>1. PICK t \in NextTasks(Top) : \E batch \in Batches(Top, t) : Search(t, batch)
    BY <1>9 DEF SearchTask
  <2>2. PICK batch : batch \in Batches(Top, t) /\ Search(t, batch)
    BY <2>1
  <2>3. Searching /\ Top \in FrameType
    BY <1>1, <1>9, TopType DEF SearchTask, BetweenTasks
  <2>4. t \in Task
    BY <2>3 DEF NextTasks, FrameType
  <2>5. batch \in SUBSET Item
    BY <1>2, <2>2, <2>3, <2>4, BatchType DEF Context
  <2>6. stack' \in Seq(FrameType)
    BY <1>1, <2>2, <2>3, <2>4, <2>5, SearchType
  <2> QED BY <1>2, <1>4, <1>5, <1>9, <2>6 DEF SearchTask, TypeOK, Searching, BetweenTasks
<1>10. CASE SearchFails
  <2>1. PICK t \in NextTasks(Top) : \E batch \in FailedBatches(Top, t) : Search(t, batch)
    BY <1>10 DEF SearchFails
  <2>2. PICK batch : batch \in FailedBatches(Top, t) /\ Search(t, batch)
    BY <2>1
  <2>3. Searching /\ Top \in FrameType
    BY <1>1, <1>10, TopType DEF SearchFails, BetweenTasks
  <2>4. t \in Task
    BY <2>3 DEF NextTasks, FrameType
  <2>5. batch \in SUBSET Item
    BY <1>2, <2>2, <2>3, <2>4, FailedBatchType DEF Context
  <2>6. stack' \in Seq(FrameType)
    BY <1>1, <2>2, <2>3, <2>4, <2>5, SearchType
  <2>7. faults' \in 0 .. MaxFaults
    BY <1>2, <1>10, FaultsAssumption DEF SearchFails
  <2> QED BY <1>2, <1>4, <1>5, <1>10, <2>6, <2>7 DEF SearchFails, BetweenTasks, Searching
<1>11. CASE AddPeer
  <2> DEFINE item == Foremost(Top.peers)
  <2>1. Searching /\ Top \in FrameType
    BY <1>1, <1>11, TopType DEF AddPeer
  <2>2. item \in Item /\ Top.peers \ {item} \in SUBSET Item
    BY <1>11, <2>1, ForemostProperty DEF AddPeer, FrameType
  <2>3. [level |-> item[2].level, kind |-> item[2].kind, name |-> item[2].name,
         namespace |-> item[2].namespace] \in Visit
    BY <2>2 DEF Item, Connection, Visit
  <2>4. VisitedKept
    BY <1>1, <1>2, <1>11, <2>3, VisitKept DEF AddPeer
  <2>5. stack' = [stack EXCEPT ![Len(stack)] = [Top EXCEPT !.peers = Top.peers \ {item}]]
    BY <1>11 DEF AddPeer, Top
  <2> HIDE DEF item
  <2>6. [Top EXCEPT !.peers = Top.peers \ {item}] \in FrameType
    BY <2>1, <2>2 DEF FrameType
  <2>7. stack' \in Seq(FrameType)
    BY <1>1, <2>1, <2>5, <2>6, TopType
  <2> QED BY <1>2, <1>5, <1>11, <2>4, <2>7 DEF AddPeer, Searching
<1>12. CASE Descend
  <2> DEFINE item == Foremost(Top.unseen)
             below == [stack EXCEPT ![Len(stack)].unseen = @ \ {item}]
  <2>1. Searching /\ Top \in FrameType
    BY <1>1, <1>12, TopType DEF Descend
  <2>2. item \in Item /\ Top.unseen \ {item} \in SUBSET Item
    BY <1>12, <2>1, ForemostProperty DEF Descend, FrameType
  <2>3. item[2] \in Connection /\ item[2].kind \in STRING /\ item[2].name \in STRING
    BY <2>2 DEF Item, Connection
  <2>4. TotalKept
    BY <1>6, <1>12, <2>3 DEF Descend
  <2>5. GetRelatives(below, Top.level + 1, item[2].kind, item[2].name, RhsNamespace(Top))
    BY <1>12 DEF Descend
  <2>6. below = [stack EXCEPT ![Len(stack)] = [Top EXCEPT !.unseen = Top.unseen \ {item}]]
    BY DEF Top
  <2> HIDE DEF item, below
  <2>7. [Top EXCEPT !.unseen = Top.unseen \ {item}] \in FrameType
    BY <2>1, <2>2 DEF FrameType
  <2>8. below \in Seq(FrameType)
    BY <1>1, <2>1, <2>6, <2>7, TopType
  <2>9. Top.level + 1 \in Nat /\ RhsNamespace(Top) \in STRING
    <3>1. Top.level \in Nat /\ Top.ns \in STRING
      BY <2>1 DEF FrameType
    <3>2. RhsNamespace(Top) = nsSearch \/ RhsNamespace(Top) = Top.ns
      BY DEF RhsNamespace
    <3>3. \A n \in Nat : n + 1 \in Nat
      OBVIOUS
    <3> QED BY <1>2, <3>1, <3>2, <3>3
  <2>10. VisitedKept /\ nsSearch' \in STRING /\ stack' \in Seq(FrameType)
    BY <1>1, <1>2, <2>3, <2>5, <2>8, <2>9, GetRelativesType
  <2> QED BY <1>2, <1>12, <2>4, <2>10 DEF Descend, Searching
<1>13. CASE AppendSeen
  <2> DEFINE item == Foremost(Top.seen)
  <2>1. Searching /\ Top \in FrameType
    BY <1>1, <1>13, TopType DEF AppendSeen
  <2>2. item \in Item /\ Top.seen \ {item} \in SUBSET Item
    BY <1>13, <2>1, ForemostProperty DEF AppendSeen, FrameType
  <2>3. item[2] \in Connection
    BY <2>2 DEF Item
  <2>4. TotalKept
    BY <1>6, <1>13, <2>3 DEF AppendSeen
  <2>5. stack' = [stack EXCEPT ![Len(stack)] = [Top EXCEPT !.seen = Top.seen \ {item}]]
    BY <1>13 DEF AppendSeen, Top
  <2> HIDE DEF item
  <2>6. [Top EXCEPT !.seen = Top.seen \ {item}] \in FrameType
    BY <2>1, <2>2 DEF FrameType
  <2>7. stack' \in Seq(FrameType)
    BY <1>1, <2>1, <2>5, <2>6, TopType
  <2> QED BY <1>2, <1>4, <1>13, <2>4, <2>7 DEF AppendSeen, Searching
<1>14. CASE Return
  <2>1. stack' \in Seq(FrameType)
    <3>1. Len(stack) \in Nat \ {0}
      BY <1>1, <1>14, TopType DEF Return, BetweenTasks
    <3>2. \A k \in 1 .. Len(stack) - 1 : stack[k] \in FrameType
      BY <1>2, <3>1, ElementOfSeq
    <3> QED BY <1>2, <1>14, <3>1, <3>2, SubSeqProperties DEF Return
  <2> QED BY <1>2, <1>4, <1>5, <1>14, <2>1 DEF Return, BetweenTasks, Searching
<1>15. CASE PrintRelatives
  BY <1>2, <1>4, <1>5, <1>15 DEF PrintRelatives
<1>16. CASE Terminated
  BY <1>1, <1>2, <1>4, <1>5, <1>16 DEF Terminated, vars
<1> QED BY <1>7, <1>8, <1>9, <1>10, <1>11, <1>12, <1>13, <1>14, <1>15, <1>16 DEF Next, Step

LEMMA StutterInv ==
    ASSUME InductiveInv, UNCHANGED vars
    PROVE  InductiveInv'
BY DEF InductiveInv, vars, TypeOK, IsCluster, VisitedUnique, RepeatedOnlyFromRoot

-----------------------------------------------------------------------------
(* The theorems *)

LEMMA Invariant == Spec => []InductiveInv
<1>1. Init => InductiveInv
  BY InitInv
<1>2. InductiveInv /\ [Next]_vars => InductiveInv'
  BY StepInv, StutterInv
<1> QED BY <1>1, <1>2, PTL DEF Spec

\* Every variable keeps its type in every run of the command.
THEOREM TypeCorrect == Spec => []TypeOK
<1>1. InductiveInv => TypeOK
  BY DEF InductiveInv
<1> QED BY <1>1, Invariant, PTL

\* However many paths lead to a resource, it is in the visited list once.
THEOREM VisitedOnce == Spec => []VisitedUnique
<1>1. InductiveInv => VisitedUnique
  BY DEF InductiveInv
<1> QED BY <1>1, Invariant, PTL

\* A relation is reported again only where it was found from the root.
THEOREM RepeatsFromRootOnly == Spec => []RepeatedOnlyFromRoot
<1>1. InductiveInv => RepeatedOnlyFromRoot
  BY DEF InductiveInv
<1> QED BY <1>1, Invariant, PTL

\* No step loses track of a visited resource or raises its level.
THEOREM VisitedOnlyGrows == Spec => VisitedMonotone
<1>1. InductiveInv /\ [Next]_vars => [VisitedGrows]_vars
  BY StepInv
<1> QED BY <1>1, Invariant, PTL DEF Spec, VisitedMonotone
=============================================================================
