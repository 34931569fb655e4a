------------------------------ MODULE Relatives ------------------------------
(***************************************************************************)
(* The `kubediscovery connections <kind> <instance> <namespace>` command:  *)
(* main.go and the traversal of pkg/discovery/relationships.go.            *)
(*                                                                         *)
(* The command walks the graph of related resources depth first from the   *)
(* resource it is given.  GetRelatives recurses through buildGraph,        *)
(* findParentConnections, findChildrenConnections and                      *)
(* findCompositionConnections; the Go call stack is the variable stack.    *)
(* Two lists grow on the way: visited, threaded through the calls, and the *)
(* global TotalClusterConnections, which is printed.  The global           *)
(* NamespaceToSearch changes when a Namespace is met and is never reset.   *)
(*                                                                         *)
(* The order of the upstream kinds, of the child kinds and of the values a *)
(* property search meets is Go's random map iteration order.  Any search   *)
(* may fail (API server errors): the code then goes on with no relatives.  *)
(***************************************************************************)
EXTENDS Connections, RelationshipSearch

CONSTANTS
    Clusters,         \* the possible clusters: sequences of objects
    Inputs,           \* the possible arguments: [kind, name, namespace]
    IgnoreLists,      \* the possible --ignore lists: sets of [kind, name], name may be "*"
    Kinds,            \* the keys of relationshipMap
    RelationshipMap,  \* relationshipMap: for each kind, its sequence of relationships
    CrdKinds,         \* the keys of crdcompositionMap
    ChildKindLists,   \* the possible orders of the list findChildKinds returns
    MaxFaults         \* bound on the number of failing searches

ASSUME ClustersAssumption == \A c \in Clusters : IsCluster(c)
ASSUME InputsAssumption == Inputs \subseteq [kind : STRING, name : STRING, namespace : STRING]
RelationshipType == [relType : STRING, lhs : STRING, target : STRING]
ASSUME KindsAssumption ==
    /\ Kinds \subseteq STRING
    /\ RelationshipMap \in [Kinds -> Seq(RelationshipType)]
    /\ ChildKindLists \subseteq Seq(STRING)
ASSUME FaultsAssumption == MaxFaults \in Nat
\* The code's literals are strings: the provers have to be told.
ASSUME LiteralsAssumption == {"", "label", "owner reference"} \subseteq STRING

VARIABLES
    phase,     \* "start", "search", "printed" or "absent"
    objs,      \* the cluster, which does not change while the command runs
    input,     \* OriginalInputKind, OriginalInputInstance, OriginalInputNamespace
    ignore,    \* RelsToIgnore
    visited,   \* the visited list
    total,     \* TotalClusterConnections
    nsSearch,  \* NamespaceToSearch
    stack,     \* the activations of GetRelatives, the last one running
    faults     \* number of searches that failed

vars == <<phase, objs, input, ignore, visited, total, nsSearch, stack, faults>>

-----------------------------------------------------------------------------
(* Tasks: the searches findRelatives makes for a resource, in stages 1..5. *)
Downstream == 1
Upstream == 2
Parent == 3
Children == 4
Composition == 5

IsSearched(rel) == rel.relType # "owner reference"

\* relationshipMap[kind], nil for a kind without an entry.
Rels(kind) == IF kind \in Kinds THEN RelationshipMap[kind] ELSE <<>>

\* The relationships of kind k that have a given target, searched or not.
Matching(k, target) == {p \in DOMAIN Rels(k) : Rels(k)[p].target = target}

\* findDownstreamRelatives makes one search per relationship of the kind, in
\* order.  findUpstreamRelatives is called for each kind findRelatedKinds
\* returns, which is a kind once for EACH of its relationships that matches,
\* and searches all of them in order each time.
Tasks(kind) ==
    {[stage |-> Downstream, src |-> kind, pos |-> p] :
        p \in {q \in DOMAIN Rels(kind) : IsSearched(Rels(kind)[q])}}
    \union
    (UNION {{[stage |-> Upstream, src |-> k, pos |-> (r - 1) * Len(Rels(k)) + p] :
               r \in 1 .. Cardinality(Matching(k, kind)),
               p \in {q \in Matching(k, kind) : IsSearched(Rels(k)[q])}} : k \in Kinds})
    \union
    {[stage |-> s, src |-> kind, pos |-> 1] :
        s \in {Parent, Children} \union (IF kind \in CrdKinds THEN {Composition} ELSE {})}

\* The task findRelatives may turn to next: the earliest stage, the upstream
\* kind already begun before another one, positions in order.
NextTasks(f) ==
    {t \in f.todo :
        /\ \A u \in f.todo : t.stage <= u.stage
        /\ \A u \in f.todo : u.stage = t.stage /\ u.src = f.src => t.src = f.src
        /\ \A u \in f.todo : u.stage = t.stage /\ u.src = t.src => t.pos <= u.pos}

Relationship(t) == Rels(t.src)[((t.pos - 1) % Len(Rels(t.src))) + 1]

-----------------------------------------------------------------------------
(* Batches: what a task finds, the list of connections in the code, as a   *)
(* set of pairs <<index, connection>> whose indices give their order.      *)

Self(f) == [kind |-> f.kind, name |-> f.name, namespace |-> f.ns]

\* The connection the searches build for object i.
RelativeOf(f, i, relType) ==
    [level |-> f.level, kind |-> objs[i].kind, name |-> objs[i].name, namespace |-> f.ns,
     relType |-> relType, peer |-> Self(f)]

RhsNamespace(f) == IF nsSearch # "" THEN nsSearch ELSE f.ns

LhsNamespace(f) ==
    IF f.kind = input.kind /\ f.name = input.name THEN input.namespace ELSE f.ns

\* The sets of objects a downstream or an upstream search may find.
FoundDownstream(f, rel) ==
    CASE rel.relType = "label" ->
            {searchLabels(objs, f.name, getSelectorLabels(objs, f.kind, f.name, f.ns), rel.target, f.ns)}
      [] rel.relType = "envvariable" -> {EnvTargets(objs, f.kind, f.name, f.ns, rel.target)}
      [] rel.relType = "specproperty" ->
            FieldTargets(objs, f.kind, f.name, f.ns, rel.lhs, rel.target)
      [] OTHER ->
            {AnnotationTargets(objs, f.kind, f.name, LhsNamespace(f), RhsNamespace(f), rel.lhs, rel.target)}

FoundUpstream(f, related, rel) ==
    CASE rel.relType = "label" ->
            {searchSelectors(objs, related, getLabels(objs, f.kind, f.name, f.ns), f.ns)}
      [] rel.relType = "envvariable" -> {EnvSources(objs, f.kind, f.name, f.ns, related)}
      [] rel.relType = "specproperty" ->
            FieldSources(objs, f.kind, f.name, f.ns, rel.lhs, related)
      [] OTHER -> {AnnotationSources(objs, f.kind, f.name, f.ns, RhsNamespace(f), rel.lhs, related)}

RelatedBatches(f, t) ==
    {{<<i, RelativeOf(f, i, Relationship(t).relType)>> : i \in S} :
        S \in IF t.stage = Downstream
              THEN FoundDownstream(f, Relationship(t))
              ELSE FoundUpstream(f, t.src, Relationship(t))}

\* The owner has an empty Peer when it is of the same kind.
OwnerOf(f, owner) ==
    [level |-> f.level, kind |-> owner.kind, name |-> owner.name, namespace |-> f.ns,
     relType |-> "owner reference", peer |-> IF owner.kind # f.kind THEN Self(f) ELSE NoPeer]

ParentBatch(f) ==
    {<<i, OwnerOf(f, findOwner(objs[i]))>> :
        i \in {j \in Get(objs, f.kind, f.name, f.ns) : findOwner(objs[j]).name # ""}}

\* Every kind in the list of child kinds is listed, as often as it is there.
ChildrenBatch(f, childKinds) ==
    UNION {{<<(k - 1) * Len(objs) + i, RelativeOf(f, i, "owner reference")>> :
               i \in {j \in Listed(objs, childKinds[k], f.ns) :
                        findOwner(objs[j]) = [kind |-> f.kind, name |-> f.name]}} :
              k \in DOMAIN childKinds}

\* BuildCompositionTree was called for the input's namespace only.
ComposedOf(f, i) ==
    [RelativeOf(f, i, "owner reference") EXCEPT !.namespace = objs[i].namespace]

CompositionBatch(f) ==
    UNION {{<<k, ComposedOf(f, objs[i].composed[k])>> : k \in DOMAIN objs[i].composed} :
              i \in {j \in Get(objs, f.kind, f.name, f.ns) : objs[j].namespace = input.namespace}}

Batches(f, t) ==
    CASE t.stage \in {Downstream, Upstream} -> RelatedBatches(f, t)
      [] t.stage = Parent -> {ParentBatch(f)}
      [] t.stage = Children -> {ChildrenBatch(f, ks) : ks \in ChildKindLists}
      [] OTHER -> {CompositionBatch(f)}

\* What a task finds when the API server fails one of its calls and the retry
\* without the namespace too.  Nearly every caller takes an error for "no
\* relatives"; a label search whose selector cannot be read falls back to the
\* one by name.  Left out, and modelled in ObjectCache: the retry succeeds,
\* and the search finds, now and later, the objects of all namespaces.
FailedBatches(f, t) ==
    {{}} \union
    (IF t.stage = Downstream /\ Relationship(t).relType = "label"
     THEN {{<<i, RelativeOf(f, i, "label")>> :
              i \in searchLabels(objs, f.name, {}, Relationship(t).target, f.ns)}}
     ELSE {})

-----------------------------------------------------------------------------
(* GetRelatives *)

checkIgnored(kind, name) ==
    \E rel \in ignore : rel.kind = kind /\ rel.name \in {"*", name}

Frame(level, kind, name, ns) ==
    [level |-> level, kind |-> kind, name |-> name, ns |-> ns,
     todo |-> Tasks(kind), src |-> "",
     peers |-> {}, unseen |-> {}, seen |-> {}]

\* What GetRelatives does before it searches: on frames below.
GetRelatives(below, level, kind, name, namespace) ==
    LET ns == IF kind = "Namespace" THEN name ELSE namespace
    IN  IF checkIgnored(kind, name)
        THEN /\ stack' = below
             /\ UNCHANGED <<visited, nsSearch>>
        ELSE /\ nsSearch' = IF kind = "Namespace" THEN name ELSE nsSearch
             /\ visited' = appendConnections1(visited,
                              [level |-> level, kind |-> kind, name |-> name, namespace |-> ns])
             /\ stack' = Append(below, Frame(level, kind, name, ns))

Init ==
    /\ phase = "start"
    /\ objs \in Clusters
    /\ input \in Inputs
    /\ ignore \in IgnoreLists
    /\ visited = <<>>
    /\ total = <<>>
    /\ nsSearch = ""
    /\ stack = <<>>
    /\ faults = 0

Exists == Get(objs, input.kind, input.name, input.namespace) # {}

\* The root of the result.
Root == [level |-> 0, kind |-> input.kind, name |-> input.name, namespace |-> input.namespace,
         relType |-> "", peer |-> NoPeer]

\* main: the resource exists; it becomes the root of the result, at level 0.
Start ==
    /\ phase = "start"
    /\ Exists
    /\ phase' = "search"
    /\ total' = AppendConnections(total, Root)
    /\ GetRelatives(<<>>, 1, input.kind, input.name, input.namespace)
    /\ UNCHANGED <<objs, input, ignore, faults>>

\* main: exit status 1.  An error of the API server looks the same.
NotFound ==
    /\ phase = "start"
    /\ \/ ~Exists /\ UNCHANGED faults
       \/ Exists /\ faults < MaxFaults /\ faults' = faults + 1
    /\ phase' = "absent"
    /\ UNCHANGED <<objs, input, ignore, visited, total, nsSearch, stack>>

Top == stack[Len(stack)]

\* The first item of what is left of a batch.
Foremost(items) == CHOOSE item \in items : \A other \in items : item[1] <= other[1]

Searching == phase = "search" /\ stack # <<>>

\* Mutant of Search: a search that was made is not crossed off.
SearchAgain(t, batch) ==
    LET seen == filterConnections(visited, batch)
    IN  stack' = [stack EXCEPT ![Len(stack)] =
                    [Top EXCEPT !.src = t.src, !.unseen = batch \ seen, !.seen = seen]]

\* Mutant of Search: the peers are entered before the batch is filtered.
SearchPeersFirst(t, batch) ==
    LET peers == IF t.stage \in {Downstream, Upstream} THEN batch ELSE {}
        seen == filterConnections(visited, batch) \union peers
    IN  stack' = [stack EXCEPT ![Len(stack)] =
                    [Top EXCEPT !.todo = @ \ {t},
                                !.src = t.src,
                                !.peers = peers,
                                !.unseen = batch \ seen,
                                !.seen = seen]]

\* The next search, and filterConnections on what it finds.
Search(t, batch) ==
    LET seen == filterConnections(visited, batch)
    IN  stack' = [stack EXCEPT ![Len(stack)] =
                    [Top EXCEPT !.todo = @ \ {t},
                                !.src = t.src,
                                !.peers = IF t.stage \in {Downstream, Upstream} THEN batch ELSE {},
                                !.unseen = batch \ seen,
                                !.seen = seen]]

BetweenTasks == Searching /\ Top.peers = {} /\ Top.unseen = {} /\ Top.seen = {}

SearchTask ==
    /\ BetweenTasks
    /\ \E t \in NextTasks(Top) : \E batch \in Batches(Top, t) : Search(t, batch)
    /\ UNCHANGED <<phase, objs, input, ignore, visited, total, nsSearch, faults>>

\* The API server fails the search, and the traversal goes on.
SearchFails ==
    /\ BetweenTasks
    /\ faults < MaxFaults
    /\ faults' = faults + 1
    /\ \E t \in NextTasks(Top) :
          /\ t.stage # Composition
          /\ \E batch \in FailedBatches(Top, t) : Search(t, batch)
    /\ UNCHANGED <<phase, objs, input, ignore, visited, total, nsSearch>>

\* buildGraph: appendCurrentLevelPeers, for the whole batch before any of it
\* is searched further.
AddPeer ==
    /\ Searching
    /\ Top.peers # {}
    /\ LET item == Foremost(Top.peers)
           c == item[2]
       IN  /\ visited' = appendConnections1(visited,
                            [level |-> c.level, kind |-> c.kind, name |-> c.name,
                             namespace |-> c.namespace])
           /\ stack' = [stack EXCEPT ![Len(stack)].peers = @ \ {item}]
    /\ UNCHANGED <<phase, objs, input, ignore, total, nsSearch, faults>>

\* Mutant of Descend: the level goes down instead of up.
DescendBackwards ==
    /\ Searching
    /\ Top.peers = {}
    /\ Top.unseen # {}
    /\ LET item == Foremost(Top.unseen)
           c == item[2]
       IN  /\ total' = AppendConnections(total, c)
           /\ GetRelatives([stack EXCEPT ![Len(stack)].unseen = @ \ {item}],
                           Top.level - 1, c.kind, c.name, RhsNamespace(Top))
    /\ UNCHANGED <<phase, objs, input, ignore, faults>>

\* Mutant of Descend: the resource is searched but not reported.
DescendSilently ==
    /\ Searching
    /\ Top.peers = {}
    /\ Top.unseen # {}
    /\ LET item == Foremost(Top.unseen)
       IN  GetRelatives([stack EXCEPT ![Len(stack)].unseen = @ \ {item}],
                        Top.level + 1, item[2].kind, item[2].name, RhsNamespace(Top))
    /\ UNCHANGED <<phase, objs, input, ignore, total, faults>>

\* searchNextLevel and its likes: the next resource not seen before is added
\* to the result and searched in turn.
Descend ==
    /\ Searching
    /\ Top.peers = {}
    /\ Top.unseen # {}
    /\ LET item == Foremost(Top.unseen)
           c == item[2]
       IN  /\ total' = AppendConnections(total, c)
           /\ GetRelatives([stack EXCEPT ![Len(stack)].unseen = @ \ {item}],
                           Top.level + 1, c.kind, c.name, RhsNamespace(Top))
    /\ UNCHANGED <<phase, objs, input, ignore, faults>>

\* Last, the relations to resources seen before are added to the result.
AppendSeen ==
    /\ Searching
    /\ Top.peers = {}
    /\ Top.unseen = {}
    /\ Top.seen # {}
    /\ LET item == Foremost(Top.seen)
       IN  /\ total' = AppendConnections(total, item[2])
           /\ stack' = [stack EXCEPT ![Len(stack)].seen = @ \ {item}]
    /\ UNCHANGED <<phase, objs, input, ignore, visited, nsSearch, faults>>

Return ==
    /\ BetweenTasks
    /\ Top.todo = {}
    /\ stack' = SubSeq(stack, 1, Len(stack) - 1)
    /\ UNCHANGED <<phase, objs, input, ignore, visited, total, nsSearch, faults>>

\* main: PrintRelatives and the end of the process.
PrintRelatives ==
    /\ phase = "search"
    /\ stack = <<>>
    /\ phase' = "printed"
    /\ UNCHANGED <<objs, input, ignore, visited, total, nsSearch, stack, faults>>

\* printConnections, the default and flat formats: the indices it prints.  A
\* branch starts at each connection of level 1, headed by the root; what
\* comes before the first one is in no branch.
printConnections(all) ==
    LET level1 == {i \in DOMAIN all : all[i].level = 1}
    IN  IF level1 = {} THEN {} ELSE {1} \union (Min(level1) .. Len(all))

Step == Start \/ NotFound \/ SearchTask \/ SearchFails \/ AddPeer \/ Descend \/ AppendSeen
        \/ Return \/ PrintRelatives

\* The process has ended.
Terminated == phase \in {"printed", "absent"} /\ UNCHANGED vars

Next == Step \/ Terminated

\* One thread that never blocks: it keeps taking steps.
Spec == Init /\ [][Next]_vars /\ WF_vars(Step)

-----------------------------------------------------------------------------
(* Properties *)

Resource == [kind : STRING, name : STRING, namespace : STRING]
Connection == [level : Nat, kind : STRING, name : STRING, namespace : STRING,
               relType : STRING, peer : Resource]
Visit == [level : Nat, kind : STRING, name : STRING, namespace : STRING]
\* A task of the first two stages stands for a relationship of its kind.
Task ==
    {t \in [stage : 1 .. 5, src : STRING, pos : Nat \ {0}] :
        t.stage \in {Downstream, Upstream} => t.src \in Kinds /\ Len(RelationshipMap[t.src]) > 0}

Item == Nat \X Connection
FrameType ==
    [level : Nat, kind : STRING, name : STRING, ns : STRING, src : STRING, todo : SUBSET Task,
     peers : SUBSET Item, unseen : SUBSET Item, seen : SUBSET Item]

\* Types of the variables.
TypeOK ==
    /\ phase \in {"start", "search", "printed", "absent"}
    /\ IsCluster(objs)
    /\ input \in Resource
    /\ visited \in Seq(Visit)
    /\ total \in Seq(Connection)
    /\ nsSearch \in STRING
    /\ stack \in Seq(FrameType)
    /\ faults \in 0 .. MaxFaults

\* A resource is in the visited list once, although many paths lead to it
\* (appendConnections1).
VisitedUnique ==
    \A i, j \in DOMAIN visited : compareConnections(visited[i], visited[j]) => i = j

\* No step forgets a visited resource, moves it or raises its level: the
\* traversal cannot search a resource again for having lost track of it, and
\* "Update the level if found a shorter path" only ever shortens.
VisitedGrows ==
    /\ Len(visited') >= Len(visited)
    /\ \A i \in DOMAIN visited :
          /\ compareConnections(visited[i], visited'[i])
          /\ visited'[i].level <= visited[i].level

VisitedMonotone == [][VisitedGrows]_vars

\* The result tells a relation again, the same way or from its other end,
\* only where it was found from the root, at level 1 (AppendConnections).
RepeatedOnlyFromRoot ==
    \A i, j \in DOMAIN total :
        i < j /\ (IsReverse(total[i], total[j]) \/ compareConnectionsRelType(total[i], total[j]))
            => total[j].level = 1

\* Every resource visited is in the result, by the time it is printed.
VisitedReported ==
    phase = "printed" =>
        \A v \in Range(visited) : \E c \in Range(total) :
            \/ c.kind = v.kind /\ c.name = v.name
            \/ c.peer.kind = v.kind /\ c.peer.name = v.name

\* No relation is missing: whatever a search from a resource of the result is
\* sure to find is in the result too, as that relation or as its reverse.
Expanded(c) == [level |-> c.level, kind |-> c.kind, name |-> c.name, ns |-> c.namespace]

NoneMissing ==
    \A v \in Range(total) : ~checkIgnored(v.kind, v.name) =>
        \A t \in Tasks(v.kind) :
            LET found == Batches(Expanded(v), t)
            IN  \A item \in UNION found :
                    (\A b \in found : \E same \in b : same[2] = item[2]) =>
                        \E c \in Range(total) :
                            \/ IsReverse(c, item[2])
                            \/ /\ c.kind = item[2].kind /\ c.name = item[2].name
                               /\ c.peer.kind = item[2].peer.kind
                               /\ c.peer.name = item[2].peer.name

\* "It does look like we are able to discover all relationships"
\* (relationships.go:858).
RelationsDiscovered == phase = "printed" /\ faults = 0 => NoneMissing

\* The resources the searches of the input's namespace may meet, and the
\* connections the result may have, from whichever of these.
Named ==
    LET seen == {i \in DOMAIN objs : objs[i].namespace \in {input.namespace, ""}}
    IN  {[kind |-> objs[i].kind, name |-> objs[i].name] : i \in seen}
            \union {findOwner(objs[i]) : i \in seen}

From(r) == [level |-> 0, kind |-> r.kind, name |-> r.name, ns |-> input.namespace]

Findable ==
    {Root} \union
    {item[2] : item \in UNION UNION {UNION {Batches(From(r), t) : t \in Tasks(r.kind)} : r \in Named}}

\* The only Namespace in sight is the input's, and what an object of it is
\* composed of is in it too: the search does not leave it.
OneNamespace ==
    /\ \A r \in Named : r.kind = "Namespace" => r.name = input.namespace
    /\ \A i \in DOMAIN objs : objs[i].namespace = input.namespace =>
          \A k \in DOMAIN objs[i].composed : objs[objs[i].composed[k]].namespace = input.namespace

\* No resource has the same relation to two resources of one name and of
\* different kinds.
Unambiguous ==
    /\ OneNamespace
    /\ \A c, d \in Findable :
          SameNames(c, d) /\ c.relType = d.relType /\ c.peer.name = d.peer.name
             => c.peer.kind = d.peer.kind

\* The result is complete if no search fails, the search stays in one
\* namespace and there are no namesakes to take for each other: a relation
\* dropped for its reverse, told by another path or cut off by the visited
\* list is in it all the same.
RelationsReported == phase = "printed" /\ faults = 0 /\ Unambiguous => NoneMissing

\* The default and the flat format print every connection of the result.
NothingLeftOut == phase = "printed" /\ Len(total) > 1 => printConnections(total) = DOMAIN total

\* The command ends, however the relations loop.
Terminates == <>(phase \in {"printed", "absent"})
=============================================================================
