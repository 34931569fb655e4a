--------------------------- MODULE CompositionTree ---------------------------
(***************************************************************************)
(* How pkg/discovery/discovery.go builds the composition tree of a         *)
(* resource and turns it into the answer of a request.                     *)
(*                                                                         *)
(* buildCompositions follows compositionMap and the owner references down  *)
(* from the resource, with one call to the API server for each resource    *)
(* and each kind below it, and makes of each call a node                   *)
(*   [level, kind, parent, children]                                       *)
(* children: the names of the resources; parent: the owner that each of    *)
(* them names.  The calls still to be made, those of the nested calls of   *)
(* buildCompositions first, are the agenda.  Between two of them the       *)
(* cluster may change, and any of them may fail, which is taken for a list *)
(* of nothing: the list of nodes is what the calls showed, one by one.     *)
(*                                                                         *)
(* Of these nodes getComposition makes nested records.  A nested record is *)
(* here the list of the records in it, each before those nested in it,     *)
(* with how deep it is nested:                                             *)
(*   [depth, level, kind, name]                                            *)
(* The calls that are nested in a call of getComposition are one function, *)
(* of what the calls are made with.                                        *)
(*                                                                         *)
(* Namespaces, statuses and API versions are left out: all resources are   *)
(* in one namespace.                                                       *)
(***************************************************************************)
EXTENDS Integers, Sequences, FiniteSets, SequencesExt

CONSTANTS
    Clusters,         \* the possible clusters: sequences of [kind, name, owners]
    CompositionMaps,  \* the possible contents of compositionMap: kind to sequence of kinds
    KnownKinds,       \* the possible sets of kinds whose plural and version are known
    Roots,            \* the resources asked for: [kind, name]
    MaxClusters,      \* how many clusters a build may see
    MaxMissed         \* how many of its calls may fail

\* Kinds and names.
Name == STRING
Reference == [kind : Name, name : Name]
Object == [kind : Name, name : Name, owners : SUBSET Reference]
Ref(x) == [kind |-> x.kind, name |-> x.name]

\* A kind and a name are those of one object.
ASSUME ClustersAssumption ==
    \A cluster \in Clusters :
        /\ cluster \in Seq(Object)
        /\ \A i, j \in DOMAIN cluster : Ref(cluster[i]) = Ref(cluster[j]) => i = j
ASSUME MapsAssumption ==
    \A map \in CompositionMaps : DOMAIN map \subseteq Name /\ \A kind \in DOMAIN map : map[kind] \in Seq(Name)
ASSUME RootsAssumption == Roots \subseteq Reference

VARIABLES
    pc,              \* "build" or "answered"
    objs,            \* the cluster
    compositionMap,
    known,           \* the kinds whose plural and version are known
    root,            \* the resource
    agenda,          \* the calls to the API server that the build has still to make
    tree,            \* the CompositionTree of the resource so far
    answer,          \* what getComposition returns
    seen,            \* history: the clusters during the build
    missed           \* history: the calls that failed

vars == <<pc, objs, compositionMap, known, root, agenda, tree, answer, seen, missed>>

\* What a loop over s makes of start, with a step for each element.
Loop(step, start, s) ==
    LET acc[i \in 0 .. Len(s)] == IF i = 0 THEN start ELSE step[acc[i - 1]][s[i]]
    IN  acc[Len(s)]

Node == [level : Nat, kind : Name, parent : Reference, children : Seq(Name)]

-----------------------------------------------------------------------------
(* buildCompositions *)

\* Mutant of IsOwned: the owner's name is not compared.
IsOwnedByKind(o, kind, parent) == o.kind = kind /\ \E owner \in o.owners : owner.kind = parent.kind

IsOwned(o, kind, parent) == o.kind = kind /\ parent \in o.owners

\* The names of the resources of the kind, in the API server's order, that
\* have an owner reference to the parent.
OwnedBy(kind, parent) ==
    LET add == [names \in Seq(Name) |-> [o \in Object |->
                   IF IsOwned(o, kind, parent) THEN Append(names, o.name) ELSE names]]
    IN  Loop(add, <<>>, objs)

\* A call for the resources of the kind that the parent, a level above, owns.
Listing == [level : Nat, kind : Name, parent : Reference]

\* The calls that buildCompositions makes for a resource itself.
ListingsOf(parent, level) ==
    IF parent.kind \in DOMAIN compositionMap
    THEN [i \in DOMAIN compositionMap[parent.kind] |->
             [level |-> level + 1, kind |-> compositionMap[parent.kind][i], parent |-> parent]]
    ELSE <<>>

\* Those for each of the resources a call has shown, in their order.
ListingsBelow(listing, names) ==
    LET add == [listings \in Seq(Listing) |-> [name \in Name |->
                   listings \o ListingsOf([kind |-> listing.kind, name |-> name], listing.level)]]
    IN  Loop(add, <<>>, names)

\* The next call has shown the names.
Shows(names) ==
    LET listing == Head(agenda)
        node == [level |-> listing.level, kind |-> listing.kind, parent |-> listing.parent, children |-> names]
    IN  /\ tree' = Append(tree, node)
        /\ agenda' = ListingsBelow(listing, names) \o Tail(agenda)
        /\ UNCHANGED <<pc, objs, compositionMap, known, root, answer, seen>>

Building == pc = "build" /\ agenda # <<>>

-----------------------------------------------------------------------------
(* getComposition *)

\* Mutant of processed: the levels are compared the wrong way.
processedDeeper(list, node) ==
    \E i \in DOMAIN list : list[i].level > node.level /\ list[i].kind = node.kind

\* A node counts as processed when one of its level and kind is.
processed(list, node) ==
    \E i \in DOMAIN list : list[i].level = node.level /\ list[i].kind = node.kind

\* Mutant of IsKept: the levels are compared for equality.
IsKeptSameLevel(n, node) == n.level = node.level /\ n.kind # node.kind

IsKept(n, node) == n.level # node.level /\ n.kind # node.kind

\* trimmedTree
Trimmed(nodes, node) ==
    LET add == [kept \in Seq(Node) |-> [n \in Node |-> IF IsKept(n, node) THEN Append(kept, n) ELSE kept]]
    IN  Loop(add, <<>>, nodes)

Part == [depth : Nat, level : Nat, kind : Name, name : Name]

\* What a call is made with: the composition to start with, the nodes to
\* search, and the processed nodes, which all calls share.
Call == [self : Part, nodes : Seq(Node), done : Seq(Node)]

\* The rounds of the two loops, over the nodes and over a node's children.
\* They carry the composition so far, the processed nodes, and what the next
\* child's call may search: the first child empties that for good.
Progress == [parts : Seq(Part), done : Seq(Node), rest : Seq(Node)]

AddChild(calls, depth, node) ==
    [acc \in Progress |-> [child \in Name |->
        LET self == [depth |-> depth, level |-> node.level, kind |-> node.kind, name |-> child]
            call == [self |-> self, nodes |-> Trimmed(acc.rest, node), done |-> Append(acc.done, node)]
        IN  [parts |-> acc.parts \o calls[call].parts, done |-> calls[call].done, rest |-> <<>>]]]

AddNode(calls, depth) ==
    [acc \in Progress |-> [node \in Node |->
        IF processed(acc.done, node) THEN acc ELSE Loop(AddChild(calls, depth, node), acc, node.children)]]

\* A call has fewer nodes to search than the call it is made in, so calls are
\* nested no deeper than there are nodes.
getComposition(call) ==
    LET get[left \in 0 .. Len(call.nodes) + 1] ==
            [c \in Call |->
                LET start == [parts |-> <<c.self>>, done |-> c.done, rest |-> c.nodes]
                IN  IF left = 0 THEN start ELSE Loop(AddNode(get[left - 1], c.self.depth + 1), start, c.nodes)]
    IN  get[Len(call.nodes) + 1][call].parts

-----------------------------------------------------------------------------
(* One request *)

Init ==
    /\ pc = "build"
    /\ objs \in Clusters
    /\ compositionMap \in CompositionMaps
    /\ known \in KnownKinds
    /\ root \in Roots
    /\ agenda = ListingsOf(root, 1)
    /\ tree = <<>>
    /\ answer = <<>>
    /\ seen = {objs}
    /\ missed = {}

ListChildren ==
    /\ Building
    /\ Head(agenda).kind \in known
    /\ Shows(OwnedBy(Head(agenda).kind, Head(agenda).parent))
    /\ UNCHANGED missed

\* No call is made for a kind without a plural or a version.
SkipUnknown ==
    /\ Building
    /\ Head(agenda).kind \notin known
    /\ Shows(<<>>)
    /\ UNCHANGED missed

\* Mutant of ListFails: buildCompositions returns when a call fails.
ListFailsReturns ==
    /\ Building
    /\ Head(agenda).kind \in known
    /\ Cardinality(missed) < MaxMissed
    /\ missed' = missed \union {Head(agenda)}
    /\ agenda' = SelectSeq(agenda, LAMBDA listing : listing.parent # Head(agenda).parent)
    /\ UNCHANGED <<pc, objs, compositionMap, known, root, tree, answer, seen>>

\* The client or the call fails: getResourceMetaData returns an empty list.
ListFails ==
    /\ Building
    /\ Head(agenda).kind \in known
    /\ Cardinality(missed) < MaxMissed
    /\ missed' = missed \union {Head(agenda)}
    /\ Shows(<<>>)

\* The cluster becomes another one.
Change ==
    /\ Building
    /\ objs' \in Clusters \ {objs}
    /\ Cardinality(seen \union {objs'}) <= MaxClusters
    /\ seen' = seen \union {objs'}
    /\ UNCHANGED <<pc, compositionMap, known, root, agenda, tree, answer, missed>>

RootPart == [depth |-> 0, level |-> 1, kind |-> root.kind, name |-> root.name]

\* The tree is stored, and the answer made of it.
GetCompositions ==
    /\ pc = "build" /\ agenda = <<>>
    /\ pc' = "answered"
    /\ answer' = getComposition([self |-> RootPart, nodes |-> tree, done |-> <<>>])
    /\ UNCHANGED <<objs, compositionMap, known, root, agenda, tree, seen, missed>>

Terminated == pc = "answered" /\ UNCHANGED vars

Next == ListChildren \/ SkipUnknown \/ ListFails \/ Change \/ GetCompositions \/ Terminated

Spec == Init /\ [][Next]_vars

-----------------------------------------------------------------------------
(* Properties *)

\* The resources of a cluster right below one, those right below it at some
\* moment of the build, and those of these that were right below it all
\* along and had to be shown by a call for it at the level.
Children(cluster, p) ==
    IF p.kind \in DOMAIN compositionMap
    THEN {Ref(o) : o \in {q \in Range(cluster) : q.kind \in Range(compositionMap[p.kind]) /\ p \in q.owners}}
    ELSE {}

Once(p) == UNION {Children(cluster, p) : cluster \in seen}

Always(p, level) ==
    {c \in Once(p) : /\ \A cluster \in seen : c \in Children(cluster, p)
                     /\ c.kind \in known
                     /\ [level |-> level, kind |-> c.kind, parent |-> p] \notin missed}

\* The resources at a level below the root, by links that there were at
\* some moment each.
Below(level) ==
    LET below[l \in 1 .. level] == IF l = 1 THEN {root} ELSE UNION {Once(p) : p \in below[l - 1]}
    IN  below[level]

\* The resources of a node; those that the list has at a level, with the
\* root at level 1; those that it has there as owned by p.
Resources(node) == {[kind |-> node.kind, name |-> c] : c \in Range(node.children)}
Stored(level) ==
    (IF level = 1 THEN {root} ELSE {}) \union UNION {Resources(n) : n \in {m \in Range(tree) : m.level = level}}
StoredBelow(p, level) == UNION {Resources(n) : n \in {m \in Range(tree) : m.level = level /\ m.parent = p}}

Levels == {1} \union {n.level : n \in Range(tree)}

\* The list in the store has, below each resource it has, only what was
\* there at some moment, and all that was there all along unless a call for
\* it failed or its kind is not known.  So a build that nothing disturbs
\* stores what is below the resource, no more and no less.
StoreFaithful ==
    agenda = <<>> =>
        /\ \A n \in Range(tree) : n.parent \in Stored(n.level - 1)
        /\ \A level \in Levels : \A p \in Stored(level) :
              /\ StoredBelow(p, level + 1) \subseteq Once(p)
              /\ Always(p, level + 1) \subseteq StoredBelow(p, level + 1)

Answer == pc = "answered"

\* Nothing is in the answer that owner references did not put below the
\* resource, or at another level than they did: the answer may misplace a
\* resource, but not invent one.
OnlyDescendants ==
    Answer => \A i \in DOMAIN answer : i # 1 => answer[i].level > 1 /\ Ref(answer[i]) \in Below(answer[i].level)

\* The answer has a resource at most once at a level.
Place(part) == [level |-> part.level, kind |-> part.kind, name |-> part.name]
NoneTwice == Answer => \A i, j \in DOMAIN answer : Place(answer[i]) = Place(answer[j]) => i = j

\* The records nested right in the i-th of the answer.
Nested(i) ==
    {j \in i + 1 .. Len(answer) : /\ answer[j].depth = answer[i].depth + 1
                                  /\ \A k \in i + 1 .. j - 1 : answer[k].depth > answer[i].depth}

\* The answer has the resource asked for, and in each resource those that
\* the calls showed as owned by it.
Follows ==
    /\ answer # <<>> /\ Ref(answer[1]) = root
    /\ \A i \in DOMAIN answer :
          {Ref(answer[j]) : j \in Nested(i)} = StoredBelow(Ref(answer[i]), answer[i].level + 1)

\* "kubediscovery builds the dynamic composition trees by following
\* OwnerReferences of individual resource instances" (README.md:31).
FollowsOwners == Answer => Follows

\* The calls showed no two resources at a level, and none of the kind of one
\* at another level.
IsChain ==
    \A l, m \in Levels \ {1} : \A p \in Stored(l), q \in Stored(m) :
        (l = m => p = q) /\ (p.kind = q.kind => l = m)

\* Where what the calls showed is a chain, cut short or torn as it may be,
\* the answer is that chain, each resource nested in its owner.
ChainFollowsOwners == Answer /\ IsChain => Follows
=============================================================================
