# A verification project for kubediscovery

kubediscovery finds out how the resources of a Kubernetes cluster hang
together.  As a command, `kubediscovery connections <kind> <instance>
<namespace>` walks the graph of resources related by labels, properties,
environment variables, annotations and owner references.  As a server in the
cluster it answers `/composition` requests with the tree of resources a resource
is made of.  This directory holds TLA+ models of both, TLC runs that check
small instances of them, and TLAPS proofs of their safety properties for any
cluster, among them that the object cache and the composition server implement
their abstract specifications.

## 1. The system

| component | code | state | operations | interacts with |
|---|---|---|---|---|
| connections command | `main.go`, `relationships.go` | `visited` (threaded through the calls), `TotalClusterConnections`, `NamespaceToSearch`, the call stack | `GetRelatives`, `findRelatives`, `buildGraph`, `searchNextLevel`, the three find...Connections, `PrintRelatives` | calls the searches, the lists, the composition store |
| connection lists | `utils.go` | none | `AppendConnections`, `appendConnections1`, `filterConnections` | called by the traversal |
| relationship searches | `relationships.go` | none | `searchLabels`, `searchSelectors`, `searchSpecProperty*`, `searchAnnotations`, `findOwner`, ... | API server through the object cache, maps of the kinds |
| output formats | `utils.go` | none | `printConnections`, `printPath`, tabs, JSON | reads the result |
| composition endpoint and store | `apiserver.go`, `discovery.go` | `TotalClusterCompositions` (store and mutex), one goroutine per request | `BuildCompositionTree`, `storeCompositions`, `purgeCompositionOfDeletedItems`, `GetCompositions` | API server, maps of the kinds; the command calls it once too |
| composition trees | `discovery.go` | none (recursion over a list of nodes) | `buildCompositions`, `getComposition` | the store keeps the list of nodes |
| registry of kinds | `types.go`, `discovery.go` | `KindPluralMap`, `kindVersionMap`, `kindGroupMap`, `compositionMap`, `crdcompositionMap`, `relationshipMap` | `init`, `readKindCompositionFile`, `parseCRDAnnotions`, `parseRels` | written by every request, read by all the others |
| man command and endpoint | `operatordocs.go`, `apiserver.go` | none (a loop over the CRDs) | `GetUsageDetails`, `readConfigMap` | API server |
| resource details endpoint | `apiserver.go`, `discovery.go` | none | `QueryResource` | the maps of the kinds, as earlier requests left them |
| object cache | `utils.go` | `kubeObjectListCache`, `kubeObjectCache` | `getKubeObjectList`, `getKubeObject` | between the searches and the API server |
| rest | `operatordocs.go`, `start.go`, ... | none | explain, metrics, configuration, code nothing calls | |

What is hard in it, and what would make each component correct:

* **The traversal** recurses over a graph with cycles.  It ends only because the
  visited list never forgets and never doubles a resource.  A relation is met
  from both its ends, by several types, at several levels, in an order Go's
  random map iteration decides; the result should tell it once and leave none
  out.  A failing search looks like one that found nothing.  A global namespace
  changes on the way.
* **The store** is shared by concurrent requests; two of its three writers lock
  it, the purge does not.  The maps of the kinds are not locked at all.  A
  request should get a complete answer that is true of the cluster, whatever
  earlier and concurrent requests did, when the API server fails, and after
  the process was restarted.
* **The registry** is six maps that are filled one CRD at a time, while CRDs
  change and reads break off; two CRDs may have one kind, two kinds one plural, a
  CRD the kind of a built-in.  What the maps have of one kind should be of one
  CRD, and a kind that is known should stay so.
* **The cache** answers most reads of a command from lists that were read
  earlier, and takes any error of a read for a sign of a cluster-scoped kind.  An
  answer should be one the cluster could have given, of the namespace asked for.
* **The trees** are read with one List call for each resource and child kind, while
  the cluster changes and calls fail, and an error is an empty list.  They are
  flattened into a list by level and kind and put together again from that list
  without the parents' names: nothing should be invented, lost, doubled, or placed
  under another parent.

`PROJECT.json` lists the hazards at their lines.

## 2. The modules

    Connections          RelationshipSearch
              \            /
               Relatives ------------ MCRelatives            (TLC)
                   \----------------- RelativesProofs        (TLAPS)
                                          \-- ReportedProofs (TLAPS)
    APIServer
        |---- ClusterReads  (abstract)
        |          ^ implements
        \---- ObjectCache ----------- MCObjectCache          (TLC)
                    \---------------- ObjectCacheProofs      (TLAPS)
    CustomResources ----------------- MCCustomResources      (TLC)
                    \---------------- CustomResourcesProofs  (TLAPS)
    CompositionService  (abstract)
              ^ implements
    CompositionServer --------------- MCCompositionServer    (TLC)
                    \---------------- CompositionServerProofs (TLAPS)
                                          \-- ServesProofs   (TLAPS)
    CompositionTree ----------------- MCCompositionTree      (TLC)
                    \---------------- CompositionTreeProofs  (TLAPS)

`ListProofs` has lemmas about naturals and lists for `CustomResourcesProofs`,
`CompositionServerProofs` and `CompositionTreeProofs`.

`Relatives` takes the reads of the cluster from `RelationshipSearch`, over a
cluster that does not change; `ObjectCache` is what lies between the two when it
does.  `Relatives` takes the maps of the kinds as constants, and `CustomResources`
is how they come about.  `CompositionServer` has the reading of the CRDs as one
step, and of a tree the versions that its List calls saw; `CustomResources` and
`CompositionTree` are these in detail.

**Connections** is `utils.go`'s handling of connection lists, as operators on
sequences of records `[level, kind, name, namespace, relType, peer]`.  Relation
details are text for the reader and are left out.

**RelationshipSearch** has the searches as operators over the sequence of the
cluster's objects.  A search returns indices of objects.  Where the code takes
the first value it meets in a Go map (`findFieldValue`), the operator returns the
set of all results it may have.  Labels and selectors are sets of pairs; that an
annotation's or a variable's value contains a name is a membership in a set.
`Listed` and `Get` are what the cached calls return over a cluster that does not
change.

**Relatives** is the command.  The Go call stack of `GetRelatives` is the
variable `stack`: a frame has the searches the activation has still to make
(`todo`) and what is left of the batch the last one found.

| action | code |
|---|---|
| `Start`, `NotFound`, `PrintRelatives` | `main.go`: existence check, root at level 0, output |
| `SearchTask` | the next search of `findRelatives` (downstream by position, then upstream kinds in any order, parent, children, composition) and `filterConnections` on what it finds |
| `SearchFails` | the same, with an error of the API server |
| `AddPeer` | `appendCurrentLevelPeers`: the whole batch enters `visited` before any of it is searched |
| `Descend` | one round of `searchNextLevel`, or of the loops like it: `AppendConnections`, the namespace, the recursive call with its ignore check |
| `AppendSeen` | the last loop of `buildGraph` and its likes |
| `Return` | the end of an activation |

The constants are the clusters, the arguments, the ignore lists, the maps of the
kinds and the lists `findChildKinds` may return.  `MCRelatives` gives them values:
the built-in relationships of `types.go` for the kinds used, and a custom
resource kind `Moodle` with a label, a property and two annotation relationships.

**ObjectCache** is `getKubeObjectList` and `getKubeObject`.  A read asks the cache
(`ListHit`, `ObjectHit`), then the API server in the namespace (`List`, `Get`), and
when that fails, for whatever reason (`Fails`), once more without a namespace
(`RetryList`, `RetryGet`, `RetryFails`); lists are kept, for single objects only
those a list holds are found again.  Between the calls the cluster changes
(`Change`), along the revisions the API server gives its objects.  **APIServer**
has what the four calls return.

**ClusterReads** says what a command may rely on when it reads: each answer is what
the API server would have said at one moment, one during the read, or one since
the command began if the kind was listed in the namespace before; a list has
objects of another namespace only if a call failed.  `ReadsTruly` is that
`ObjectCache` implements it; the refinement maps `listed` to the domain of the
list cache and `wide` to the keys whose lists hold other namespaces.

**CustomResources** is the two loops over the cluster's CRDs.  A request for a
composition lists the CRDs (`ListCRDs`), gets each one and registers it in all six
maps (`GetCRD`, `parseCRDAnnotions`), or reads the composition file instead
(`ReadFile`), and then looks its kind up by its plural (`Look`).  A request for a
manual gets each CRD of the kind (`GetManCRD`), reads the ConfigMap it names
(`readConfigMap`), and panics on an annotation without a dot (`ManPanics`).  One
for a resource's details uses the maps as they are (`QueryResource`).  The loop
breaks off when a CRD is gone or a call fails (`GetFails`).  `parseRels`
returns the set of what it may return over all orders of the annotations.
`kindVersionMap` has a path as it is written, the sequence of its parts: that of a
CRD begins with `apis`, those of the built-ins are as in `types.go`, where Namespace
and Secret have `v1` and Ingress `networking.k8s.io/v1`, without `api` or `apis`.
`QueryResource` asks at the path as it is, `getKindAPIDetails` takes the version from
its last part and the group from another map.

**CompositionServer** is the endpoint with its concurrent handlers.  A handler is a
record with a place (`pc`) and its local variables; a step is what it does between
two points where another one could interfere: the reads of the maps of the kinds,
each list call, the mutex, each overwritten entry, the append (which reads the slice
before it writes it), the scan of the purge and its assignment, the answer.  The
tree of a resource is built by one step for each List call below it (`ListBelow`, or
`ListBelowFails`: an error is an empty list), as long as it `GoesDown`.  What the
cluster holds below a resource is reduced to a version number, and the tree to the
sequence of the versions its calls saw, or `Missed`; the constant operator `Deeper`
says whether after these there is another call to make, so that a call that failed
may cut the tree short.  `Panic` is the index that a concurrent purge moved out of
range (recovered by `net/http`, with the deferred `Unlock`).  `RuntimeFault` is the
death of the process, by Go's fatal "concurrent map writes" (`MapRace`) or at a
slice header that another request has written by half (`StoreRace`), after which the
Pod starts again with an empty store.  `Change` is the cluster.  `Kept` is the loop
that copies the elements to keep to a new slice, in the purge and in the answer.

**CompositionService** is what the client of `/composition` may rely on: no store,
no mutex and no purge, only requests, and what the cluster was while they were
served.  An answer holds only resources that were there since the process started,
each with a whole tree, of which every list is of some moment since then, or missing
if a call failed.  The lists of one tree need not be of one moment, and no one of
them need be of this request.  A request that nobody overlapped and during which no
call failed is told of all resources that were there all the time, and of nothing
that was not there at all, unless a resource of its name was: that exception
(`Namesake`) is the purge's comparison by name alone.  In the trees it is told of,
each list is of a moment of the request, and none is missing.  So if the cluster did
not change meanwhile, it is told what there is. `Serves` is that `CompositionServer`
implements it; `Session` is the refinement mapping of a handler.

**CompositionTree** is `buildCompositions` and `getComposition` for one request
and one resource, with the flat list of nodes in between.  The recursion of
`buildCompositions` is its `agenda`, the List calls it has still to make, those of the
nested calls first: one resource and one child kind each.

| action | code |
|---|---|
| `ListChildren` | `getResourceMetaData` returns the resources of the kind that the parent owns; `buildCompositions` makes a node of them and goes down to each |
| `SkipUnknown` | the kind has no plural or version: an empty list, no call |
| `ListFails` | the client or the call fails: an empty list |
| `Change` | the cluster becomes another one, between two calls |
| `GetCompositions` | the tree is stored and the answer made of it |

A node also has the `parent`, which the code keeps in the owner reference of each
child.  A Go loop is `Loop`, a fold with one step per element.  Only the calls
nested in a call of `getComposition`, which touches nothing shared, are functions:
one per number of calls that may be nested, as a call has fewer nodes to search than
the one it is made in.  The nested records of an answer are the list of them in
preorder, with how deep each is nested (`Part`).

The properties compare the list and the answer with the clusters that the build has
seen, and with the calls that failed: `Once` is what some of these clusters have
right below a resource, `Always` what all of them have, of a known kind and without
a failed call; `Below` is what links that were there `Once` put at a level below the
root; `Stored` and `StoredBelow` are what the list has, `Nested` is what a record of
the answer has.

Operators called *mutant* are variants of a definition with a plausible mistake;
each shows that some property would notice it.  No action uses them.

## 3. The runs

Passing:

| run | instance | states | what it shows |
|---|---|---|---|
| `connections_web` | two clusters (8 objects each), 12 inputs, 3 ignore lists, one failing search | 52,995 | types; `VisitedUnique`, `VisitedMonotone` and `Terminates` although the relations loop; every visited resource is reported (`VisitedReported`) and printed (`NothingLeftOut`), even if a search failed; no relation of the application is missing, unless it is of an ignored resource (`RelationsReported`) |
| `connections_mixed` | all 192 clusters of 4 objects, and the web application; 3 roots | 68,461 | `RelationsReported`: what a search from a reported resource is sure to find is reported, in each of these clusters; `RepeatedOnlyFromRoot` |
| `cache_reads` | one Pod changing in one namespace, one in another, a cluster-scoped Node; 5 reads in any order, 2 changes, 1 failing call | 686,076 | the cache implements `ClusterReads` (`ReadsTruly`); what is kept was true (`CacheTruthful`); a list is no older than what single reads found (`NeverBack`) |
| `kinds_any` | 7 sets of CRDs, 5 requests in any order and number, with and without the file, 2 changes, 1 failing call | 795,463 | the six maps agree on one CRD (`KindsWhole`), have what the cluster has after an undisturbed read (`CurrentRegistered`), never lose a kind (`NothingForgotten`), number relationships without gaps (`RelationsInOrder`); the kind asked for is the kind answered (`LookupRight`); details are asked for where one CRD of the kind is, or at the path written for the built-in (`DetailsAsked`); manuals are true and not lost (`ManTrue`, `ManComplete`) |
| `composition_sequential` | 1 handler, 3 requests, 1 change (during a request too, between the List calls of one tree), 2 failing calls, 2 namespaces, 3 resources of which one may not exist | 213,197 | the server implements `CompositionService` (`Serves`), though trees are torn and cut short; one entry per resource (`StoreUnique`); every request is answered (`Answered`) |
| `composition_concurrent` | 2 handlers, 3 requests, 1 change, 1 restart | 822,197 | the same refinement while requests overlap, panic and kill the process; the mutex is held exactly inside `storeCompositions` (`LockDiscipline`) |
| `composition_one_namespace` | 2 handlers, 3 requests, 1 namespace, no change | 48,105 | concurrent requests for the same namespace do not hurt each other (`StoreUnique`, `AnswerComplete`, `Answered`) |
| `tree_any` | any two of 32 clusters, which alternate during the build; 4 composition maps, 3 roots, a kind that may be unknown, 2 failing calls | 578,196 | the list in the store has, below each resource it has, only what was there at some moment, and all that was there throughout where no call failed and the kind is known (`StoreFaithful`); the answer invents and doubles nothing (`OnlyDescendants`, `NoneTwice`); where what the calls showed is a chain, the answer is that chain (`ChainFollowsOwners`) |

Each of the following checks one statement of the repository and finds it wrong:

| run | statement | what happens |
|---|---|---|
| `connections_twins` | "we are able to discover all relationships" (`relationships.go:858`), as `RelationsDiscovered` | a Service and a custom resource of one name: a Pod's relation to one is taken for its relation to the other, as `compareConnectionsRelType` ignores the peer's kind |
| `composition_lost` | information is lost "when this Pod is deleted" (`discovery.go:443`) | a purge for one namespace drops what another request has just stored |
| `kinds_file` | the plurals and endpoints of `kind_compositions.yaml:6-7` | the file sets a kind's version but not its group, so a ReplicaSet is asked for at `apps/v1beta1`, neither the file's endpoint nor the code's |
| `tree_rolling_update` | trees are built "by following OwnerReferences" (`README.md:31`) | Pods of the second ReplicaSet appear under the first |

Other limits of the code are in the specifications, as exceptions: a deleted
resource is answered while one of its name exists (`Namesake`); a relation of the
root may be reported twice (`RepeatedOnlyFromRoot`); `NamespaceToSearch` is never
reset, so what follows a Namespace is searched in it (`RhsNamespace`); a list read
while calls failed has objects of other namespaces, for the rest of the command
(`wide`); the built-ins Namespace, Secret and Ingress are asked for at a path that the
API server does not have (`DetailsAsked`; no document says otherwise); a List call
that fails below a resource is not told from one that found nothing (`Always`,
`Missed`).

*Bounds.*  `MaxFaults` bounds failing calls, `MaxRequests`, `MaxChanges` and
`MaxRestarts` the server's environment; the reads of the cache and the requests to
the registry are not bounded.  A third request is what it takes to see what two
earlier ones, overlapping or not, leave in the store; two handlers are enough for
each race, which is always between one that purges or writes maps and one that
stores.  The server's one change may be a resource that comes, goes or changes, at
any point of three requests, also between two List calls of one tree; its two
failing calls may hit one request, or two of which the later one finds what the
earlier one has stored.  In the cache and the registry two changes are enough for an
object or a CRD to come and go, or to change twice, during one read and between two.
The clusters of `connections_mixed` have cycles of two and three resources, of one
relationship type and of several; `connections_web` adds depth (Deployment,
ReplicaSet, Pod, Service, Ingress, claim, Namespace).  The ignore lists have a kind
with a star, a single resource, and nothing.  The sets of CRDs of `kinds_any` have
two CRDs of one kind, two kinds of one plural, a CRD of a built-in's kind, and one
CRD in three versions. `MaxMissed` and `MaxClusters` bound the failing calls and the
clusters of one build: two failures, at two levels or next to each other, and two
clusters, between which it may go back and forth, so that a list may be older or
newer than both its neighbours. No resource of these clusters is above itself, in
one or in several together: on such clusters the build need not end.  `MCDeeper`
gives one Moodle two List calls, of which the second is not made when the first one
failed, and the others one.

*Properties that hold only in part.*  `RelationsReported` is about runs without a
failed search, about relations that are certain (not a matter of map order) and
about searches that are `Unambiguous`.  That has two parts.  No resource has the
same relation to two resources of one name and different kinds, which is what
`connections_twins` is about; resources of one name alone do no harm.  And the
search does not leave its namespace (`OneNamespace`): once `NamespaceToSearch` is
another one, what a search finds depends on when it is made, and "sure to find"
means nothing.  Of the clusters of the runs all of `connections_mixed` are
unambiguous from every root, and the application of `connections_web`; its release,
which has a Namespace of its own, is not. `AnswerComplete` is about requests during
which no call failed and the cluster did not change, the completeness in
`CompositionService` about those that no other request overlapped: the rest is what
`composition_lost` shows to be false. `KindsWhole` is about a process without the
file, `kinds_file` about one with it.

*Fairness.*  The command is one thread that waits for nothing but API calls with an
answer: weak fairness of its steps.  In the server, goroutines are scheduled and
calls answered (weak fairness of each handler's steps), and waiting for a
`sync.Mutex` ends (its starvation mode hands the lock over; strong fairness of
`Lock` and `GetCompositions`).  Nothing is assumed of requests, faults, changes and
restarts.  The cache and the registry have no liveness property: each of their reads
is a loop over a finite list.  Deadlock is checked in every run; the process that
has printed its result, and the server with no request left, stutter in an action of
their own (`Terminated`, `Quiet`).

## 4. The proofs

All proofs are for every value of the constants that satisfies the modules' named
assumptions: every cluster, relationship map and set of CRDs, any number of
handlers, requests, changes and failing calls.  Each theorem rests on an
inductive invariant, proved for `Init` and then action by action.

| module | theorem | states |
|---|---|---|
| `RelativesProofs` | `TypeCorrect` | `Spec => []TypeOK` |
| | `VisitedOnce` | `Spec => []VisitedUnique` |
| | `RepeatsFromRootOnly` | `Spec => []RepeatedOnlyFromRoot` |
| | `VisitedOnlyGrows` | `Spec => VisitedMonotone` |
| `ReportedProofs` | `AllReported` | `Spec => []VisitedReported` |
| | `AllPrinted` | `Spec => []NothingLeftOut` |
| | `RelationsAllReported` | `Spec => []RelationsReported` |
| `ObjectCacheProofs` | `TypeCorrect`, `Truthful`, `ListsNoOlder` | `Spec => []TypeOK`, `[]CacheTruthful`, `[]NeverBack` |
| | `Implements` | `Spec => ReadsTruly`, the refinement of `ClusterReads` |
| `CustomResourcesProofs` | `TypeCorrect` | `Spec => []TypeOK` |
| | `KindsKept` | `Spec => NothingForgotten` |
| | `WholeKinds`, `ReadRegisters` | `Spec => []KindsWhole`, `[]CurrentRegistered` |
| | `ManualsTrue`, `ManualsFound` | `Spec => []ManTrue`, `[]ManComplete` |
| | `DetailsTrue`, `LooksUpKind` | `Spec => []DetailsAsked`, `[]LookupRight` |
| | `RelationsOrdered` | `Spec => []RelationsInOrder` |
| `CompositionServerProofs` | `Locked`, `TypeCorrect` | `Spec => []LockDiscipline`, `[]TypeOK` |
| `ServesProofs` | `Implements` | `Spec => Serves`, the refinement of `CompositionService` |
| | `UniqueAlone`, `CompleteAlone` | with one worker, `Spec => []StoreUnique`, `[]AnswerComplete` |
| | `UniqueTogether`, `CompleteTogether` | with one namespace and an undisturbed cluster, the same for any number of workers |
| `CompositionTreeProofs` | `StoreIsFaithful` | `Spec => []StoreFaithful` |
| | `AnswerHasOnlyDescendants`, `AnswerHasNoneTwice` | `Spec => []OnlyDescendants`, `[]NoneTwice` |
| | `ChainAnswered` | `Spec => []ChainFollowsOwners` |

So every invariant, action property and refinement that a passing run checks is a
theorem; what only TLC checks is liveness.

*Relatives.*  `InductiveInv` is the conjunction of the first three.  The two list
invariants need the types (lists are sequences, items of a batch pairs of a number
and a connection, the first of a batch exists), and the types need that a task
names a relationship of its kind: `TypeOK` says so in `Task`, since `Relationship`
divides by the number of them.  The work is in the lemmas: what `AppendConnections`
and `appendConnections1` do to a list (`AppendConnectionsRepeats`,
`appendConnections1Properties`), that removing an entry keeps a list free of
repeats (`RemoveRepeats`), and that all batches, of searches that fail too, are
sets of items (`BatchType`, `FailedBatchType`).

*Reported.*  `VisitedReported` is about the end of the command only.  Before that a
resource may be visited and not reported: `appendCurrentLevelPeers` enters a whole
batch.  `ReportedInv` says that it then waits in a frame of the stack
(`ReportedOrWaits`), that what is still to enter the visited list waits as well
(`PeersWait`), and that the stack is empty when the search is over.  Two lemmas
carry it: an entry `AppendConnections` drops is made up for by the one it adds
(`AppendConnectionsTells`), and only the resource visited is new to the visited
list (`VisitedMembers`).

*Printed.*  `NothingLeftOut` comes down to the beginning of the result: the formats
start a branch at each connection of level 1, and what comes before the first one
but the root is in none.  `Laid` says that the result begins with the root and that
its second connection, if there is one, has level 1.  `AppendConnections` can undo
this in one way only.  A connection found from the root takes the place of its
reverse and goes to the end; at the second place the reverse has level 1 too, and
then both relate the root to itself (`ReverseOfLoop`).  So `Laid` demands that such
a loop is followed by another connection of level 1, which is no loop; `Deep`, which
holds as soon as the traversal is below the root, that it is followed by one.  That
`Deep` holds by then is the last part: what is searched further from the root is
not the root (`Stands`), because the root was visited in the namespace it is
searched in (`RootVisited`), and `filterConnections` keeps it out.

*Relations.*  `RelationsReported`, too, is about the end of the command only, and on
the way to it a relation may be dropped for three reasons: `AppendConnections` has
its reverse, or an entry it takes for the same, or drops an entry for the new one;
`filterConnections` keeps a resource from being searched again; and what is found
again by a shorter path is found at another level than before.  `Told` says that the
result tells of a relation from either end.  `ToldStays`: what is told of stays so,
since an entry dropped has its relation told by the one added.  `NowTold`: what is
added is told of, unless an entry with a peer of another kind is taken for it,
which `Unambiguous` rules out of all that is findable.  `BatchAtAnyLevel`: what a
task finds is the same at any level, up to the level.  So it is enough that the tasks
of each visited resource are done once, wherever.  `RelationsInv` says of each of them
that it is `Pending`: dealt with (`Accounted`: some batch it may find is told of), or
to be done or at work in an activation of that resource, or the resource itself has
still to be searched in some activation (`Awaits`).  It also says that what waits
and what is in the result is findable, and that the resources in the result are
visited or ignored.  All this is in one namespace: `WithinInv` says that the search
has not left the input's, so that `BatchesKept` can say that no step changes what a
task would find.  At the end the stack is empty, and of the three ways to be pending
only the first is left.

*ObjectCache.*  `InductiveInv` adds to `TypeOK`, `CacheTruthful` and `NeverBack` that
no cluster of the past has newer revisions than the present one (`PastBefore`), and
that a read which has given up the namespace did so because of a failed call or
of what one cluster of its time did not have (`ListGivenUp`, `ObjectGivenUp`).
The last two are what the abstract reader demands of an error and of a list of
all namespaces; with them each step maps to one of `ClusterReads` or to none.

*CustomResources.*  `WholeInv` adds that the maps have the same kinds and that the
CRDs of the cluster are among those seen; `ReadInv` that during a read nobody
disturbed, all CRDs not in `todo` are registered; `ManInv` that what was found so
far was named by a CRD of the kind, during the request; `FullInv` that once an
undisturbed request has passed a CRD of the kind that names a manual, the text found is
such a manual.  `DetailsAsked` follows from the first two, the built-ins being
known from the start.  `LookupInv` says that an undisturbed request looks its kind
up only when all CRDs of the cluster are registered; then a CRD of that kind is, and
the kinds that have its plural are those some CRD or built-in once gave it.
`RelationsInOrder` is about the loops of `parseRels`, folds over the annotations in
any order: `Counted` is their invariant (the numbers below the one it counts to are
all there, in order and once, and of what was met so far the unnumbered ones and the
first), proved round by round, and `Orderly` what is left of it for the lists of the
three types put one after another.  `TypeCorrect` comes last, since the type of what
is registered is that of a CRD (`MapsTyped`, `ReaderTyped`, `ReplyTyped`,
`HistoryTyped`).  `ListProofs` has the facts about lists that the library lacks:
induction on the naturals as a statement about a set, the tail of a list, and that
`SetToSeqs` yields lists of the set.

*CompositionServer.*  `LockInv` needs no more of the handlers than that each is a
record with a place.  The five lemmas before the steps are the ways a handler may
move with regard to the mutex; each action is an instance of one.  `TypeInv` adds to
the types that a handler in the loop over the resources of a kind has one to store
(`HasHead`), `PosInv` that the position of the loop over the store is inside what it
began with.  What the purge and the answer keep of a list is `Selects`: the elements
at the positions wanted, each once and in order; `Kept`, a recursive function, is
shown to be that by induction on the rounds of its loop.

*Serves.*  `SInv` adds to these two parts.  `PastInv` is about all requests: every
entry, in the store, in a handler's copy or in an answer, has a whole tree (`Deeper`
has no more to ask), each list of which is of a cluster since the process started,
or `Missed` if a call ever failed (`Tells`), and so is what there is of the tree at
work.  That alone gives the first promise of `CompositionService`.
`AloneInv` and `FreshInv` are about the one request that nobody overlapped
(`AloneInv` says there is only one) and that met no failing call, so that no list of
the tree at work is missing and all are of moments of the request.  For each
resource listed so far it says that the resource is still in the handler's list or
`Updated` in the store: there, and only as it was during the request (`ListedOK`);
of the loop of `storeCompositions`, that the entries passed are new (`ScanOK`,
`PassedOK`); and after the last kind, that an answer from the store would be right
(`Ready`), before the purge and after it.  Each action then has an abstract
counterpart or none under `Session`, most of them because they do not change what
a client sees; the ones that answer and that leave use the two parts above.

*One handler, one namespace.*  `StoreUnique` and `AnswerComplete` do not hold of the
server in general: `composition_lost` shows the second false, and the unlocked purge
of one request may put back an entry that another is about to append.  The theorems
state the two cases in which they do, each as the hypothesis of the theorem:
requests that come one after another (`OneWorker`, whatever fails and changes), and
overlapping requests for one namespace while the cluster does not change and no call
fails (`SameNamespace`, `Undisturbed`).  In the second case no handler finds the
store changed under it in a way that matters: all rebuild the same entries, each
with as many lists of the one version as `Deeper` asks for (`Whole`), and each purge
leaves all of them (`TogetherInv`), although it takes no lock.  The hypotheses are
those of the runs `composition_sequential` and `composition_one_namespace`.

*CompositionTree.*  `IInv` is `TypeOK`, `Built` and `Answered`.  `Built` is about the
list of nodes and the agenda, at any point of the build.  `RightNode`: the resources
of a node are all `Once` below its parent, and are all those that are `Always` there.
`Placed`: the parent of a node is the root or in an earlier node, a level above.
`RightCall`: a call on the agenda is for a kind that the composition map has below its
parent's.  `Complete`: each resource of the list has, for each kind below its own, a
node or a call on the agenda.  What one call adds is the same for a list, a failed
call and an unknown kind (`ShowsStep`); only that its node is right differs
(`ListChildrenStep`, `NothingStep`).  A change makes `Once` larger and `Always` smaller
(`RightLater`), so what was right stays so.  When the agenda is empty,
`Complete` says that all nodes are there, and with the other three that is
`StoreFaithful`; `Placed` brings each node down from the root (`StoredBelowRoot`).

`Answered` says that the answer is `getComposition` of the list; the rest is about
this function.  `LoopInvariant` is the rule for the loops: what holds at the start and
is kept by each round holds of the result.  By induction on how many calls may
still be nested (`SoundGet`): the parts a call adds are its own and resources of its
nodes, each of a node that was not processed before the call and is after it, and
each once.  As the processed nodes are shared by all calls, none is there twice, even
though Go passes the same node to many calls.  If what the calls showed is a chain
(`IsChain`), the nodes with a resource have one each (`ChainUnique`) and are in the
order of their levels (`BuiltOrdered`); the first node a call finds with a
resource is then the one right below (`OwningNode`), and after the call for it all
others are processed (`ChainSearch`), so that no round is lost by the first child's
having emptied what the next one may search.  `IsChain` also demands that no kind is at
two levels below the root: `Trimmed` drops the nodes of the same kind with those of
the same level, and the rest of such a chain with them.

The assumptions are named in the modules, and TLC evaluates them on every instance:
clusters are sets or sequences of objects with one object of a name, requests and
inputs records of strings, the bounds natural numbers, and (for the provers, which
do not know it) the literals of the code are strings.  The inputs' names need not
exist.  `Deeper` is any operator, and in `CompositionTree` owners may go in circles:
a build that does not end answers nothing.  In `Relatives`, objects and their owners
have kinds, and no object is composed of itself (`IsCluster`).  A CRD has finitely
many annotations and no two CRDs one name; a ConfigMap is not named by a single dot;
the built-in relationships have no number, as in `types.go`.

*Only model-checked.*  Liveness: `Terminates` and `Answered`.  Both rest on fairness and
on actions being enabled, which are out of the prover's reach.

## 5. What is not modelled

* A slice header read or written by halves: the purge's data race can do worse
  than what `CompositionServer` does, which is to end the process (`StoreRace`): such
  a header may also show entries that are none.  The scan of the purge is one step; it
  reads the slice once, but the entries while others may overwrite them.
* The contents of the trees in `CompositionServer`: it has the version that each List
  call saw.  Which calls there are, what each one returns, and what the answer makes of
  it are in `CompositionTree`, where one build is alone.
* In `Relatives`, a failed list call whose retry without a namespace succeeds: the
  search then goes on with the resources of all namespaces, and so do later ones, from
  the cache.  A failing search there has only fewer results (`FailedBatches`);
  `ObjectCache` has the retry and what it leaves in the cache.
* What the API server answers to a path: `CustomResources` says what
  `QueryResource` asks for.  It puts `/namespaces/` into the path of a cluster-scoped kind
  too.
* The concurrent change of the cluster during the traversal itself: `ObjectCache`
  says what its reads return then, `Relatives` is checked over a fixed cluster.
* Kinds given more than one target by one annotation: each target is a
  relationship of its own.
* The target kinds and instances within a relationship annotation: text to be
  split; `CustomResources` has their keys, types, numbers and order.
* The composition file is read as it is; one that does not parse is `ListFails`.
* `printPath`, the tabbed and JSON formats, colours, messages: layout of a result
  that `printConnections` has already selected.
* Explain: reads of what another program put into etcd, then text.  Metrics: one
  GET, printed as it is.
* A details request at the same time as one for a composition: it reads the maps
  of the kinds and can meet the `RuntimeFault` of `CompositionServer` like another
  composition request.
* Start-up: flags, environment and kubeconfig.  `start.go`'s aggregated API server
  is not started by `main.go`.
* Code that nothing calls: etcd, `getComposition1`, `prepare`, `setPeers`,
  `FetchGVKs` (its call at `main.go:140` is a comment) ...

## 6. What is left

1. The traversal over the changing cluster of `ObjectCache`, instead of a fixed one:
   the invariants about relations would be about what was so at one moment of the
   command.
2. A measure for `Terminates`: the resources not yet visited, the tasks left and the
   items left, in that order.
