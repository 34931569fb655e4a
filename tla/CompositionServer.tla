-------------------------- MODULE CompositionServer --------------------------
(***************************************************************************)
(* The composition endpoint of kubediscovery running as a server:          *)
(* handleCompositionEndpoint of pkg/apiserver/apiserver.go and             *)
(* BuildCompositionTree and the composition store of                       *)
(* pkg/discovery/discovery.go.                                             *)
(*                                                                         *)
(* net/http serves every request in a goroutine of its own, a worker here. *)
(* A request first rebuilds the store for its namespace (lists the         *)
(* resources of every kind, stores a composition for each, then purges the *)
(* ones of deleted resources) and then reads its answer from the store.    *)
(* storeCompositions and GetCompositions hold the mutex; the purge does    *)
(* not, and neither do readKinds' writes to the global maps of the kinds.  *)
(*                                                                         *)
(* What the cluster holds below a resource is abstracted to a version      *)
(* number.  The composition tree of a resource is built by one List call   *)
(* after another on the way down, and the tree is kept here as what each   *)
(* of them found: the version it saw, or Missed if it failed.  Which calls *)
(* there are, and what becomes of what they find, is in CompositionTree.   *)
(* The status, refreshed together with the tree, is left out.  A slice is  *)
(* read or written as a whole: of what the purge's data race allows, only  *)
(* the death of the process is kept.                                       *)
(***************************************************************************)
EXTENDS Integers, Sequences, FiniteSets, SequencesExt

CONSTANTS
    Workers,      \* the goroutines that serve requests
    Kinds,        \* the keys of compositionMap
    Objects,      \* the resources of these kinds there may be: [kind, name, namespace]
    Clusters,     \* the initial clusters: functions from Objects to versions
    Requests,     \* the possible requests: [kind, name, namespace]
    Deeper(_, _), \* whether the walk below a resource goes on after what it found so far
    NoWorker,     \* the mutex is free
    MaxRequests,  \* bound on the number of requests
    MaxChanges,   \* bound on the changes of the cluster
    MaxFaults,    \* bound on the calls the Kubernetes API server fails
    MaxRestarts   \* bound on the deaths of the process

Reference == [kind : STRING, name : STRING, namespace : STRING]

ASSUME ObjectsAssumption ==
    /\ IsFiniteSet(Objects)
    /\ Objects \subseteq Reference
    /\ \A o \in Objects : o.kind \in Kinds
    /\ Clusters \subseteq [Objects -> Nat]
    /\ Requests \subseteq Reference
\* A fact of TLA+ that the provers do not know.
ASSUME StringsAssumption == {"", "default"} \subseteq STRING
ASSUME WorkersAssumption == NoWorker \notin Workers
ASSUME BoundsAssumption == {MaxRequests, MaxChanges, MaxFaults, MaxRestarts} \subseteq Nat

VARIABLES
    cluster,   \* for each object the version of what is below it, 0 if it does not exist
    store,     \* TotalClusterCompositions.clusterCompositions
    mux,       \* TotalClusterCompositions.mux: the worker that holds it
    handler,   \* the local state of each worker
    counts,    \* the requests, changes, faults and restarts so far
    past       \* no part of the code: the clusters since the process started

vars == <<cluster, store, mux, handler, counts, past>>

Absent == 0
Missed == -1
Part == Nat \union {Missed}
Entry == [obj : Objects, tree : Seq(Part)]

\* pc is the handler's place, request its arguments, todo the kinds still to
\* be listed, list the resources of the kind still to be stored, tree what the
\* List calls below the first of them found, snap, pos and found the loop of storeCompositions
\* (snap also what the purge will leave), names resourceInCluster and answer
\* the response.  Three fields are no part of the code: since, the clusters
\* since the request began, failed, whether an API call failed during it, and
\* alone, whether no other request overlapped it.
NoRequest == [kind |-> "", name |-> "", namespace |-> ""]
Idle ==
    [pc |-> "idle", request |-> NoRequest, todo |-> {}, list |-> <<>>, tree |-> <<>>,
     snap |-> <<>>, pos |-> 1, found |-> FALSE, names |-> {}, answer |-> <<>>,
     since |-> {}, failed |-> FALSE, alone |-> TRUE]

Init ==
    /\ cluster \in Clusters
    /\ store = <<>>
    /\ mux = NoWorker
    /\ handler = [w \in Workers |-> Idle]
    /\ counts = [requests |-> 0, changes |-> 0, faults |-> 0, restarts |-> 0]
    /\ past = {cluster}

At(w, place) == handler[w].pc = place
Active(w) == ~At(w, "idle")

\* One API call of w fails.
Fault == /\ counts.faults < MaxFaults
         /\ counts' = [counts EXCEPT !.faults = @ + 1]

\* What a loop over s that appends the elements at the positions P makes.
Kept(s, P) ==
    LET kept[i \in 0 .. Len(s)] ==
            IF i = 0 THEN <<>>
            ELSE IF i \in P THEN Append(kept[i - 1], s[i]) ELSE kept[i - 1]
    IN  kept[Len(s)]

-----------------------------------------------------------------------------
(* BuildCompositionTree *)

\* handleCompositionEndpoint; without a namespace it takes the default one.
Begin(w) ==
    /\ At(w, "idle")
    /\ counts.requests < MaxRequests
    /\ counts' = [counts EXCEPT !.requests = @ + 1]
    /\ \E r \in Requests :
          LET others == {v \in Workers \ {w} : Active(v)}
              ns == IF r.namespace = "" THEN "default" ELSE r.namespace
          IN  handler' =
                [v \in Workers |->
                    IF v = w
                    THEN [Idle EXCEPT !.pc = "kinds", !.request = [r EXCEPT !.namespace = ns],
                                      !.since = {cluster}, !.alone = others = {}]
                    ELSE [handler[v] EXCEPT !.alone = @ /\ v \notin others]]
    /\ UNCHANGED <<cluster, store, mux, past>>

\* readKindCompositionFile and getResourceKinds.
ReadKinds(w) ==
    /\ At(w, "kinds")
    /\ handler' = [handler EXCEPT ![w].pc = "list", ![w].todo = Kinds]
    /\ UNCHANGED <<cluster, store, mux, counts, past>>

\* The CRDs cannot be read: BuildCompositionTree returns, and the handler
\* goes on to answer from the store as it is.
ReadKindsFails(w) ==
    /\ At(w, "kinds")
    /\ Fault
    /\ handler' = [handler EXCEPT ![w].pc = "get", ![w].failed = TRUE]
    /\ UNCHANGED <<cluster, store, mux, past>>

Existing(kind, ns) ==
    {o \in Objects : cluster[o] # Absent /\ o.kind = kind /\ o.namespace = ns}

\* Mutant of List: resourceInCluster is the last kind's resources only.
ListAnew(w, kind, objs) ==
    LET h == handler[w]
    IN  handler' = [handler EXCEPT ![w] =
                      [h EXCEPT !.todo = @ \ {kind},
                                !.list = SetToSeq(objs),
                                !.names = {o.name : o \in objs},
                                !.pc = IF objs = {} THEN "list" ELSE "build"]]

\* getTopLevelResourceMetaData for the next kind, in map order.  Their names
\* enter resourceInCluster, which tells resources apart by name only.
List(w, kind, objs) ==
    LET h == handler[w]
    IN  handler' = [handler EXCEPT ![w] =
                      [h EXCEPT !.todo = @ \ {kind},
                                !.list = SetToSeq(objs),
                                !.names = @ \union {o.name : o \in objs},
                                !.pc = IF objs = {} THEN "list" ELSE "build"]]

ListKind(w) ==
    /\ At(w, "list")
    /\ \E kind \in handler[w].todo :
          List(w, kind, Existing(kind, handler[w].request.namespace))
    /\ UNCHANGED <<cluster, store, mux, counts, past>>

\* An error is an empty list.
ListKindFails(w) ==
    /\ At(w, "list")
    /\ Fault
    /\ \E kind \in handler[w].todo :
          handler' = [handler EXCEPT ![w].todo = @ \ {kind}, ![w].failed = TRUE]
    /\ UNCHANGED <<cluster, store, mux, past>>

\* buildCompositions has one more call of getResourceMetaData to make.
GoesDown(w) == At(w, "build") /\ Deeper(Head(handler[w].list), handler[w].tree)

\* Mutant of ListBelow: goes down to the resource itself, not to its child.
ListBelowAgain(w) ==
    /\ GoesDown(w)
    /\ UNCHANGED vars

\* The resources of a child kind are listed, as they are by now.
ListBelow(w) ==
    /\ GoesDown(w)
    /\ handler' = [handler EXCEPT ![w].tree = Append(@, cluster[Head(handler[w].list)])]
    /\ UNCHANGED <<cluster, store, mux, counts, past>>

\* An error is an empty list here too.
ListBelowFails(w) ==
    /\ GoesDown(w)
    /\ Fault
    /\ handler' = [handler EXCEPT ![w].tree = Append(@, Missed), ![w].failed = TRUE]
    /\ UNCHANGED <<cluster, store, mux, past>>

\* buildCompositions is done with the resource.
Build(w) ==
    /\ At(w, "build")
    /\ ~GoesDown(w)
    /\ handler' = [handler EXCEPT ![w].pc = "lock"]
    /\ UNCHANGED <<cluster, store, mux, counts, past>>

-----------------------------------------------------------------------------
(* storeCompositions *)

NewEntry(w) == [obj |-> Head(handler[w].list), tree |-> handler[w].tree]

\* The positions the range loop has still to find an entry for the resource at.
Ahead(w) ==
    {i \in DOMAIN handler[w].snap :
        i >= handler[w].pos /\ handler[w].snap[i].obj = Head(handler[w].list)}

\* Mutant of Lock: the mutex is not waited for.
LockAnyway(w) ==
    /\ At(w, "lock")
    /\ mux' = w
    /\ handler' = [handler EXCEPT ![w] =
                     [@ EXCEPT !.pc = "scan", !.snap = store, !.pos = 1, !.found = FALSE]]
    /\ UNCHANGED <<cluster, store, counts, past>>

\* The range expression is evaluated once.
Lock(w) ==
    /\ At(w, "lock")
    /\ mux = NoWorker
    /\ mux' = w
    /\ handler' = [handler EXCEPT ![w] =
                     [@ EXCEPT !.pc = "scan", !.snap = store, !.pos = 1, !.found = FALSE]]
    /\ UNCHANGED <<cluster, store, counts, past>>

\* Mutant of Overwrite: only the loop variable, a copy, is changed.
OverwriteCopy(w) ==
    /\ At(w, "scan")
    /\ \E i \in Ahead(w) :
          /\ \A j \in Ahead(w) : i <= j
          /\ handler' = [handler EXCEPT ![w].pos = i + 1, ![w].found = TRUE]
    /\ UNCHANGED <<cluster, store, mux, counts, past>>

\* Mutant of Overwrite: the loop goes on one position too far.
OverwriteSkip(w) ==
    /\ At(w, "scan")
    /\ \E i \in Ahead(w) :
          /\ \A j \in Ahead(w) : i <= j
          /\ i \in DOMAIN store
          /\ store' = [store EXCEPT ![i] = NewEntry(w)]
          /\ handler' = [handler EXCEPT ![w].pos = i + 2, ![w].found = TRUE]
    /\ UNCHANGED <<cluster, mux, counts, past>>

\* An entry of the resource is overwritten: in the slice that is the store
\* now, which a purge may have replaced since the loop began.
Overwrite(w) ==
    /\ At(w, "scan")
    /\ \E i \in Ahead(w) :
          /\ \A j \in Ahead(w) : i <= j
          /\ i \in DOMAIN store
          /\ store' = [store EXCEPT ![i] = NewEntry(w)]
          /\ handler' = [handler EXCEPT ![w].pos = i + 1, ![w].found = TRUE]
    /\ UNCHANGED <<cluster, mux, counts, past>>

\* Mutant of Panic: the Unlock is not deferred.
PanicLocked(w) ==
    /\ At(w, "scan")
    /\ \E i \in Ahead(w) :
          /\ \A j \in Ahead(w) : i <= j
          /\ i \notin DOMAIN store
    /\ handler' = [handler EXCEPT ![w] = Idle]
    /\ UNCHANGED <<cluster, store, mux, counts, past>>

\* The position is out of range by now.  net/http recovers the panic, the
\* deferred Unlock runs, the client gets no answer.
Panic(w) ==
    /\ At(w, "scan")
    /\ \E i \in Ahead(w) :
          /\ \A j \in Ahead(w) : i <= j
          /\ i \notin DOMAIN store
    /\ mux' = NoWorker
    /\ handler' = [handler EXCEPT ![w] = Idle]
    /\ UNCHANGED <<cluster, store, counts, past>>

\* The handler, at the end of storeCompositions.
Stored(h) ==
    [h EXCEPT !.list = Tail(@), !.snap = <<>>, !.pos = 1, !.tree = <<>>,
              !.pc = IF Len(h.list) = 1 THEN "list" ELSE "build"]

\* Mutant of EndScan: an entry is added although one was overwritten.
EndScanAppend(w) ==
    /\ At(w, "scan")
    /\ Ahead(w) = {}
    /\ handler' = [handler EXCEPT ![w].pc = "append", ![w].snap = store]
    /\ UNCHANGED <<cluster, store, mux, counts, past>>

EndScan(w) ==
    /\ At(w, "scan")
    /\ Ahead(w) = {}
    /\ \/ /\ handler[w].found
          /\ mux' = NoWorker
          /\ handler' = [handler EXCEPT ![w] = Stored(@)]
       \/ /\ ~handler[w].found
          /\ handler' = [handler EXCEPT ![w].pc = "append", ![w].snap = store]
          /\ UNCHANGED mux
    /\ UNCHANGED <<cluster, store, counts, past>>

\* append reads the slice, then the result becomes the store.
AppendEntry(w) ==
    /\ At(w, "append")
    /\ store' = Append(handler[w].snap, NewEntry(w))
    /\ mux' = NoWorker
    /\ handler' = [handler EXCEPT ![w] = Stored(@)]
    /\ UNCHANGED <<cluster, counts, past>>

-----------------------------------------------------------------------------
(* purgeCompositionOfDeletedItems, which does not lock *)

\* Mutant of PurgeScan: nothing is purged.
PurgeNothing(w) ==
    /\ At(w, "list")
    /\ handler[w].todo = {}
    /\ handler' = [handler EXCEPT ![w].pc = "purge", ![w].snap = store]
    /\ UNCHANGED <<cluster, store, mux, counts, past>>

PurgeScan(w) ==
    /\ At(w, "list")
    /\ handler[w].todo = {}
    /\ LET present == {i \in DOMAIN store : store[i].obj.name \in handler[w].names}
       IN  handler' = [handler EXCEPT ![w].pc = "purge", ![w].snap = Kept(store, present)]
    /\ UNCHANGED <<cluster, store, mux, counts, past>>

Purge(w) ==
    /\ At(w, "purge")
    /\ store' = handler[w].snap
    /\ handler' = [handler EXCEPT ![w].pc = "get", ![w].snap = <<>>, ![w].names = {}]
    /\ UNCHANGED <<cluster, mux, counts, past>>

-----------------------------------------------------------------------------
(* GetCompositions and the response *)

Asked(request, obj) ==
    /\ obj.kind = request.kind
    /\ request.name \in {"*", obj.name}
    /\ obj.namespace = request.namespace

\* One step: under the mutex only a purge changes the store, and it puts
\* another slice in its place.
GetCompositions(w) ==
    /\ At(w, "get")
    /\ mux = NoWorker
    /\ LET asked == {i \in DOMAIN store : Asked(handler[w].request, store[i].obj)}
       IN  handler' = [handler EXCEPT ![w].pc = "answered", ![w].answer = Kept(store, asked)]
    /\ UNCHANGED <<cluster, store, mux, counts, past>>

Finish(w) ==
    /\ At(w, "answered")
    /\ handler' = [handler EXCEPT ![w] = Idle]
    /\ UNCHANGED <<cluster, store, mux, counts, past>>

-----------------------------------------------------------------------------
(* The cluster and the Go runtime *)

\* An object is created or deleted, or something below it changes.
Change ==
    /\ counts.changes < MaxChanges
    /\ counts' = [counts EXCEPT !.changes = @ + 1]
    /\ \E o \in Objects, version \in {Absent, counts.changes + 2} :
          /\ cluster[o] # version
          /\ cluster' = [cluster EXCEPT ![o] = version]
    /\ handler' = [w \in Workers |->
                      IF Active(w) THEN [handler[w] EXCEPT !.since = @ \union {cluster'}] ELSE handler[w]]
    /\ past' = past \union {cluster'}
    /\ UNCHANGED <<store, mux>>

\* The places where a handler uses the maps of the kinds.
MapUsers == {w \in Workers : handler[w].pc \in {"kinds", "list", "build", "get"}}

\* One goroutine writes the maps while another one uses them.
MapRace == \E w \in Workers : At(w, "kinds") /\ MapUsers \ {w} # {}

\* The purge uses the store without the mutex, while another goroutine uses it
\* too and one of the two writes.
Unlocked(w) == At(w, "purge") \/ (At(w, "list") /\ handler[w].todo = {})
Writes(w) == handler[w].pc \in {"scan", "append", "purge"}
StoreRace ==
    \E v \in Workers : \E w \in Workers \ {v} :
        /\ Unlocked(v)
        /\ Unlocked(w) \/ handler[w].pc \in {"scan", "append", "get"}
        /\ Writes(v) \/ Writes(w)

\* "concurrent map writes", by which the runtime ends the process, or a fault
\* at the address of a torn slice.  The Pod is started again, with an empty
\* store; its clients' requests have failed.
RuntimeFault ==
    /\ counts.restarts < MaxRestarts
    /\ MapRace \/ StoreRace
    /\ counts' = [counts EXCEPT !.restarts = @ + 1]
    /\ store' = <<>>
    /\ mux' = NoWorker
    /\ handler' = [w \in Workers |-> Idle]
    /\ past' = {cluster}
    /\ UNCHANGED cluster

\* No more requests.
Quiet == /\ \A w \in Workers : ~Active(w)
         /\ counts.requests = MaxRequests
         /\ UNCHANGED vars

\* What a worker does once the API server answers it, and without the mutex.
Work(w) ==
    \/ ReadKinds(w) \/ ListKind(w) \/ ListBelow(w) \/ Build(w)
    \/ Overwrite(w) \/ Panic(w) \/ EndScan(w) \/ AppendEntry(w)
    \/ PurgeScan(w) \/ Purge(w) \/ Finish(w)

Next ==
    \/ \E w \in Workers : \/ Begin(w) \/ Work(w) \/ Lock(w) \/ GetCompositions(w)
                          \/ ReadKindsFails(w) \/ ListKindFails(w) \/ ListBelowFails(w)
    \/ Change \/ RuntimeFault \/ Quiet

\* Goroutines are scheduled fairly, the API server answers every call, and a
\* sync.Mutex starves nobody who waits for it.
Fairness ==
    \A w \in Workers : WF_vars(Work(w)) /\ SF_vars(Lock(w)) /\ SF_vars(GetCompositions(w))

Spec == Init /\ [][Next]_vars /\ Fairness

-----------------------------------------------------------------------------
(* Properties *)

Places == {"idle", "kinds", "list", "build", "lock", "scan", "append", "purge", "get", "answered"}

\* Types of the variables; the loop over the store stays inside what it began
\* with.
TypeOK ==
    /\ cluster \in [Objects -> Nat]
    /\ store \in Seq(Entry)
    /\ mux \in Workers \union {NoWorker}
    /\ handler \in [Workers ->
          [pc : Places, request : Reference, todo : SUBSET Kinds, list : Seq(Objects), tree : Seq(Part),
           snap : Seq(Entry), pos : Nat, found : BOOLEAN, names : SUBSET STRING,
           answer : Seq(Entry), since : SUBSET [Objects -> Nat], failed : BOOLEAN, alone : BOOLEAN]]
    /\ \A w \in Workers : handler[w].pos \in 1 .. Len(handler[w].snap) + 1
    /\ counts \in [requests : 0 .. MaxRequests, changes : 0 .. MaxChanges,
                   faults : 0 .. MaxFaults, restarts : 0 .. MaxRestarts]
    /\ past \subseteq [Objects -> Nat]

\* The mutex is held exactly while its holder is inside storeCompositions: a
\* panic or a restart does not leave it locked, and two handlers are never
\* inside together.
LockDiscipline ==
    \A w \in Workers : (mux = w) <=> handler[w].pc \in {"scan", "append"}

\* The store has one entry for a resource.
StoreUnique == \A i, j \in DOMAIN store : store[i].obj = store[j].obj => i = j

Wanted(request) == {o \in Objects : cluster[o] # Absent /\ Asked(request, o)}

\* All that is below the resource now.
WholeTree(o, tree) == ~Deeper(o, tree) /\ \A i \in DOMAIN tree : tree[i] = cluster[o]

\* The answer has every resource asked for that exists, with all that is below it now.
Complete(h) ==
    \A o \in Wanted(h.request) :
        \E i \in DOMAIN h.answer : h.answer[i].obj = o /\ WholeTree(o, h.answer[i].tree)

\* A request during which no API call failed and the cluster did not change
\* gets a complete answer.
AnswerComplete ==
    \A w \in Workers :
        At(w, "answered") /\ ~handler[w].failed /\ handler[w].since = {cluster} => Complete(handler[w])

\* What the client of a worker's request sees of it.
Session(h) ==
    [at        |-> IF h.pc \in {"idle", "answered"} THEN h.pc ELSE "asked",
     request   |-> h.request,
     since     |-> h.since,
     disturbed |-> h.failed \/ ~h.alone,
     answer    |-> Range(h.answer)]

Service == INSTANCE CompositionService WITH
               session <- [w \in Workers |-> Session(handler[w])],
               faulty <- counts.faults > 0

\* Every request is answered as CompositionService says: whatever earlier and
\* concurrent requests left in the store, an undisturbed request is told of
\* all that was there, with a tree none of whose lists is older than the
\* request or missing, and of nothing that was not; and no answer has a list
\* from before the process was started, or misses one if no call ever failed.
Serves == Service!Spec

\* Every request is answered, or fails, after a while.
Answered == \A w \in Workers : Active(w) ~> ~Active(w)
=============================================================================
