---------------------------- MODULE ServesProofs ----------------------------
(***************************************************************************)
(* That the composition server implements CompositionService (Serves), for *)
(* every number of handlers, and what follows of the store and the answers *)
(* when requests come one after another (StoreUnique, AnswerComplete) or   *)
(* when they overlap but the cluster stays as it is.                       *)
(*                                                                         *)
(* The invariant has a part about the past (no list of a tree is of a      *)
(* cluster that never was, and none is missing before a call failed), and  *)
(* a part about the request that is alone: what it did to the store so     *)
(* far, for each resource it has listed.                                   *)
(***************************************************************************)
EXTENDS CompositionServerProofs

Tells(entry, cs, miss) == Service!Tells(entry, cs, miss)
Exists(cs, o) == Service!Exists(cs, o)

\* The whole tree is of the moments cs.
IsOf(entry, cs) == Tells(entry, cs, FALSE)

Faulty == counts.faults > 0

-----------------------------------------------------------------------------
(* The past *)

AllOf(s, cs, miss) == \A i \in DOMAIN s : Tells(s[i], cs, miss)

\* What a List call below the resource found was so at one of the moments.
Seen(o, part, cs, miss) == (part = Missed /\ miss) \/ \E c \in cs : part = c[o]

\* The tree being built is of the resource that is to be stored.
Built(h, cs, miss) ==
    /\ h.pc \in {"lock", "scan", "append"} => ~Deeper(h.list[1], h.tree)
    /\ h.pc \in {"build", "lock", "scan", "append"} =>
          \A i \in DOMAIN h.tree : Seen(h.list[1], h.tree[i], cs, miss)

Existed(s, cs) == \A i \in DOMAIN s : Exists(cs, s[i])

PastOK(h, cs, miss) ==
    AllOf(h.snap, cs, miss) /\ AllOf(h.answer, cs, miss) /\ Existed(h.list, cs) /\ Built(h, cs, miss)

PastInv ==
    /\ cluster \in past
    /\ AllOf(store, past, Faulty)
    /\ \A w \in Workers :
          /\ PastOK(handler[w], past, Faulty)
          /\ Active(w) => cluster \in handler[w].since
          /\ handler[w].since \subseteq past

-----------------------------------------------------------------------------
(* The request that is alone *)

AloneInv ==
    \A w \in Workers : Active(w) /\ handler[w].alone => \A v \in Workers \ {w} : ~Active(v)

\* The loop of storeCompositions runs over the store as it is.
ScanOK(h, s) ==
    /\ h.pc = "scan" =>
          /\ DOMAIN h.snap = DOMAIN s
          /\ \A i \in DOMAIN s : h.snap[i].obj = s[i].obj
          /\ h.found <=> \E i \in DOMAIN s : i < h.pos /\ s[i].obj = h.list[1]
    /\ h.pc = "append" =>
          /\ h.snap = s
          /\ \A i \in DOMAIN s : s[i].obj # h.list[1]

\* The store has the resource, and only as it was during the request.
Updated(s, o, cs) ==
    /\ \E i \in DOMAIN s : s[i].obj = o
    /\ \A i \in DOMAIN s : s[i].obj = o => IsOf(s[i], cs)

Handled(h, s, o) == (\E i \in DOMAIN h.list : h.list[i] = o) \/ Updated(s, o, h.since)

Steady(cs, o) == \A c \in cs : c[o] # Absent

\* What the request knows of the kinds it has listed.
ListedOK(h, s) ==
    /\ \A o \in Objects :
          o.kind \notin h.todo /\ o.namespace = h.request.namespace /\ Steady(h.since, o) =>
              o.name \in h.names /\ Handled(h, s, o)
    /\ \A name \in h.names :
          \E o \in Objects : /\ o.name = name /\ o.namespace = h.request.namespace
                             /\ Exists(h.since, o) /\ Handled(h, s, o)
    /\ Existed(h.list, h.since)

\* The entries already passed in the loop of storeCompositions are new.
PassedOK(h, s) ==
    h.pc = "scan" =>
        \A i \in DOMAIN s : i < h.pos /\ s[i].obj = h.list[1] => IsOf(s[i], h.since)

\* An answer read from s is right.
Ready(h, s) ==
    /\ \A o \in Objects :
          o.namespace = h.request.namespace /\ Steady(h.since, o) =>
              \E i \in DOMAIN s : s[i].obj = o /\ IsOf(s[i], h.since)
    /\ \A i \in DOMAIN s :
          s[i].obj.namespace = h.request.namespace =>
              \/ IsOf(s[i], h.since)
              \/ \E o \in Objects : Service!Namesake(o, s[i].obj) /\ Exists(h.since, o)

FreshOK(h, s) ==
    /\ h.pc = "kinds" => h.names = {}
    /\ h.pc \in {"kinds", "list"} => h.list = <<>>
    /\ h.pc \in {"list", "build", "lock", "scan", "append"} => ListedOK(h, s)
    /\ Built(h, h.since, FALSE)
    /\ PassedOK(h, s)
    /\ h.pc = "purge" => Ready(h, h.snap)
    /\ h.pc = "get" => Ready(h, s)
    /\ h.pc = "answered" => Service!Fresh(Session(h), Range(h.answer))

FreshInv ==
    \A w \in Workers :
        Active(w) /\ handler[w].alone =>
            ScanOK(handler[w], store) /\ (~handler[w].failed => FreshOK(handler[w], store))

SInv == TypeInv /\ LockInv /\ PastInv /\ AloneInv /\ FreshInv

-----------------------------------------------------------------------------
(* What each action does to the handler h that moves; g is the handler after *)

Only(w) ==
    /\ cluster' = cluster /\ past' = past
    /\ \A v \in Workers \ {w} : handler'[v] = handler[v]

SameRequest(g, h) ==
    g.request = h.request /\ g.since = h.since /\ g.failed = h.failed /\ g.alone = h.alone
SameList(g, h) == g.todo = h.todo /\ g.list = h.list /\ g.names = h.names
SameScan(g, h) == g.tree = h.tree /\ g.snap = h.snap /\ g.pos = h.pos /\ g.found = h.found

Namespace(r) == IF r.namespace = "" THEN "default" ELSE r.namespace

LEMMA BeginMoves ==
    ASSUME TypeInv, NEW w \in Workers, Begin(w)
    PROVE  /\ cluster' = cluster /\ past' = past /\ store' = store /\ handler[w].pc = "idle"
           /\ \A v \in Workers \ {w} :
                 handler'[v] = [handler[v] EXCEPT !.alone = @ /\ ~Active(v)]
           /\ \E r \in Requests :
                 handler'[w] = [Idle EXCEPT !.pc = "kinds",
                                            !.request = [r EXCEPT !.namespace = Namespace(r)],
                                            !.since = {cluster},
                                            !.alone = (\A v \in Workers \ {w} : ~Active(v))]
<1>1. PICK r \in Requests :
         LET others == {v \in Workers \ {w} : Active(v)}
             ns == IF r.namespace = "" THEN "default" ELSE r.namespace
         IN  handler' =
               [v \in Workers |->
                   IF v = w
                   THEN [Idle EXCEPT !.pc = "kinds", !.request = [r EXCEPT !.namespace = ns],
                                     !.since = {cluster}, !.alone = others = {}]
                   ELSE [handler[v] EXCEPT !.alone = @ /\ v \notin others]]
  BY DEF Begin
<1> DEFINE others == {v \in Workers \ {w} : Active(v)}
<1>2. /\ handler'[w] = [Idle EXCEPT !.pc = "kinds",
                                    !.request = [r EXCEPT !.namespace = Namespace(r)],
                                    !.since = {cluster}, !.alone = (others = {})]
      /\ \A v \in Workers \ {w} : handler'[v] = [handler[v] EXCEPT !.alone = @ /\ v \notin others]
  BY <1>1 DEF Namespace
<1>3. (others = {}) = (\A v \in Workers \ {w} : ~Active(v))
  OBVIOUS
<1>4. \A v \in Workers \ {w} : (v \notin others) = (~Active(v))
  OBVIOUS
<1> HIDE DEF others
<1>5. cluster' = cluster /\ past' = past /\ store' = store /\ handler[w].pc = "idle"
  BY DEF Begin, At
<1>6. \A v \in Workers \ {w} : handler'[v] = [handler[v] EXCEPT !.alone = @ /\ ~Active(v)]
  BY <1>2, <1>4
<1>7. handler'[w] = [Idle EXCEPT !.pc = "kinds",
                                 !.request = [r EXCEPT !.namespace = Namespace(r)],
                                 !.since = {cluster},
                                 !.alone = (\A v \in Workers \ {w} : ~Active(v))]
  BY <1>2, <1>3
<1> QED BY <1>5, <1>6, <1>7

LEMMA ReadKindsMoves ==
    ASSUME TypeInv, NEW w \in Workers, ReadKinds(w), NEW h, h = handler[w], NEW g, g = handler'[w]
    PROVE  /\ Only(w) /\ store' = store /\ h.pc = "kinds" /\ g.pc = "list"
           /\ SameRequest(g, h) /\ SameScan(g, h) /\ g.answer = h.answer
           /\ g.todo = Kinds /\ g.list = h.list /\ g.names = h.names
BY DEF ReadKinds, At, TypeInv, HandlersTyped, HandlerType, Only, SameRequest, SameScan

LEMMA ReadKindsFailsMoves ==
    ASSUME TypeInv, NEW w \in Workers, ReadKindsFails(w), NEW h, h = handler[w], NEW g, g = handler'[w]
    PROVE  /\ Only(w) /\ store' = store /\ h.pc = "kinds" /\ g.pc = "get"
           /\ g.request = h.request /\ g.since = h.since /\ g.failed /\ g.alone = h.alone
           /\ SameList(g, h) /\ SameScan(g, h) /\ g.answer = h.answer
BY DEF ReadKindsFails, At, TypeInv, HandlersTyped, HandlerType, Only, SameList, SameScan

\* The resources objs of a kind are listed.
Lists(g, h, kind, objs) ==
    /\ objs = Existing(kind, h.request.namespace)
    /\ g.pc = IF objs = {} THEN "list" ELSE "build"
    /\ g.todo = h.todo \ {kind}
    /\ g.list \in Seq(objs) /\ Range(g.list) = objs
    /\ g.names = h.names \union {o.name : o \in objs}

LEMMA ListKindMoves ==
    ASSUME TypeInv, NEW w \in Workers, ListKind(w), NEW h, h = handler[w], NEW g, g = handler'[w]
    PROVE  /\ Only(w) /\ store' = store /\ h.pc = "list"
           /\ SameRequest(g, h) /\ SameScan(g, h) /\ g.answer = h.answer /\ h.tree = <<>>
           /\ \E kind \in h.todo, objs \in SUBSET Objects : Lists(g, h, kind, objs)
<1>1. PICK kind \in h.todo : List(w, kind, Existing(kind, h.request.namespace))
  BY DEF ListKind
<1> DEFINE objs == Existing(kind, h.request.namespace)
<1>2. objs \in SUBSET Objects
  BY DEF Existing
<1>3. SetToSeq(objs) \in Seq(objs) /\ Range(SetToSeq(objs)) = objs
  BY <1>2, ObjectsAssumption, FS_Subset, SetToSeqProperty
<1> DEFINE list == SetToSeq(objs)
           names == {o.name : o \in objs}
<1>4. handler' = [handler EXCEPT ![w] =
                    [h EXCEPT !.todo = @ \ {kind}, !.list = list, !.names = @ \union names,
                              !.pc = IF objs = {} THEN "list" ELSE "build"]]
  BY <1>1 DEF List
<1>5. h \in HandlerType /\ DOMAIN handler = Workers
  BY DEF TypeInv, HandlersTyped
<1> HIDE DEF objs, list, names
<1>6. /\ SameRequest(g, h) /\ SameScan(g, h) /\ g.answer = h.answer
      /\ g.todo = h.todo \ {kind} /\ g.list = list /\ g.names = h.names \union names
      /\ g.pc = IF objs = {} THEN "list" ELSE "build"
  BY <1>4, <1>5 DEF HandlerType, SameRequest, SameScan
<1>7. Only(w) /\ store' = store /\ h.pc = "list" /\ h.tree = <<>>
  BY <1>4, <1>5 DEF ListKind, At, Only, TypeInv, HandlersTyped, HasHead
<1>8. Lists(g, h, kind, objs)
  BY <1>3, <1>6 DEF Lists, objs, list, names
<1> QED BY <1>2, <1>6, <1>7, <1>8

LEMMA ListKindFailsMoves ==
    ASSUME TypeInv, NEW w \in Workers, ListKindFails(w), NEW h, h = handler[w], NEW g, g = handler'[w]
    PROVE  /\ Only(w) /\ store' = store /\ h.pc = "list" /\ g.pc = "list"
           /\ g.request = h.request /\ g.since = h.since /\ g.failed /\ g.alone = h.alone
           /\ SameScan(g, h) /\ g.answer = h.answer /\ g.list = h.list /\ g.names = h.names
BY DEF ListKindFails, At, TypeInv, HandlersTyped, HandlerType, Only, SameScan

LEMMA ListBelowMoves ==
    ASSUME TypeInv, NEW w \in Workers, ListBelow(w), NEW h, h = handler[w], NEW g, g = handler'[w]
    PROVE  /\ Only(w) /\ store' = store /\ h.pc = "build" /\ g.pc = "build"
           /\ SameRequest(g, h) /\ SameList(g, h) /\ g.answer = h.answer /\ g.snap = h.snap
           /\ g.tree = Append(h.tree, cluster[h.list[1]]) /\ Deeper(h.list[1], h.tree)
           /\ h.tree \in Seq(Part)
<1>1. h \in HandlerType /\ DOMAIN handler = Workers
  BY DEF TypeInv, HandlersTyped
<1> DEFINE tree == Append(handler[w].tree, cluster[Head(handler[w].list)])
<1>2. handler' = [handler EXCEPT ![w].tree = tree] /\ h.pc = "build" /\ Deeper(h.list[1], h.tree)
  BY DEF ListBelow, GoesDown, At
<1>3. tree = Append(h.tree, cluster[h.list[1]]) /\ h.tree \in Seq(Part)
  BY <1>1 DEF HandlerType
<1> HIDE DEF tree
<1>4. /\ \A v \in Workers \ {w} : handler'[v] = handler[v]
      /\ g.pc = "build" /\ SameRequest(g, h) /\ SameList(g, h) /\ g.answer = h.answer
      /\ g.snap = h.snap /\ g.tree = tree
  BY <1>1, <1>2 DEF HandlerType, SameRequest, SameList
<1> QED BY <1>2, <1>3, <1>4 DEF ListBelow, Only

LEMMA ListBelowFailsMoves ==
    ASSUME TypeInv, NEW w \in Workers, ListBelowFails(w), NEW h, h = handler[w], NEW g, g = handler'[w]
    PROVE  /\ Only(w) /\ store' = store /\ h.pc = "build" /\ g.pc = "build"
           /\ g.request = h.request /\ g.since = h.since /\ g.failed /\ g.alone = h.alone
           /\ SameList(g, h) /\ g.answer = h.answer /\ g.snap = h.snap
           /\ g.tree = Append(h.tree, Missed) /\ h.tree \in Seq(Part)
<1>1. h \in HandlerType /\ DOMAIN handler = Workers
  BY DEF TypeInv, HandlersTyped
<1> DEFINE tree == Append(h.tree, Missed)
<1>2. handler' = [handler EXCEPT ![w].tree = tree, ![w].failed = TRUE] /\ h.pc = "build"
  BY <1>1 DEF ListBelowFails, GoesDown, At
<1>3. h.tree \in Seq(Part)
  BY <1>1 DEF HandlerType
<1> HIDE DEF tree
<1>4. /\ \A v \in Workers \ {w} : handler'[v] = handler[v]
      /\ g.pc = "build" /\ g.request = h.request /\ g.since = h.since /\ g.failed /\ g.alone = h.alone
      /\ SameList(g, h) /\ g.answer = h.answer /\ g.snap = h.snap /\ g.tree = tree
  BY <1>1, <1>2 DEF HandlerType, SameList
<1> QED BY <1>2, <1>3, <1>4 DEF ListBelowFails, Only, tree

LEMMA BuildMoves ==
    ASSUME TypeInv, NEW w \in Workers, Build(w), NEW h, h = handler[w], NEW g, g = handler'[w]
    PROVE  /\ Only(w) /\ store' = store /\ h.pc = "build" /\ g.pc = "lock"
           /\ SameRequest(g, h) /\ SameList(g, h) /\ SameScan(g, h) /\ g.answer = h.answer
           /\ ~Deeper(h.list[1], h.tree)
<1>1. h \in HandlerType /\ DOMAIN handler = Workers
  BY DEF TypeInv, HandlersTyped
<1>2. handler' = [handler EXCEPT ![w].pc = "lock"] /\ h.pc = "build" /\ ~Deeper(h.list[1], h.tree)
  BY DEF Build, GoesDown, At
<1>3. /\ \A v \in Workers \ {w} : handler'[v] = handler[v]
      /\ g.pc = "lock" /\ SameRequest(g, h) /\ SameList(g, h) /\ SameScan(g, h) /\ g.answer = h.answer
  BY <1>1, <1>2 DEF HandlerType, SameRequest, SameList, SameScan
<1> QED BY <1>2, <1>3 DEF Build, Only

LEMMA LockMoves ==
    ASSUME TypeInv, NEW w \in Workers, Lock(w), NEW h, h = handler[w], NEW g, g = handler'[w]
    PROVE  /\ Only(w) /\ store' = store /\ h.pc = "lock" /\ g.pc = "scan"
           /\ SameRequest(g, h) /\ SameList(g, h) /\ g.answer = h.answer
           /\ g.tree = h.tree /\ g.snap = store /\ g.pos = 1 /\ ~g.found /\ g.list # <<>>
BY DEF Lock, At, TypeInv, HandlersTyped, HandlerType, HasHead, Only, SameRequest, SameList

\* The first entry still ahead, at i, is overwritten; t is the store after.
Overwrites(g, h, s, t, i) ==
    /\ i \in DOMAIN s /\ i \in DOMAIN h.snap /\ i >= h.pos /\ h.snap[i].obj = h.list[1]
    /\ \A j \in DOMAIN h.snap : j >= h.pos /\ h.snap[j].obj = h.list[1] => i <= j
    /\ t = [s EXCEPT ![i] = [obj |-> h.list[1], tree |-> h.tree]]
    /\ g.pos = i + 1

LEMMA OverwriteMoves ==
    ASSUME TypeInv, NEW w \in Workers, Overwrite(w), NEW h, h = handler[w], NEW g, g = handler'[w]
    PROVE  /\ Only(w) /\ h.pc = "scan" /\ g.pc = "scan"
           /\ SameRequest(g, h) /\ SameList(g, h) /\ g.answer = h.answer
           /\ g.tree = h.tree /\ g.snap = h.snap /\ g.found /\ h.list # <<>>
           /\ \E i : Overwrites(g, h, store, store', i)
<1>1. PICK i \in Ahead(w) :
         /\ \A j \in Ahead(w) : i <= j
         /\ i \in DOMAIN store
         /\ store' = [store EXCEPT ![i] = NewEntry(w)]
         /\ handler' = [handler EXCEPT ![w].pos = i + 1, ![w].found = TRUE]
  BY DEF Overwrite
<1>2. h \in HandlerType /\ DOMAIN handler = Workers /\ h.pc = "scan" /\ h.list # <<>>
  BY DEF TypeInv, HandlersTyped, Overwrite, At, HasHead
<1>3. /\ \A v \in Workers \ {w} : handler'[v] = handler[v]
      /\ g.pc = "scan" /\ SameRequest(g, h) /\ SameList(g, h) /\ g.answer = h.answer
      /\ g.tree = h.tree /\ g.snap = h.snap /\ g.found /\ g.pos = i + 1
  BY <1>1, <1>2 DEF HandlerType, SameRequest, SameList
<1>4. NewEntry(w) = [obj |-> h.list[1], tree |-> h.tree]
  BY <1>2 DEF NewEntry, HandlerType
<1>5. Ahead(w) = {j \in DOMAIN h.snap : j >= h.pos /\ h.snap[j].obj = h.list[1]}
  BY <1>2 DEF Ahead, HandlerType
<1>6. Overwrites(g, h, store, store', i)
  BY <1>1, <1>3, <1>4, <1>5 DEF Overwrites
<1> QED BY <1>2, <1>3, <1>6 DEF Only, Overwrite

LEMMA EndScanMoves ==
    ASSUME TypeInv, NEW w \in Workers, EndScan(w), NEW h, h = handler[w], NEW g, g = handler'[w]
    PROVE  /\ Only(w) /\ store' = store /\ h.pc = "scan" /\ h.list # <<>>
           /\ SameRequest(g, h) /\ g.answer = h.answer /\ g.todo = h.todo /\ g.names = h.names
           /\ \A j \in DOMAIN h.snap : h.snap[j].obj = h.list[1] => j < h.pos
           /\ \/ h.found /\ g.pc \in {"list", "build"} /\ g.list = Tail(h.list) /\ g.snap = <<>>
                 /\ g.tree = <<>> /\ (g.pc = "list" => g.list = <<>>)
              \/ ~h.found /\ g.pc = "append" /\ g.list = h.list /\ g.tree = h.tree /\ g.snap = store
<1>1. h \in HandlerType /\ DOMAIN handler = Workers /\ h.pc = "scan" /\ h.list # <<>>
  BY DEF TypeInv, HandlersTyped, EndScan, At, HasHead
<1>2. Ahead(w) = {j \in DOMAIN h.snap : j >= h.pos /\ h.snap[j].obj = h.list[1]}
  BY <1>1 DEF Ahead, HandlerType
<1>3. h.snap \in Seq(Entry) /\ h.pos \in Nat /\ h.list \in Seq(Objects)
  BY <1>1 DEF HandlerType
<1>4. \A j \in DOMAIN h.snap : h.snap[j].obj = h.list[1] => j < h.pos
  BY <1>2, <1>3 DEF EndScan
<1>5. cluster' = cluster /\ past' = past /\ store' = store
  BY DEF EndScan
<1>6. Len(h.list) = 1 => Tail(h.list) = <<>>
  BY <1>1, <1>3, TailProperty
<1>7. CASE h.found /\ handler' = [handler EXCEPT ![w] = Stored(@)]
  <2>1. g = Stored(h) /\ \A v \in Workers \ {w} : handler'[v] = handler[v]
    BY <1>1, <1>7
  <2>2. /\ SameRequest(g, h) /\ g.answer = h.answer /\ g.todo = h.todo /\ g.names = h.names
        /\ g.list = Tail(h.list) /\ g.snap = <<>> /\ g.tree = <<>>
        /\ g.pc = IF Len(h.list) = 1 THEN "list" ELSE "build"
    BY <1>1, <2>1 DEF Stored, HandlerType, SameRequest
  <2> QED BY <1>1, <1>4, <1>5, <1>6, <1>7, <2>1, <2>2 DEF Only
<1>8. CASE ~h.found /\ handler' = [handler EXCEPT ![w].pc = "append", ![w].snap = store]
  <2>1. /\ \A v \in Workers \ {w} : handler'[v] = handler[v]
        /\ SameRequest(g, h) /\ g.answer = h.answer /\ SameList(g, h)
        /\ g.tree = h.tree /\ g.pc = "append" /\ g.snap = store
    BY <1>1, <1>8 DEF HandlerType, SameRequest, SameList
  <2> QED BY <1>1, <1>4, <1>5, <1>8, <2>1 DEF Only, SameList
<1> QED BY <1>7, <1>8 DEF EndScan

LEMMA AppendEntryMoves ==
    ASSUME TypeInv, NEW w \in Workers, AppendEntry(w), NEW h, h = handler[w], NEW g, g = handler'[w]
    PROVE  /\ Only(w) /\ h.pc = "append" /\ h.list # <<>>
           /\ store' = Append(h.snap, [obj |-> h.list[1], tree |-> h.tree])
           /\ SameRequest(g, h) /\ g.answer = h.answer /\ g.todo = h.todo /\ g.names = h.names
           /\ g.pc \in {"list", "build"} /\ g.list = Tail(h.list) /\ g.snap = <<>> /\ g.tree = <<>>
           /\ (g.pc = "list" => g.list = <<>>)
<1>1. h \in HandlerType /\ DOMAIN handler = Workers /\ h.pc = "append" /\ h.list # <<>>
  BY DEF TypeInv, HandlersTyped, AppendEntry, At, HasHead
<1>2. NewEntry(w) = [obj |-> h.list[1], tree |-> h.tree]
  BY <1>1 DEF NewEntry, HandlerType
<1>3. h.list \in Seq(Objects)
  BY <1>1 DEF HandlerType
<1>4. Len(h.list) = 1 => Tail(h.list) = <<>>
  BY <1>1, <1>3, TailProperty
<1>5. g = Stored(h) /\ \A v \in Workers \ {w} : handler'[v] = handler[v]
  BY <1>1 DEF AppendEntry
<1>6. /\ SameRequest(g, h) /\ g.answer = h.answer /\ g.todo = h.todo /\ g.names = h.names
      /\ g.list = Tail(h.list) /\ g.snap = <<>> /\ g.tree = <<>>
      /\ g.pc = IF Len(h.list) = 1 THEN "list" ELSE "build"
  BY <1>1, <1>5 DEF Stored, HandlerType, SameRequest
<1>7. cluster' = cluster /\ past' = past /\ store' = Append(h.snap, NewEntry(w))
  BY DEF AppendEntry
<1> QED BY <1>1, <1>2, <1>4, <1>5, <1>6, <1>7 DEF Only

\* Where the entries are that the purge leaves.
Present(s, names) == {i \in DOMAIN s : s[i].obj.name \in names}

LEMMA PurgeScanMoves ==
    ASSUME TypeInv, NEW w \in Workers, PurgeScan(w), NEW h, h = handler[w], NEW g, g = handler'[w]
    PROVE  /\ Only(w) /\ store' = store /\ h.pc = "list" /\ h.todo = {} /\ g.pc = "purge"
           /\ SameRequest(g, h) /\ SameList(g, h) /\ g.answer = h.answer
           /\ g.snap = Kept(store, Present(store, h.names))
<1> DEFINE snap == Kept(store, Present(store, h.names))
<1>1. handler' = [handler EXCEPT ![w].pc = "purge", ![w].snap = snap]
  BY DEF PurgeScan, Present
<1> HIDE DEF snap
<1>2. h \in HandlerType /\ DOMAIN handler = Workers
  BY DEF TypeInv, HandlersTyped
<1>3. /\ \A v \in Workers \ {w} : handler'[v] = handler[v]
      /\ g.pc = "purge" /\ SameRequest(g, h) /\ SameList(g, h) /\ g.answer = h.answer /\ g.snap = snap
  BY <1>1, <1>2 DEF HandlerType, SameRequest, SameList
<1> QED BY <1>3 DEF snap, PurgeScan, At, Only

LEMMA PurgeMoves ==
    ASSUME TypeInv, NEW w \in Workers, Purge(w), NEW h, h = handler[w], NEW g, g = handler'[w]
    PROVE  /\ Only(w) /\ store' = h.snap /\ h.pc = "purge" /\ g.pc = "get"
           /\ SameRequest(g, h) /\ g.answer = h.answer /\ g.snap = <<>>
           /\ g.todo = h.todo /\ g.list = h.list
BY DEF Purge, At, TypeInv, HandlersTyped, HandlerType, Only, SameRequest

\* Where the entries are that a request asks for.
Matching(s, request) == {i \in DOMAIN s : Asked(request, s[i].obj)}

LEMMA GetCompositionsMoves ==
    ASSUME TypeInv, NEW w \in Workers, GetCompositions(w), NEW h, h = handler[w], NEW g, g = handler'[w]
    PROVE  /\ Only(w) /\ store' = store /\ h.pc = "get" /\ g.pc = "answered"
           /\ SameRequest(g, h) /\ SameList(g, h) /\ SameScan(g, h)
           /\ g.answer = Kept(store, Matching(store, h.request))
<1> DEFINE answer == Kept(store, Matching(store, h.request))
<1>1. handler' = [handler EXCEPT ![w].pc = "answered", ![w].answer = answer]
  BY DEF GetCompositions, Matching
<1> HIDE DEF answer
<1>2. h \in HandlerType /\ DOMAIN handler = Workers
  BY DEF TypeInv, HandlersTyped
<1>3. /\ \A v \in Workers \ {w} : handler'[v] = handler[v]
      /\ g.pc = "answered" /\ SameRequest(g, h) /\ SameList(g, h) /\ SameScan(g, h) /\ g.answer = answer
  BY <1>1, <1>2 DEF HandlerType, SameRequest, SameList, SameScan
<1> QED BY <1>3 DEF answer, GetCompositions, At, Only

\* Finish, and the panic of storeCompositions.
LEMMA LeaveMoves ==
    ASSUME TypeInv, NEW w \in Workers, Finish(w) \/ Panic(w)
    PROVE  /\ Only(w) /\ store' = store /\ handler[w].pc \in {"answered", "scan"}
           /\ handler'[w] = Idle
BY DEF Finish, Panic, At, TypeInv, HandlersTyped, Only

LEMMA ChangeMoves ==
    ASSUME TypeInv, Change
    PROVE  /\ store' = store /\ past' = past \union {cluster'} /\ cluster' \in [Objects -> Nat]
           /\ \A w \in Workers :
                 handler'[w] = IF Active(w) THEN [handler[w] EXCEPT !.since = @ \union {cluster'}]
                                            ELSE handler[w]
<1>1. PICK o \in Objects, version \in {Absent, counts.changes + 2} :
         cluster' = [cluster EXCEPT ![o] = version]
  BY DEF Change
<1>2. version \in Nat
  BY Bounds DEF TypeInv, VarsTyped, Counts, Absent
<1>3. cluster' \in [Objects -> Nat]
  BY <1>1, <1>2 DEF TypeInv, VarsTyped
<1> QED BY <1>3 DEF Change

\* No call fails in these steps.
LEMMA SameCounts ==
    ASSUME NEW w \in Workers, Work(w) \/ Lock(w) \/ GetCompositions(w)
    PROVE  counts' = counts
<1>1. ReadKinds(w) \/ ListKind(w) \/ ListBelow(w) \/ Build(w) => counts' = counts
  BY DEF ReadKinds, ListKind, ListBelow, Build
<1>2. Lock(w) \/ Overwrite(w) \/ Panic(w) \/ EndScan(w) \/ AppendEntry(w) => counts' = counts
  BY DEF Lock, Overwrite, Panic, EndScan, AppendEntry
<1>3. PurgeScan(w) \/ Purge(w) \/ GetCompositions(w) \/ Finish(w) => counts' = counts
  BY DEF PurgeScan, Purge, GetCompositions, Finish
<1> QED BY <1>1, <1>2, <1>3 DEF Work

-----------------------------------------------------------------------------
(* The past is kept *)

LEMMA TellsMore ==
    ASSUME NEW e, NEW cs, NEW ds, cs \subseteq ds, NEW miss, NEW may, miss => may, Tells(e, cs, miss)
    PROVE  Tells(e, ds, may)
BY DEF Tells, Service!Tells, Service!Exists

LEMMA IsOfMore ==
    ASSUME NEW e, NEW cs, NEW ds, cs \subseteq ds, IsOf(e, cs)
    PROVE  IsOf(e, ds)
BY TellsMore DEF IsOf

LEMMA ExistsMore ==
    ASSUME NEW o, NEW cs, NEW ds, cs \subseteq ds, Exists(cs, o)
    PROVE  Exists(ds, o)
BY DEF Exists, Service!Exists

LEMMA PastMore ==
    ASSUME NEW h, NEW g, NEW cs, NEW ds, cs \subseteq ds, NEW miss, NEW may, miss => may,
           PastOK(h, cs, miss),
           g.pc = h.pc, g.snap = h.snap, g.answer = h.answer, g.list = h.list, g.tree = h.tree
    PROVE  PastOK(g, ds, may)
<1>1. AllOf(g.snap, ds, may) /\ AllOf(g.answer, ds, may)
  BY TellsMore DEF PastOK, AllOf
<1>2. Existed(g.list, ds)
  BY ExistsMore DEF PastOK, Existed
<1>3. Built(g, ds, may)
  BY DEF PastOK, Built, Seen
<1> QED BY <1>1, <1>2, <1>3 DEF PastOK

LEMMA IdlePast == ASSUME NEW cs, NEW miss PROVE PastOK(Idle, cs, miss)
BY DEF PastOK, AllOf, Existed, Built, Idle

\* The entry that is to be stored, of a resource that existed.
LEMMA EntryOf ==
    ASSUME NEW h, NEW cs, NEW miss, Exists(cs, h.list[1]), Built(h, cs, miss),
           h.pc \in {"scan", "append"}
    PROVE  Tells([obj |-> h.list[1], tree |-> h.tree], cs, miss)
<1> DEFINE e == [obj |-> h.list[1], tree |-> h.tree]
<1>1. e.obj = h.list[1] /\ e.tree = h.tree
  OBVIOUS
<1> HIDE DEF e
<1>2. Tells(e, cs, miss)
  BY <1>1 DEF Built, Seen, Exists, Tells, Service!Tells, Missed, Service!Missed
<1> QED BY <1>2 DEF e

\* One more List call.
LEMMA BuiltMore ==
    ASSUME NEW h, NEW g, NEW cs, NEW miss, Built(h, cs, miss), h.pc = "build", g.pc = "build",
           g.list = h.list, NEW part, h.tree \in Seq(Part), g.tree = Append(h.tree, part),
           Seen(h.list[1], part, cs, miss)
    PROVE  Built(g, cs, miss)
<1>1. /\ \A i \in DOMAIN h.tree : g.tree[i] = h.tree[i]
      /\ g.tree[Len(h.tree) + 1] = part
      /\ \A i \in DOMAIN g.tree : i \in DOMAIN h.tree \/ i = Len(h.tree) + 1
  OBVIOUS
<1> QED BY <1>1 DEF Built

\* What Kept keeps of a list.
LEMMA KeptElements ==
    ASSUME NEW S, NEW s \in Seq(S), NEW P
    PROVE  /\ Kept(s, P) \in Seq(S)
           /\ \A i \in DOMAIN Kept(s, P) :
                 \E k \in DOMAIN s : k \in P /\ Kept(s, P)[i] = s[k]
           /\ \A k \in DOMAIN s : k \in P =>
                 \E i \in DOMAIN Kept(s, P) : Kept(s, P)[i] = s[k]
<1> DEFINE r == Kept(s, P)
<1>1. r \in Seq(S) /\ \E pos : Selects(r, s, Len(s), P, pos)
  BY KeptProperty
<1> HIDE DEF r
<1>2. PICK pos : Selects(r, s, Len(s), P, pos)
  BY <1>1
<1>3. DOMAIN r = 1 .. Len(r) /\ DOMAIN s = 1 .. Len(s)
  BY <1>1
<1>4. \A i \in DOMAIN r : \E k \in DOMAIN s : k \in P /\ r[i] = s[k]
  BY <1>2, <1>3 DEF Selects
<1>5. \A k \in DOMAIN s : k \in P => \E i \in DOMAIN r : r[i] = s[k]
  BY <1>2, <1>3 DEF Selects
<1> QED BY <1>1, <1>4, <1>5 DEF r

LEMMA PastMove ==
    ASSUME PastInv, Faulty => Faulty', NEW w \in Workers, Only(w), AllOf(store', past, Faulty'), PastOK(handler'[w], past, Faulty'),
           handler'[w].since \subseteq past, handler'[w].pc # "idle" => cluster \in handler'[w].since
    PROVE  PastInv'
<1> USE DEF Only
<1>1. cluster' \in past' /\ AllOf(store', past', Faulty')
  BY DEF PastInv
<1>2. ASSUME NEW v \in Workers
      PROVE  /\ PastOK(handler'[v], past', Faulty')
             /\ handler'[v].pc # "idle" => cluster' \in handler'[v].since
             /\ handler'[v].since \subseteq past'
  BY PastMore DEF PastInv, Active, At
<1> QED BY <1>1, <1>2 DEF PastInv, Active, At

\* The handler keeps its request, and what it holds is of the past.
LEMMA PastKeeps ==
    ASSUME PastInv, Faulty => Faulty', NEW w \in Workers, Only(w), AllOf(store', past, Faulty'), PastOK(handler'[w], past, Faulty'),
           handler'[w].since = handler[w].since, Active(w)
    PROVE  PastInv'
BY PastMove DEF PastInv

\* Once a call has failed, one has failed.
LEMMA FaultyStays == TypeInv /\ [Next]_vars => (Faulty => Faulty')
<1> SUFFICES ASSUME TypeInv, [Next]_vars, Faulty PROVE Faulty'
  OBVIOUS
<1>1. counts \in Counts
  BY DEF TypeInv, VarsTyped
<1>2. Fault => Faulty'
  BY <1>1, Bounds DEF Fault, Faulty, Counts
<1>3. counts'.faults = counts.faults => Faulty'
  BY DEF Faulty
<1>4. ASSUME NEW w \in Workers,
             ReadKindsFails(w) \/ ListKindFails(w) \/ ListBelowFails(w)
      PROVE  Fault
  BY <1>4 DEF ReadKindsFails, ListKindFails, ListBelowFails
<1>5. ASSUME NEW w \in Workers, Begin(w) PROVE counts'.faults = counts.faults
  BY <1>1, <1>5 DEF Begin, Counts
<1>6. Change \/ RuntimeFault => counts'.faults = counts.faults
  BY <1>1 DEF Change, RuntimeFault, Counts
<1>7. ASSUME NEW w \in Workers, Work(w) \/ Lock(w) \/ GetCompositions(w) PROVE counts' = counts
  BY <1>7, SameCounts
<1>8. CASE UNCHANGED vars
  BY <1>3, <1>8 DEF vars
<1> QED BY <1>2, <1>3, <1>4, <1>5, <1>6, <1>7, <1>8 DEF Next, Quiet

LEMMA PastStep == SInv /\ [Next]_vars => PastInv'
<1> SUFFICES ASSUME SInv, [Next]_vars PROVE PastInv'
  OBVIOUS
<1>a. TypeInv /\ PastInv /\ (Faulty => Faulty')
  BY FaultyStays DEF SInv
<1>b. ASSUME NEW w \in Workers
      PROVE  /\ PastOK(handler[w], past, Faulty') /\ handler[w] \in HandlerType
             /\ handler[w].list \in Seq(Objects) /\ handler[w].snap \in Seq(Entry)
             /\ (Active(w) => cluster \in handler[w].since) /\ handler[w].since \subseteq past
  BY <1>a, PastMore DEF PastInv, TypeInv, HandlersTyped, HandlerType
<1>c. cluster \in past /\ AllOf(store, past, Faulty') /\ store \in Seq(Entry)
  BY <1>a, TellsMore DEF PastInv, TypeInv, VarsTyped, AllOf
<1>1. ASSUME NEW w \in Workers, Begin(w) PROVE PastInv'
  <2>1. /\ cluster' = cluster /\ past' = past /\ store' = store
        /\ \A v \in Workers \ {w} : handler'[v] = [handler[v] EXCEPT !.alone = @ /\ ~Active(v)]
    BY <1>1, <1>a, BeginMoves
  <2>2. PICK r \in Requests :
           handler'[w] = [Idle EXCEPT !.pc = "kinds",
                                      !.request = [r EXCEPT !.namespace = Namespace(r)],
                                      !.since = {cluster},
                                      !.alone = (\A v \in Workers \ {w} : ~Active(v))]
    BY <1>1, <1>a, BeginMoves
  <2>3. PastOK(handler'[w], past, Faulty') /\ handler'[w].since = {cluster}
    BY <2>2 DEF Idle, PastOK, AllOf, Existed, Built
  <2>4. ASSUME NEW v \in Workers \ {w}
        PROVE  /\ PastOK(handler'[v], past, Faulty')
               /\ (handler'[v].pc # "idle" => cluster \in handler'[v].since)
               /\ handler'[v].since \subseteq past
    <3> DEFINE h == handler[v]
               g == handler'[v]
    <3>1. /\ g.pc = h.pc /\ g.snap = h.snap /\ g.answer = h.answer /\ g.list = h.list
          /\ g.tree = h.tree /\ g.since = h.since
      BY <1>b, <2>1, ZenonT(40) DEF HandlerType
    <3> HIDE DEF g
    <3> QED BY <1>b, <3>1, PastMore DEF Active, At, g
  <2> QED BY <1>c, <2>1, <2>3, <2>4 DEF PastInv, Active, At
<1>2. ASSUME NEW w \in Workers, ReadKinds(w) \/ ReadKindsFails(w) \/ ListKindFails(w) PROVE PastInv'
  <2> DEFINE h == handler[w]
             g == handler'[w]
  <2>1. /\ Only(w) /\ store' = store /\ g.since = h.since /\ Active(w)
        /\ h.pc \in {"kinds", "list"} /\ g.pc \in {"list", "get"}
        /\ SameScan(g, h) /\ g.answer = h.answer /\ g.list = h.list
    BY <1>2, <1>a, ReadKindsMoves, ReadKindsFailsMoves, ListKindFailsMoves
    DEF SameRequest, SameList, Active, At
  <2>2. PastOK(g, past, Faulty')
    BY <1>b, <2>1 DEF PastOK, Built, SameScan
  <2> QED BY <1>a, <1>c, <2>1, <2>2, PastKeeps
<1>3. ASSUME NEW w \in Workers, ListKind(w) PROVE PastInv'
  <2> DEFINE h == handler[w]
             g == handler'[w]
  <2>1. /\ Only(w) /\ store' = store /\ SameRequest(g, h) /\ SameScan(g, h) /\ g.answer = h.answer
        /\ h.pc = "list" /\ h.tree = <<>>
    BY <1>3, <1>a, ListKindMoves
  <2>2. PICK objs \in SUBSET Objects :
           /\ \A o \in objs : cluster[o] # Absent
           /\ g.list \in Seq(objs)
           /\ g.pc \in {"list", "build"}
    <3>1. PICK kind \in h.todo, objs \in SUBSET Objects : Lists(g, h, kind, objs)
      BY <1>3, <1>a, ListKindMoves
    <3> QED BY <3>1 DEF Lists, Existing
  <2>3. Existed(g.list, past)
    BY <1>c, <2>2 DEF Existed, Exists, Service!Exists, Absent, Service!Absent
  <2>4. PastOK(g, past, Faulty')
    BY <1>b, <2>1, <2>2, <2>3 DEF PastOK, Built, SameScan
  <2> QED BY <1>a, <1>c, <2>1, <2>4, PastKeeps DEF SameRequest, Active, At
<1>4. ASSUME NEW w \in Workers, Build(w) \/ Lock(w) PROVE PastInv'
  <2> DEFINE h == handler[w]
             g == handler'[w]
  <2>1. /\ Only(w) /\ store' = store /\ g.since = h.since /\ Active(w) /\ g.tree = h.tree
        /\ g.answer = h.answer /\ g.list = h.list /\ g.snap \in {h.snap, store}
        /\ h.pc \in {"build", "lock"} /\ ~Deeper(h.list[1], h.tree)
    <3>1. CASE Build(w)
      BY <1>a, <3>1, BuildMoves DEF SameRequest, SameList, SameScan, Active, At
    <3>2. CASE Lock(w)
      <4>1. /\ Only(w) /\ store' = store /\ SameRequest(g, h) /\ SameList(g, h) /\ h.pc = "lock"
            /\ g.answer = h.answer /\ g.snap = store /\ g.tree = h.tree
        BY <1>a, <3>2, LockMoves
      <4>2. ~Deeper(h.list[1], h.tree)
        BY <1>b, <4>1 DEF PastOK, Built
      <4> QED BY <4>1, <4>2 DEF SameRequest, SameList, Active, At
    <3> QED BY <1>4, <3>1, <3>2
  <2>3. PastOK(g, past, Faulty')
    BY <1>b, <1>c, <2>1 DEF PastOK, Built
  <2> QED BY <1>a, <1>c, <2>1, <2>3, PastKeeps
<1>17. ASSUME NEW w \in Workers, ListBelow(w) \/ ListBelowFails(w) PROVE PastInv'
  <2> DEFINE h == handler[w]
             g == handler'[w]
  <2>1. /\ Only(w) /\ store' = store /\ g.since = h.since /\ h.pc = "build" /\ g.pc = "build"
        /\ g.answer = h.answer /\ g.list = h.list /\ g.snap = h.snap /\ h.tree \in Seq(Part)
    <3>1. CASE ListBelow(w)
      BY <1>a, <3>1, ListBelowMoves DEF SameRequest, SameList
    <3>2. CASE ListBelowFails(w)
      <4>1. /\ Only(w) /\ store' = store /\ h.pc = "build" /\ g.pc = "build" /\ g.since = h.since
            /\ SameList(g, h) /\ g.answer = h.answer /\ g.snap = h.snap /\ h.tree \in Seq(Part)
        BY <1>a, <3>2, ListBelowFailsMoves
      <4> HIDE DEF g, h
      <4> QED BY <4>1 DEF SameList
    <3> QED BY <1>17, <3>1, <3>2
  <2>2. PICK part : g.tree = Append(h.tree, part) /\ Seen(h.list[1], part, past, Faulty')
    <3>1. CASE ListBelow(w)
      <4>1. /\ Only(w) /\ store' = store /\ SameRequest(g, h) /\ SameList(g, h)
            /\ g.tree = Append(h.tree, cluster[h.list[1]])
        BY <1>a, <3>1, ListBelowMoves
      <4>2. Seen(h.list[1], cluster[h.list[1]], past, Faulty')
        BY <1>c DEF Seen
      <4> QED BY <4>1, <4>2
    <3>2. CASE ListBelowFails(w)
      <4>1. Fault
        BY <3>2 DEF ListBelowFails
      <4>2. Faulty'
        BY <1>a, <4>1 DEF Fault, Faulty, TypeInv, VarsTyped, Counts
      <4>3. g.tree = Append(h.tree, Missed)
        BY <1>a, <3>2, ListBelowFailsMoves
      <4> QED BY <4>2, <4>3 DEF Seen
    <3> QED BY <1>17, <3>1, <3>2
  <2>3. Built(g, past, Faulty')
    BY <1>b, <2>1, <2>2, BuiltMore DEF PastOK
  <2>4. PastOK(g, past, Faulty')
    BY <1>b, <2>1, <2>3 DEF PastOK
  <2> QED BY <1>a, <1>c, <2>1, <2>4, PastKeeps DEF Active, At
<1>5. ASSUME NEW w \in Workers, handler[w].pc \in {"scan", "append"}, handler[w].list # <<>>
      PROVE  Tells([obj |-> handler[w].list[1], tree |-> handler[w].tree], past, Faulty')
  <2>1. 1 \in DOMAIN handler[w].list
    BY <1>b, <1>5, TailProperty
  <2> QED BY <1>b, <1>5, <2>1, EntryOf DEF PastOK, Existed
<1>6. ASSUME NEW w \in Workers, Overwrite(w) PROVE PastInv'
  <2> DEFINE h == handler[w]
             g == handler'[w]
             e == [obj |-> h.list[1], tree |-> h.tree]
  <2>1. /\ Only(w) /\ h.pc = "scan" /\ g.pc = "scan" /\ SameRequest(g, h) /\ SameList(g, h)
        /\ g.answer = h.answer /\ g.tree = h.tree /\ g.snap = h.snap /\ h.list # <<>>
    BY <1>6, <1>a, OverwriteMoves
  <2>2. PICK i : i \in DOMAIN store /\ store' = [store EXCEPT ![i] = e]
    <3>1. PICK i : Overwrites(g, h, store, store', i)
      BY <1>6, <1>a, OverwriteMoves
    <3> QED BY <3>1 DEF Overwrites
  <2>3. Tells(e, past, Faulty')
    BY <1>5, <2>1
  <2> HIDE DEF e
  <2>4. AllOf(store', past, Faulty')
    BY <1>c, <2>2, <2>3 DEF AllOf
  <2>5. PastOK(g, past, Faulty')
    BY <1>b, <2>1 DEF PastOK, Built, SameList
  <2> QED BY <1>a, <2>1, <2>4, <2>5, PastKeeps DEF SameRequest, Active, At
<1>7. ASSUME NEW w \in Workers, NEW g, g.pc \in {"list", "build"}, g.list = Tail(handler[w].list),
             g.snap = <<>>, g.tree = <<>>, g.answer = handler[w].answer, handler[w].list # <<>>
      PROVE  PastOK(g, past, Faulty')
  <2>1. Existed(Tail(handler[w].list), past)
    BY <1>b, <1>7, TailProperty DEF PastOK, Existed
  <2> QED BY <1>b, <1>7, <2>1 DEF PastOK, Built, AllOf
<1>8. ASSUME NEW w \in Workers, EndScan(w) PROVE PastInv'
  <2> DEFINE h == handler[w]
             g == handler'[w]
  <2>1. /\ Only(w) /\ store' = store /\ h.pc = "scan" /\ SameRequest(g, h)
        /\ g.answer = h.answer /\ h.list # <<>>
    BY <1>8, <1>a, EndScanMoves
  <2>2. PastOK(g, past, Faulty')
    <3>1. CASE g.pc \in {"list", "build"} /\ g.list = Tail(h.list) /\ g.snap = <<>> /\ g.tree = <<>>
      BY <1>7, <2>1, <3>1
    <3>2. CASE g.pc = "append" /\ g.list = h.list /\ g.tree = h.tree /\ g.snap = store
      BY <1>b, <1>c, <2>1, <3>2 DEF PastOK, Built
    <3> QED BY <1>8, <1>a, <3>1, <3>2, EndScanMoves
  <2> QED BY <1>a, <1>c, <2>1, <2>2, PastKeeps DEF SameRequest, Active, At
<1>9. ASSUME NEW w \in Workers, AppendEntry(w) PROVE PastInv'
  <2> DEFINE h == handler[w]
             g == handler'[w]
             e == [obj |-> h.list[1], tree |-> h.tree]
  <2>1. /\ Only(w) /\ h.pc = "append" /\ h.list # <<>> /\ store' = Append(h.snap, e)
        /\ SameRequest(g, h) /\ g.answer = h.answer
        /\ g.pc \in {"list", "build"} /\ g.list = Tail(h.list) /\ g.snap = <<>> /\ g.tree = <<>>
    BY <1>9, <1>a, AppendEntryMoves
  <2>2. Tells(e, past, Faulty')
    BY <1>5, <2>1
  <2> HIDE DEF e
  <2>3. AllOf(store', past, Faulty')
    BY <1>b, <2>1, <2>2 DEF AllOf, PastOK
  <2>4. PastOK(g, past, Faulty')
    BY <1>7, <2>1
  <2> QED BY <1>a, <2>1, <2>3, <2>4, PastKeeps DEF SameRequest, Active, At
<1>10. ASSUME NEW P PROVE AllOf(Kept(store, P), past, Faulty')
  BY <1>c, KeptElements DEF AllOf
<1>11. ASSUME NEW w \in Workers, PurgeScan(w) \/ GetCompositions(w) PROVE PastInv'
  <2> DEFINE h == handler[w]
             g == handler'[w]
  <2>1. /\ Only(w) /\ store' = store /\ SameRequest(g, h) /\ SameList(g, h) /\ Active(w)
        /\ g.pc \in {"purge", "answered"}
        /\ g.snap = h.snap \/ \E P : g.snap = Kept(store, P)
        /\ g.answer = h.answer \/ \E P : g.answer = Kept(store, P)
    <3>1. CASE PurgeScan(w)
      <4>1. /\ Only(w) /\ store' = store /\ SameRequest(g, h) /\ SameList(g, h) /\ h.pc = "list"
            /\ g.pc = "purge" /\ g.answer = h.answer
            /\ g.snap = Kept(store, Present(store, h.names))
        BY <1>a, <3>1, PurgeScanMoves
      <4> QED BY <4>1, Zenon DEF Active, At
    <3>2. CASE GetCompositions(w)
      <4>1. /\ Only(w) /\ store' = store /\ SameRequest(g, h) /\ SameList(g, h) /\ h.pc = "get"
            /\ g.pc = "answered" /\ g.snap = h.snap
            /\ g.answer = Kept(store, Matching(store, h.request))
        BY <1>a, <3>2, GetCompositionsMoves DEF SameScan
      <4> QED BY <4>1, Zenon DEF Active, At
    <3> QED BY <1>11, <3>1, <3>2
  <2>2. PastOK(g, past, Faulty')
    BY <1>b, <1>10, <2>1 DEF PastOK, Built, SameList
  <2> QED BY <1>a, <1>c, <2>1, <2>2, PastKeeps DEF SameRequest
<1>12. ASSUME NEW w \in Workers, Purge(w) PROVE PastInv'
  <2> DEFINE h == handler[w]
             g == handler'[w]
  <2>1. /\ Only(w) /\ store' = h.snap /\ h.pc = "purge" /\ g.pc = "get"
        /\ SameRequest(g, h) /\ g.answer = h.answer /\ g.snap = <<>> /\ g.list = h.list
    BY <1>12, <1>a, PurgeMoves
  <2>2. PastOK(g, past, Faulty') /\ AllOf(store', past, Faulty')
    BY <1>b, <2>1 DEF PastOK, Built, AllOf
  <2> QED BY <1>a, <2>1, <2>2, PastKeeps DEF SameRequest, Active, At
<1>13. ASSUME NEW w \in Workers, Finish(w) \/ Panic(w) PROVE PastInv'
  <2>1. Only(w) /\ store' = store /\ handler'[w] = Idle
    BY <1>13, <1>a, LeaveMoves
  <2>2. Idle.since = {} /\ Idle.pc = "idle"
    BY DEF Idle
  <2> QED BY <1>a, <1>c, <2>1, <2>2, IdlePast, PastMove
<1>14. CASE Change
  <2>1. /\ store' = store /\ past' = past \union {cluster'}
        /\ \A w \in Workers :
              handler'[w] = IF Active(w) THEN [handler[w] EXCEPT !.since = @ \union {cluster'}]
                                         ELSE handler[w]
    BY <1>14, <1>a, ChangeMoves
  <2>2. AllOf(store', past', Faulty')
    BY <1>c, <2>1, TellsMore DEF AllOf
  <2>3. ASSUME NEW w \in Workers
        PROVE  /\ PastOK(handler'[w], past', Faulty')
               /\ (handler'[w].pc # "idle" => cluster' \in handler'[w].since)
               /\ handler'[w].since \subseteq past'
    <3> DEFINE h == handler[w]
               g == handler'[w]
    <3>1. /\ g.pc = h.pc /\ g.snap = h.snap /\ g.answer = h.answer /\ g.list = h.list
          /\ g.tree = h.tree
          /\ g.since = IF h.pc # "idle" THEN h.since \union {cluster'} ELSE h.since
      BY <1>b, <2>1 DEF HandlerType, Active, At
    <3> HIDE DEF g
    <3>2. PastOK(g, past', Faulty')
      BY <1>b, <2>1, <3>1, PastMore
    <3> QED BY <1>b, <2>1, <3>1, <3>2 DEF Active, At, g
  <2> QED BY <2>1, <2>2, <2>3 DEF PastInv, Active, At
<1>15. CASE RuntimeFault
  <2>1. /\ cluster' = cluster /\ past' = {cluster} /\ store' = <<>>
        /\ \A w \in Workers : handler'[w] = Idle
    BY <1>15 DEF RuntimeFault
  <2>2. Idle.since = {} /\ Idle.pc = "idle"
    BY DEF Idle
  <2>3. AllOf(<<>>, past', Faulty')
    BY DEF AllOf
  <2> QED BY <2>1, <2>2, <2>3, IdlePast DEF PastInv, Active, At
<1>16. CASE UNCHANGED vars
  <2>1. Faulty' = Faulty /\ cluster' = cluster /\ past' = past /\ store' = store /\ handler' = handler
    BY <1>16 DEF vars, Faulty
  <2> QED BY <1>a, <2>1 DEF PastInv, Active, At, AllOf
<1> QED
  BY <1>1, <1>2, <1>3, <1>4, <1>6, <1>8, <1>9, <1>11, <1>12, <1>13, <1>14, <1>15, <1>16,
     <1>17
  DEF Next, Work, Quiet

-----------------------------------------------------------------------------
(* What the request that is alone knows, step by step *)

\* More clusters during the request make no difference.
LEMMA FreshMore ==
    ASSUME NEW h, NEW g, NEW s, h.since \subseteq g.since, FreshOK(h, s),
           g.pc = h.pc, g.request = h.request, SameList(g, h), SameScan(g, h), g.answer = h.answer
    PROVE  FreshOK(g, s)
<1> USE DEF SameList, SameScan
<1>1. \A o : Steady(g.since, o) => Steady(h.since, o)
  BY DEF Steady
<1>2. \A o : Exists(h.since, o) => Exists(g.since, o)
  BY ExistsMore
<1>3. \A e : IsOf(e, h.since) => IsOf(e, g.since)
  BY IsOfMore
<1>4. \A o : Updated(s, o, h.since) => Updated(s, o, g.since)
  BY <1>3 DEF Updated
<1>5. \A o : Handled(h, s, o) => Handled(g, s, o)
  BY <1>4 DEF Handled
<1>6. ListedOK(h, s) => ListedOK(g, s)
  BY <1>1, <1>2, <1>5 DEF ListedOK, Existed
<1>7. \A t : Ready(h, t) => Ready(g, t)
  BY <1>1, <1>2, <1>3 DEF Ready
<1>8. PassedOK(h, s) => PassedOK(g, s)
  BY <1>3 DEF PassedOK
<1>9. Built(h, h.since, FALSE) => Built(g, g.since, FALSE)
  BY DEF Built, Seen
<1>10. Service!Fresh(Session(h), Range(h.answer)) => Service!Fresh(Session(g), Range(g.answer))
  BY <1>2, <1>3 DEF Service!Fresh, Session, IsOf, Tells, Exists
<1> QED BY <1>6, <1>7, <1>8, <1>9, <1>10 DEF FreshOK

LEMMA ReadKindsFresh ==
    ASSUME NEW h, NEW g, NEW s, FreshOK(h, s), h.pc = "kinds", g.pc = "list",
           g.todo = Kinds, g.list = h.list, g.names = h.names
    PROVE  FreshOK(g, s)
<1>1. g.names = {} /\ g.list = <<>>
  BY DEF FreshOK
<1>2. ListedOK(g, s)
  BY <1>1, ObjectsAssumption DEF ListedOK, Existed
<1> QED BY <1>1, <1>2 DEF FreshOK, Built, PassedOK

LEMMA ListKindFresh ==
    ASSUME NEW h, NEW g, NEW s, FreshOK(h, s), h.pc = "list", SameRequest(g, h), g.tree = <<>>,
           NEW kind, NEW objs, Lists(g, h, kind, objs), cluster \in h.since
    PROVE  FreshOK(g, s)
<1> USE DEF SameRequest, Lists
<1>1. h.list = <<>> /\ ListedOK(h, s)
  BY DEF FreshOK
<1>2. \A o : Handled(h, s, o) => Handled(g, s, o)
  BY <1>1 DEF Handled
<1>3. \A o \in objs : Handled(g, s, o)
  BY DEF Handled, Range
<1>4. \A o \in objs :
         /\ o \in Objects /\ cluster[o] # Absent /\ o.kind = kind /\ o.namespace = g.request.namespace
         /\ Exists(g.since, o)
  BY DEF Existing, Exists, Service!Exists, Absent, Service!Absent
<1>5. ASSUME NEW o \in Objects, o.kind \notin g.todo, o.namespace = g.request.namespace,
             Steady(g.since, o)
      PROVE  o.name \in g.names /\ Handled(g, s, o)
  <2>1. CASE o.kind = kind
    <3>1. o \in objs
      BY <1>5, <2>1 DEF Existing, Steady
    <3> QED BY <1>3, <3>1
  <2>2. CASE o.kind # kind
    BY <1>1, <1>2, <1>5, <2>2 DEF ListedOK
  <2> QED BY <2>1, <2>2
<1>6. ASSUME NEW name \in g.names
      PROVE  \E o \in Objects : /\ o.name = name /\ o.namespace = g.request.namespace
                                /\ Exists(g.since, o) /\ Handled(g, s, o)
  <2>1. CASE name \in h.names
    BY <1>1, <1>2, <2>1 DEF ListedOK
  <2>2. CASE \E o \in objs : name = o.name
    BY <1>3, <1>4, <2>2
  <2> QED BY <2>1, <2>2
<1>7. Existed(g.list, g.since)
  BY <1>4 DEF Existed
<1>8. ListedOK(g, s)
  BY <1>5, <1>6, <1>7 DEF ListedOK
<1>9. objs = {} => g.list = <<>>
  <2> SUFFICES ASSUME objs = {}, g.list # <<>> PROVE FALSE
    OBVIOUS
  <2>1. 1 \in DOMAIN g.list
    BY TailProperty
  <2> QED BY <2>1 DEF Range
<1> QED BY <1>8, <1>9 DEF FreshOK, Built, PassedOK

LEMMA ListedSame ==
    ASSUME NEW h, NEW g, NEW s, SameRequest(g, h), g.todo = h.todo, g.list = h.list, g.names = h.names,
           ListedOK(h, s)
    PROVE  ListedOK(g, s)
<1>1. \A o : Handled(h, s, o) => Handled(g, s, o)
  BY DEF Handled, SameRequest
<1> QED BY <1>1 DEF ListedOK, SameRequest

LEMMA BuiltSame ==
    ASSUME NEW h, NEW g, NEW cs, NEW miss, Built(h, cs, miss), g.list = h.list, g.tree = h.tree,
           h.pc \in {"build", "lock", "scan", "append"}, g.pc \in {"lock", "scan", "append"},
           h.pc = "build" => ~Deeper(h.list[1], h.tree)
    PROVE  Built(g, cs, miss)
BY DEF Built

LEMMA ListBelowFresh ==
    ASSUME NEW h, NEW g, NEW s, FreshOK(h, s), h.pc = "build", g.pc = "build",
           SameRequest(g, h), SameList(g, h), cluster \in h.since, h.tree \in Seq(Part),
           g.tree = Append(h.tree, cluster[h.list[1]])
    PROVE  FreshOK(g, s)
<1>1. Seen(h.list[1], cluster[h.list[1]], h.since, FALSE)
  BY DEF Seen
<1>2. g.since = h.since /\ g.list = h.list /\ ListedOK(h, s) /\ Built(h, h.since, FALSE)
  BY DEF FreshOK, SameRequest, SameList
<1>3. Built(g, g.since, FALSE)
  BY <1>1, <1>2, BuiltMore
<1>4. ListedOK(g, s)
  BY <1>2, ListedSame DEF SameList
<1> QED BY <1>3, <1>4 DEF FreshOK, PassedOK

LEMMA BuildFresh ==
    ASSUME NEW h, NEW g, NEW s, FreshOK(h, s), h.pc = "build", g.pc = "lock",
           SameRequest(g, h), SameList(g, h), SameScan(g, h), ~Deeper(h.list[1], h.tree)
    PROVE  FreshOK(g, s)
<1>1. g.since = h.since /\ g.list = h.list /\ ListedOK(h, s) /\ Built(h, h.since, FALSE)
  BY DEF FreshOK, SameRequest, SameList
<1>2. Built(g, g.since, FALSE)
  BY <1>1, BuiltSame DEF SameScan
<1>3. ListedOK(g, s)
  BY <1>1, ListedSame DEF SameList
<1> QED BY <1>2, <1>3 DEF FreshOK, PassedOK

LEMMA LockFresh ==
    ASSUME NEW h, NEW g, NEW s, s \in Seq(Entry), h.pc = "lock", g.pc = "scan",
           SameRequest(g, h), SameList(g, h), g.tree = h.tree, g.snap = s, g.pos = 1, ~g.found
    PROVE  ScanOK(g, s) /\ (FreshOK(h, s) => FreshOK(g, s))
<1>1. \A i \in DOMAIN s : ~(i < g.pos)
  OBVIOUS
<1>2. ScanOK(g, s)
  BY <1>1 DEF ScanOK
<1>3. ASSUME FreshOK(h, s) PROVE FreshOK(g, s)
  <2>1. g.since = h.since /\ g.list = h.list /\ ListedOK(h, s) /\ Built(h, h.since, FALSE)
    BY <1>3 DEF FreshOK, SameRequest, SameList
  <2>2. Built(g, g.since, FALSE)
    BY <2>1, BuiltSame
  <2>3. ListedOK(g, s)
    BY <2>1, ListedSame DEF SameList
  <2> QED BY <1>1, <2>2, <2>3 DEF FreshOK, PassedOK
<1> QED BY <1>2, <1>3

LEMMA OverwriteFresh ==
    ASSUME NEW h \in HandlerType, NEW g, NEW s, s \in Seq(Entry), h.pc = "scan", g.pc = "scan",
           SameRequest(g, h), SameList(g, h), g.tree = h.tree, g.snap = h.snap, g.found,
           NEW t, NEW i, Overwrites(g, h, s, t, i), h.list # <<>>, ScanOK(h, s)
    PROVE  ScanOK(g, t) /\ (FreshOK(h, s) => FreshOK(g, t))
<1> USE DEF SameRequest, SameList, Overwrites
<1> DEFINE o == h.list[1]
           e == [obj |-> o, tree |-> h.tree]
<1>1. h.pos \in Nat /\ DOMAIN s = 1 .. Len(s) /\ Len(s) \in Nat /\ h.list \in Seq(Objects)
  BY DEF HandlerType
<1>a. \A j \in DOMAIN h.snap : j >= h.pos /\ h.snap[j].obj = o => i <= j
  OBVIOUS
<1>2. /\ DOMAIN h.snap = DOMAIN s
      /\ \A j \in DOMAIN s : h.snap[j].obj = s[j].obj
      /\ h.found <=> \E j \in DOMAIN s : j < h.pos /\ s[j].obj = o
  BY DEF ScanOK
<1>3. DOMAIN t = DOMAIN s /\ t[i] = e /\ \A j \in DOMAIN s : j # i => t[j] = s[j]
  OBVIOUS
<1>4. e.obj = o
  OBVIOUS
<1>5. \A j \in DOMAIN s : t[j].obj = s[j].obj
  BY <1>2, <1>3, <1>4
<1>6. ScanOK(g, t)
  BY <1>2, <1>3, <1>4, <1>5, <1>1 DEF ScanOK
<1>7. ASSUME FreshOK(h, s) PROVE FreshOK(g, t)
  <2>1. ListedOK(h, s) /\ Built(h, h.since, FALSE) /\ PassedOK(h, s)
    BY <1>7 DEF FreshOK
  <2>2. 1 \in DOMAIN h.list
    BY <1>1, TailProperty
  <2>3. IsOf(e, g.since)
    BY <2>1, <2>2, EntryOf DEF ListedOK, Existed, IsOf
  <2> HIDE DEF e, o
  <2>4. \A p : Updated(s, p, h.since) => Updated(t, p, g.since)
    BY <1>3, <1>5, <2>3 DEF Updated
  <2>5. \A p : Handled(h, s, p) => Handled(g, t, p)
    BY <2>4 DEF Handled
  <2>6. ListedOK(g, t)
    <3>1. \A name \in g.names :
             \E p \in Objects : /\ p.name = name /\ p.namespace = g.request.namespace
                                /\ Exists(g.since, p) /\ Handled(g, t, p)
      <4> SUFFICES ASSUME NEW name \in h.names
                   PROVE  \E p \in Objects : /\ p.name = name /\ p.namespace = h.request.namespace
                                             /\ Exists(h.since, p) /\ Handled(g, t, p)
        OBVIOUS
      <4>1. PICK p \in Objects : /\ p.name = name /\ p.namespace = h.request.namespace
                                 /\ Exists(h.since, p) /\ Handled(h, s, p)
        BY <2>1 DEF ListedOK
      <4> QED BY <2>5, <4>1
    <3>2. \A p \in Objects :
             p.kind \notin g.todo /\ p.namespace = g.request.namespace /\ Steady(g.since, p) =>
                 p.name \in g.names /\ Handled(g, t, p)
      BY <2>1, <2>5 DEF ListedOK
    <3>3. Existed(g.list, g.since)
      BY <2>1 DEF ListedOK
    <3> QED BY <3>1, <3>2, <3>3 DEF ListedOK
  <2>7. ASSUME NEW j \in DOMAIN t, j < g.pos, t[j].obj = o PROVE IsOf(t[j], g.since)
    <3>1. CASE j = i
      BY <1>3, <2>3, <3>1
    <3>2. CASE j # i
      <4>1. j \in DOMAIN s /\ t[j] = s[j] /\ s[j].obj = o /\ h.snap[j].obj = o /\ j \in DOMAIN h.snap
        BY <1>2, <1>3, <2>7, <3>2
      <4>2. j < i /\ i \in Nat /\ j \in Nat
        BY <1>1, <2>7, <3>2, <4>1
      <4>3. ~(j >= h.pos)
        BY <1>a, <4>1, <4>2
      <4>4. j < h.pos
        BY <1>1, <4>2, <4>3
      <4> QED BY <2>1, <4>1, <4>4 DEF PassedOK, o
    <3> QED BY <3>1, <3>2
  <2>8. PassedOK(g, t)
    BY <2>7 DEF PassedOK, o
  <2> QED BY <2>1, <2>6, <2>8 DEF FreshOK, Built
<1> QED BY <1>6, <1>7

\* The resource at the head of the list has been stored.
LEMMA HeadStored ==
    ASSUME NEW h \in HandlerType, NEW g, NEW s, NEW t, h.list # <<>>, ListedOK(h, s),
           SameRequest(g, h), g.todo = h.todo, g.names = h.names, g.list = Tail(h.list),
           g.pc \in {"list", "build"}, g.pc = "list" => g.list = <<>>, g.tree = <<>>,
           Updated(t, h.list[1], h.since),
           \A o : Updated(s, o, h.since) => Updated(t, o, h.since)
    PROVE  FreshOK(g, t)
<1> USE DEF SameRequest
<1>1. h.list \in Seq(Objects)
  BY DEF HandlerType
<1>2. \A o : Handled(h, s, o) => Handled(g, t, o)
  <2> SUFFICES ASSUME NEW o, Handled(h, s, o) PROVE Handled(g, t, o)
    OBVIOUS
  <2>1. CASE Updated(s, o, h.since)
    BY <2>1 DEF Handled
  <2>2. CASE \E i \in DOMAIN h.list : h.list[i] = o
    <3>1. PICK i \in DOMAIN h.list : h.list[i] = o
      BY <2>2
    <3>2. CASE i = 1
      BY <3>1, <3>2 DEF Handled
    <3>3. CASE i # 1
      <4>1. i - 1 \in DOMAIN g.list /\ g.list[i - 1] = o
        BY <1>1, <3>1, <3>3, TailProperty
      <4> QED BY <4>1 DEF Handled
    <3> QED BY <3>2, <3>3
  <2> QED BY <2>1, <2>2 DEF Handled
<1>3. Existed(g.list, g.since)
  BY <1>1, TailProperty DEF ListedOK, Existed
<1>4. ListedOK(g, t)
  BY <1>2, <1>3 DEF ListedOK
<1> QED BY <1>4 DEF FreshOK, Built, PassedOK

LEMMA EndScanFresh ==
    ASSUME NEW h \in HandlerType, NEW g, NEW s, h.pc = "scan", h.list # <<>>, SameRequest(g, h),
           g.todo = h.todo, g.names = h.names, ScanOK(h, s),
           \A j \in DOMAIN h.snap : h.snap[j].obj = h.list[1] => j < h.pos,
           \/ h.found /\ g.pc \in {"list", "build"} /\ g.list = Tail(h.list) /\ g.tree = <<>>
              /\ (g.pc = "list" => g.list = <<>>)
           \/ ~h.found /\ g.pc = "append" /\ g.list = h.list /\ g.tree = h.tree /\ g.snap = s
    PROVE  ScanOK(g, s) /\ (FreshOK(h, s) => FreshOK(g, s))
<1>1. /\ DOMAIN h.snap = DOMAIN s
      /\ \A j \in DOMAIN s : h.snap[j].obj = s[j].obj
      /\ h.found <=> \E j \in DOMAIN s : j < h.pos /\ s[j].obj = h.list[1]
  BY DEF ScanOK
<1>2. \A j \in DOMAIN s : s[j].obj = h.list[1] => j < h.pos
  BY <1>1
<1>3. CASE h.found /\ g.pc \in {"list", "build"} /\ g.list = Tail(h.list) /\ g.tree = <<>>
           /\ (g.pc = "list" => g.list = <<>>)
  <2>1. ScanOK(g, s)
    BY <1>3 DEF ScanOK
  <2>2. ASSUME FreshOK(h, s) PROVE FreshOK(g, s)
    <3>1. ListedOK(h, s) /\ PassedOK(h, s)
      BY <2>2 DEF FreshOK
    <3>2. Updated(s, h.list[1], h.since)
      BY <1>1, <1>2, <1>3, <3>1 DEF Updated, PassedOK
    <3> QED BY <1>3, <3>1, <3>2, HeadStored
  <2> QED BY <2>1, <2>2
<1>4. CASE ~h.found /\ g.pc = "append" /\ g.list = h.list /\ g.tree = h.tree /\ g.snap = s
  <2>1. ScanOK(g, s)
    BY <1>1, <1>2, <1>4 DEF ScanOK
  <2>2. ASSUME FreshOK(h, s) PROVE FreshOK(g, s)
    <3>1. g.since = h.since /\ ListedOK(h, s) /\ Built(h, h.since, FALSE)
      BY <2>2 DEF FreshOK, SameRequest
    <3>2. Built(g, g.since, FALSE)
      BY <1>4, <3>1, BuiltSame
    <3>3. ListedOK(g, s)
      BY <1>4, <3>1, ListedSame
    <3> QED BY <1>4, <3>2, <3>3 DEF FreshOK, PassedOK
  <2> QED BY <2>1, <2>2
<1> QED BY <1>3, <1>4

LEMMA AppendEntryFresh ==
    ASSUME NEW h \in HandlerType, NEW g, NEW s, s \in Seq(Entry), h.pc = "append", h.list # <<>>,
           SameRequest(g, h), g.todo = h.todo, g.names = h.names, ScanOK(h, s), FreshOK(h, s),
           g.pc \in {"list", "build"}, g.list = Tail(h.list), g.pc = "list" => g.list = <<>>,
           g.tree = <<>>, NEW t, t = Append(h.snap, [obj |-> h.list[1], tree |-> h.tree])
    PROVE  FreshOK(g, t)
<1> DEFINE o == h.list[1]
           e == [obj |-> o, tree |-> h.tree]
<1>1. ListedOK(h, s) /\ Built(h, h.since, FALSE) /\ h.list \in Seq(Objects)
  BY DEF FreshOK, HandlerType
<1>2. h.snap = s /\ \A j \in DOMAIN s : s[j].obj # o
  BY DEF ScanOK
<1>3. 1 \in DOMAIN h.list
  BY <1>1, TailProperty
<1>4. IsOf(e, h.since) /\ e.obj = o
  BY <1>1, <1>3, EntryOf DEF ListedOK, Existed, IsOf
<1> HIDE DEF e, o
<1>5. /\ DOMAIN s \subseteq DOMAIN t /\ \A j \in DOMAIN s : t[j] = s[j]
      /\ Len(s) + 1 \in DOMAIN t /\ t[Len(s) + 1] = e
      /\ \A j \in DOMAIN t : j \in DOMAIN s \/ j = Len(s) + 1
  BY <1>2 DEF e, o
<1>6. Updated(t, o, h.since)
  BY <1>2, <1>4, <1>5 DEF Updated
<1>7. \A p : Updated(s, p, h.since) => Updated(t, p, h.since)
  BY <1>2, <1>4, <1>5 DEF Updated
<1> QED BY <1>1, <1>6, <1>7, HeadStored DEF o

LEMMA KeptPresent ==
    ASSUME NEW s \in Seq(Entry), NEW names, NEW t, t = Kept(s, Present(s, names))
    PROVE  /\ \A i \in DOMAIN t : \E k \in DOMAIN s : s[k].obj.name \in names /\ t[i] = s[k]
           /\ \A k \in DOMAIN s : s[k].obj.name \in names => \E i \in DOMAIN t : t[i] = s[k]
<1>1. ASSUME NEW P, P = Present(s, names)
      PROVE  /\ \A i \in DOMAIN t : \E k \in DOMAIN s : k \in P /\ t[i] = s[k]
             /\ \A k \in DOMAIN s : k \in P => \E i \in DOMAIN t : t[i] = s[k]
  <2>1. t = Kept(s, P)
    BY <1>1
  <2> QED BY <2>1, KeptElements
<1> DEFINE P == Present(s, names)
<1>2. \A k : k \in P <=> k \in DOMAIN s /\ s[k].obj.name \in names
  BY DEF Present
<1> HIDE DEF P
<1>3. /\ \A i \in DOMAIN t : \E k \in DOMAIN s : k \in P /\ t[i] = s[k]
      /\ \A k \in DOMAIN s : k \in P => \E i \in DOMAIN t : t[i] = s[k]
  BY <1>1 DEF P
<1> QED BY <1>2, <1>3

LEMMA PurgeScanFresh ==
    ASSUME NEW h, NEW g, NEW s, s \in Seq(Entry), FreshOK(h, s), h.pc = "list", h.todo = {},
           g.pc = "purge", SameRequest(g, h), SameList(g, h), g.snap = Kept(s, Present(s, h.names))
    PROVE  FreshOK(g, s)
<1> DEFINE t == Kept(s, Present(s, h.names))
<1>1. ListedOK(h, s) /\ h.list = <<>>
  BY DEF FreshOK
<1>2. /\ \A i \in DOMAIN t : \E k \in DOMAIN s : s[k].obj.name \in h.names /\ t[i] = s[k]
      /\ \A k \in DOMAIN s : s[k].obj.name \in h.names => \E i \in DOMAIN t : t[i] = s[k]
  BY KeptPresent
<1> HIDE DEF t
<1> USE DEF SameRequest, SameList
<1>3. \A o : Handled(h, s, o) => Updated(s, o, h.since)
  BY <1>1 DEF Handled
<1>4. ASSUME NEW o \in Objects, o.namespace = h.request.namespace, Steady(h.since, o)
      PROVE  \E i \in DOMAIN t : t[i].obj = o /\ IsOf(t[i], h.since)
  <2>1. o.name \in h.names /\ Updated(s, o, h.since)
    BY <1>1, <1>3, <1>4 DEF ListedOK
  <2>2. PICK k \in DOMAIN s : s[k].obj = o /\ IsOf(s[k], h.since)
    BY <2>1 DEF Updated
  <2> QED BY <1>2, <2>1, <2>2
<1>5. ASSUME NEW i \in DOMAIN t, t[i].obj.namespace = h.request.namespace
      PROVE  \/ IsOf(t[i], h.since)
             \/ \E o \in Objects : Service!Namesake(o, t[i].obj) /\ Exists(h.since, o)
  <2>1. PICK k \in DOMAIN s : s[k].obj.name \in h.names /\ t[i] = s[k]
    BY <1>2
  <2>2. PICK o \in Objects :
           /\ o.name = s[k].obj.name /\ o.namespace = h.request.namespace
           /\ Exists(h.since, o) /\ Updated(s, o, h.since)
    BY <1>1, <1>3, <2>1 DEF ListedOK
  <2>3. CASE o = t[i].obj
    BY <2>1, <2>2, <2>3 DEF Updated
  <2>4. CASE o # t[i].obj
    BY <1>5, <2>1, <2>2, <2>4 DEF Service!Namesake
  <2> QED BY <2>3, <2>4
<1>6. Ready(g, t)
  BY <1>4, <1>5 DEF Ready
<1> QED BY <1>6 DEF FreshOK, Built, PassedOK, t

LEMMA PurgeFresh ==
    ASSUME NEW h, NEW g, NEW s, FreshOK(h, s), h.pc = "purge", g.pc = "get", SameRequest(g, h)
    PROVE  FreshOK(g, h.snap)
BY DEF FreshOK, SameRequest, Built, PassedOK, Ready

LEMMA KeptMatching ==
    ASSUME NEW s \in Seq(Entry), NEW request, NEW t, t = Kept(s, Matching(s, request))
    PROVE  /\ \A i \in DOMAIN t : \E k \in DOMAIN s : Asked(request, s[k].obj) /\ t[i] = s[k]
           /\ \A k \in DOMAIN s : Asked(request, s[k].obj) => \E i \in DOMAIN t : t[i] = s[k]
<1>1. ASSUME NEW P, P = Matching(s, request)
      PROVE  /\ \A i \in DOMAIN t : \E k \in DOMAIN s : k \in P /\ t[i] = s[k]
             /\ \A k \in DOMAIN s : k \in P => \E i \in DOMAIN t : t[i] = s[k]
  <2>1. t = Kept(s, P)
    BY <1>1
  <2> QED BY <2>1, KeptElements
<1> DEFINE P == Matching(s, request)
<1>2. \A k : k \in P <=> k \in DOMAIN s /\ Asked(request, s[k].obj)
  BY DEF Matching
<1> HIDE DEF P
<1>3. /\ \A i \in DOMAIN t : \E k \in DOMAIN s : k \in P /\ t[i] = s[k]
      /\ \A k \in DOMAIN s : k \in P => \E i \in DOMAIN t : t[i] = s[k]
  BY <1>1 DEF P
<1> QED BY <1>2, <1>3

LEMMA GetCompositionsFresh ==
    ASSUME NEW h, NEW g, NEW s, s \in Seq(Entry), FreshOK(h, s), h.pc = "get", g.pc = "answered",
           SameRequest(g, h),
           g.answer = Kept(s, Matching(s, h.request))
    PROVE  FreshOK(g, s)
<1> USE DEF SameRequest
<1> DEFINE t == Kept(s, Matching(s, h.request))
<1>1. Ready(h, s)
  BY DEF FreshOK
<1>2. /\ \A i \in DOMAIN t : \E k \in DOMAIN s : Asked(h.request, s[k].obj) /\ t[i] = s[k]
      /\ \A k \in DOMAIN s : Asked(h.request, s[k].obj) => \E i \in DOMAIN t : t[i] = s[k]
  BY KeptMatching
<1> HIDE DEF t
<1>3. \A o : Service!Wanted(h.request, o) <=> Asked(h.request, o)
  BY DEF Service!Wanted, Asked
<1>4. \A o : Asked(h.request, o) => o.namespace = h.request.namespace
  BY DEF Asked
<1>5. ASSUME NEW o \in Objects, Service!Wanted(h.request, o), \A c \in h.since : c[o] # Service!Absent
      PROVE  \E entry \in Range(t) : entry.obj = o /\ Service!Tells(entry, h.since, FALSE)
  <2>1. Asked(h.request, o) /\ Steady(h.since, o)
    BY <1>3, <1>5 DEF Steady, Absent, Service!Absent
  <2>2. PICK k \in DOMAIN s : s[k].obj = o /\ IsOf(s[k], h.since)
    BY <1>1, <1>4, <2>1 DEF Ready
  <2>3. PICK i \in DOMAIN t : t[i] = s[k]
    BY <1>2, <2>1, <2>2
  <2> QED BY <2>2, <2>3 DEF Range, IsOf, Tells
<1>6. ASSUME NEW entry \in Range(t)
      PROVE  \/ Service!Tells(entry, h.since, FALSE)
             \/ \E o \in Objects : Service!Namesake(o, entry.obj) /\ Service!Exists(h.since, o)
  <2>1. PICK k \in DOMAIN s : Asked(h.request, s[k].obj) /\ entry = s[k]
    BY <1>2 DEF Range
  <2> QED BY <1>1, <1>4, <2>1 DEF Ready, IsOf, Tells, Exists
<1>7. Session(g).request = h.request /\ Session(g).since = h.since
  BY DEF Session
<1>8. Service!Fresh(Session(g), Range(g.answer))
  BY <1>5, <1>6, <1>7 DEF Service!Fresh, t
<1> QED BY <1>8 DEF FreshOK, Built, PassedOK

-----------------------------------------------------------------------------
(* The steps of the request that is alone *)

SoundOK(h, s) == ScanOK(h, s) /\ (~h.failed => FreshOK(h, s))

\* While a request is served, only the request itself can be alone.
LEMMA FreshMove ==
    ASSUME AloneInv, FreshInv, NEW w \in Workers, Only(w), Active(w),
           handler'[w].pc = "idle" \/ handler'[w].alone = handler[w].alone,
           handler'[w].pc # "idle" /\ handler[w].alone => SoundOK(handler'[w], store')
    PROVE  AloneInv' /\ FreshInv'
<1>1. ASSUME NEW v \in Workers \ {w} PROVE handler'[v] = handler[v] /\ ~(Active(v) /\ handler[v].alone)
  BY <1>1 DEF AloneInv, Only
<1>2. handler'[w].pc # "idle" /\ handler'[w].alone => \A v \in Workers \ {w} : ~Active(v)
  BY DEF AloneInv
<1>3. AloneInv'
  BY <1>1, <1>2 DEF AloneInv, Active, At
<1>4. ASSUME NEW v \in Workers, handler'[v].pc # "idle", handler'[v].alone
      PROVE  SoundOK(handler'[v], store')
  BY <1>1, <1>4 DEF Active, At
<1>5. FreshInv'
  BY <1>4 DEF FreshInv, SoundOK, Active, At
<1> QED BY <1>3, <1>5

LEMMA FreshStep == SInv /\ [Next]_vars => AloneInv' /\ FreshInv'
<1> SUFFICES ASSUME SInv, [Next]_vars PROVE AloneInv' /\ FreshInv'
  OBVIOUS
<1>a. TypeInv /\ PastInv /\ AloneInv /\ FreshInv /\ store \in Seq(Entry)
  BY DEF SInv, TypeInv, VarsTyped
<1>b. ASSUME NEW w \in Workers
      PROVE  /\ handler[w] \in HandlerType
             /\ Active(w) /\ handler[w].alone => SoundOK(handler[w], store)
             /\ Active(w) => cluster \in handler[w].since
  BY <1>a DEF FreshInv, SoundOK, TypeInv, HandlersTyped, PastInv
<1>1. ASSUME NEW w \in Workers, Begin(w) PROVE AloneInv' /\ FreshInv'
  <2>1. /\ store' = store
        /\ \A v \in Workers \ {w} : handler'[v] = [handler[v] EXCEPT !.alone = @ /\ ~Active(v)]
    BY <1>1, <1>a, BeginMoves
  <2>2. PICK r \in Requests :
           handler'[w] = [Idle EXCEPT !.pc = "kinds",
                                      !.request = [r EXCEPT !.namespace = Namespace(r)],
                                      !.since = {cluster},
                                      !.alone = (\A v \in Workers \ {w} : ~Active(v))]
    BY <1>1, <1>a, BeginMoves
  <2>3. /\ handler'[w].pc = "kinds" /\ handler'[w].names = {} /\ handler'[w].list = <<>>
        /\ handler'[w].alone => \A v \in Workers \ {w} : ~Active(v)
    BY <2>2 DEF Idle
  <2>4. ASSUME NEW v \in Workers \ {w}
        PROVE  handler'[v].pc = handler[v].pc /\ (handler'[v].alone => ~Active(v))
    <3>1. handler[v] \in HandlerType /\ handler'[v] = [handler[v] EXCEPT !.alone = @ /\ ~Active(v)]
      BY <1>b, <2>1
    <3>2. handler'[v].pc = handler[v].pc
      BY <3>1 DEF HandlerType
    <3>3. handler'[v].alone = (handler[v].alone /\ ~Active(v))
      BY <3>1 DEF HandlerType
    <3> QED BY <3>2, <3>3
  <2>5. AloneInv'
    BY <2>3, <2>4 DEF AloneInv, Active, At
  <2>6. SoundOK(handler'[w], store')
    BY <2>3 DEF SoundOK, ScanOK, FreshOK, Built, PassedOK
  <2>7. FreshInv'
    BY <2>4, <2>6 DEF FreshInv, SoundOK, Active, At
  <2> QED BY <2>5, <2>7
<1>2. ASSUME NEW w \in Workers, ReadKinds(w) PROVE AloneInv' /\ FreshInv'
  <2> DEFINE h == handler[w]
             g == handler'[w]
  <2>1. /\ Only(w) /\ store' = store /\ h.pc = "kinds" /\ g.pc = "list" /\ SameRequest(g, h)
        /\ g.todo = Kinds /\ g.list = h.list /\ g.names = h.names
    BY <1>2, <1>a, ReadKindsMoves
  <2>2. FreshOK(h, store) => FreshOK(g, store')
    BY <2>1, ReadKindsFresh
  <2>3. SoundOK(h, store) => SoundOK(g, store')
    BY <2>1, <2>2 DEF SoundOK, ScanOK, SameRequest
  <2> QED BY <1>a, <1>b, <2>1, <2>3, FreshMove DEF SameRequest, Active, At
<1>3. ASSUME NEW w \in Workers, ReadKindsFails(w) PROVE AloneInv' /\ FreshInv'
  <2> DEFINE h == handler[w]
             g == handler'[w]
  <2>1. /\ Only(w) /\ h.pc = "kinds" /\ g.pc = "get" /\ g.failed /\ g.alone = h.alone
    BY <1>3, <1>a, ReadKindsFailsMoves
  <2>2. SoundOK(g, store')
    BY <2>1 DEF SoundOK, ScanOK
  <2> QED BY <1>a, <2>1, <2>2, FreshMove DEF Active, At
<1>4. ASSUME NEW w \in Workers, ListKindFails(w) \/ ListBelowFails(w) PROVE AloneInv' /\ FreshInv'
  <2> DEFINE h == handler[w]
             g == handler'[w]
  <2>1. /\ Only(w) /\ h.pc \in {"list", "build"} /\ g.pc = h.pc /\ g.failed /\ g.alone = h.alone
    BY <1>4, <1>a, ListKindFailsMoves, ListBelowFailsMoves
  <2>2. SoundOK(g, store')
    BY <2>1 DEF SoundOK, ScanOK
  <2> QED BY <1>a, <2>1, <2>2, FreshMove DEF Active, At
<1>5. ASSUME NEW w \in Workers, ListKind(w) PROVE AloneInv' /\ FreshInv'
  <2> DEFINE h == handler[w]
             g == handler'[w]
  <2>1. Only(w) /\ store' = store /\ SameRequest(g, h) /\ h.pc = "list" /\ g.tree = <<>>
    BY <1>5, <1>a, ListKindMoves DEF SameScan
  <2>2. PICK kind, objs : Lists(g, h, kind, objs)
    BY <1>5, <1>a, ListKindMoves
  <2>3. cluster \in h.since
    BY <1>b, <2>1 DEF Active, At
  <2>4. FreshOK(h, store) => FreshOK(g, store')
    BY <2>1, <2>2, <2>3, ListKindFresh
  <2>5. SoundOK(h, store) => SoundOK(g, store')
    BY <2>1, <2>2, <2>4 DEF SoundOK, ScanOK, SameRequest, Lists
  <2> QED BY <1>a, <1>b, <2>1, <2>5, FreshMove DEF SameRequest, Active, At
<1>6. ASSUME NEW w \in Workers, Build(w) PROVE AloneInv' /\ FreshInv'
  <2> DEFINE h == handler[w]
             g == handler'[w]
  <2>1. /\ Only(w) /\ store' = store /\ h.pc = "build" /\ g.pc = "lock" /\ SameRequest(g, h)
        /\ SameList(g, h) /\ SameScan(g, h) /\ ~Deeper(h.list[1], h.tree)
    BY <1>6, <1>a, BuildMoves
  <2>3. FreshOK(h, store) => FreshOK(g, store')
    BY <2>1, BuildFresh
  <2>4. SoundOK(h, store) => SoundOK(g, store')
    BY <2>1, <2>3 DEF SoundOK, ScanOK, SameRequest
  <2> QED BY <1>a, <1>b, <2>1, <2>4, FreshMove DEF SameRequest, Active, At
<1>18. ASSUME NEW w \in Workers, ListBelow(w) PROVE AloneInv' /\ FreshInv'
  <2> DEFINE h == handler[w]
             g == handler'[w]
  <2>1. /\ Only(w) /\ store' = store /\ h.pc = "build" /\ g.pc = "build" /\ SameRequest(g, h)
        /\ SameList(g, h) /\ g.tree = Append(h.tree, cluster[h.list[1]]) /\ h.tree \in Seq(Part)
    BY <1>18, <1>a, ListBelowMoves
  <2>2. cluster \in h.since
    BY <1>b, <2>1 DEF Active, At
  <2>3. FreshOK(h, store) => FreshOK(g, store')
    BY <2>1, <2>2, ListBelowFresh
  <2>4. SoundOK(h, store) => SoundOK(g, store')
    BY <2>1, <2>3 DEF SoundOK, ScanOK, SameRequest
  <2> QED BY <1>a, <1>b, <2>1, <2>4, FreshMove DEF SameRequest, Active, At
<1>7. ASSUME NEW w \in Workers, Lock(w) PROVE AloneInv' /\ FreshInv'
  <2> DEFINE h == handler[w]
             g == handler'[w]
  <2>1. /\ Only(w) /\ store' = store /\ h.pc = "lock" /\ g.pc = "scan" /\ SameRequest(g, h)
        /\ SameList(g, h) /\ g.tree = h.tree /\ g.snap = store /\ g.pos = 1 /\ ~g.found
    BY <1>7, <1>a, LockMoves
  <2>2. ScanOK(g, store') /\ (FreshOK(h, store) => FreshOK(g, store'))
    BY <1>a, <2>1, LockFresh
  <2>3. SoundOK(h, store) => SoundOK(g, store')
    BY <2>1, <2>2 DEF SoundOK, SameRequest
  <2> QED BY <1>a, <1>b, <2>1, <2>3, FreshMove DEF SameRequest, Active, At
<1>8. ASSUME NEW w \in Workers, Overwrite(w) PROVE AloneInv' /\ FreshInv'
  <2> DEFINE h == handler[w]
             g == handler'[w]
  <2>1. /\ Only(w) /\ h.pc = "scan" /\ g.pc = "scan" /\ SameRequest(g, h) /\ SameList(g, h)
        /\ g.tree = h.tree /\ g.snap = h.snap /\ g.found /\ h.list # <<>>
    BY <1>8, <1>a, OverwriteMoves
  <2>2. PICK i : Overwrites(g, h, store, store', i)
    BY <1>8, <1>a, OverwriteMoves
  <2>3. h \in HandlerType
    BY <1>b
  <2>4. ScanOK(h, store) => ScanOK(g, store') /\ (FreshOK(h, store) => FreshOK(g, store'))
    BY <1>a, <2>1, <2>2, <2>3, OverwriteFresh
  <2>5. SoundOK(h, store) => SoundOK(g, store')
    BY <2>1, <2>4 DEF SoundOK, SameRequest
  <2> QED BY <1>a, <1>b, <2>1, <2>5, FreshMove DEF SameRequest, Active, At
<1>9. ASSUME NEW w \in Workers, EndScan(w) PROVE AloneInv' /\ FreshInv'
  <2> DEFINE h == handler[w]
             g == handler'[w]
  <2>1. /\ Only(w) /\ store' = store /\ h.pc = "scan" /\ h.list # <<>> /\ SameRequest(g, h)
        /\ g.todo = h.todo /\ g.names = h.names
        /\ \A j \in DOMAIN h.snap : h.snap[j].obj = h.list[1] => j < h.pos
        /\ \/ h.found /\ g.pc \in {"list", "build"} /\ g.list = Tail(h.list) /\ g.tree = <<>>
              /\ (g.pc = "list" => g.list = <<>>)
           \/ ~h.found /\ g.pc = "append" /\ g.list = h.list /\ g.tree = h.tree /\ g.snap = store
    BY <1>9, <1>a, EndScanMoves
  <2>2. h \in HandlerType
    BY <1>b
  <2>3. ScanOK(h, store) => ScanOK(g, store') /\ (FreshOK(h, store) => FreshOK(g, store'))
    BY <2>1, <2>2, EndScanFresh
  <2>4. SoundOK(h, store) => SoundOK(g, store')
    BY <2>1, <2>3 DEF SoundOK, SameRequest
  <2> QED BY <1>a, <1>b, <2>1, <2>4, FreshMove DEF SameRequest, Active, At
<1>10. ASSUME NEW w \in Workers, AppendEntry(w) PROVE AloneInv' /\ FreshInv'
  <2> DEFINE h == handler[w]
             g == handler'[w]
  <2>1. /\ Only(w) /\ h.pc = "append" /\ h.list # <<>>
        /\ store' = Append(h.snap, [obj |-> h.list[1], tree |-> h.tree])
        /\ SameRequest(g, h) /\ g.todo = h.todo /\ g.names = h.names
        /\ g.pc \in {"list", "build"} /\ g.list = Tail(h.list) /\ (g.pc = "list" => g.list = <<>>)
        /\ g.tree = <<>>
    BY <1>10, <1>a, AppendEntryMoves
  <2>2. h \in HandlerType
    BY <1>b
  <2>3. ScanOK(h, store) /\ FreshOK(h, store) => FreshOK(g, store')
    BY <1>a, <2>1, <2>2, AppendEntryFresh
  <2>4. ScanOK(g, store')
    BY <2>1 DEF ScanOK
  <2>5. SoundOK(h, store) => SoundOK(g, store')
    BY <2>1, <2>3, <2>4 DEF SoundOK, SameRequest
  <2> QED BY <1>a, <1>b, <2>1, <2>5, FreshMove DEF SameRequest, Active, At
<1>11. ASSUME NEW w \in Workers, PurgeScan(w) PROVE AloneInv' /\ FreshInv'
  <2> DEFINE h == handler[w]
             g == handler'[w]
  <2>1. /\ Only(w) /\ store' = store /\ h.pc = "list" /\ h.todo = {} /\ g.pc = "purge"
        /\ SameRequest(g, h) /\ SameList(g, h) /\ g.snap = Kept(store, Present(store, h.names))
    BY <1>11, <1>a, PurgeScanMoves
  <2>2. FreshOK(h, store) => FreshOK(g, store')
    BY <1>a, <2>1, PurgeScanFresh
  <2>3. SoundOK(h, store) => SoundOK(g, store')
    BY <2>1, <2>2 DEF SoundOK, ScanOK, SameRequest
  <2> QED BY <1>a, <1>b, <2>1, <2>3, FreshMove DEF SameRequest, Active, At
<1>12. ASSUME NEW w \in Workers, Purge(w) PROVE AloneInv' /\ FreshInv'
  <2> DEFINE h == handler[w]
             g == handler'[w]
  <2>1. Only(w) /\ store' = h.snap /\ h.pc = "purge" /\ g.pc = "get" /\ SameRequest(g, h)
    BY <1>12, <1>a, PurgeMoves
  <2>2. FreshOK(h, store) => FreshOK(g, store')
    BY <2>1, PurgeFresh
  <2>3. SoundOK(h, store) => SoundOK(g, store')
    BY <2>1, <2>2 DEF SoundOK, ScanOK, SameRequest
  <2> QED BY <1>a, <1>b, <2>1, <2>3, FreshMove DEF SameRequest, Active, At
<1>13. ASSUME NEW w \in Workers, GetCompositions(w) PROVE AloneInv' /\ FreshInv'
  <2> DEFINE h == handler[w]
             g == handler'[w]
  <2>1. /\ Only(w) /\ store' = store /\ h.pc = "get" /\ g.pc = "answered" /\ SameRequest(g, h)
        /\ g.answer = Kept(store, Matching(store, h.request))
    BY <1>13, <1>a, GetCompositionsMoves
  <2>2. FreshOK(h, store) => FreshOK(g, store')
    BY <1>a, <2>1, GetCompositionsFresh
  <2>3. SoundOK(h, store) => SoundOK(g, store')
    BY <2>1, <2>2 DEF SoundOK, ScanOK, SameRequest
  <2> QED BY <1>a, <1>b, <2>1, <2>3, FreshMove DEF SameRequest, Active, At
<1>14. ASSUME NEW w \in Workers, Finish(w) \/ Panic(w) PROVE AloneInv' /\ FreshInv'
  <2>1. Only(w) /\ handler[w].pc \in {"answered", "scan"} /\ handler'[w] = Idle
    BY <1>14, <1>a, LeaveMoves
  <2>2. Idle.pc = "idle"
    BY DEF Idle
  <2> QED BY <1>a, <2>1, <2>2, FreshMove DEF Active, At
<1>15. CASE Change
  <2>1. /\ store' = store
        /\ \A w \in Workers :
              handler'[w] = IF Active(w) THEN [handler[w] EXCEPT !.since = @ \union {cluster'}]
                                         ELSE handler[w]
    BY <1>15, <1>a, ChangeMoves
  <2>2. ASSUME NEW w \in Workers
        PROVE  /\ handler'[w].pc = handler[w].pc /\ handler'[w].alone = handler[w].alone
               /\ SoundOK(handler[w], store) => SoundOK(handler'[w], store')
    <3> DEFINE h == handler[w]
               g == handler'[w]
    <3>1. /\ g.pc = h.pc /\ g.request = h.request /\ g.alone = h.alone /\ g.failed = h.failed
          /\ SameList(g, h) /\ SameScan(g, h) /\ g.answer = h.answer /\ h.since \subseteq g.since
      BY <1>b, <2>1 DEF HandlerType, SameList, SameScan
    <3> HIDE DEF g
    <3>2. FreshOK(h, store) => FreshOK(g, store')
      BY <2>1, <3>1, FreshMore
    <3>3. ScanOK(h, store) => ScanOK(g, store')
      BY <2>1, <3>1 DEF ScanOK, SameList, SameScan
    <3> QED BY <3>1, <3>2, <3>3 DEF SoundOK, g
  <2>3. AloneInv'
    BY <1>a, <2>2 DEF AloneInv, Active, At
  <2>4. FreshInv'
    BY <1>b, <2>2 DEF FreshInv, SoundOK, Active, At
  <2> QED BY <2>3, <2>4
<1>16. CASE RuntimeFault
  <2>1. \A w \in Workers : handler'[w].pc = "idle"
    BY <1>16 DEF RuntimeFault, Idle
  <2> QED BY <2>1 DEF AloneInv, FreshInv, Active, At
<1>17. CASE UNCHANGED vars
  BY <1>17, <1>a DEF vars, AloneInv, FreshInv, Active, At
<1> QED
  BY <1>1, <1>2, <1>3, <1>4, <1>5, <1>6, <1>7, <1>8, <1>9, <1>10, <1>11, <1>12, <1>13, <1>14,
     <1>15, <1>16, <1>17, <1>18
  DEF Next, Work, Quiet

LEMMA InitSound == Init => SInv
<1> SUFFICES ASSUME Init PROVE SInv
  OBVIOUS
<1>1. \A w \in Workers : handler[w] = Idle
  BY DEF Init
<1>2. Idle.pc = "idle" /\ Idle.since = {}
  BY DEF Idle
<1>3. PastInv
  BY <1>1, <1>2, IdlePast DEF Init, PastInv, AllOf, Active, At
<1>4. AloneInv /\ FreshInv
  BY <1>1, <1>2 DEF AloneInv, FreshInv, Active, At
<1> QED BY <1>3, <1>4, InitLock, InitTyped DEF SInv

LEMMA SoundStep == SInv /\ [Next]_vars => SInv'
<1> SUFFICES ASSUME SInv, [Next]_vars PROVE SInv'
  OBVIOUS
<1>1. TypeInv' /\ LockInv'
  BY TypeStep, LockStep DEF SInv
<1>2. PastInv'
  BY PastStep
<1>3. AloneInv' /\ FreshInv'
  BY FreshStep
<1> QED BY <1>1, <1>2, <1>3 DEF SInv

-----------------------------------------------------------------------------
(* The refinement *)

Sessions == [w \in Workers |-> Session(handler[w])]

LEMMA SessionFields ==
    ASSUME NEW h
    PROVE  /\ Session(h).at = IF h.pc \in {"idle", "answered"} THEN h.pc ELSE "asked"
           /\ Session(h).request = h.request
           /\ Session(h).since = h.since
           /\ Session(h).disturbed = (h.failed \/ ~h.alone)
           /\ Session(h).answer = Range(h.answer)
BY DEF Session

\* Session as a record of five values, the form the next proofs compare it in.
Told(at, request, since, disturbed, answer) ==
    [at |-> at, request |-> request, since |-> since, disturbed |-> disturbed, answer |-> answer]

LEMMA SessionTold ==
    ASSUME NEW h, NEW d, (h.failed \/ ~h.alone) = d
    PROVE  Session(h) = Told(IF h.pc \in {"idle", "answered"} THEN h.pc ELSE "asked",
                             h.request, h.since, d, Range(h.answer))
BY DEF Session, Told

LEMMA TellDisturbed ==
    ASSUME NEW a, NEW r, NEW s, NEW d, NEW x, NEW e
    PROVE  [Told(a, r, s, d, x) EXCEPT !.disturbed = e] = Told(a, r, s, e, x)
BY DEF Told

LEMMA TellAt ==
    ASSUME NEW a, NEW r, NEW s, NEW d, NEW x, NEW e
    PROVE  [Told(a, r, s, d, x) EXCEPT !.at = e] = Told(e, r, s, d, x)
BY DEF Told

LEMMA TellRequest ==
    ASSUME NEW a, NEW r, NEW s, NEW d, NEW x, NEW e
    PROVE  [Told(a, r, s, d, x) EXCEPT !.request = e] = Told(a, e, s, d, x)
BY DEF Told

LEMMA TellSince ==
    ASSUME NEW a, NEW r, NEW s, NEW d, NEW x, NEW e
    PROVE  [Told(a, r, s, d, x) EXCEPT !.since = e] = Told(a, r, e, d, x)
BY DEF Told

LEMMA TellEntries ==
    ASSUME NEW a, NEW r, NEW s, NEW d, NEW x, NEW e
    PROVE  [Told(a, r, s, d, x) EXCEPT !.answer = e] = Told(a, r, s, d, e)
BY DEF Told

LEMMA TellAsk ==
    ASSUME NEW r, NEW s, NEW d
    PROVE  [Service!Idle EXCEPT !.at = "asked", !.request = r, !.since = s, !.disturbed = d]
             = Told("asked", r, s, d, {})
<1> DEFINE idle == Service!Idle
           none == Service!NoRequest
           no == FALSE
           asked == "asked"
<1>1. idle = Told("idle", none, {}, no, {})
  BY DEF Told, Service!Idle
<1> HIDE DEF idle, none, no, asked
<1>2. [idle EXCEPT !.at = asked, !.request = r, !.since = s, !.disturbed = d]
        = [[[[idle EXCEPT !.at = asked] EXCEPT !.request = r] EXCEPT !.since = s] EXCEPT !.disturbed = d]
  OBVIOUS
<1>3. [idle EXCEPT !.at = asked, !.request = r, !.since = s, !.disturbed = d] = Told(asked, r, s, d, {})
  <2>1. [Told("idle", none, {}, no, {}) EXCEPT !.at = asked] = Told(asked, none, {}, no, {})
    BY TellAt
  <2>2. [Told(asked, none, {}, no, {}) EXCEPT !.request = r] = Told(asked, r, {}, no, {})
    BY TellRequest
  <2>3. [Told(asked, r, {}, no, {}) EXCEPT !.since = s] = Told(asked, r, s, no, {})
    BY TellSince
  <2>4. [Told(asked, r, s, no, {}) EXCEPT !.disturbed = d] = Told(asked, r, s, d, {})
    BY TellDisturbed
  <2> QED BY <1>1, <1>2, <2>1, <2>2, <2>3, <2>4
<1> QED BY <1>3 DEF idle, asked

LEMMA IdleSession == Session(Idle) = Service!Idle
<1>1. Range(<<>>) = {}
  BY DEF Range
<1>2. (FALSE \/ ~TRUE) = FALSE
  OBVIOUS
<1> QED BY <1>1, <1>2 DEF Session, Idle, Service!Idle, NoRequest, Service!NoRequest

\* Only the session of w changes.
LEMMA SessionMove ==
    ASSUME NEW w \in Workers, Only(w)
    PROVE  Sessions' = [Sessions EXCEPT ![w] = Session(handler'[w])]
BY DEF Sessions, Only

LEMMA SameSession ==
    ASSUME NEW h, NEW g, SameRequest(g, h), g.answer = h.answer,
           g.pc \notin {"idle", "answered"}, h.pc \notin {"idle", "answered"}
    PROVE  Session(g) = Session(h)
BY DEF Session, SameRequest

LEMMA SessionStays ==
    ASSUME NEW w \in Workers, Only(w), counts' = counts, Session(handler'[w]) = Session(handler[w])
    PROVE  UNCHANGED Service!vars
<1>1. Sessions' = Sessions
  BY DEF Sessions, Only
<1> QED BY <1>1 DEF Service!vars, Sessions, Only

LEMMA BeginServes ==
    ASSUME TypeInv, NEW w \in Workers, Begin(w)
    PROVE  Service!Ask(w)
<1>1. /\ cluster' = cluster /\ past' = past /\ handler[w].pc = "idle"
      /\ \A v \in Workers \ {w} : handler'[v] = [handler[v] EXCEPT !.alone = @ /\ ~Active(v)]
  BY BeginMoves
<1>2. PICK r \in Requests :
         handler'[w] = [Idle EXCEPT !.pc = "kinds",
                                    !.request = [r EXCEPT !.namespace = Namespace(r)],
                                    !.since = {cluster},
                                    !.alone = (\A v \in Workers \ {w} : ~Active(v))]
  BY BeginMoves
<1> DEFINE others == {v \in Workers \ {w} : Service!Served(v)}
           ask == [r EXCEPT !.namespace = Namespace(r)]
<1>3. \A v \in Workers : Service!Served(v) <=> Active(v)
  BY SessionFields DEF Service!Served, Active, At
<1>4. (others # {}) = ~(\A v \in Workers \ {w} : ~Active(v))
  BY <1>3
<1>5. Session(handler'[w]) = [Service!Idle EXCEPT !.at = "asked", !.request = ask,
                                                  !.since = {cluster}, !.disturbed = others # {}]
  <2> DEFINE alone == \A v \in Workers \ {w} : ~Active(v)
  <2> HIDE DEF alone, ask
  <2>1. handler'[w] = [Idle EXCEPT !.pc = "kinds", !.request = ask, !.since = {cluster}, !.alone = alone]
    BY <1>2 DEF alone, ask
  <2>2. /\ handler'[w].pc = "kinds" /\ handler'[w].request = ask /\ handler'[w].since = {cluster}
        /\ handler'[w].alone = alone /\ handler'[w].failed = FALSE /\ handler'[w].answer = <<>>
    BY <2>1 DEF Idle
  <2> DEFINE d == others # {}
  <2>3. (handler'[w].failed \/ ~handler'[w].alone) = d
    BY <1>4, <2>2 DEF alone
  <2>4. Range(<<>>) = {}
    BY DEF Range
  <2> HIDE DEF d
  <2>5. Session(handler'[w]) = Told("asked", ask, {cluster}, d, {})
    BY <2>2, <2>3, <2>4, SessionTold
  <2>6. Session(handler'[w]) = [Service!Idle EXCEPT !.at = "asked", !.request = ask,
                                                    !.since = {cluster}, !.disturbed = d]
    BY <2>5, TellAsk
  <2> QED BY <2>6 DEF d
<1>6. ASSUME NEW v \in Workers \ {w}
      PROVE  Session(handler'[v]) = [Session(handler[v]) EXCEPT !.disturbed = @ \/ v \in others]
  <2> DEFINE h == handler[v]
             g == handler'[v]
  <2>1. h \in HandlerType /\ g = [h EXCEPT !.alone = @ /\ ~Active(v)]
    BY <1>1 DEF TypeInv, HandlersTyped
  <2>2. /\ g.pc = h.pc /\ g.request = h.request /\ g.since = h.since /\ g.failed = h.failed
        /\ g.answer = h.answer /\ g.alone = (h.alone /\ ~Active(v))
    BY <2>1 DEF HandlerType
  <2>3. (v \in others) <=> Active(v)
    BY <1>3
  <2>4. (g.failed \/ ~g.alone) = ((h.failed \/ ~h.alone) \/ v \in others)
    BY <2>2, <2>3
  <2> DEFINE d == h.failed \/ ~h.alone
             e == d \/ v \in others
             at == IF h.pc \in {"idle", "answered"} THEN h.pc ELSE "asked"
  <2>5. Session(h) = Told(at, h.request, h.since, d, Range(h.answer))
    BY SessionTold
  <2>6. (g.failed \/ ~g.alone) = e
    BY <2>4
  <2>7. Session(h).disturbed = d
    BY SessionFields
  <2> HIDE DEF e
  <2>8. Session(g) = Told(at, h.request, h.since, e, Range(h.answer))
    <3> HIDE DEF g, h
    <3> QED BY <2>2, <2>6, SessionTold
  <2>9. [Session(h) EXCEPT !.disturbed = e] = Session(g)
    <3> HIDE DEF g, h, d, at
    <3> QED BY <2>5, <2>8, TellDisturbed
  <2>10. (Session(h).disturbed \/ v \in others) = e
    BY <2>7 DEF e
  <2> HIDE DEF g, h, d, at, others
  <2>11. Session(g) = [Session(h) EXCEPT !.disturbed = @ \/ v \in others]
    BY <2>9, <2>10
  <2> QED BY <2>11 DEF g, h
<1>7. Sessions' = [v \in Workers |->
                     IF v = w
                     THEN [Service!Idle EXCEPT !.at = "asked", !.request = ask, !.since = {cluster},
                                               !.disturbed = others # {}]
                     ELSE [Sessions[v] EXCEPT !.disturbed = @ \/ v \in others]]
  <2> HIDE DEF others, ask
  <2> QED BY <1>5, <1>6 DEF Sessions
<1>8. ~Service!Served(w)
  BY <1>1, <1>3 DEF Active, At
<1>9. (counts'.faults > 0) = (counts.faults > 0)
  BY DEF Begin, TypeInv, VarsTyped, Counts
<1> QED BY <1>1, <1>7, <1>8, <1>9 DEF Service!Ask, Sessions, Namespace

LEMMA FailServes ==
    ASSUME TypeInv, NEW w \in Workers, ReadKindsFails(w) \/ ListKindFails(w) \/ ListBelowFails(w)
    PROVE  Service!CallFails(w)
<1> DEFINE h == handler[w]
           g == handler'[w]
<1>1. /\ Only(w) /\ h.pc \in {"kinds", "list", "build"} /\ g.pc \in {"get", "list", "build"} /\ g.failed
      /\ g.request = h.request /\ g.since = h.since /\ g.answer = h.answer
  BY ReadKindsFailsMoves, ListKindFailsMoves, ListBelowFailsMoves
<1> HIDE DEF g, h
<1>2. Session(g) = Told("asked", h.request, h.since, TRUE, Range(h.answer))
  <2>1. (g.failed \/ ~g.alone) = TRUE
    BY <1>1
  <2> QED BY <1>1, <2>1, SessionTold
<1>3. Session(g) = [Session(h) EXCEPT !.disturbed = TRUE] /\ Session(h).at = "asked"
  <2> DEFINE d == h.failed \/ ~h.alone
  <2>1. (h.failed \/ ~h.alone) = d
    OBVIOUS
  <2> HIDE DEF d
  <2>2. Session(h) = Told("asked", h.request, h.since, d, Range(h.answer))
    BY <1>1, <2>1, SessionTold
  <2>3. Session(h).at = "asked"
    BY <1>1, SessionFields
  <2> DEFINE yes == TRUE
  <2>4. Session(g) = Told("asked", h.request, h.since, yes, Range(h.answer))
    BY <1>2
  <2> HIDE DEF yes
  <2>5. Session(g) = [Session(h) EXCEPT !.disturbed = yes]
    BY <2>2, <2>4, TellDisturbed
  <2> QED BY <2>3, <2>5 DEF yes
<1>4. Sessions' = [Sessions EXCEPT ![w].disturbed = TRUE] /\ Sessions[w].at = "asked"
  BY <1>1, <1>3, SessionMove DEF Sessions, g, h
<1>5. Fault
  BY DEF ReadKindsFails, ListKindFails, ListBelowFails
<1>6. (counts'.faults > 0) = TRUE
  BY <1>5, Bounds DEF Fault, TypeInv, VarsTyped, Counts
<1> QED BY <1>1, <1>4, <1>6 DEF Service!CallFails, Sessions, Only

LEMMA GetServes ==
    ASSUME SInv, SInv', NEW w \in Workers, GetCompositions(w)
    PROVE  Service!Answer(w)
<1> DEFINE h == handler[w]
           g == handler'[w]
           answer == Range(g.answer)
<1>1. /\ Only(w) /\ store' = store /\ h.pc = "get" /\ g.pc = "answered" /\ SameRequest(g, h)
      /\ g.answer = Kept(store, Matching(store, h.request))
  BY GetCompositionsMoves DEF SInv
<1>2. store \in Seq(Entry) /\ AllOf(store, past, Faulty)
  BY DEF SInv, TypeInv, VarsTyped, PastInv
<1>3. ASSUME NEW entry \in answer
      PROVE  /\ entry \in Service!Entry /\ Service!Tells(entry, past, Faulty)
             /\ Service!Wanted(h.request, entry.obj)
  <2>1. PICK k \in DOMAIN store : Asked(h.request, store[k].obj) /\ entry = store[k]
    BY <1>1, <1>2, KeptMatching DEF Range
  <2>2. store[k] \in Entry
    BY <1>2
  <2>3. Entry = Service!Entry
    BY DEF Entry, Service!Entry, Part, Missed, Service!Missed
  <2> QED BY <1>2, <2>1, <2>2, <2>3 DEF AllOf, Tells, Service!Wanted, Asked
<1>5. Session(h).disturbed \/ Service!Fresh(Session(h), answer)
  <2> SUFFICES ASSUME ~Session(h).disturbed PROVE Service!Fresh(Session(h), answer)
    OBVIOUS
  <2>1. ~h.failed /\ h.alone
    BY SessionFields
  <2>2. Service!Fresh(Session(g), answer)
    BY <1>1, <2>1 DEF SInv, FreshInv, FreshOK, Active, At, SameRequest
  <2> QED BY <1>1, <2>2, SessionFields DEF Service!Fresh, SameRequest
<1>6. Session(h).at = "asked"
  BY <1>1, SessionFields
<1>7. Session(g) = [Session(h) EXCEPT !.at = "answered", !.answer = answer]
  <2> DEFINE d == h.failed \/ ~h.alone
  <2>1. (h.failed \/ ~h.alone) = d /\ (g.failed \/ ~g.alone) = d
    BY <1>1 DEF SameRequest
  <2> HIDE DEF g, h, d
  <2>2. Session(h) = Told("asked", h.request, h.since, d, Range(h.answer))
    BY <1>1, <2>1, SessionTold
  <2>3. Session(g) = Told("answered", h.request, h.since, d, answer)
    BY <1>1, <2>1, SessionTold DEF SameRequest
  <2> DEFINE asked == "asked"
             answered == "answered"
             before == Range(h.answer)
  <2>4. Session(h) = Told(asked, h.request, h.since, d, before)
    BY <2>2
  <2>5. Session(g) = Told(answered, h.request, h.since, d, answer)
    BY <2>3
  <2> HIDE DEF answer, before, asked, answered
  <2>6. [Session(h) EXCEPT !.at = answered] = Told(answered, h.request, h.since, d, before)
    BY <2>4, TellAt
  <2> DEFINE y == [Session(h) EXCEPT !.at = answered]
  <2>7. [y EXCEPT !.answer = answer] = Session(g)
    <3>1. y = Told(answered, h.request, h.since, d, before)
      BY <2>6
    <3> HIDE DEF y
    <3> QED BY <2>5, <3>1, TellEntries
  <2> DEFINE x == Session(h)
  <2>8. [x EXCEPT !.at = answered, !.answer = answer] = [[x EXCEPT !.at = answered] EXCEPT !.answer = answer]
    <3> HIDE DEF x
    <3> QED OBVIOUS
  <2>9. Session(g) = [Session(h) EXCEPT !.at = answered, !.answer = answer]
    BY <2>7, <2>8
  <2> QED BY <2>9 DEF answered
<1>8. Session(h).request = h.request
  BY SessionFields
<1>9. /\ Sessions' = [Sessions EXCEPT ![w].at = "answered", ![w].answer = answer]
      /\ Sessions[w] = Session(h)
  <2> HIDE DEF g, answer
  <2> QED BY <1>1, <1>7, SessionMove DEF Sessions, g
<1>10. Sessions'[w].answer = answer
  BY SessionFields DEF Sessions
<1>11. cluster' = cluster /\ past' = past /\ counts' = counts
  BY <1>1, SameCounts DEF Only
<1>12. \A entry \in answer :
          /\ entry \in Service!Entry /\ Service!Wanted(Sessions[w].request, entry.obj)
          /\ Service!Tells(entry, past, counts.faults > 0)
  BY <1>3, <1>8, <1>9 DEF Faulty
<1> HIDE DEF answer, g, h
<1>13. /\ Sessions[w].at = "asked"
       /\ Sessions[w].disturbed \/ Service!Fresh(Sessions[w], answer)
  BY <1>5, <1>6, <1>9
<1> QED BY <1>9, <1>10, <1>11, <1>12, <1>13, Zenon DEF Service!Answer, Sessions

LEMMA LeaveServes ==
    ASSUME SInv, NEW w \in Workers, Finish(w) \/ Panic(w)
    PROVE  Service!Leave(w)
<1> DEFINE h == handler[w]
<1>1. Only(w) /\ handler'[w] = Idle
  BY LeaveMoves DEF SInv
<1>2. Session(h).at = "answered" \/ (Session(h).at = "asked" /\ Session(h).disturbed)
  <2>1. CASE Finish(w)
    BY <2>1, SessionFields DEF Finish, At
  <2>2. CASE Panic(w)
    <3>1. h.pc = "scan" /\ \E i \in Ahead(w) : i \notin DOMAIN store
      BY <2>2 DEF Panic, At
    <3>2. PICK i \in DOMAIN h.snap : i \notin DOMAIN store
      BY <3>1 DEF Ahead
    <3>3. ~h.alone
      BY <3>1, <3>2 DEF SInv, FreshInv, ScanOK, Active, At
    <3> QED BY <3>1, <3>3, SessionFields
  <2> QED BY <2>1, <2>2
<1>3. Sessions' = [Sessions EXCEPT ![w] = Service!Idle]
  BY <1>1, SessionMove, IdleSession
<1>4. counts' = counts
  BY SameCounts DEF Work
<1> QED BY <1>1, <1>2, <1>3, <1>4 DEF Service!Leave, Sessions, Only

LEMMA ChangeServes == ASSUME TypeInv, Change PROVE Service!Change
<1>1. /\ cluster' \in [Objects -> Nat] /\ past' = past \union {cluster'}
      /\ \A w \in Workers :
            handler'[w] = IF Active(w) THEN [handler[w] EXCEPT !.since = @ \union {cluster'}]
                                       ELSE handler[w]
  BY ChangeMoves
<1>2. \A w \in Workers : Service!Served(w) <=> Active(w)
  BY SessionFields DEF Service!Served, Active, At
<1>3. ASSUME NEW w \in Workers
      PROVE  Session(handler'[w]) = IF Active(w)
                                    THEN [Session(handler[w]) EXCEPT !.since = @ \union {cluster'}]
                                    ELSE Session(handler[w])
  <2>1. CASE Active(w)
    <3> DEFINE h == handler[w]
               g == handler'[w]
    <3>1. h \in HandlerType /\ g = [h EXCEPT !.since = @ \union {cluster'}]
      BY <1>1, <2>1 DEF TypeInv, HandlersTyped
    <3>2. /\ g.pc = h.pc /\ g.request = h.request /\ g.since = h.since \union {cluster'}
          /\ g.failed = h.failed /\ g.alone = h.alone /\ g.answer = h.answer
      BY <3>1 DEF HandlerType
    <3> HIDE DEF g, h
    <3>3. Session(g) = [Session(h) EXCEPT !.since = @ \union {cluster'}]
      BY <3>2 DEF Session
    <3> QED BY <2>1, <3>3 DEF g, h
  <2>2. CASE ~Active(w)
    BY <1>1, <2>2
  <2> QED BY <2>1, <2>2
<1>4. Sessions' = [w \in Workers |->
                     IF Service!Served(w) THEN [Sessions[w] EXCEPT !.since = @ \union {cluster'}]
                                          ELSE Sessions[w]]
  BY <1>2, <1>3 DEF Sessions
<1>5. (counts'.faults > 0) = (counts.faults > 0)
  BY DEF Change, TypeInv, VarsTyped, Counts
<1> QED BY <1>1, <1>4, <1>5 DEF Service!Change, Sessions

LEMMA FaultServes == ASSUME TypeInv, RuntimeFault PROVE Service!Restart
<1>1. ASSUME MapRace
      PROVE  \E v, w \in Workers : v # w /\ handler[v].pc # "idle" /\ handler[w].pc # "idle"
  <2>1. PICK w \in Workers : handler[w].pc = "kinds" /\ MapUsers \ {w} # {}
    BY <1>1 DEF MapRace, At
  <2>2. PICK v \in Workers : v # w /\ handler[v].pc \in {"kinds", "list", "build", "get"}
    BY <2>1 DEF MapUsers
  <2> QED BY <2>1, <2>2
<1>2. ASSUME StoreRace
      PROVE  \E v, w \in Workers : v # w /\ handler[v].pc # "idle" /\ handler[w].pc # "idle"
  <2>1. PICK v \in Workers : \E w \in Workers \ {v} :
           Unlocked(v) /\ (Unlocked(w) \/ handler[w].pc \in {"scan", "append", "get"})
    BY <1>2 DEF StoreRace
  <2> QED BY <2>1 DEF Unlocked, At
<1>3. PICK v \in Workers, w \in Workers : v # w /\ Service!Served(v) /\ Service!Served(w)
  <2>1. PICK v \in Workers, w \in Workers :
           v # w /\ handler[v].pc # "idle" /\ handler[w].pc # "idle"
    BY <1>1, <1>2 DEF RuntimeFault
  <2> QED BY <2>1, SessionFields DEF Service!Served
<1>5. (counts'.faults > 0) = (counts.faults > 0)
  BY DEF RuntimeFault, TypeInv, VarsTyped, Counts
<1>4. Sessions' = [u \in Workers |-> Service!Idle]
  BY IdleSession DEF RuntimeFault, Sessions
<1> QED BY <1>3, <1>4, <1>5 DEF Service!Restart, RuntimeFault, Sessions

LEMMA InitServes == Init => Service!Init
<1> SUFFICES ASSUME Init PROVE Service!Init
  OBVIOUS
<1>1. Sessions = [w \in Workers |-> Service!Idle]
  BY IdleSession DEF Init, Sessions
<1> QED BY <1>1 DEF Init, Service!Init, Sessions

\* A step that the client does not see.
LEMMA HiddenServes ==
    ASSUME TypeInv, NEW w \in Workers,
           \/ ReadKinds(w) \/ ListKind(w) \/ ListBelow(w) \/ Build(w) \/ Lock(w) \/ Overwrite(w)
           \/ EndScan(w) \/ AppendEntry(w) \/ PurgeScan(w) \/ Purge(w)
    PROVE  UNCHANGED Service!vars
<1> DEFINE h == handler[w]
           g == handler'[w]
           Quietly == Only(w) /\ SameRequest(g, h) /\ g.answer = h.answer
                   /\ g.pc \notin {"idle", "answered"} /\ h.pc \notin {"idle", "answered"}
<1>1. ReadKinds(w) => Quietly
  BY ReadKindsMoves
<1>2. ListKind(w) => Quietly
  <2> SUFFICES ASSUME ListKind(w) PROVE Quietly
    OBVIOUS
  <2>1. PICK kind \in h.todo, objs \in SUBSET Objects : Lists(g, h, kind, objs)
    BY ListKindMoves
  <2>2. g.pc \in {"list", "build"}
    BY <2>1 DEF Lists
  <2> QED BY <2>2, ListKindMoves
<1>3. Build(w) => Quietly
  BY BuildMoves
<1>4. Lock(w) => Quietly
  BY LockMoves
<1>5. Overwrite(w) => Quietly
  BY OverwriteMoves
<1>6. EndScan(w) => Quietly
  BY EndScanMoves
<1>7. AppendEntry(w) => Quietly
  BY AppendEntryMoves
<1>8. PurgeScan(w) => Quietly
  BY PurgeScanMoves
<1>9. Purge(w) => Quietly
  BY PurgeMoves
<1>10. ListBelow(w) => Quietly
  BY ListBelowMoves
<1>11. Quietly
  BY <1>1, <1>2, <1>3, <1>4, <1>5, <1>6, <1>7, <1>8, <1>9, <1>10
<1>12. counts' = counts
  BY SameCounts DEF Work
<1> QED BY <1>11, <1>12, SameSession, SessionStays

LEMMA StepServes == SInv /\ SInv' /\ [Next]_vars => [Service!Next]_(Service!vars)
<1> SUFFICES ASSUME SInv, SInv', [Next]_vars PROVE [Service!Next]_(Service!vars)
  OBVIOUS
<1>1. TypeInv
  BY DEF SInv
<1>2. ASSUME NEW w \in Workers, Begin(w) PROVE Service!Next
  BY <1>1, <1>2, BeginServes DEF Service!Next
<1>3. ASSUME NEW w \in Workers, ReadKindsFails(w) \/ ListKindFails(w) \/ ListBelowFails(w)
      PROVE  Service!Next
  BY <1>1, <1>3, FailServes DEF Service!Next
<1>4. ASSUME NEW w \in Workers, GetCompositions(w) PROVE Service!Next
  BY <1>4, GetServes DEF Service!Next
<1>5. ASSUME NEW w \in Workers, Finish(w) \/ Panic(w) PROVE Service!Next
  BY <1>5, LeaveServes DEF Service!Next
<1>6. CASE Change
  BY <1>1, <1>6, ChangeServes DEF Service!Next
<1>7. CASE RuntimeFault
  BY <1>1, <1>7, FaultServes DEF Service!Next
<1>8. ASSUME UNCHANGED vars PROVE UNCHANGED Service!vars
  BY <1>8 DEF vars, Service!vars
<1> QED
  BY <1>1, <1>2, <1>3, <1>4, <1>5, <1>6, <1>7, <1>8, HiddenServes
  DEF Next, Work, Quiet

\* The server implements CompositionService, for every number of handlers:
\* what earlier and overlapping requests left in the store, the purge without
\* the mutex, failing calls, panics and restarts included, a request that was
\* alone and met no failing call is told of every resource that was there all
\* the time, with a tree none of whose lists is missing or older than the
\* request, and of none that was not (unless a resource of its name was); and
\* no answer has a list that never was so, nor one that is missing unless a
\* call failed.
THEOREM Implements == Spec => Serves
<1>1. Spec => []SInv
  BY InitSound, SoundStep, PTL DEF Spec
<1>2. Spec => Service!Init /\ [][Service!Next]_(Service!vars)
  BY <1>1, InitServes, StepServes, PTL DEF Spec
<1> QED BY <1>2 DEF Serves, Service!Spec

-----------------------------------------------------------------------------
(* One handler at a time *)

OneWorker == \A v, w \in Workers : v = w

Unique(s) == \A i, j \in DOMAIN s : s[i].obj = s[j].obj => i = j

OneInv ==
    /\ Unique(store)
    /\ \A w \in Workers : /\ handler[w].alone
                          /\ handler[w].pc = "purge" => Unique(handler[w].snap)

LEMMA UniqueKept == ASSUME NEW s \in Seq(Entry), Unique(s), NEW P PROVE Unique(Kept(s, P))
<1> DEFINE r == Kept(s, P)
<1>1. r \in Seq(Entry) /\ \E pos : Selects(r, s, Len(s), P, pos)
  BY KeptProperty
<1> HIDE DEF r
<1>2. PICK pos : Selects(r, s, Len(s), P, pos)
  BY <1>1
<1>3. DOMAIN r = 1 .. Len(r) /\ DOMAIN s = 1 .. Len(s) /\ Len(r) \in Nat /\ Len(s) \in Nat
  BY <1>1
<1>4. ASSUME NEW i \in DOMAIN r, NEW j \in DOMAIN r, r[i].obj = r[j].obj
      PROVE  i = j
  <2>1. pos[i] \in DOMAIN s /\ pos[j] \in DOMAIN s /\ r[i] = s[pos[i]] /\ r[j] = s[pos[j]]
    BY <1>2, <1>3 DEF Selects
  <2>2. pos[i] = pos[j]
    BY <1>4, <2>1 DEF Unique
  <2>3. ~(i < j) /\ ~(j < i)
    BY <1>2, <1>3, <2>1, <2>2 DEF Selects
  <2> QED BY <1>3, <2>3
<1> QED BY <1>4 DEF Unique, r

\* A handler that overwrites puts the resource where it was.
LEMMA UniqueWrites ==
    ASSUME NEW h, NEW g, NEW s \in Seq(Entry), NEW t, NEW i, Overwrites(g, h, s, t, i),
           s[i].obj = h.list[1], Unique(s)
    PROVE  Unique(t)
<1> DEFINE e == [obj |-> h.list[1], tree |-> h.tree]
<1>1. e.obj = h.list[1]
  OBVIOUS
<1> HIDE DEF e
<1>2. i \in DOMAIN s /\ t = [s EXCEPT ![i] = e]
  BY DEF Overwrites, e
<1>3. \A j \in DOMAIN s : t[j].obj = s[j].obj
  BY <1>1, <1>2
<1> QED BY <1>2, <1>3 DEF Unique

LEMMA UniqueAppend ==
    ASSUME NEW s \in Seq(Entry), Unique(s), NEW e, \A j \in DOMAIN s : s[j].obj # e.obj
    PROVE  Unique(Append(s, e))
<1> DEFINE t == Append(s, e)
<1>1. /\ \A j \in DOMAIN s : t[j] = s[j]
      /\ t[Len(s) + 1] = e
      /\ \A j \in DOMAIN t : j \in DOMAIN s \/ j = Len(s) + 1
  OBVIOUS
<1> HIDE DEF t
<1>2. Unique(t)
  BY <1>1 DEF Unique
<1> QED BY <1>2 DEF t

\* The handler stays alone, or ends; what it is to purge is unique.
LEMMA OneMove ==
    ASSUME OneInv, NEW w \in Workers, Only(w), Unique(store'),
           handler'[w].alone = handler[w].alone \/ handler'[w] = Idle,
           handler'[w].pc = "purge" => Unique(handler'[w].snap)
    PROVE  OneInv'
<1>1. Idle.alone
  BY DEF Idle
<1> QED BY <1>1 DEF OneInv, Only, Unique

LEMMA OneStep == OneWorker /\ SInv /\ OneInv /\ [Next]_vars => OneInv'
<1> SUFFICES ASSUME OneWorker, SInv, OneInv, [Next]_vars PROVE OneInv'
  OBVIOUS
<1>a. TypeInv /\ FreshInv /\ store \in Seq(Entry) /\ Unique(store)
  BY DEF SInv, TypeInv, VarsTyped, OneInv
<1>b. ASSUME NEW w \in Workers, Active(w) PROVE ScanOK(handler[w], store)
  BY <1>a, <1>b DEF FreshInv, OneInv
<1>1. ASSUME NEW w \in Workers, Begin(w) PROVE OneInv'
  <2>1. Workers \ {w} = {}
    BY DEF OneWorker
  <2>2. store' = store
    BY <1>1, <1>a, BeginMoves
  <2>3. PICK r \in Requests :
           handler'[w] = [Idle EXCEPT !.pc = "kinds",
                                      !.request = [r EXCEPT !.namespace = Namespace(r)],
                                      !.since = {cluster},
                                      !.alone = (\A v \in Workers \ {w} : ~Active(v))]
    BY <1>1, <1>a, BeginMoves
  <2>4. handler'[w].pc = "kinds" /\ handler'[w].alone
    BY <2>1, <2>3 DEF Idle
  <2> QED BY <1>a, <2>1, <2>2, <2>4 DEF OneInv, Unique
<1>2. ASSUME NEW w \in Workers,
             \/ ReadKinds(w) \/ ReadKindsFails(w) \/ ListKindFails(w) \/ ListBelow(w)
             \/ ListBelowFails(w) \/ Build(w) \/ Lock(w) \/ EndScan(w) \/ GetCompositions(w)
      PROVE  OneInv'
  <2> DEFINE g == handler'[w]
  <2>1. /\ Only(w) /\ store' = store /\ g.alone = handler[w].alone
        /\ g.pc \in {"kinds", "list", "get", "build", "lock", "scan", "append", "answered"}
    BY <1>2, <1>a, ReadKindsMoves, ReadKindsFailsMoves, ListKindFailsMoves, ListBelowMoves,
       ListBelowFailsMoves, BuildMoves, LockMoves, EndScanMoves, GetCompositionsMoves DEF SameRequest
  <2> QED BY <1>a, <2>1, OneMove
<1>3. ASSUME NEW w \in Workers, ListKind(w) PROVE OneInv'
  <2> DEFINE g == handler'[w]
  <2>1. Only(w) /\ store' = store /\ g.alone = handler[w].alone
    BY <1>3, <1>a, ListKindMoves DEF SameRequest
  <2>2. PICK kind, objs : Lists(g, handler[w], kind, objs)
    BY <1>3, <1>a, ListKindMoves
  <2>3. g.pc \in {"list", "build"}
    BY <2>2 DEF Lists
  <2> QED BY <1>a, <2>1, <2>3, OneMove
<1>4. ASSUME NEW w \in Workers, Overwrite(w) PROVE OneInv'
  <2> DEFINE h == handler[w]
             g == handler'[w]
  <2>1. Only(w) /\ h.pc = "scan" /\ g.pc = "scan" /\ g.alone = h.alone
    BY <1>4, <1>a, OverwriteMoves DEF SameRequest
  <2>2. PICK i : Overwrites(g, h, store, store', i)
    BY <1>4, <1>a, OverwriteMoves
  <2>3. store[i].obj = h.list[1]
    BY <1>b, <2>1, <2>2 DEF Active, At, ScanOK, Overwrites
  <2>4. Unique(store')
    BY <1>a, <2>2, <2>3, UniqueWrites
  <2> QED BY <2>1, <2>4, OneMove
<1>5. ASSUME NEW w \in Workers, AppendEntry(w) PROVE OneInv'
  <2> DEFINE h == handler[w]
             g == handler'[w]
             e == [obj |-> h.list[1], tree |-> h.tree]
  <2>1. /\ Only(w) /\ h.pc = "append" /\ g.pc \in {"list", "build"} /\ g.alone = h.alone
        /\ store' = Append(h.snap, e)
    BY <1>5, <1>a, AppendEntryMoves DEF SameRequest
  <2>2. h.snap = store /\ \A j \in DOMAIN store : store[j].obj # h.list[1]
    BY <1>b, <2>1 DEF Active, At, ScanOK
  <2>3. e.obj = h.list[1]
    OBVIOUS
  <2> HIDE DEF e, g, h
  <2>4. Unique(store')
    BY <1>a, <2>1, <2>2, <2>3, UniqueAppend
  <2> QED BY <2>1, <2>4, OneMove DEF g, h
<1>6. ASSUME NEW w \in Workers, PurgeScan(w) PROVE OneInv'
  <2> DEFINE h == handler[w]
             g == handler'[w]
             P == Present(store, h.names)
  <2>1. Only(w) /\ store' = store /\ g.alone = h.alone /\ g.snap = Kept(store, P)
    BY <1>6, <1>a, PurgeScanMoves DEF SameRequest
  <2> HIDE DEF P
  <2>2. Unique(g.snap)
    BY <1>a, <2>1, UniqueKept
  <2> QED BY <1>a, <2>1, <2>2, OneMove
<1>7. ASSUME NEW w \in Workers, Purge(w) PROVE OneInv'
  <2> DEFINE h == handler[w]
             g == handler'[w]
  <2>1. Only(w) /\ store' = h.snap /\ h.pc = "purge" /\ g.pc = "get" /\ g.alone = h.alone
    BY <1>7, <1>a, PurgeMoves DEF SameRequest
  <2>2. Unique(store')
    BY <2>1 DEF OneInv
  <2> QED BY <2>1, <2>2, OneMove
<1>8. ASSUME NEW w \in Workers, Finish(w) \/ Panic(w) PROVE OneInv'
  <2>1. Only(w) /\ store' = store /\ handler'[w] = Idle
    BY <1>8, <1>a, LeaveMoves
  <2>2. Idle.pc # "purge"
    BY DEF Idle
  <2> QED BY <1>a, <2>1, <2>2, OneMove
<1>9. CASE Change
  <2>1. /\ store' = store
        /\ \A w \in Workers :
              handler'[w] = IF Active(w) THEN [handler[w] EXCEPT !.since = @ \union {cluster'}]
                                         ELSE handler[w]
    BY <1>9, <1>a, ChangeMoves
  <2>2. ASSUME NEW w \in Workers
        PROVE  /\ handler'[w].pc = handler[w].pc /\ handler'[w].alone = handler[w].alone
               /\ handler'[w].snap = handler[w].snap
    <3>1. handler[w] \in HandlerType
      BY <1>a DEF TypeInv, HandlersTyped
    <3> QED BY <2>1, <3>1 DEF HandlerType
  <2> QED BY <2>1, <2>2 DEF OneInv, Unique
<1>10. CASE RuntimeFault
  <2>1. store' = <<>> /\ \A w \in Workers : handler'[w].alone /\ handler'[w].pc # "purge"
    BY <1>10 DEF RuntimeFault, Idle
  <2> QED BY <2>1 DEF OneInv, Unique
<1>11. CASE UNCHANGED vars
  BY <1>11 DEF vars, OneInv, Unique
<1> QED
  BY <1>1, <1>2, <1>3, <1>4, <1>5, <1>6, <1>7, <1>8, <1>9, <1>10, <1>11 DEF Next, Work, Quiet

LEMMA InitOne == Init => OneInv
BY DEF Init, OneInv, Unique, Idle

\* When requests are served one at a time, the store has one entry for a
\* resource (storeCompositions looks for it before it appends), whatever is
\* created and deleted meanwhile, whichever calls fail and whatever the purge
\* leaves in the store.
THEOREM UniqueAlone == ASSUME OneWorker PROVE Spec => []StoreUnique
<1>1. OneInv => StoreUnique
  BY DEF OneInv, Unique, StoreUnique
<1>2. SInv /\ OneInv /\ [Next]_vars => OneInv'
  BY OneStep
<1>3. Spec => []SInv
  BY InitSound, SoundStep, PTL DEF Spec
<1>4. Spec => []OneInv
  BY <1>2, <1>3, InitOne, PTL DEF Spec
<1> QED BY <1>1, <1>4, PTL

\* The answer of a request that was alone, during which no call failed and the
\* cluster did not change, is complete.
LEMMA AloneComplete ==
    ASSUME SInv, NEW w \in Workers, At(w, "answered"), handler[w].alone, ~handler[w].failed,
           handler[w].since = {cluster}
    PROVE  Complete(handler[w])
<1> DEFINE h == handler[w]
<1>1. Service!Fresh(Session(h), Range(h.answer)) /\ h.answer \in Seq(Entry)
  BY DEF SInv, FreshInv, FreshOK, Active, At, TypeInv, HandlersTyped, HandlerType
<1>2. Session(h).request = h.request /\ Session(h).since = {cluster}
  BY SessionFields
<1> SUFFICES ASSUME NEW o \in Wanted(h.request)
             PROVE  \E i \in DOMAIN h.answer : h.answer[i].obj = o /\ WholeTree(o, h.answer[i].tree)
  BY DEF Complete
<1>3. o \in Objects /\ cluster[o] # Service!Absent /\ Service!Wanted(Session(h).request, o)
  BY <1>2 DEF Wanted, Service!Wanted, Asked, Absent, Service!Absent
<1>4. PICK entry \in Range(h.answer) : entry.obj = o /\ Service!Tells(entry, {cluster}, FALSE)
  BY <1>1, <1>2, <1>3 DEF Service!Fresh
<1>5. PICK i \in DOMAIN h.answer : h.answer[i] = entry
  BY <1>4 DEF Range
<1>6. WholeTree(o, entry.tree)
  BY <1>4 DEF Service!Tells, WholeTree
<1> QED BY <1>4, <1>5, <1>6

\* When requests are served one at a time, a request without failing calls and
\* changes of the cluster is answered completely, whatever the earlier ones
\* left in the store.
THEOREM CompleteAlone == ASSUME OneWorker PROVE Spec => []AnswerComplete
<1>1. SInv /\ OneInv => AnswerComplete
  BY AloneComplete DEF OneInv, AnswerComplete
<1>2. SInv /\ OneInv /\ [Next]_vars => OneInv'
  BY OneStep
<1>3. Spec => []SInv
  BY InitSound, SoundStep, PTL DEF Spec
<1>4. Spec => []OneInv
  BY <1>2, <1>3, InitOne, PTL DEF Spec
<1> QED BY <1>1, <1>3, <1>4, PTL

-----------------------------------------------------------------------------
(* Requests for one namespace, while the cluster stays as it is *)

SameNamespace ==
    /\ \A o, p \in Objects : o.namespace = p.namespace
    /\ \A r \in Requests, o \in Objects : Namespace(r) = o.namespace

Undisturbed == MaxChanges = 0 /\ MaxFaults = 0

\* The tree of the resource o in the cluster c, as far as it is built, and all of it.
Steps(v, n) == [i \in 1 .. n |-> v]
Grown(o, c, tree) ==
    \E n \in Nat : tree = Steps(c[o], n) /\ \A m \in 0 .. n - 1 : Deeper(o, Steps(c[o], m))
Whole(o, c, tree) == Grown(o, c, tree) /\ ~Deeper(o, tree)

Current(s, c) == \A i \in DOMAIN s : Whole(s[i].obj, c, s[i].tree) /\ c[s[i].obj] # Absent

Full(s, c) == \A o \in Objects : c[o] # Absent => \E i \in DOMAIN s : s[i].obj = o

\* The resources of the kinds listed so far are stored, or are still to be.
Gathered(h, s, c) ==
    /\ \A o \in Objects :
          o.kind \notin h.todo /\ c[o] # Absent =>
              /\ o.name \in h.names
              /\ (\E i \in DOMAIN h.list : h.list[i] = o) \/ (\E i \in DOMAIN s : s[i].obj = o)
    /\ \A i \in DOMAIN h.list : h.list[i] \in Objects /\ c[h.list[i]] # Absent

CompleteOf(h, c) ==
    \A o \in Objects : c[o] # Absent /\ Asked(h.request, o) =>
        \E i \in DOMAIN h.answer : h.answer[i].obj = o /\ Whole(o, c, h.answer[i].tree)

\* No handler ever finds the store changed under it: all rebuild the same
\* entries, and the purge leaves all of them.
TogetherOK(h, s, c) ==
    /\ ~h.failed
    /\ h.pc = "kinds" => h.names = {}
    /\ h.pc \in {"kinds", "list"} => h.list = <<>>
    /\ h.pc \in {"list", "build", "lock", "scan", "append"} => Gathered(h, s, c)
    /\ h.pc \in {"build", "lock", "scan", "append"} => Grown(h.list[1], c, h.tree)
    /\ h.pc \in {"lock", "scan", "append"} => ~Deeper(h.list[1], h.tree)
    /\ h.pc \in {"scan", "append", "purge"} => h.snap = s
    /\ h.pc = "scan" => (h.found <=> \E i \in DOMAIN s : i < h.pos /\ s[i].obj = h.list[1])
    /\ h.pc = "append" => \A i \in DOMAIN s : s[i].obj # h.list[1]
    /\ h.pc \in {"purge", "get"} => Full(s, c)
    /\ h.pc = "answered" => CompleteOf(h, c)
    /\ h.pc # "idle" => \A o \in Objects : o.namespace = h.request.namespace

TogetherInv ==
    /\ Unique(store) /\ Current(store, cluster)
    /\ \A w \in Workers : TogetherOK(handler[w], store, cluster)

LEMMA GrownEmpty == ASSUME NEW o, NEW c PROVE Grown(o, c, <<>>)
<1>1. Steps(c[o], 0) = <<>>
  BY DEF Steps
<1>2. \A m \in 0 .. 0 - 1 : Deeper(o, Steps(c[o], m))
  OBVIOUS
<1> QED BY <1>1, <1>2 DEF Grown

LEMMA GrownMore ==
    ASSUME NEW o, NEW c, NEW tree, Grown(o, c, tree), Deeper(o, tree)
    PROVE  Grown(o, c, Append(tree, c[o]))
<1> DEFINE v == c[o]
<1>1. PICK n \in Nat : tree = Steps(v, n) /\ \A m \in 0 .. n - 1 : Deeper(o, Steps(v, m))
  BY DEF Grown
<1>2. Append(Steps(v, n), v) = Steps(v, n + 1)
  <2>1. Steps(v, n) \in Seq({v}) /\ Len(Steps(v, n)) = n
    BY DEF Steps
  <2>2. /\ DOMAIN Append(Steps(v, n), v) = 1 .. n + 1
        /\ \A i \in 1 .. n + 1 : Append(Steps(v, n), v)[i] = v
    BY <2>1 DEF Steps
  <2>3. Append(Steps(v, n), v) \in Seq({v})
    BY <2>1
  <2> QED BY <2>2, <2>3 DEF Steps
<1>3. \A m \in 0 .. (n + 1) - 1 : Deeper(o, Steps(v, m))
  BY <1>1
<1> QED BY <1>1, <1>2, <1>3 DEF Grown

\* There is only one way to build all of a tree.
LEMMA WholeOne ==
    ASSUME NEW o, NEW c, NEW a, NEW b, Whole(o, c, a), Whole(o, c, b)
    PROVE  a = b
<1> DEFINE v == c[o]
<1>1. PICK n \in Nat : a = Steps(v, n) /\ \A k \in 0 .. n - 1 : Deeper(o, Steps(v, k))
  BY DEF Whole, Grown
<1>2. PICK m \in Nat : b = Steps(v, m) /\ \A k \in 0 .. m - 1 : Deeper(o, Steps(v, k))
  BY DEF Whole, Grown
<1>3. ~(n < m) /\ ~(m < n)
  BY <1>1, <1>2 DEF Whole
<1>4. n = m
  BY <1>3
<1> QED BY <1>1, <1>2, <1>4

\* The loops of Kept that keep everything.
LEMMA KeptAll == ASSUME NEW s \in Seq(Entry) PROVE Kept(s, DOMAIN s) = s
<1> DEFINE n == Len(s)
           P == DOMAIN s
           f == CHOOSE f : Loop(s, P, n, f)
<1>1. n \in Nat /\ P = 1 .. n
  OBVIOUS
<1>2. Loop(s, P, n, f)
  BY <1>1, LoopExists, Zenon
<1>3. Kept(s, P) = f[n]
  BY DEF Kept, Loop
<1> HIDE DEF f, P, n
<1>4. \A i \in 0 .. n : f[i] = IF i = 0 THEN <<>>
                              ELSE IF i \in P THEN Append(f[i - 1], s[i]) ELSE f[i - 1]
  BY <1>2 DEF Loop
<1> DEFINE T == {m \in Nat : m <= n => /\ f[m] \in Seq(Entry) /\ Len(f[m]) = m
                                        /\ \A i \in 1 .. m : f[m][i] = s[i]}
<1>5. 0 \in T
  <2>0. 0 \in 0 .. n
    BY <1>1
  <2>1. f[0] = <<>>
    BY <1>4, <2>0
  <2>2. f[0] \in Seq(Entry) /\ Len(f[0]) = 0 /\ \A i \in 1 .. 0 : f[0][i] = s[i]
    BY <2>1
  <2> QED BY <2>2
<1>6. ASSUME NEW m \in T PROVE m + 1 \in T
  <2> SUFFICES ASSUME m + 1 <= n
               PROVE  /\ f[m + 1] \in Seq(Entry) /\ Len(f[m + 1]) = m + 1
                      /\ \A i \in 1 .. m + 1 : f[m + 1][i] = s[i]
    BY <1>6
  <2>1. m \in Nat /\ m <= n /\ m + 1 \in 0 .. n /\ m + 1 \in P /\ (m + 1) - 1 = m /\ m + 1 # 0
    BY <1>1
  <2>2. f[m + 1] = Append(f[m], s[m + 1])
    BY <1>4, <2>1
  <2>3. f[m] \in Seq(Entry) /\ Len(f[m]) = m /\ \A i \in 1 .. m : f[m][i] = s[i]
    BY <1>6, <2>1
  <2>4. s[m + 1] \in Entry
    BY <2>1 DEF P
  <2> QED BY <2>1, <2>2, <2>3, <2>4
<1>7. T = Nat
  <2>1. T \in SUBSET Nat
    OBVIOUS
  <2> HIDE DEF T
  <2> QED BY <1>5, <1>6, <2>1, NatSetInduction
<1>8. f[n] \in Seq(Entry) /\ Len(f[n]) = n /\ \A i \in 1 .. n : f[n][i] = s[i]
  BY <1>1, <1>7
<1>9. f[n] = s
  BY <1>8, <1>1 DEF n
<1> QED BY <1>3, <1>9 DEF P, n

LEMMA IdleTogether == ASSUME NEW s, NEW c PROVE TogetherOK(Idle, s, c)
BY DEF TogetherOK, Idle

\* A step of one handler that leaves the store as it is.
LEMMA TogetherMove ==
    ASSUME TogetherInv, NEW w \in Workers, Only(w), store' = store,
           TogetherOK(handler'[w], store, cluster)
    PROVE  TogetherInv'
<1>1. \A v \in Workers : TogetherOK(handler'[v], store', cluster')
  BY DEF TogetherInv, Only
<1> QED BY <1>1 DEF TogetherInv, Only

LEMMA ListKindTogether ==
    ASSUME NEW h, NEW g, NEW s, NEW c, TogetherOK(h, s, c), h.pc = "list", SameRequest(g, h),
           NEW kind, NEW objs, g.pc = IF objs = {} THEN "list" ELSE "build",
           objs = {o \in Objects : c[o] # Absent /\ o.kind = kind /\ o.namespace = h.request.namespace},
           g.todo = h.todo \ {kind}, g.list \in Seq(objs), Range(g.list) = objs, g.tree = <<>>,
           g.names = h.names \union {o.name : o \in objs}
    PROVE  TogetherOK(g, s, c)
<1>1. Gathered(h, s, c) /\ h.list = <<>> /\ ~h.failed /\ \A o \in Objects : o.namespace = h.request.namespace
  BY DEF TogetherOK
<1>2. \A o \in objs : \E i \in DOMAIN g.list : g.list[i] = o
  BY DEF Range
<1>3. \A i \in DOMAIN g.list : g.list[i] \in objs
  OBVIOUS
<1>4. ASSUME NEW o \in Objects, o.kind \notin g.todo, c[o] # Absent
      PROVE  /\ o.name \in g.names
             /\ (\E i \in DOMAIN g.list : g.list[i] = o) \/ (\E i \in DOMAIN s : s[i].obj = o)
  <2>1. CASE o.kind = kind
    <3>1. o \in objs
      BY <1>1, <1>4, <2>1
    <3>2. o.name \in {p.name : p \in objs}
      BY <3>1
    <3> QED BY <1>2, <3>1, <3>2
  <2>2. CASE o.kind # kind
    BY <1>1, <1>4, <2>2 DEF Gathered
  <2> QED BY <2>1, <2>2
<1>5. \A i \in DOMAIN g.list : g.list[i] \in Objects /\ c[g.list[i]] # Absent
  BY <1>3
<1>6. Gathered(g, s, c)
  BY <1>4, <1>5 DEF Gathered
<1>7. g.pc = "list" => g.list = <<>>
  BY <1>3
<1> QED BY <1>1, <1>6, <1>7, GrownEmpty DEF TogetherOK, SameRequest

\* The resource at the head of the list is in the store t.
LEMMA HeadTogether ==
    ASSUME NEW h \in HandlerType, NEW g, NEW s, NEW t, NEW c, TogetherOK(h, s, c),
           h.pc \in {"scan", "append"}, h.list # <<>>, SameRequest(g, h),
           g.todo = h.todo, g.names = h.names, g.list = Tail(h.list),
           g.pc \in {"list", "build"}, g.pc = "list" => g.list = <<>>, g.tree = <<>>,
           \A i \in DOMAIN s : \E j \in DOMAIN t : t[j].obj = s[i].obj,
           \E j \in DOMAIN t : t[j].obj = h.list[1]
    PROVE  TogetherOK(g, t, c)
<1>1. Gathered(h, s, c) /\ ~h.failed /\ \A o \in Objects : o.namespace = h.request.namespace
  BY DEF TogetherOK
<1>2. h.list \in Seq(Objects)
  BY DEF HandlerType
<1>3. ASSUME NEW o \in Objects, \E i \in DOMAIN h.list : h.list[i] = o
      PROVE  (\E i \in DOMAIN g.list : g.list[i] = o) \/ (\E i \in DOMAIN t : t[i].obj = o)
  <2>1. PICK i \in DOMAIN h.list : h.list[i] = o
    BY <1>3
  <2>2. CASE i = 1
    BY <2>1, <2>2
  <2>3. CASE i # 1
    <3>1. i - 1 \in DOMAIN g.list /\ g.list[i - 1] = o
      BY <1>2, <2>1, <2>3, TailProperty
    <3> QED BY <3>1
  <2> QED BY <2>2, <2>3
<1>4. \A i \in DOMAIN g.list : g.list[i] \in Objects /\ c[g.list[i]] # Absent
  BY <1>1, <1>2, TailProperty DEF Gathered
<1>5. Gathered(g, t, c)
  BY <1>1, <1>3, <1>4 DEF Gathered
<1> QED BY <1>1, <1>5, GrownEmpty DEF TogetherOK, SameRequest

\* The handlers that wait or read while another one appends.
LEMMA OthersTogether ==
    ASSUME NEW h, NEW s, NEW t, NEW c, TogetherOK(h, s, c), h.pc \notin {"scan", "append", "purge"},
           \A i \in DOMAIN s : \E j \in DOMAIN t : t[j].obj = s[i].obj
    PROVE  TogetherOK(h, t, c)
<1>1. Gathered(h, s, c) => Gathered(h, t, c)
  BY DEF Gathered
<1>2. Full(s, c) => Full(t, c)
  BY DEF Full
<1> QED BY <1>1, <1>2 DEF TogetherOK

LEMMA CurrentAppend ==
    ASSUME NEW s \in Seq(Entry), NEW c, Current(s, c), NEW e, Whole(e.obj, c, e.tree), c[e.obj] # Absent
    PROVE  Current(Append(s, e), c)
<1> DEFINE t == Append(s, e)
<1>1. /\ \A j \in DOMAIN s : t[j] = s[j]
      /\ t[Len(s) + 1] = e
      /\ \A j \in DOMAIN t : j \in DOMAIN s \/ j = Len(s) + 1
  OBVIOUS
<1> HIDE DEF t
<1>2. Current(t, c)
  BY <1>1 DEF Current
<1> QED BY <1>2 DEF t

\* An overwritten entry is what it was.
LEMMA OverwriteTogether ==
    ASSUME NEW h \in HandlerType, NEW g, NEW s \in Seq(Entry), NEW c, Current(s, c), TogetherOK(h, s, c),
           h.pc = "scan", g.pc = "scan", SameRequest(g, h), SameList(g, h), g.tree = h.tree,
           g.snap = h.snap, g.found, NEW t, NEW i, Overwrites(g, h, s, t, i)
    PROVE  t = s /\ TogetherOK(g, s, c)
<1> DEFINE e == [obj |-> h.list[1], tree |-> h.tree]
<1>1. /\ h.snap = s /\ Whole(h.list[1], c, h.tree) /\ Gathered(h, s, c) /\ ~h.failed
      /\ \A o \in Objects : o.namespace = h.request.namespace
  BY DEF TogetherOK, Whole
<1>2. i \in DOMAIN s /\ s[i].obj = h.list[1] /\ t = [s EXCEPT ![i] = e] /\ g.pos = i + 1
  BY <1>1 DEF Overwrites
<1>3. s[i] = e
  <2>1. s[i] \in Entry /\ Whole(s[i].obj, c, s[i].tree)
    BY <1>2 DEF Current
  <2>2. s[i].tree = h.tree
    BY <1>1, <1>2, <2>1, WholeOne
  <2> QED BY <1>2, <2>1, <2>2 DEF Entry
<1>4. t = s
  <2> HIDE DEF e
  <2> QED BY <1>2, <1>3
<1>5. i < g.pos
  BY <1>2
<1>6. Gathered(g, s, c)
  BY <1>1 DEF Gathered, SameList
<1>7. g.list = h.list
  BY DEF SameList
<1>8. \E j \in DOMAIN s : j < g.pos /\ s[j].obj = g.list[1]
  BY <1>2, <1>5, <1>7
<1>9. TogetherOK(g, s, c)
  BY <1>1, <1>6, <1>7, <1>8 DEF TogetherOK, SameRequest, Whole
<1> QED BY <1>4, <1>9

LEMMA PurgeScanTogether ==
    ASSUME NEW h, NEW g, NEW s \in Seq(Entry), NEW c, Current(s, c), TogetherOK(h, s, c),
           h.pc = "list", h.todo = {}, g.pc = "purge", SameRequest(g, h),
           g.snap = Kept(s, Present(s, h.names))
    PROVE  TogetherOK(g, s, c)
<1>1. /\ Gathered(h, s, c) /\ h.list = <<>> /\ ~h.failed
      /\ \A o \in Objects : o.namespace = h.request.namespace
  BY DEF TogetherOK
<1>2. ASSUME NEW i \in DOMAIN s PROVE s[i].obj \in Objects
  <2>1. s[i] \in Entry
    OBVIOUS
  <2> QED BY <2>1 DEF Entry
<1>3. Present(s, h.names) = DOMAIN s
  BY <1>1, <1>2 DEF Present, Gathered, Current
<1>4. g.snap = s
  BY <1>3, KeptAll
<1>5. Full(s, c)
  BY <1>1 DEF Full, Gathered
<1> QED BY <1>1, <1>4, <1>5 DEF TogetherOK, SameRequest

LEMMA GetTogether ==
    ASSUME NEW h, NEW g, NEW s \in Seq(Entry), NEW c, Current(s, c), TogetherOK(h, s, c),
           h.pc = "get", g.pc = "answered", SameRequest(g, h),
           g.answer = Kept(s, Matching(s, h.request))
    PROVE  TogetherOK(g, s, c)
<1>1. Full(s, c) /\ ~h.failed /\ \A o \in Objects : o.namespace = h.request.namespace
  BY DEF TogetherOK
<1> DEFINE t == Kept(s, Matching(s, h.request))
<1>2. \A k \in DOMAIN s : Asked(h.request, s[k].obj) => \E i \in DOMAIN t : t[i] = s[k]
  BY KeptMatching
<1> HIDE DEF t
<1>3. ASSUME NEW o \in Objects, c[o] # Absent, Asked(h.request, o)
      PROVE  \E i \in DOMAIN t : t[i].obj = o /\ Whole(o, c, t[i].tree)
  <2>1. PICK k \in DOMAIN s : s[k].obj = o
    BY <1>1, <1>3 DEF Full
  <2>2. Whole(o, c, s[k].tree)
    BY <2>1 DEF Current
  <2>4. PICK i \in DOMAIN t : t[i] = s[k]
    BY <1>2, <1>3, <2>1
  <2> QED BY <2>1, <2>2, <2>4
<1>4. CompleteOf(g, c)
  BY <1>3 DEF CompleteOf, SameRequest, t
<1> QED BY <1>1, <1>4 DEF TogetherOK, SameRequest

LEMMA TogetherStep ==
    SameNamespace /\ Undisturbed /\ TypeInv /\ LockInv /\ TogetherInv /\ [Next]_vars => TogetherInv'
<1> SUFFICES ASSUME SameNamespace, Undisturbed, TypeInv, LockInv, TogetherInv, [Next]_vars
             PROVE  TogetherInv'
  OBVIOUS
<1>a. store \in Seq(Entry) /\ Unique(store) /\ Current(store, cluster)
  BY DEF TypeInv, VarsTyped, TogetherInv
<1>b. ASSUME NEW w \in Workers
      PROVE  handler[w] \in HandlerType /\ TogetherOK(handler[w], store, cluster)
  BY DEF TypeInv, HandlersTyped, TogetherInv
<1>c. ~(counts.faults < MaxFaults) /\ ~(counts.changes < MaxChanges)
  BY DEF Undisturbed, TypeInv, VarsTyped, Counts
<1>1. ASSUME NEW w \in Workers, Begin(w) PROVE TogetherInv'
  <2>1. /\ cluster' = cluster /\ store' = store
        /\ \A v \in Workers \ {w} : handler'[v] = [handler[v] EXCEPT !.alone = @ /\ ~Active(v)]
    BY <1>1, BeginMoves
  <2>2. PICK r \in Requests :
           handler'[w] = [Idle EXCEPT !.pc = "kinds",
                                      !.request = [r EXCEPT !.namespace = Namespace(r)],
                                      !.since = {cluster},
                                      !.alone = (\A v \in Workers \ {w} : ~Active(v))]
    BY <1>1, BeginMoves
  <2>3. r \in Reference
    BY ObjectsAssumption
  <2>4. [r EXCEPT !.namespace = Namespace(r)].namespace = Namespace(r)
    BY <2>3 DEF Reference
  <2>5. /\ handler'[w].pc = "kinds" /\ handler'[w].names = {} /\ handler'[w].list = <<>>
        /\ ~handler'[w].failed /\ handler'[w].request.namespace = Namespace(r)
    BY <2>2, <2>4 DEF Idle
  <2>6. TogetherOK(handler'[w], store, cluster)
    BY <2>5 DEF TogetherOK, SameNamespace
  <2>7. ASSUME NEW v \in Workers \ {w} PROVE TogetherOK(handler'[v], store, cluster)
    <3> DEFINE h == handler[v]
               g == handler'[v]
               b == h.alone /\ ~Active(v)
    <3>3. h \in HandlerType /\ g = [h EXCEPT !.alone = b]
      BY <1>b, <2>1
    <3>1. /\ g.pc = h.pc /\ g.request = h.request /\ SameList(g, h) /\ SameScan(g, h)
          /\ g.answer = h.answer /\ g.failed = h.failed
      <4> HIDE DEF b, h
      <4> QED BY <3>3 DEF HandlerType, SameList, SameScan
    <3> HIDE DEF g
    <3>2. TogetherOK(g, store, cluster)
      BY <1>b, <3>1 DEF TogetherOK, Gathered, CompleteOf, SameList, SameScan
    <3> QED BY <3>2 DEF g
  <2> QED BY <1>a, <2>1, <2>6, <2>7 DEF TogetherInv
<1>2. ASSUME NEW w \in Workers, ReadKinds(w) PROVE TogetherInv'
  <2> DEFINE h == handler[w]
             g == handler'[w]
  <2>1. /\ Only(w) /\ store' = store /\ h.pc = "kinds" /\ g.pc = "list" /\ SameRequest(g, h)
        /\ g.todo = Kinds /\ g.list = h.list
    BY <1>2, ReadKindsMoves
  <2>2. \A o \in Objects : o.kind \in Kinds
    BY ObjectsAssumption
  <2> HIDE DEF g
  <2>3. Gathered(g, store, cluster)
    BY <1>b, <2>1, <2>2 DEF Gathered, TogetherOK
  <2>4. TogetherOK(g, store, cluster)
    BY <1>b, <2>1, <2>3 DEF TogetherOK, SameRequest
  <2> QED BY <2>1, <2>4, TogetherMove DEF g
<1>3. ASSUME NEW w \in Workers, ListKind(w) PROVE TogetherInv'
  <2> DEFINE h == handler[w]
             g == handler'[w]
  <2>1. Only(w) /\ store' = store /\ SameRequest(g, h) /\ h.pc = "list" /\ g.tree = <<>>
    BY <1>3, ListKindMoves DEF SameScan
  <2>2. PICK kind, objs : Lists(g, h, kind, objs)
    BY <1>3, ListKindMoves
  <2>3. TogetherOK(g, store, cluster)
    BY <1>b, <2>1, <2>2, ListKindTogether DEF Lists, Existing
  <2> QED BY <2>1, <2>3, TogetherMove
<1>4. ASSUME NEW w \in Workers, Build(w) PROVE TogetherInv'
  <2> DEFINE h == handler[w]
             g == handler'[w]
  <2>1. /\ Only(w) /\ store' = store /\ h.pc = "build" /\ g.pc = "lock" /\ SameRequest(g, h)
        /\ SameList(g, h) /\ SameScan(g, h) /\ ~Deeper(h.list[1], h.tree)
    BY <1>4, BuildMoves
  <2> HIDE DEF g
  <2>2. TogetherOK(g, store, cluster)
    BY <1>b, <2>1 DEF TogetherOK, Gathered, SameRequest, SameList, SameScan
  <2> QED BY <2>1, <2>2, TogetherMove DEF g
<1>16. ASSUME NEW w \in Workers, ListBelow(w) PROVE TogetherInv'
  <2> DEFINE h == handler[w]
             g == handler'[w]
  <2>1. /\ Only(w) /\ store' = store /\ h.pc = "build" /\ g.pc = "build" /\ SameRequest(g, h)
        /\ SameList(g, h) /\ g.tree = Append(h.tree, cluster[h.list[1]]) /\ Deeper(h.list[1], h.tree)
    BY <1>16, ListBelowMoves
  <2> HIDE DEF g
  <2>2. Grown(g.list[1], cluster, g.tree)
    <3>1. Grown(h.list[1], cluster, h.tree)
      BY <1>b, <2>1 DEF TogetherOK
    <3> QED BY <2>1, <3>1, GrownMore DEF SameList
  <2>3. TogetherOK(g, store, cluster)
    BY <1>b, <2>1, <2>2 DEF TogetherOK, Gathered, SameRequest, SameList
  <2> QED BY <2>1, <2>3, TogetherMove DEF g
<1>5. ASSUME NEW w \in Workers, Lock(w) PROVE TogetherInv'
  <2> DEFINE h == handler[w]
             g == handler'[w]
  <2>1. /\ Only(w) /\ store' = store /\ h.pc = "lock" /\ g.pc = "scan" /\ SameRequest(g, h)
        /\ SameList(g, h) /\ g.tree = h.tree /\ g.snap = store /\ g.pos = 1 /\ ~g.found
    BY <1>5, LockMoves
  <2>2. \A i \in DOMAIN store : ~(i < 1)
    BY <1>a
  <2> HIDE DEF g
  <2>3. TogetherOK(g, store, cluster)
    BY <1>b, <2>1, <2>2 DEF TogetherOK, Gathered, SameRequest, SameList
  <2> QED BY <2>1, <2>3, TogetherMove DEF g
<1>6. ASSUME NEW w \in Workers, Overwrite(w) PROVE TogetherInv'
  <2> DEFINE h == handler[w]
             g == handler'[w]
  <2>1. /\ Only(w) /\ h.pc = "scan" /\ g.pc = "scan" /\ SameRequest(g, h) /\ SameList(g, h)
        /\ g.tree = h.tree /\ g.snap = h.snap /\ g.found
    BY <1>6, OverwriteMoves
  <2>2. PICK i : Overwrites(g, h, store, store', i)
    BY <1>6, OverwriteMoves
  <2>3. store' = store /\ TogetherOK(g, store, cluster)
    BY <1>a, <1>b, <2>1, <2>2, OverwriteTogether
  <2> QED BY <2>1, <2>3, TogetherMove
<1>7. ASSUME NEW w \in Workers, EndScan(w) PROVE TogetherInv'
  <2> DEFINE h == handler[w]
             g == handler'[w]
  <2>1. /\ Only(w) /\ store' = store /\ h.pc = "scan" /\ h.list # <<>> /\ SameRequest(g, h)
        /\ g.todo = h.todo /\ g.names = h.names
        /\ \A j \in DOMAIN h.snap : h.snap[j].obj = h.list[1] => j < h.pos
        /\ \/ h.found /\ g.pc \in {"list", "build"} /\ g.list = Tail(h.list) /\ g.tree = <<>>
              /\ (g.pc = "list" => g.list = <<>>)
           \/ ~h.found /\ g.pc = "append" /\ g.list = h.list /\ g.tree = h.tree /\ g.snap = store
    BY <1>7, EndScanMoves
  <2>2. /\ h.snap = store /\ Gathered(h, store, cluster) /\ Whole(h.list[1], cluster, h.tree) /\ ~h.failed
        /\ h.found <=> \E i \in DOMAIN store : i < h.pos /\ store[i].obj = h.list[1]
        /\ \A o \in Objects : o.namespace = h.request.namespace
    BY <1>b, <2>1 DEF TogetherOK, Whole
  <2>0. h \in HandlerType /\ TogetherOK(h, store, cluster)
    BY <1>b
  <2> HIDE DEF g, h
  <2>3. ASSUME h.found, g.pc \in {"list", "build"}, g.list = Tail(h.list),
               g.pc = "list" => g.list = <<>>, g.tree = <<>>
        PROVE  TogetherOK(g, store, cluster)
    <3>1. \E j \in DOMAIN store : store[j].obj = h.list[1]
      BY <2>2, <2>3
    <3>2. \A i \in DOMAIN store : \E j \in DOMAIN store : store[j].obj = store[i].obj
      OBVIOUS
    <3> QED BY <2>0, <2>1, <2>3, <3>1, <3>2, HeadTogether
  <2>4. ASSUME ~h.found, g.pc = "append", g.list = h.list, g.tree = h.tree, g.snap = store
        PROVE  TogetherOK(g, store, cluster)
    <3>1. \A i \in DOMAIN store : store[i].obj # h.list[1]
      BY <2>1, <2>2, <2>4
    <3>2. Gathered(g, store, cluster)
      BY <2>1, <2>2, <2>4 DEF Gathered
    <3>3. /\ ~g.failed /\ Whole(g.list[1], cluster, g.tree)
          /\ \A o \in Objects : o.namespace = g.request.namespace
          /\ \A i \in DOMAIN store : store[i].obj # g.list[1]
      BY <2>1, <2>2, <2>4, <3>1 DEF SameRequest
    <3> QED BY <2>4, <3>2, <3>3 DEF TogetherOK, Whole
  <2>5. TogetherOK(g, store, cluster)
    BY <2>1, <2>3, <2>4, Zenon
  <2> QED BY <2>1, <2>5, TogetherMove DEF g, h
<1>8. ASSUME NEW w \in Workers, AppendEntry(w) PROVE TogetherInv'
  <2> DEFINE h == handler[w]
             g == handler'[w]
             e == [obj |-> h.list[1], tree |-> h.tree]
  <2>1. /\ Only(w) /\ h.pc = "append" /\ h.list # <<>> /\ store' = Append(h.snap, e)
        /\ SameRequest(g, h) /\ g.todo = h.todo /\ g.names = h.names
        /\ g.pc \in {"list", "build"} /\ g.list = Tail(h.list) /\ (g.pc = "list" => g.list = <<>>)
        /\ g.tree = <<>>
    BY <1>8, AppendEntryMoves
  <2>2. /\ h.snap = store /\ Whole(h.list[1], cluster, h.tree) /\ Gathered(h, store, cluster)
        /\ \A i \in DOMAIN store : store[i].obj # h.list[1]
    BY <1>b, <2>1 DEF TogetherOK, Whole
  <2>3. h.list \in Seq(Objects) /\ 1 \in DOMAIN h.list
    <3>1. h.list \in Seq(Objects)
      BY <1>b DEF HandlerType
    <3> QED BY <2>1, <3>1, TailProperty
  <2>4. h.list[1] \in Objects /\ cluster[h.list[1]] # Absent
    BY <2>2, <2>3 DEF Gathered
  <2>5. e.obj = h.list[1] /\ e.tree = h.tree
    OBVIOUS
  <2> HIDE DEF e, g
  <2>6. /\ \A i \in DOMAIN store : \E j \in DOMAIN store' : store'[j].obj = store[i].obj
        /\ \E j \in DOMAIN store' : store'[j].obj = h.list[1]
    <3>1. /\ \A j \in DOMAIN store : j \in DOMAIN store' /\ store'[j] = store[j]
          /\ Len(store) + 1 \in DOMAIN store' /\ store'[Len(store) + 1] = e
      BY <1>a, <2>1, <2>2
    <3> QED BY <2>5, <3>1
  <2>7. TogetherOK(g, store', cluster)
    <3>1. h \in HandlerType /\ TogetherOK(h, store, cluster)
      BY <1>b
    <3> HIDE DEF h
    <3> QED BY <2>1, <2>6, <3>1, HeadTogether
  <2>8. ASSUME NEW v \in Workers \ {w} PROVE TogetherOK(handler[v], store', cluster)
    <3>1. handler[v].pc \notin {"scan", "append"}
      BY <2>1 DEF LockInv, LockDiscipline
    <3>2. handler[v].pc # "purge"
      BY <1>b, <2>2, <2>4 DEF TogetherOK, Full
    <3> QED BY <1>b, <2>6, <3>1, <3>2, OthersTogether
  <2>9. Unique(store') /\ Current(store', cluster)
    BY <1>a, <2>1, <2>2, <2>4, <2>5, UniqueAppend, CurrentAppend
  <2> QED BY <2>1, <2>7, <2>8, <2>9 DEF TogetherInv, Only, g
<1>9. ASSUME NEW w \in Workers, PurgeScan(w) PROVE TogetherInv'
  <2> DEFINE h == handler[w]
             g == handler'[w]
  <2>1. /\ Only(w) /\ store' = store /\ h.pc = "list" /\ h.todo = {} /\ g.pc = "purge"
        /\ SameRequest(g, h) /\ g.snap = Kept(store, Present(store, h.names))
    BY <1>9, PurgeScanMoves
  <2>2. TogetherOK(g, store, cluster)
    BY <1>a, <1>b, <2>1, PurgeScanTogether
  <2> QED BY <2>1, <2>2, TogetherMove
<1>10. ASSUME NEW w \in Workers, Purge(w) PROVE TogetherInv'
  <2> DEFINE h == handler[w]
             g == handler'[w]
  <2>1. Only(w) /\ store' = h.snap /\ h.pc = "purge" /\ g.pc = "get" /\ SameRequest(g, h)
    BY <1>10, PurgeMoves
  <2>2. /\ h.snap = store /\ Full(store, cluster) /\ ~h.failed
        /\ \A o \in Objects : o.namespace = h.request.namespace
    BY <1>b, <2>1 DEF TogetherOK
  <2>3. TogetherOK(g, store, cluster)
    BY <2>1, <2>2 DEF TogetherOK, SameRequest
  <2> QED BY <2>1, <2>2, <2>3, TogetherMove
<1>11. ASSUME NEW w \in Workers, GetCompositions(w) PROVE TogetherInv'
  <2> DEFINE h == handler[w]
             g == handler'[w]
  <2>1. /\ Only(w) /\ store' = store /\ h.pc = "get" /\ g.pc = "answered" /\ SameRequest(g, h)
        /\ g.answer = Kept(store, Matching(store, h.request))
    BY <1>11, GetCompositionsMoves
  <2>2. TogetherOK(g, store, cluster)
    BY <1>a, <1>b, <2>1, GetTogether
  <2> QED BY <2>1, <2>2, TogetherMove
<1>12. ASSUME NEW w \in Workers, Finish(w) \/ Panic(w) PROVE TogetherInv'
  BY <1>12, LeaveMoves, IdleTogether, TogetherMove
<1>13. CASE RuntimeFault
  <2>1. store' = <<>> /\ cluster' = cluster /\ \A w \in Workers : handler'[w] = Idle
    BY <1>13 DEF RuntimeFault
  <2> QED BY <2>1, IdleTogether DEF TogetherInv, Unique, Current
<1>14. CASE UNCHANGED vars
  BY <1>14 DEF vars, TogetherInv
<1>15. ASSUME NEW w \in Workers PROVE ~ReadKindsFails(w) /\ ~ListKindFails(w) /\ ~ListBelowFails(w)
  BY <1>c DEF ReadKindsFails, ListKindFails, ListBelowFails, Fault
<1> QED
  BY <1>1, <1>2, <1>3, <1>4, <1>5, <1>6, <1>7, <1>8, <1>9, <1>10, <1>11, <1>12, <1>13, <1>14,
     <1>15, <1>16, <1>c
  DEF Next, Work, Quiet, Change

LEMMA InitTogether == Init => TogetherInv
<1> SUFFICES ASSUME Init PROVE TogetherInv
  OBVIOUS
<1>1. store = <<>> /\ \A w \in Workers : handler[w] = Idle
  BY DEF Init
<1> QED BY <1>1, IdleTogether DEF TogetherInv, Unique, Current

LEMMA TogetherAlways == ASSUME SameNamespace, Undisturbed PROVE Spec => []TogetherInv
<1>1. TypeInv /\ LockInv /\ TogetherInv /\ [Next]_vars => TogetherInv'
  BY TogetherStep
<1>2. SInv => TypeInv /\ LockInv
  BY DEF SInv
<1>3. Spec => []SInv
  BY InitSound, SoundStep, PTL DEF Spec
<1> QED BY <1>1, <1>2, <1>3, InitTogether, PTL DEF Spec

\* However many requests for one namespace overlap, and although the purge
\* takes no lock: while the cluster stays as it is and no call fails, the
\* store has one entry for a resource (a purge that was overtaken by an
\* append would lose one, but by then there is nothing to append) ...
THEOREM UniqueTogether == ASSUME SameNamespace, Undisturbed PROVE Spec => []StoreUnique
<1>1. TogetherInv => StoreUnique
  BY DEF TogetherInv, Unique, StoreUnique
<1>2. Spec => []TogetherInv
  BY TogetherAlways
<1> QED BY <1>1, <1>2, PTL

\* ... and every request that is answered is answered completely.
THEOREM CompleteTogether == ASSUME SameNamespace, Undisturbed PROVE Spec => []AnswerComplete
<1>1. TogetherInv => AnswerComplete
  <2> SUFFICES ASSUME TogetherInv, NEW w \in Workers, At(w, "answered")
               PROVE  Complete(handler[w])
    BY DEF AnswerComplete
  <2>1. CompleteOf(handler[w], cluster)
    BY DEF TogetherInv, TogetherOK, At
  <2>2. \A o, tree : Whole(o, cluster, tree) => WholeTree(o, tree)
    BY DEF Whole, Grown, Steps, WholeTree
  <2> QED BY <2>1, <2>2 DEF Complete, CompleteOf, Wanted
<1>2. Spec => []TogetherInv
  BY TogetherAlways
<1> QED BY <1>1, <1>2, PTL

=============================================================================
