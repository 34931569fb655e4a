--------------------------- MODULE ReportedProofs ---------------------------
(***************************************************************************)
(* That every resource a connections command visits is in its result       *)
(* (VisitedReported), that its formats print all of the result             *)
(* (NothingLeftOut) and that no relation is missing from it                *)
(* (RelationsReported), for every cluster, every input and every ignore    *)
(* list; the first two for any number of failing searches.                 *)
(*                                                                         *)
(* A resource enters the visited list before it is reported: a whole batch *)
(* does in appendCurrentLevelPeers.  Until then it waits in the frame of   *)
(* an activation that has still to come to it.  And once it is reported it *)
(* stays so, although AppendConnections drops entries of the result.       *)
(*                                                                         *)
(* The formats begin a branch at each connection of level 1.  The result   *)
(* begins with the root, whose level is 0, so its second connection has to *)
(* be one of level 1, although connections of all levels are added and     *)
(* those of level 1 are moved to the end.  Only a relation of the root to  *)
(* itself can be moved away from there, and another one of level 1 then    *)
(* follows it or nothing does: the traversal searches below the root only  *)
(* for a resource that is not the root (Stands).                           *)
(*                                                                         *)
(* A relation is told of from either of its ends, and once told of it      *)
(* stays so, although AppendConnections drops entries (Told).  What a task *)
(* finds does not depend on the level it is done at, so the tasks of a     *)
(* resource are done once, whichever path led there first: each of them is *)
(* to be done, has found what waits or is told of, or belongs to a         *)
(* resource that an activation has still to come to (Pending).             *)
(***************************************************************************)
EXTENDS RelativesProofs

\* The entry c of the result tells of v, as the resource or as its peer.
Tells(c, v) ==
    \/ c.kind = v.kind /\ c.name = v.name
    \/ c.peer.kind = v.kind /\ c.peer.name = v.name

Reported(all, v) == \E i \in DOMAIN all : Tells(all[i], v)

Names(item, v) == item[2].kind = v.kind /\ item[2].name = v.name

Waiting(f) == f.unseen \union f.seen

\* An activation on the stack has still to come to v.
Waits(frames, v) == \E i \in DOMAIN frames : \E item \in Waiting(frames[i]) : Names(item, v)

ReportedOrWaits == \A j \in DOMAIN visited : Reported(total, visited[j]) \/ Waits(stack, visited[j])

PeersWait(frames) == \A i \in DOMAIN frames : frames[i].peers \subseteq Waiting(frames[i])

ReportedInv == ReportedOrWaits /\ PeersWait(stack) /\ (phase # "search" => stack = <<>>)

-----------------------------------------------------------------------------
(* The lists *)

\* A connection that is added is told of, and what was told of stays so: the
\* entry that is dropped tells of the same two resources.
LEMMA AppendConnectionsTells ==
    ASSUME NEW all \in Seq(Connection), NEW c \in Connection, NEW v,
           Reported(all, v) \/ (c.kind = v.kind /\ c.name = v.name)
    PROVE  Reported(AppendConnections(all, c), v)
<1>1. ASSUME NEW s \in Seq(Connection), Reported(s, v) \/ Tells(c, v)
      PROVE  Reported(Append(s, c), v)
  <2>1. /\ DOMAIN Append(s, c) = 1 .. Len(s) + 1 /\ DOMAIN s = 1 .. Len(s) /\ Len(s) \in Nat
        /\ Append(s, c)[Len(s) + 1] = c /\ \A i \in DOMAIN s : Append(s, c)[i] = s[i]
    BY AppendProperties, LenProperties
  <2> QED BY <1>1, <2>1 DEF Reported
<1>2. CASE Reverses(all, c) = {}
  <2>1. CASE \E i \in DOMAIN all : compareConnectionsRelType(all[i], c)
    <3>1. AppendConnections(all, c) = all
      BY <1>2, <2>1 DEF AppendConnections
    <3>2. PICK i \in DOMAIN all : all[i].kind = c.kind /\ all[i].name = c.name
      BY <2>1 DEF compareConnectionsRelType, compareConnections
    <3> QED BY <3>1, <3>2 DEF Reported, Tells
  <2>2. CASE ~\E i \in DOMAIN all : compareConnectionsRelType(all[i], c)
    <3>1. AppendConnections(all, c) = Append(all, c)
      BY <1>2, <2>2 DEF AppendConnections
    <3> QED BY <1>1, <3>1 DEF Tells
  <2> QED BY <2>1, <2>2
<1>3. CASE Reverses(all, c) # {} /\ c.level # 1
  <2>1. AppendConnections(all, c) = all
    BY <1>3 DEF AppendConnections
  <2>2. PICK i \in DOMAIN all : IsReverse(all[i], c)
    BY <1>3 DEF Reverses
  <2> QED BY <2>1, <2>2 DEF Reported, Tells, IsReverse
<1>4. CASE Reverses(all, c) # {} /\ c.level = 1
  <2> DEFINE m == Min(Reverses(all, c))
             rest == RemoveAt(all, m)
  <2>1. AppendConnections(all, c) = Append(rest, c)
    BY <1>4 DEF AppendConnections
  <2>2. m \in 1 .. Len(all) /\ m \in Reverses(all, c)
    <3>1. Reverses(all, c) \subseteq Nat
      BY DEF Reverses
    <3> QED BY <1>4, <3>1, MinProperty, ReversesMin
  <2>3. IsReverse(all[m], c)
    BY <2>2 DEF Reverses
  <2> HIDE DEF m
  <2>4. /\ rest \in Seq(Connection) /\ Len(rest) = Len(all) - 1 /\ Len(all) \in Nat
        /\ \A k \in 1 .. Len(all) - 1 : rest[k] = IF k < m THEN all[k] ELSE all[k + 1]
    BY <2>2, RemoveAtType
  <2> HIDE DEF rest
  <2>5. ASSUME NEW i \in DOMAIN all, Tells(all[i], v), i # m
        PROVE  Reported(rest, v)
    <3>1. i \in 1 .. Len(all) /\ DOMAIN rest = 1 .. Len(all) - 1
      BY <2>4
    <3>2. CASE i < m
      <4>1. i \in DOMAIN rest /\ rest[i] = all[i]
        BY <2>2, <2>4, <3>1, <3>2
      <4> QED BY <2>5, <4>1 DEF Reported
    <3>3. CASE i > m
      <4>1. i - 1 \in DOMAIN rest /\ rest[i - 1] = all[i]
        BY <2>2, <2>4, <3>1, <3>3
      <4> QED BY <2>5, <4>1 DEF Reported
    <3> QED BY <2>2, <2>5, <3>1, <3>2, <3>3
  <2>6. Tells(all[m], v) => Tells(c, v)
    BY <2>3 DEF Tells, IsReverse
  <2>7. Reported(rest, v) \/ Tells(c, v)
    <3>1. CASE c.kind = v.kind /\ c.name = v.name
      BY <3>1 DEF Tells
    <3>2. CASE Reported(all, v)
      BY <2>5, <2>6, <3>2 DEF Reported
    <3> QED BY <3>1, <3>2
  <2> QED BY <1>1, <2>1, <2>4, <2>7
<1> QED BY <1>2, <1>3, <1>4

\* Only the resource that is visited is new to the visited list.
LEMMA VisitedMembers ==
    ASSUME NEW all \in Seq(Visit), NEW c \in Visit, NEW j \in DOMAIN appendConnections1(all, c)
    PROVE  LET v == appendConnections1(all, c)[j]
           IN  \/ v.kind = c.kind /\ v.name = c.name
               \/ \E i \in DOMAIN all : v.kind = all[i].kind /\ v.name = all[i].name
<1> DEFINE P == {i \in DOMAIN all : compareConnections(c, all[i])}
           new == appendConnections1(all, c)
<1>1. CASE P = {}
  <2>1. new = Append(all, c)
    BY <1>1 DEF appendConnections1
  <2>2. /\ DOMAIN new = 1 .. Len(all) + 1 /\ DOMAIN all = 1 .. Len(all) /\ Len(all) \in Nat
        /\ new[Len(all) + 1] = c /\ \A i \in DOMAIN all : new[i] = all[i]
    BY <2>1, AppendProperties, LenProperties
  <2> HIDE DEF new
  <2>3. j = Len(all) + 1 \/ j \in DOMAIN all
    BY <2>2 DEF new
  <2> QED BY <2>2, <2>3 DEF new
<1>2. CASE P # {}
  <2>1. Min(P) \in DOMAIN all
    <3>1. DOMAIN all = 1 .. Len(all) /\ Len(all) \in Nat
      BY LenProperties
    <3>2. P \subseteq Nat
      BY <3>1
    <3>3. P \subseteq DOMAIN all
      OBVIOUS
    <3> HIDE DEF P
    <3>4. Min(P) \in P
      BY <1>2, <3>2, MinProperty
    <3> QED BY <3>3, <3>4
  <2> DEFINE m == Min(P)
  <2>2. new = all \/ new = [all EXCEPT ![m].level = c.level]
    BY <1>2 DEF appendConnections1
  <2>3. all[m] \in Visit
    BY <2>1, ElementOfSeq
  <2> HIDE DEF m, new, P
  <2>4. CASE new = all
    BY <2>4 DEF new
  <2>5. CASE new = [all EXCEPT ![m] = [all[m] EXCEPT !.level = c.level]]
    <3>1. j \in DOMAIN all
      BY <2>5 DEF new
    <3>2. new[j].kind = all[j].kind /\ new[j].name = all[j].name
      BY <2>3, <2>5, <3>1 DEF Visit
    <3> QED BY <3>1, <3>2 DEF new
  <2> QED BY <2>2, <2>4, <2>5
<1> QED BY <1>1, <1>2

-----------------------------------------------------------------------------
(* The stack *)

\* A frame takes the place of the top one, and nothing but item is taken out.
LEMMA TopReplaced ==
    ASSUME TypeOK, Searching, PeersWait(stack), NEW f \in FrameType, NEW item,
           \A other \in Waiting(Top) : other \in Waiting(f) \/ other = item, f.peers \subseteq Waiting(f),
           NEW new, new = [stack EXCEPT ![Len(stack)] = f]
    PROVE  /\ PeersWait(new)
           /\ \A v : Waits(stack, v) => Waits(new, v) \/ Names(item, v)
<1>1. /\ Len(stack) \in DOMAIN stack /\ DOMAIN new = DOMAIN stack /\ new[Len(stack)] = f
      /\ \A i \in DOMAIN stack : i # Len(stack) => new[i] = stack[i]
  <2>1. stack \in Seq(FrameType) /\ Len(stack) \in DOMAIN stack
    BY TopType, LenProperties DEF TypeOK
  <2> QED BY <2>1
<1>2. PeersWait(new)
  BY <1>1 DEF PeersWait
<1>3. ASSUME NEW v, Waits(stack, v)
      PROVE  Waits(new, v) \/ Names(item, v)
  <2>1. PICK i \in DOMAIN stack : \E other \in Waiting(stack[i]) : Names(other, v)
    BY <1>3 DEF Waits
  <2>2. CASE i = Len(stack)
    BY <1>1, <2>1, <2>2 DEF Waits, Top
  <2>3. CASE i # Len(stack)
    BY <1>1, <2>1, <2>3 DEF Waits
  <2> QED BY <2>2, <2>3
<1> QED BY <1>2, <1>3

\* An activation begins with nothing found.
LEMMA FramePushed ==
    ASSUME NEW below \in Seq(FrameType), PeersWait(below),
           NEW level, NEW kind, NEW name, NEW ns
    PROVE  LET new == Append(below, Frame(level, kind, name, ns))
           IN  PeersWait(new) /\ \A v : Waits(below, v) => Waits(new, v)
<1> DEFINE f == Frame(level, kind, name, ns)
           new == Append(below, f)
<1>1. /\ DOMAIN new = 1 .. Len(below) + 1 /\ DOMAIN below = 1 .. Len(below) /\ Len(below) \in Nat
      /\ new[Len(below) + 1] = f /\ \A i \in DOMAIN below : new[i] = below[i]
  BY AppendProperties, LenProperties
<1>2. f.peers = {}
  BY DEF Frame
<1> HIDE DEF f, new
<1>3. PeersWait(new)
  <2>1. \A i \in DOMAIN new : i \in DOMAIN below \/ new[i] = f
    BY <1>1
  <2> QED BY <1>1, <1>2, <2>1 DEF PeersWait
<1>4. \A v : Waits(below, v) => Waits(new, v)
  <2>1. \A i \in DOMAIN below : i \in DOMAIN new
    BY <1>1
  <2> QED BY <1>1, <2>1 DEF Waits
<1> QED BY <1>3, <1>4 DEF new, f

\* Calling GetRelatives for a resource that is reported.
LEMMA GetRelativesReports ==
    ASSUME TypeOK, NEW below \in Seq(FrameType), PeersWait(below),
           NEW level \in Nat, NEW kind \in STRING, NEW name \in STRING, NEW namespace \in STRING,
           GetRelatives(below, level, kind, name, namespace),
           \A v : v.kind = kind /\ v.name = name => Reported(total', v),
           \A j \in DOMAIN visited : Reported(total', visited[j]) \/ Waits(below, visited[j])
    PROVE  ReportedOrWaits' /\ PeersWait(stack')
<1> DEFINE ns == IF kind = "Namespace" THEN name ELSE namespace
           c == [level |-> level, kind |-> kind, name |-> name, namespace |-> ns]
<1>1. CASE checkIgnored(kind, name)
  BY <1>1 DEF GetRelatives, ReportedOrWaits
<1>2. CASE ~checkIgnored(kind, name)
  <2>1. visited' = appendConnections1(visited, c) /\ stack' = Append(below, Frame(level, kind, name, ns))
    BY <1>2 DEF GetRelatives
  <2>2. c \in Visit /\ c.kind = kind /\ c.name = name /\ visited \in Seq(Visit)
    BY DEF Visit, TypeOK
  <2> HIDE DEF c, ns
  <2>3. PeersWait(stack') /\ \A v : Waits(below, v) => Waits(stack', v)
    BY <2>1, FramePushed
  <2>4. ASSUME NEW j \in DOMAIN visited'
        PROVE  Reported(total', visited'[j]) \/ Waits(stack', visited'[j])
    <3>1. CASE visited'[j].kind = kind /\ visited'[j].name = name
      BY <3>1
    <3>2. CASE \E i \in DOMAIN visited : visited'[j].kind = visited[i].kind /\ visited'[j].name = visited[i].name
      BY <2>3, <3>2 DEF Reported, Tells, Waits, Names
    <3> QED BY <2>1, <2>2, <3>1, <3>2, VisitedMembers
  <2> QED BY <2>3, <2>4 DEF ReportedOrWaits
<1> QED BY <1>1, <1>2

-----------------------------------------------------------------------------
(* The steps *)

LEMMA InitReported == Init => ReportedInv
<1> SUFFICES ASSUME Init PROVE ReportedInv
  OBVIOUS
<1>1. visited = <<>> /\ stack = <<>>
  BY DEF Init
<1>2. DOMAIN visited = {} /\ DOMAIN stack = {}
  BY <1>1
<1> QED BY <1>1, <1>2 DEF ReportedInv, ReportedOrWaits, PeersWait

\* The result gets a connection, and the items it tells of are taken out.
LEMMA ReportedStays ==
    ASSUME TypeOK, NEW c \in Connection, total' = AppendConnections(total, c), NEW v, Reported(total, v)
    PROVE  Reported(total', v)
BY AppendConnectionsTells DEF TypeOK

LEMMA ReportedStep == InductiveInv /\ ReportedInv /\ [Next]_vars => ReportedInv'
<1> SUFFICES ASSUME InductiveInv, ReportedInv, [Next]_vars PROVE ReportedInv'
  OBVIOUS
<1>0. TypeOK /\ total \in Seq(Connection) /\ visited \in Seq(Visit) /\ stack \in Seq(FrameType)
  BY DEF InductiveInv, TypeOK
<1>1. CASE Start
  <2> DEFINE c == [level |-> 0, kind |-> input.kind, name |-> input.name,
                   namespace |-> input.namespace, relType |-> "", peer |-> NoPeer]
  <2>1. input.kind \in STRING /\ input.name \in STRING /\ input.namespace \in STRING
    BY <1>0 DEF TypeOK, Resource
  <2>2. c \in Connection /\ c.kind = input.kind /\ c.name = input.name
    BY <2>1, LiteralsAssumption DEF Connection, NoPeer, Resource
  <2>3. total' = AppendConnections(total, c) /\ phase' = "search"
    BY <1>1 DEF Start, Root
  <2> HIDE DEF c
  <2>4. GetRelatives(<<>>, 1, input.kind, input.name, input.namespace)
    BY <1>1 DEF Start
  <2>5. stack = <<>> /\ <<>> \in Seq(FrameType) /\ 1 \in Nat /\ PeersWait(<<>>)
    <3>1. phase = "start"
      BY <1>1 DEF Start
    <3>2. stack = <<>> /\ PeersWait(stack)
      BY <3>1 DEF ReportedInv
    <3> QED BY <1>0, <3>2
  <2>6. \A v : v.kind = input.kind /\ v.name = input.name => Reported(total', v)
    BY <1>0, <2>2, <2>3, AppendConnectionsTells
  <2>7. \A j \in DOMAIN visited : Reported(total', visited[j]) \/ Waits(<<>>, visited[j])
    BY <1>0, <2>2, <2>3, <2>5, ReportedStays DEF ReportedInv, ReportedOrWaits
  <2>8. ReportedOrWaits' /\ PeersWait(stack')
    BY <1>0, <2>1, <2>4, <2>5, <2>6, <2>7, GetRelativesReports
  <2> QED BY <2>3, <2>8 DEF ReportedInv, PeersWait
<1>2. CASE NotFound
  BY <1>2 DEF NotFound, ReportedInv, ReportedOrWaits
<1>3. ASSUME BetweenTasks, NEW t, NEW batch, Search(t, batch), UNCHANGED <<visited, total, phase>>
      PROVE  ReportedInv'
  <2> DEFINE seen == filterConnections(visited, batch)
             peers == IF t.stage \in {Downstream, Upstream} THEN batch ELSE {}
             f == [Top EXCEPT !.todo = Top.todo \ {t}, !.src = t.src, !.peers = peers,
                              !.unseen = batch \ seen, !.seen = seen]
  <2>1. Searching /\ Top \in FrameType /\ Waiting(Top) = {} /\ phase = "search"
    BY <1>0, <1>3, TopType DEF BetweenTasks, Waiting, Searching
  <2>2. stack' = [stack EXCEPT ![Len(stack)] = f]
    BY <1>3 DEF Search
  <2>3. /\ f.peers = peers /\ Waiting(f) = batch
    BY <2>1 DEF FrameType, Waiting, filterConnections
  <2>4. f.peers \subseteq Waiting(f)
    BY <2>3
  <2> HIDE DEF f, seen, peers
  <2>5. DOMAIN stack' = DOMAIN stack /\ \A i \in DOMAIN stack : stack'[i] = IF i = Len(stack) THEN f ELSE stack[i]
    BY <1>0, <2>2
  <2>6. PeersWait(stack')
    BY <2>4, <2>5 DEF PeersWait, ReportedInv
  <2>7. \A v : Waits(stack, v) => Waits(stack', v)
    BY <2>1, <2>5 DEF Waits, Top
  <2> QED BY <1>3, <2>1, <2>6, <2>7 DEF ReportedInv, ReportedOrWaits, PeersWait
<1>4. CASE SearchTask \/ SearchFails
  <2>1. PICK t, batch : Search(t, batch)
    BY <1>4 DEF SearchTask, SearchFails
  <2> QED BY <1>3, <1>4, <2>1 DEF SearchTask, SearchFails
<1>5. CASE AddPeer
  <2> DEFINE item == Foremost(Top.peers)
             c == [level |-> item[2].level, kind |-> item[2].kind, name |-> item[2].name,
                   namespace |-> item[2].namespace]
             f == [Top EXCEPT !.peers = Top.peers \ {item}]
  <2>1. Searching /\ Top \in FrameType /\ Len(stack) \in DOMAIN stack /\ phase = "search"
    BY <1>0, <1>5, TopType, LenProperties DEF AddPeer, Searching
  <2>2. item \in Top.peers /\ item \in Item
    BY <1>5, <2>1, ForemostProperty DEF AddPeer, FrameType
  <2>3. item \in Waiting(Top)
    BY <2>1, <2>2 DEF ReportedInv, PeersWait, Top
  <2>4. c \in Visit /\ c.kind = item[2].kind /\ c.name = item[2].name
    BY <2>2 DEF Item, Connection, Visit
  <2>5. visited' = appendConnections1(visited, c) /\ UNCHANGED <<total, phase>>
    BY <1>5 DEF AddPeer
  <2>6. stack' = [stack EXCEPT ![Len(stack)] = f]
    BY <1>5 DEF AddPeer, Top
  <2>7. f \in FrameType /\ Waiting(f) = Waiting(Top) /\ f.peers \subseteq Waiting(f)
    BY <2>1 DEF FrameType, Waiting, ReportedInv, PeersWait, Top
  <2> HIDE DEF item, c, f
  <2>8. PeersWait(stack') /\ \A v : Waits(stack, v) => Waits(stack', v)
    <3>1. PeersWait(stack) /\ f.peers \subseteq Waiting(f) /\ \A other \in Waiting(Top) : other \in Waiting(f) \/ other = item
      BY <2>7 DEF ReportedInv
    <3>2. /\ PeersWait(stack')
          /\ \A v : Waits(stack, v) => Waits(stack', v) \/ Names(item, v)
      BY <1>0, <2>1, <2>6, <2>7, <3>1, TopReplaced
    <3>3. \A v : Names(item, v) => Waits(stack', v)
      BY <2>1, <2>3, <2>6, <2>7, <1>0 DEF Waits, Names
    <3> QED BY <3>2, <3>3
  <2>9. DOMAIN stack' = DOMAIN stack /\ stack'[Len(stack)] = f
    BY <1>0, <2>1, <2>6
  <2>10. \A v : v.kind = item[2].kind /\ v.name = item[2].name => Waits(stack', v)
    BY <2>1, <2>3, <2>7, <2>9 DEF Waits, Names
  <2>11. ASSUME NEW j \in DOMAIN visited'
         PROVE  Reported(total', visited'[j]) \/ Waits(stack', visited'[j])
    <3>1. CASE visited'[j].kind = c.kind /\ visited'[j].name = c.name
      BY <2>4, <2>10, <3>1
    <3>2. CASE \E i \in DOMAIN visited : visited'[j].kind = visited[i].kind /\ visited'[j].name = visited[i].name
      <4>1. PICK i \in DOMAIN visited : visited'[j].kind = visited[i].kind /\ visited'[j].name = visited[i].name
        BY <3>2
      <4>2. Reported(total, visited[i]) \/ Waits(stack', visited[i])
        BY <2>8 DEF ReportedInv, ReportedOrWaits
      <4> QED BY <2>5, <4>1, <4>2 DEF Reported, Tells, Waits, Names
    <3> QED BY <1>0, <2>4, <2>5, <3>1, <3>2, VisitedMembers
  <2> QED BY <2>1, <2>5, <2>8, <2>11 DEF ReportedInv, ReportedOrWaits, PeersWait
<1>6. CASE Descend
  <2> DEFINE item == Foremost(Top.unseen)
             f == [Top EXCEPT !.unseen = Top.unseen \ {item}]
             below == [stack EXCEPT ![Len(stack)] = f]
  <2>1. Searching /\ Top \in FrameType /\ Top.peers = {} /\ phase = "search"
    BY <1>0, <1>6, TopType DEF Descend, Searching
  <2>2. item \in Item /\ item \in Top.unseen
    BY <1>6, <2>1, ForemostProperty DEF Descend, FrameType
  <2>3. item[2] \in Connection /\ item[2].kind \in STRING /\ item[2].name \in STRING
    BY <2>2 DEF Item, Connection
  <2>4. f \in FrameType /\ Waiting(Top) \subseteq Waiting(f) \union {item} /\ f.peers \subseteq Waiting(f)
    BY <2>1 DEF FrameType, Waiting
  <2>5. /\ total' = AppendConnections(total, item[2]) /\ UNCHANGED phase
        /\ GetRelatives(below, Top.level + 1, item[2].kind, item[2].name, RhsNamespace(Top))
    BY <1>6 DEF Descend, Top
  <2>6. Top.level + 1 \in Nat /\ RhsNamespace(Top) \in STRING
    <3>1. Top.level \in Nat /\ Top.ns \in STRING /\ nsSearch \in STRING
      BY <1>0, <2>1 DEF FrameType, TypeOK
    <3>2. \A n \in Nat : n + 1 \in Nat
      OBVIOUS
    <3> QED BY <3>1, <3>2 DEF RhsNamespace
  <2> HIDE DEF item, f
  <2>7. PeersWait(below) /\ \A v : Waits(stack, v) => Waits(below, v) \/ Names(item, v)
    <3>1. PeersWait(stack) /\ below = [stack EXCEPT ![Len(stack)] = f]
      BY DEF ReportedInv
    <3>2. \A other \in Waiting(Top) : other \in Waiting(f) \/ other = item
      BY <2>4
    <3>3. /\ PeersWait(below)
          /\ \A v : Waits(stack, v) => Waits(below, v) \/ Names(item, v)
      BY <1>0, <2>1, <2>4, <3>1, <3>2, TopReplaced
    <3> QED BY <3>3
  <2>8. below \in Seq(FrameType)
    BY <1>0, <2>1, <2>4, TopType
  <2> HIDE DEF below
  <2>9. \A v : v.kind = item[2].kind /\ v.name = item[2].name => Reported(total', v)
    BY <1>0, <2>3, <2>5, AppendConnectionsTells
  <2>10. \A j \in DOMAIN visited : Reported(total', visited[j]) \/ Waits(below, visited[j])
    BY <1>0, <2>3, <2>5, <2>7, <2>9, ReportedStays DEF ReportedInv, ReportedOrWaits, Names
  <2>11. ReportedOrWaits' /\ PeersWait(stack')
    BY <1>0, <2>3, <2>5, <2>6, <2>7, <2>8, <2>9, <2>10, GetRelativesReports
  <2> QED BY <2>1, <2>5, <2>11 DEF ReportedInv, PeersWait
<1>7. CASE AppendSeen
  <2> DEFINE item == Foremost(Top.seen)
             f == [Top EXCEPT !.seen = Top.seen \ {item}]
  <2>1. Searching /\ Top \in FrameType /\ Top.peers = {} /\ phase = "search"
    BY <1>0, <1>7, TopType DEF AppendSeen, Searching
  <2>2. item \in Item
    BY <1>7, <2>1, ForemostProperty DEF AppendSeen, FrameType
  <2>3. item[2] \in Connection
    BY <2>2 DEF Item
  <2>4. f \in FrameType /\ Waiting(Top) \subseteq Waiting(f) \union {item} /\ f.peers \subseteq Waiting(f)
    BY <2>1 DEF FrameType, Waiting
  <2>5. /\ total' = AppendConnections(total, item[2]) /\ UNCHANGED <<visited, phase>>
        /\ stack' = [stack EXCEPT ![Len(stack)] = f]
    BY <1>7 DEF AppendSeen, Top
  <2> HIDE DEF item, f
  <2>6. PeersWait(stack') /\ \A v : Waits(stack, v) => Waits(stack', v) \/ Names(item, v)
    <3>1. PeersWait(stack) /\ stack' = [stack EXCEPT ![Len(stack)] = f]
      BY <2>5 DEF ReportedInv
    <3>2. \A other \in Waiting(Top) : other \in Waiting(f) \/ other = item
      BY <2>4
    <3>3. /\ PeersWait(stack')
          /\ \A v : Waits(stack, v) => Waits(stack', v) \/ Names(item, v)
      BY <1>0, <2>1, <2>4, <3>1, <3>2, TopReplaced
    <3> QED BY <3>3
  <2>7. \A v : Names(item, v) => Reported(total', v)
    BY <1>0, <2>3, <2>5, AppendConnectionsTells DEF Names
  <2>8. \A j \in DOMAIN visited : Reported(total', visited[j]) \/ Waits(stack', visited[j])
    BY <1>0, <2>3, <2>5, <2>6, <2>7, ReportedStays DEF ReportedInv, ReportedOrWaits
  <2> QED BY <2>1, <2>5, <2>6, <2>8 DEF ReportedInv, ReportedOrWaits, PeersWait
<1>8. CASE Return
  <2>1. Searching /\ Waiting(Top) = {} /\ phase = "search"
    BY <1>8 DEF Return, BetweenTasks, Waiting, Searching
  <2>2. Len(stack) \in Nat \ {0} /\ DOMAIN stack = 1 .. Len(stack)
    BY <1>0, <2>1, TopType, LenProperties
  <2>3. DOMAIN stack' = 1 .. Len(stack) - 1 /\ \A i \in 1 .. Len(stack) - 1 : stack'[i] = stack[i]
    BY <1>0, <1>8, <2>2, SubSeqProperties DEF Return
  <2>4. ASSUME NEW v, Waits(stack, v) PROVE Waits(stack', v)
    <3>1. PICK i \in DOMAIN stack : \E item \in Waiting(stack[i]) : Names(item, v)
      BY <2>4 DEF Waits
    <3>2. i # Len(stack)
      BY <2>1, <3>1 DEF Top
    <3>3. i \in DOMAIN stack' /\ stack'[i] = stack[i]
      BY <2>2, <2>3, <3>2
    <3> QED BY <3>1, <3>3 DEF Waits
  <2>5. PeersWait(stack')
    BY <2>2, <2>3 DEF PeersWait, ReportedInv
  <2> QED BY <1>8, <2>1, <2>4, <2>5 DEF Return, ReportedInv, ReportedOrWaits, PeersWait
<1>9. CASE PrintRelatives
  BY <1>9 DEF PrintRelatives, ReportedInv, ReportedOrWaits
<1>10. CASE UNCHANGED vars
  BY <1>10 DEF vars, ReportedInv, ReportedOrWaits
<1> QED BY <1>1, <1>2, <1>4, <1>5, <1>6, <1>7, <1>8, <1>9, <1>10 DEF Next, Step, Terminated

\* Every resource visited is in the result by the time it is printed: the
\* loops of buildGraph come to all the peers appendCurrentLevelPeers entered,
\* and AppendConnections drops no entry without one that tells of the same.
THEOREM AllReported == Spec => []VisitedReported
<1>1. ReportedInv => VisitedReported
  <2> SUFFICES ASSUME ReportedInv, phase = "printed", NEW v \in Range(visited)
               PROVE  \E c \in Range(total) : Tells(c, v)
    BY DEF VisitedReported, Tells
  <2>1. PICK j \in DOMAIN visited : visited[j] = v
    BY DEF Range
  <2>2. ~Waits(stack, v)
    BY DEF ReportedInv, Waits
  <2>3. PICK i \in DOMAIN total : Tells(total[i], v)
    BY <2>1, <2>2 DEF ReportedInv, ReportedOrWaits, Reported
  <2> QED BY <2>3 DEF Range
<1> QED BY <1>1, Invariant, InitReported, ReportedStep, PTL DEF Spec

-----------------------------------------------------------------------------
(* What the formats print *)

\* A connection found from the root has the root as its peer, or none.
FromRoot(c, root) == c.kind # "" /\ (c.level = 1 => SameNames(c.peer, root) \/ c.peer = NoPeer)

\* A relation of the root to itself.
Loop(c, root) == SameNames(c, root) /\ SameNames(c.peer, root)

\* The result begins with the root, and goes on with a connection of level 1.
\* It goes on with another one if the first is a loop: another loop, found
\* last, would take that one's place at the end.
Laid(all, root) ==
    /\ all # <<>> /\ SameNames(all[1], root) /\ all[1].peer = NoPeer
    /\ \A i \in DOMAIN all : FromRoot(all[i], root)
    /\ 2 \in DOMAIN all => all[2].level = 1
    /\ 3 \in DOMAIN all /\ Loop(all[2], root) => all[3].level = 1 /\ ~Loop(all[3], root)

\* A connection of level 1 is there that stays the first of them or is
\* followed by one.
Deep(all, root) == 2 \in DOMAIN all /\ (Loop(all[2], root) => 3 \in DOMAIN all)

\* Only a loop can be replaced among the first connections.
LEMMA ReverseOfLoop ==
    ASSUME NEW root, NEW b, NEW c, FromRoot(b, root), FromRoot(c, root), b.level = 1, c.level = 1, IsReverse(b, c)
    PROVE  Loop(b, root) /\ Loop(c, root)
<1>1. NoPeer.kind = ""
  BY DEF NoPeer
<1>2. b.peer # NoPeer /\ c.peer # NoPeer
  BY <1>1 DEF FromRoot, IsReverse
<1>3. SameNames(b.peer, root) /\ SameNames(c.peer, root)
  BY <1>2 DEF FromRoot
<1> QED BY <1>3 DEF IsReverse, Loop, SameNames

LEMMA LoopsReverse == ASSUME NEW root, NEW b, NEW c, Loop(b, root), Loop(c, root) PROVE IsReverse(b, c)
BY DEF IsReverse, Loop, SameNames

\* Adding a connection at the end.
LEMMA AppendLaid ==
    ASSUME NEW root, NEW all \in Seq(Connection), Laid(all, root), NEW c \in Connection, FromRoot(c, root),
           c.level = 1 \/ Deep(all, root), Reverses(all, c) = {}
    PROVE  Laid(Append(all, c), root) /\ (Deep(all, root) \/ ~SameNames(c, root) => Deep(Append(all, c), root))
<1> DEFINE new == Append(all, c)
           n == Len(all)
<1>1. /\ DOMAIN new = 1 .. n + 1 /\ DOMAIN all = 1 .. n /\ n \in Nat \ {0}
      /\ new[n + 1] = c /\ \A i \in DOMAIN all : new[i] = all[i]
  <2>1. n # 0
    BY EmptySeq DEF Laid
  <2> QED BY <2>1, AppendProperties, LenProperties
<1> HIDE DEF new, n
<1>2. new # <<>>
  BY <1>1
<1>3. 1 \in DOMAIN all /\ new[1] = all[1]
  BY <1>1
<1>4. \A i \in DOMAIN new : FromRoot(new[i], root)
  <2> SUFFICES ASSUME NEW i \in DOMAIN new PROVE FromRoot(new[i], root)
    OBVIOUS
  <2>1. i \in DOMAIN all \/ i = n + 1
    BY <1>1
  <2> QED BY <1>1, <2>1 DEF Laid
<1>5. ASSUME 2 \in DOMAIN all PROVE new[2] = all[2] /\ 2 \in DOMAIN new
  BY <1>1, <1>5
<1>6. ASSUME 3 \in DOMAIN all PROVE new[3] = all[3] /\ 3 \in DOMAIN new /\ 2 \in DOMAIN all
  BY <1>1, <1>6
<1>7. ASSUME 2 \in DOMAIN new, 2 \notin DOMAIN all PROVE new[2] = c /\ 3 \notin DOMAIN new
  <2>1. n = 1
    BY <1>1, <1>7
  <2> QED BY <1>1, <2>1
<1>8. ASSUME 3 \in DOMAIN new, 3 \notin DOMAIN all PROVE new[3] = c /\ 2 \in DOMAIN all
  <2>1. n = 2
    BY <1>1, <1>8
  <2> QED BY <1>1, <2>1
<1>9. 2 \in DOMAIN new => new[2].level = 1
  BY <1>5, <1>7 DEF Laid, Deep
<1>10. ASSUME 3 \in DOMAIN new, Loop(new[2], root) PROVE new[3].level = 1 /\ ~Loop(new[3], root)
  <2>1. CASE 3 \in DOMAIN all
    BY <1>5, <1>6, <1>10, <2>1 DEF Laid
  <2>2. CASE 3 \notin DOMAIN all
    <3>1. new[3] = c /\ 2 \in DOMAIN all /\ Loop(all[2], root)
      BY <1>5, <1>8, <1>10, <2>2
    <3>2. ~IsReverse(all[2], c)
      BY <3>1 DEF Reverses
    <3>3. ~Loop(c, root)
      BY <3>1, <3>2, LoopsReverse
    <3> QED BY <2>2, <3>1, <3>3 DEF Deep
  <2> QED BY <2>1, <2>2
<1>11. Laid(new, root)
  BY <1>2, <1>3, <1>4, <1>9, <1>10 DEF Laid
<1>12. Deep(all, root) => Deep(new, root)
  BY <1>5, <1>6 DEF Deep
<1>13. ASSUME ~SameNames(c, root), ~Deep(all, root) PROVE Deep(new, root)
  <2>1. CASE 2 \in DOMAIN all
    <3>1. 3 \in DOMAIN new
      <4>1. 3 \notin DOMAIN all
        BY <1>13, <2>1 DEF Deep
      <4>2. n = 2
        BY <1>1, <2>1, <4>1
      <4> QED BY <1>1, <4>2
    <3> QED BY <1>5, <2>1, <3>1 DEF Deep
  <2>2. CASE 2 \notin DOMAIN all
    <3>1. n = 1
      BY <1>1, <2>2
    <3>2. 2 \in DOMAIN new /\ new[2] = c
      BY <1>1, <3>1
    <3> QED BY <1>13, <3>2 DEF Deep, Loop
  <2> QED BY <2>1, <2>2
<1> QED BY <1>11, <1>12, <1>13 DEF new

\* A connection of level 1 takes the place of its reverse, at the end.
LEMMA ReplaceLaid ==
    ASSUME NEW root, NEW all \in Seq(Connection), Laid(all, root), NEW c \in Connection, FromRoot(c, root), c.level = 1,
           NEW m \in DOMAIN all, IsReverse(all[m], c)
    PROVE  LET new == Append(RemoveAt(all, m), c)
           IN  Laid(new, root) /\ (Deep(all, root) => Deep(new, root)) /\ (~SameNames(c, root) => Deep(new, root))
<1> DEFINE rest == RemoveAt(all, m)
           new == Append(rest, c)
           n == Len(all)
<1>0. m \in 1 .. Len(all)
  BY LenProperties
<1>1. /\ rest \in Seq(Connection) /\ Len(rest) = n - 1 /\ n \in Nat /\ DOMAIN all = 1 .. n
      /\ \A k \in 1 .. n - 1 : rest[k] = IF k < m THEN all[k] ELSE all[k + 1]
  BY <1>0, RemoveAtType, LenProperties
<1> HIDE DEF rest
<1>2. /\ DOMAIN new = 1 .. Len(rest) + 1 /\ new[Len(rest) + 1] = c
      /\ \A k \in 1 .. Len(rest) : new[k] = rest[k]
  <2>1. rest \in Seq(Connection)
    BY <1>1
  <2> QED BY <2>1, AppendProperties
<1> HIDE DEF new, n
<1>3. /\ DOMAIN new = 1 .. n /\ DOMAIN all = 1 .. n /\ n \in Nat /\ m \in 1 .. n /\ new[n] = c
      /\ \A k \in 1 .. n - 1 : new[k] = IF k < m THEN all[k] ELSE all[k + 1]
  <2>1. Len(rest) + 1 = n
    BY <1>1
  <2>2. DOMAIN new = 1 .. n /\ new[n] = c
    BY <1>2, <2>1
  <2>3. \A k \in 1 .. n - 1 : new[k] = rest[k]
    BY <1>1, <1>2
  <2> QED BY <1>0, <1>1, <2>2, <2>3 DEF n
<1>4. m # 1
  <2>1. all[1].peer.kind = "" /\ c.kind # ""
    <3>1. NoPeer.kind = ""
      BY DEF NoPeer
    <3> QED BY <3>1 DEF Laid, FromRoot
  <2> QED BY <2>1 DEF IsReverse
<1>5. new[1] = all[1] /\ n >= 2
  BY <1>3, <1>4
<1>6. \A i \in DOMAIN new : FromRoot(new[i], root)
  <2> SUFFICES ASSUME NEW i \in 1 .. n PROVE FromRoot(new[i], root)
    BY <1>3
  <2>1. CASE i = n
    BY <1>3, <2>1
  <2>2. CASE i # n
    <3>1. i \in 1 .. n - 1 /\ i \in DOMAIN all /\ i + 1 \in DOMAIN all
      BY <1>3, <2>2
    <3>2. new[i] = all[i] \/ new[i] = all[i + 1]
      BY <1>3, <3>1
    <3> QED BY <3>1, <3>2 DEF Laid
  <2> QED BY <2>1, <2>2
<1>7. 2 \in DOMAIN all /\ all[2].level = 1 /\ FromRoot(all[2], root)
  BY <1>3, <1>5 DEF Laid
<1>8. CASE m = 2
  <2>1. Loop(all[2], root) /\ Loop(c, root)
    BY <1>7, <1>8, ReverseOfLoop
  <2>2. CASE n = 2
    <3>1. new[2] = c /\ 3 \notin DOMAIN new
      BY <1>3, <2>2
    <3>2. Laid(new, root)
      BY <1>3, <1>5, <1>6, <3>1 DEF Laid
    <3>3. ~Deep(all, root) /\ SameNames(c, root)
      BY <1>3, <2>1, <2>2 DEF Deep, Loop
    <3> QED BY <3>2, <3>3 DEF new, rest
  <2>3. CASE n > 2
    <3>1. 3 \in DOMAIN all /\ 3 \in DOMAIN new /\ 2 \in 1 .. n - 1
      BY <1>3, <2>3
    <3>2. new[2] = all[3]
      BY <1>3, <1>8, <3>1
    <3>3. new[2].level = 1 /\ ~Loop(new[2], root)
      BY <2>1, <3>1, <3>2 DEF Laid
    <3>4. Laid(new, root)
      BY <1>3, <1>5, <1>6, <3>3 DEF Laid
    <3>5. Deep(new, root)
      BY <1>3, <1>5, <3>3 DEF Deep
    <3> QED BY <3>4, <3>5 DEF new, rest
  <2> QED BY <1>5, <1>3, <2>2, <2>3
<1>9. CASE m # 2
  <2>1. m >= 3 /\ n >= 3
    BY <1>3, <1>4, <1>9
  <2>2. new[2] = all[2] /\ 2 \in DOMAIN new /\ 3 \in DOMAIN new /\ 3 \in DOMAIN all
    BY <1>3, <2>1
  <2>3. ASSUME Loop(all[2], root) PROVE new[3].level = 1 /\ ~Loop(new[3], root)
    <3>1. all[3].level = 1 /\ ~Loop(all[3], root) /\ FromRoot(all[3], root)
      BY <2>2, <2>3 DEF Laid
    <3>2. m # 3
      BY <3>1, ReverseOfLoop
    <3>3. 3 \in 1 .. n - 1 /\ 3 < m
      BY <1>3, <2>1, <3>2
    <3>4. new[3] = all[3]
      BY <1>3, <3>3
    <3> QED BY <3>1, <3>4
  <2>4. Laid(new, root)
    BY <1>3, <1>5, <1>6, <1>7, <2>2, <2>3 DEF Laid
  <2>5. Deep(new, root)
    BY <2>2 DEF Deep
  <2> QED BY <2>4, <2>5 DEF new, rest
<1> QED BY <1>8, <1>9

\* What becomes of the result when a connection is added to it: one found
\* from the root, or another once the beginning is there.
LEMMA AddLaid ==
    ASSUME NEW root, NEW all \in Seq(Connection), Laid(all, root), NEW c \in Connection, FromRoot(c, root),
           c.level = 1 \/ Deep(all, root)
    PROVE  LET new == AppendConnections(all, c)
           IN  Laid(new, root) /\ (Deep(all, root) \/ ~SameNames(c, root) => Deep(new, root))
<1> DEFINE new == AppendConnections(all, c)
<1>1. CASE Reverses(all, c) = {}
  <2>1. CASE \E i \in DOMAIN all : compareConnectionsRelType(all[i], c)
    <3>1. new = all
      BY <1>1, <2>1 DEF AppendConnections
    <3>2. ASSUME ~SameNames(c, root) PROVE Deep(all, root)
      <4>1. PICK i \in DOMAIN all : compareConnectionsRelType(all[i], c)
        BY <2>1
      <4>2. ~SameNames(all[i], root)
        BY <3>2, <4>1 DEF compareConnectionsRelType, compareConnections, SameNames
      <4>3. i # 1
        BY <4>2 DEF Laid
      <4>4. 2 \in DOMAIN all /\ (i # 2 => 3 \in DOMAIN all)
        BY <4>3, LenProperties
      <4> QED BY <4>2, <4>4 DEF Deep, Loop
    <3> QED BY <3>1, <3>2
  <2>2. CASE ~\E i \in DOMAIN all : compareConnectionsRelType(all[i], c)
    <3>1. new = Append(all, c)
      BY <1>1, <2>2 DEF AppendConnections
    <3> QED BY <1>1, <3>1, AppendLaid
  <2> QED BY <2>1, <2>2
<1>2. CASE Reverses(all, c) # {} /\ c.level # 1
  BY <1>2 DEF AppendConnections
<1>3. CASE Reverses(all, c) # {} /\ c.level = 1
  <2> DEFINE m == Min(Reverses(all, c))
  <2>1. new = Append(RemoveAt(all, m), c)
    BY <1>3 DEF AppendConnections
  <2>2. m \in Reverses(all, c)
    <3>1. Reverses(all, c) \subseteq Nat
      BY LenProperties DEF Reverses
    <3> QED BY <1>3, <3>1, MinProperty
  <2>3. m \in DOMAIN all /\ IsReverse(all[m], c)
    BY <2>2 DEF Reverses
  <2> HIDE DEF m
  <2> QED BY <1>3, <2>1, <2>3, ReplaceLaid
<1> QED BY <1>1, <1>2, <1>3

\* What a search from a frame finds.
IsFoundFrom(f, c) ==
    /\ c.level = f.level /\ c.kind # "" /\ (c.peer = Self(f) \/ c.peer = NoPeer)
    /\ SameNames(c, f) => c.namespace = f.ns

LEMMA BatchFound ==
    ASSUME Context, NEW f, NEW t, NEW batch \in Batches(f, t) \union FailedBatches(f, t), NEW item \in batch
    PROVE  IsFoundFrom(f, item[2])
<1>1. \A i \in DOMAIN objs : objs[i].kind # ""
  BY DEF Context, IsCluster
<1>2. ASSUME NEW i \in DOMAIN objs, NEW relType, item[2] = RelativeOf(f, i, relType) PROVE IsFoundFrom(f, item[2])
  <2>1. item[2] = [level |-> f.level, kind |-> objs[i].kind, name |-> objs[i].name, namespace |-> f.ns,
                   relType |-> relType, peer |-> Self(f)]
    BY <1>2 DEF RelativeOf
  <2>2. /\ item[2].level = f.level /\ item[2].kind = objs[i].kind
        /\ item[2].namespace = f.ns /\ item[2].peer = Self(f)
    BY <2>1
  <2> QED BY <1>1, <2>2 DEF IsFoundFrom
<1>3. CASE batch \in FailedBatches(f, t)
  <2>1. \A name, target, ns : searchLabels(objs, name, {}, target, ns) \subseteq DOMAIN objs
    BY DEF searchLabels, Listed
  <2>2. \E i \in DOMAIN objs : item[2] = RelativeOf(f, i, "label")
    BY <1>3, <2>1 DEF FailedBatches
  <2> QED BY <1>2, <2>2
<1>4. CASE batch \in Batches(f, t) /\ t.stage \in {Downstream, Upstream}
  <2>0. t.stage # Parent /\ t.stage # Children
    BY <1>4 DEF Downstream, Upstream, Parent, Children
  <2>1. batch \in RelatedBatches(f, t)
    BY <1>4, <2>0, Zenon DEF Batches
  <2>2. PICK S : /\ S \in FoundDownstream(f, Relationship(t)) \union FoundUpstream(f, t.src, Relationship(t))
                 /\ batch = {<<i, RelativeOf(f, i, Relationship(t).relType)>> : i \in S}
    BY <2>1 DEF RelatedBatches
  <2>3. PICK i \in DOMAIN objs : item = <<i, RelativeOf(f, i, Relationship(t).relType)>>
    BY <2>2, FoundAreObjects
  <2> QED BY <1>2, <2>3
<1>5. CASE batch \in Batches(f, t) /\ t.stage = Parent
  <2>1. batch = ParentBatch(f)
    BY <1>5 DEF Batches, Parent, Children, Downstream, Upstream
  <2>2. PICK i \in DOMAIN objs :
           findOwner(objs[i]).name # "" /\ item = <<i, OwnerOf(f, findOwner(objs[i]))>>
    BY <2>1 DEF ParentBatch, Get, Listed
  <2>3. findOwner(objs[i]).kind # ""
    <3>1. objs[i].owners # <<>>
      BY <2>2 DEF findOwner
    <3>2. objs[i].owners \in Seq(OwnerReference)
      <4>1. objs \in Seq(Object)
        BY DEF Context, IsCluster
      <4>2. objs[i] \in Object
        BY <4>1
      <4> QED BY <4>2 DEF Object
    <3>3. 1 \in DOMAIN objs[i].owners
      BY <3>1, <3>2, EmptySeq, LenProperties
    <3> QED BY <3>1, <3>3 DEF Context, IsCluster, findOwner
  <2>4. item[2] = OwnerOf(f, findOwner(objs[i]))
    BY <2>2
  <2>5. /\ item[2].level = f.level /\ item[2].kind = findOwner(objs[i]).kind /\ item[2].namespace = f.ns
        /\ item[2].peer = Self(f) \/ item[2].peer = NoPeer
    <3> DEFINE owner == findOwner(objs[i])
               peer == IF owner.kind # f.kind THEN Self(f) ELSE NoPeer
    <3>1. item[2] = [level |-> f.level, kind |-> owner.kind, name |-> owner.name, namespace |-> f.ns,
                     relType |-> "owner reference", peer |-> peer]
      BY <2>4 DEF OwnerOf
    <3>2. peer = Self(f) \/ peer = NoPeer
      OBVIOUS
    <3> DEFINE relType == "owner reference"
    <3>3. item[2] = [level |-> f.level, kind |-> owner.kind, name |-> owner.name, namespace |-> f.ns,
                     relType |-> relType, peer |-> peer]
      BY <3>1
    <3> HIDE DEF peer, owner, relType
    <3>4. item[2].level = f.level /\ item[2].kind = owner.kind /\ item[2].namespace = f.ns /\ item[2].peer = peer
      BY <3>3
    <3> QED BY <3>2, <3>4 DEF owner
  <2> QED BY <2>3, <2>5 DEF IsFoundFrom
<1>6. CASE batch \in Batches(f, t) /\ t.stage = Children
  <2>1. PICK ks \in ChildKindLists : batch = ChildrenBatch(f, ks)
    BY <1>6 DEF Batches, Parent, Children, Downstream, Upstream
  <2>2. PICK k \in DOMAIN ks, i \in DOMAIN objs :
           item = <<(k - 1) * Len(objs) + i, RelativeOf(f, i, "owner reference")>>
    <3>1. \A kind, ns : Listed(objs, kind, ns) \subseteq DOMAIN objs
      BY DEF Listed
    <3> QED BY <2>1, <3>1 DEF ChildrenBatch
  <2>3. item[2] = RelativeOf(f, i, "owner reference")
    BY <2>2
  <2> QED BY <1>2, <2>3
<1>7. CASE batch \in Batches(f, t) /\ t.stage \notin {Downstream, Upstream, Parent, Children}
  <2>1. batch = CompositionBatch(f)
    BY <1>7 DEF Batches
  <2>2. PICK i \in Get(objs, f.kind, f.name, f.ns) : \E k \in DOMAIN objs[i].composed :
           item[2] = ComposedOf(f, objs[i].composed[k])
    BY <2>1 DEF CompositionBatch
  <2>3. i \in DOMAIN objs /\ objs[i].kind = f.kind /\ objs[i].name = f.name
    BY DEF Get, Listed
  <2>4. PICK j \in DOMAIN objs : ~SameNames(objs[j], objs[i]) /\ item[2] = ComposedOf(f, j)
    BY <2>2, <2>3 DEF Context, IsCluster
  <2>5. item[2].kind = objs[j].kind /\ item[2].name = objs[j].name
        /\ item[2].level = f.level /\ item[2].peer = Self(f)
    BY <2>4 DEF ComposedOf, RelativeOf
  <2> QED BY <1>1, <2>3, <2>4, <2>5 DEF IsFoundFrom, SameNames
<1> QED BY <1>3, <1>4, <1>5, <1>6, <1>7

\* The activation at a place of the stack: its level is that place, the first
\* is the root's, and no resource it has still to descend to is the root.
Stands(f, i, root) ==
    /\ f.level = i /\ (i = 1 => SameNames(f, root))
    /\ \A item \in f.unseen \union f.seen : item[2].level = i /\ FromRoot(item[2], root)
    /\ i = 1 => \A item \in f.unseen : ~SameNames(item[2], root)

AllStand(frames, root) == \A i \in DOMAIN frames : Stands(frames[i], i, root)

\* The root is visited where the first activation searches.
RootVisited(visits, frames, root) ==
    frames # <<>> => \E j \in DOMAIN visits : SameNames(visits[j], root) /\ visits[j].namespace = frames[1].ns

LayoutInv ==
    /\ phase = "start" => total = <<>>
    /\ phase \in {"search", "printed"} => Laid(total, input)
    /\ AllStand(stack, input)
    /\ 2 \in DOMAIN stack => Deep(total, input)
    /\ RootVisited(visited, stack, input)

LEMMA InitLayout == Init => LayoutInv
<1> SUFFICES ASSUME Init PROVE LayoutInv
  OBVIOUS
<1>1. phase = "start" /\ total = <<>> /\ stack = <<>>
  BY DEF Init
<1>2. DOMAIN stack = {}
  BY <1>1
<1> QED BY <1>1, <1>2 DEF LayoutInv, AllStand, RootVisited

\* The top frame is replaced by one that stands as well.
LEMMA TopStands ==
    ASSUME NEW frames \in Seq(FrameType), frames # <<>>, NEW root, AllStand(frames, root),
           NEW f \in FrameType, Stands(f, Len(frames), root), f.ns = frames[Len(frames)].ns,
           NEW new, new = [frames EXCEPT ![Len(frames)] = f]
    PROVE  /\ new \in Seq(FrameType) /\ DOMAIN new = DOMAIN frames /\ Len(new) = Len(frames) /\ new # <<>>
           /\ AllStand(new, root)
           /\ \A visits : RootVisited(visits, frames, root) => RootVisited(visits, new, root)
<1>1. Len(frames) \in DOMAIN frames /\ 1 \in DOMAIN frames
  BY EmptySeq, LenProperties
<1>2. /\ new \in Seq(FrameType) /\ DOMAIN new = DOMAIN frames /\ Len(new) = Len(frames) /\ new # <<>>
      /\ new[Len(frames)] = f
      /\ \A i \in DOMAIN frames : i # Len(frames) => new[i] = frames[i]
  BY <1>1
<1>3. AllStand(new, root)
  BY <1>2 DEF AllStand
<1>4. new[1].ns = frames[1].ns
  BY <1>1, <1>2
<1> QED BY <1>2, <1>3, <1>4 DEF RootVisited

\* A visited resource stays visited.
LEMMA RootStays ==
    ASSUME VisitedGrows, visited \in Seq(Visit), visited' \in Seq(Visit),
           NEW frames, NEW root, RootVisited(visited, frames, root)
    PROVE  RootVisited(visited', frames, root)
<1> SUFFICES ASSUME frames # <<>>
             PROVE  \E j \in DOMAIN visited' : SameNames(visited'[j], root) /\ visited'[j].namespace = frames[1].ns
  BY DEF RootVisited
<1>1. PICK j \in DOMAIN visited : SameNames(visited[j], root) /\ visited[j].namespace = frames[1].ns
  BY DEF RootVisited
<1>2. j \in DOMAIN visited'
  BY LenProperties DEF VisitedGrows
<1>3. /\ visited'[j].kind = visited[j].kind /\ visited'[j].name = visited[j].name
      /\ visited'[j].namespace = visited[j].namespace
  BY DEF VisitedGrows, compareConnections
<1> QED BY <1>1, <1>2, <1>3 DEF SameNames

\* What is visited is in the visited list.
LEMMA NowVisited ==
    ASSUME NEW all \in Seq(Visit), NEW c \in Visit
    PROVE  \E j \in DOMAIN appendConnections1(all, c) : compareConnections(c, appendConnections1(all, c)[j])
<1> DEFINE P == {i \in DOMAIN all : compareConnections(c, all[i])}
           new == appendConnections1(all, c)
<1>1. CASE P = {}
  <2>1. new = Append(all, c)
    BY <1>1 DEF appendConnections1
  <2>2. Len(all) + 1 \in DOMAIN new /\ new[Len(all) + 1] = c
    BY <2>1, AppendProperties, LenProperties
  <2> QED BY <2>2 DEF compareConnections
<1>2. CASE P # {}
  <2> DEFINE m == Min(P)
  <2>1. m \in P
    <3>1. P \subseteq Nat
      BY LenProperties
    <3> HIDE DEF P
    <3> QED BY <1>2, <3>1, MinProperty
  <2>2. m \in DOMAIN all /\ compareConnections(c, all[m]) /\ all[m] \in Visit
    BY <2>1, ElementOfSeq
  <2>3. new = all \/ new = [all EXCEPT ![m] = [all[m] EXCEPT !.level = c.level]]
    BY <1>2 DEF appendConnections1
  <2> HIDE DEF m, P, new
  <2>4. CASE new = all
    BY <2>2, <2>4 DEF new
  <2>5. CASE new = [all EXCEPT ![m] = [all[m] EXCEPT !.level = c.level]]
    <3>1. m \in DOMAIN new /\ new[m] = [all[m] EXCEPT !.level = c.level]
      BY <2>2, <2>5
    <3>2. compareConnections(c, new[m])
      BY <2>2, <3>1 DEF compareConnections, Visit
    <3> QED BY <3>1, <3>2 DEF new
  <2> QED BY <2>3, <2>4, <2>5
<1> QED BY <1>1, <1>2

\* What a call of GetRelatives does to the stack: for the root, or for a
\* resource below the root.
LEMMA GetRelativesStands ==
    ASSUME visited \in Seq(Visit), visited' \in Seq(Visit), VisitedGrows,
           NEW root, NEW below \in Seq(FrameType), AllStand(below, root), RootVisited(visited, below, root),
           NEW kind \in STRING, NEW name \in STRING, NEW namespace \in STRING,
           below = <<>> => kind = root.kind /\ name = root.name,
           GetRelatives(below, Len(below) + 1, kind, name, namespace)
    PROVE  /\ AllStand(stack', root) /\ RootVisited(visited', stack', root)
           /\ 2 \in DOMAIN stack' => below # <<>>
<1> DEFINE ns == IF kind = "Namespace" THEN name ELSE namespace
           level == Len(below) + 1
           f == Frame(level, kind, name, ns)
           c == [level |-> level, kind |-> kind, name |-> name, namespace |-> ns]
<1>1. CASE checkIgnored(kind, name)
  <2>1. stack' = below
    BY <1>1 DEF GetRelatives
  <2>2. RootVisited(visited', below, root)
    BY RootStays
  <2>3. 2 \in DOMAIN below => below # <<>>
    OBVIOUS
  <2> QED BY <2>1, <2>2, <2>3
<1>2. CASE ~checkIgnored(kind, name)
  <2>1. visited' = appendConnections1(visited, c) /\ stack' = Append(below, f)
    BY <1>2 DEF GetRelatives
  <2>2. c \in Visit /\ c.kind = kind /\ c.name = name /\ c.namespace = ns
    BY LenProperties DEF Visit
  <2>3. f.level = level /\ f.kind = kind /\ f.name = name /\ f.ns = ns /\ f.unseen = {} /\ f.seen = {}
    BY DEF Frame
  <2> HIDE DEF c, f, ns
  <2>4. /\ DOMAIN stack' = 1 .. level /\ DOMAIN below = 1 .. Len(below) /\ Len(below) \in Nat
        /\ stack'[level] = f /\ \A i \in DOMAIN below : stack'[i] = below[i]
    BY <2>1, AppendProperties, LenProperties
  <2>5. level = 1 => below = <<>>
    BY <2>4, EmptySeq
  <2>6. Stands(f, level, root)
    BY <2>3, <2>5 DEF Stands, SameNames
  <2>7. AllStand(stack', root)
    <3>1. \A i \in DOMAIN stack' : i \in DOMAIN below \/ i = level
      BY <2>4
    <3> QED BY <2>4, <2>6, <3>1 DEF AllStand
  <2>8. RootVisited(visited', stack', root)
    <3>1. CASE below = <<>>
      <4>1. PICK j \in DOMAIN visited' : compareConnections(c, visited'[j])
        BY <2>1, <2>2, NowVisited
      <4>2. stack'[1] = f
        BY <2>4, <3>1
      <4> QED BY <2>2, <2>3, <3>1, <4>1, <4>2 DEF RootVisited, compareConnections, SameNames
    <3>2. CASE below # <<>>
      <4>1. RootVisited(visited', below, root)
        BY RootStays
      <4>2. stack'[1] = below[1]
        BY <2>4, <3>2, EmptySeq
      <4> QED BY <3>2, <4>1, <4>2 DEF RootVisited
    <3> QED BY <3>1, <3>2
  <2>9. 2 \in DOMAIN stack' => below # <<>>
    BY <2>4
  <2> QED BY <2>7, <2>8, <2>9
<1> QED BY <1>1, <1>2

\* What a search leaves to the loops stands: filterConnections keeps the root
\* out of what is searched further from the root.
LEMMA SearchStands ==
    ASSUME Context, NEW f, NEW g, NEW t, NEW batch \in Batches(f, t) \union FailedBatches(f, t),
           NEW frames, RootVisited(visited, frames, input),
           NEW n, Stands(f, n, input), n = 1 => frames # <<>> /\ f.ns = frames[1].ns,
           g.level = f.level, g.kind = f.kind, g.name = f.name,
           g.seen = filterConnections(visited, batch), g.unseen = batch \ g.seen
    PROVE  Stands(g, n, input)
<1>1. \A item \in g.unseen \union g.seen : item \in batch
  BY DEF filterConnections
<1>2. ASSUME NEW item \in batch PROVE item[2].level = n /\ FromRoot(item[2], input)
  <2>1. IsFoundFrom(f, item[2])
    BY BatchFound
  <2>2. n = 1 => SameNames(Self(f), input)
    BY DEF Stands, Self, SameNames
  <2> QED BY <2>1, <2>2 DEF IsFoundFrom, FromRoot, Stands
<1>3. ASSUME n = 1, NEW item \in g.unseen PROVE ~SameNames(item[2], input)
  <2> SUFFICES ASSUME SameNames(item[2], input) PROVE FALSE
    OBVIOUS
  <2>1. item \in batch /\ item \notin filterConnections(visited, batch)
    OBVIOUS
  <2>2. IsFoundFrom(f, item[2])
    BY <2>1, BatchFound
  <2>3. PICK j \in DOMAIN visited : SameNames(visited[j], input) /\ visited[j].namespace = f.ns
    BY <1>3 DEF RootVisited
  <2>4. SameNames(item[2], f)
    BY <1>3 DEF Stands, SameNames
  <2>5. item[2].namespace = f.ns
    BY <2>2, <2>4 DEF IsFoundFrom
  <2>6. compareConnections(item[2], visited[j])
    BY <2>3, <2>5 DEF SameNames, compareConnections
  <2> QED BY <2>1, <2>6 DEF filterConnections
<1> QED BY <1>1, <1>2, <1>3 DEF Stands, SameNames

LEMMA LayoutStep == InductiveInv /\ ReportedInv /\ LayoutInv /\ [Next]_vars => LayoutInv'
<1> SUFFICES ASSUME InductiveInv, ReportedInv, LayoutInv, [Next]_vars PROVE LayoutInv'
  OBVIOUS
<1>0. /\ TypeOK /\ total \in Seq(Connection) /\ visited \in Seq(Visit) /\ stack \in Seq(FrameType)
      /\ Context /\ (phase # "search" => stack = <<>>)
  BY DEF InductiveInv, TypeOK, Context, ReportedInv
<1>00. ASSUME Next PROVE VisitedGrows /\ visited' \in Seq(Visit)
  BY <1>00, StepInv DEF InductiveInv, TypeOK
<1>1. CASE Start
  <2> DEFINE c == [level |-> 0, kind |-> input.kind, name |-> input.name,
                   namespace |-> input.namespace, relType |-> "", peer |-> NoPeer]
  <2>1. input.kind \in STRING /\ input.name \in STRING /\ input.namespace \in STRING
    BY <1>0 DEF TypeOK, Resource
  <2>2. /\ c.level = 0 /\ c.kind = input.kind /\ c.name = input.name /\ c.peer = NoPeer
    OBVIOUS
  <2>3. phase = "start" /\ phase' = "search" /\ UNCHANGED input /\ total' = AppendConnections(total, c)
    BY <1>1 DEF Start, Root
  <2> HIDE DEF c
  <2>4. total' = <<c>>
    <3>1. total = <<>>
      BY <2>3 DEF LayoutInv
    <3>2. DOMAIN total = {}
      BY <3>1
    <3> QED BY <2>3, <3>1, <3>2 DEF AppendConnections, Reverses
  <2>5. c.kind # ""
    <3>1. PICK i \in DOMAIN objs : objs[i].kind = input.kind
      BY <1>1 DEF Start, Exists, Get, Listed
    <3> QED BY <1>0, <2>2, <3>1 DEF Context, IsCluster
  <2>6. Laid(total', input)
    <3>1. FromRoot(c, input) /\ SameNames(c, input)
      BY <2>2, <2>5 DEF FromRoot, SameNames
    <3>2. DOMAIN <<c>> = {1} /\ <<c>>[1] = c /\ <<c>> # <<>>
      OBVIOUS
    <3> QED BY <2>2, <2>4, <3>1, <3>2 DEF Laid
  <2>7. GetRelatives(<<>>, 1, input.kind, input.name, input.namespace)
    BY <1>1 DEF Start
  <2>8. VisitedGrows /\ visited' \in Seq(Visit)
    BY <1>1, <1>00 DEF Next, Step
  <2>9. AllStand(stack', input) /\ RootVisited(visited', stack', input) /\ 2 \notin DOMAIN stack'
    <3> DEFINE below == <<>>
    <3>1. below \in Seq(FrameType) /\ Len(below) + 1 = 1 /\ DOMAIN below = {}
      OBVIOUS
    <3>2. AllStand(below, input) /\ RootVisited(visited, below, input)
      BY <3>1 DEF AllStand, RootVisited
    <3>3. GetRelatives(below, Len(below) + 1, input.kind, input.name, input.namespace)
      BY <2>7, <3>1
    <3>4. below = <<>>
      OBVIOUS
    <3> HIDE DEF below
    <3> QED BY <1>0, <2>1, <2>8, <3>1, <3>2, <3>3, <3>4, GetRelativesStands
  <2> QED BY <2>3, <2>6, <2>9 DEF LayoutInv
<1>2. CASE NotFound
  BY <1>2 DEF NotFound, LayoutInv
<1>3. ASSUME BetweenTasks, NEW t, NEW batch \in Batches(Top, t) \union FailedBatches(Top, t), Search(t, batch),
             UNCHANGED <<visited, total, phase, input>>
      PROVE  LayoutInv'
  <2> DEFINE seen == filterConnections(visited, batch)
             peers == IF t.stage \in {Downstream, Upstream} THEN batch ELSE {}
             f == [Top EXCEPT !.todo = Top.todo \ {t}, !.src = t.src, !.peers = peers,
                              !.unseen = batch \ seen, !.seen = seen]
  <2>1. Searching /\ Top \in FrameType /\ phase = "search" /\ stack # <<>>
    BY <1>0, <1>3, TopType DEF BetweenTasks, Searching
  <2>2. stack' = [stack EXCEPT ![Len(stack)] = f]
    BY <1>3 DEF Search
  <2>3. /\ f.level = Top.level /\ f.kind = Top.kind /\ f.name = Top.name /\ f.ns = Top.ns
        /\ f.seen = seen /\ f.unseen = batch \ seen
    BY <2>1 DEF FrameType
  <2> HIDE DEF f, seen, peers
  <2>4. Len(stack) \in DOMAIN stack /\ Stands(Top, Len(stack), input) /\ RootVisited(visited, stack, input)
    BY <1>0, <2>1, TopType, LenProperties DEF LayoutInv, AllStand, Top
  <2>5. Len(stack) = 1 => Top.ns = stack[1].ns
    BY DEF Top
  <2>6. Stands(f, Len(stack), input)
    BY <1>0, <1>3, <2>1, <2>3, <2>4, <2>5, SearchStands DEF seen
  <2>7. DOMAIN stack' = DOMAIN stack /\ AllStand(stack', input) /\ RootVisited(visited, stack', input)
    <3>1. /\ DOMAIN stack' = DOMAIN stack
          /\ \A i \in DOMAIN stack : stack'[i] = IF i = Len(stack) THEN f ELSE stack[i]
      BY <1>0, <2>2
    <3>2. AllStand(stack', input)
      BY <2>6, <3>1 DEF AllStand, LayoutInv
    <3>3. 1 \in DOMAIN stack /\ stack'[1].ns = stack[1].ns
      <4>1. 1 \in DOMAIN stack
        BY <1>0, <2>1, EmptySeq, LenProperties
      <4> QED BY <2>3, <3>1, <4>1 DEF Top
    <3> QED BY <2>1, <2>4, <3>1, <3>2, <3>3 DEF RootVisited
  <2> QED BY <1>3, <2>1, <2>7 DEF LayoutInv
<1>4. CASE SearchTask \/ SearchFails
  <2>1. PICK t : \E batch \in Batches(Top, t) \union FailedBatches(Top, t) : Search(t, batch)
    BY <1>4 DEF SearchTask, SearchFails
  <2> QED BY <1>3, <1>4, <2>1 DEF SearchTask, SearchFails
<1>5. CASE AddPeer
  <2> DEFINE item == Foremost(Top.peers)
             f == [Top EXCEPT !.peers = Top.peers \ {item}]
  <2>1. Searching /\ Top \in FrameType /\ phase = "search" /\ stack # <<>>
    BY <1>0, <1>5, TopType DEF AddPeer, Searching
  <2>2. UNCHANGED <<total, phase, input>> /\ stack' = [stack EXCEPT ![Len(stack)] = f]
    BY <1>5 DEF AddPeer, Top
  <2>3. /\ f.level = Top.level /\ f.kind = Top.kind /\ f.name = Top.name /\ f.ns = Top.ns
        /\ f.seen = Top.seen /\ f.unseen = Top.unseen /\ f \in FrameType
    BY <2>1 DEF FrameType
  <2> HIDE DEF f, item
  <2>4. Len(stack) \in DOMAIN stack /\ Stands(Top, Len(stack), input) /\ AllStand(stack, input)
    BY <1>0, <2>1, TopType, LenProperties DEF LayoutInv, AllStand, Top
  <2>5. Stands(f, Len(stack), input)
    BY <2>3, <2>4 DEF Stands, SameNames
  <2>6. VisitedGrows /\ visited' \in Seq(Visit)
    BY <1>5, <1>00 DEF Next, Step
  <2>7. RootVisited(visited', stack, input)
    BY <1>0, <2>6, RootStays DEF LayoutInv
  <2>8. DOMAIN stack' = DOMAIN stack /\ AllStand(stack', input) /\ RootVisited(visited', stack', input)
    BY <1>0, <2>1, <2>2, <2>3, <2>4, <2>5, <2>7, TopStands DEF Top
  <2> QED BY <2>1, <2>2, <2>8 DEF LayoutInv
<1>6. CASE Descend
  <2> DEFINE item == Foremost(Top.unseen)
             f == [Top EXCEPT !.unseen = Top.unseen \ {item}]
             below == [stack EXCEPT ![Len(stack)] = f]
  <2>1. Searching /\ Top \in FrameType /\ phase = "search" /\ stack # <<>>
    BY <1>0, <1>6, TopType DEF Descend, Searching
  <2>2. item \in Item /\ item \in Top.unseen
    BY <1>6, <2>1, ForemostProperty DEF Descend, FrameType
  <2>3. item[2] \in Connection /\ item[2].kind \in STRING /\ item[2].name \in STRING
    BY <2>2 DEF Item, Connection
  <2>4. /\ f.level = Top.level /\ f.kind = Top.kind /\ f.name = Top.name /\ f.ns = Top.ns
        /\ f.seen = Top.seen /\ f.unseen = Top.unseen \ {item} /\ f \in FrameType
    BY <2>1 DEF FrameType
  <2>5. /\ total' = AppendConnections(total, item[2]) /\ UNCHANGED <<phase, input>>
        /\ GetRelatives(below, Top.level + 1, item[2].kind, item[2].name, RhsNamespace(Top))
    BY <1>6 DEF Descend, Top
  <2>6. RhsNamespace(Top) \in STRING
    BY <1>0, <2>1 DEF FrameType, TypeOK, RhsNamespace
  <2>7. Len(stack) \in DOMAIN stack /\ Stands(Top, Len(stack), input) /\ AllStand(stack, input)
    BY <1>0, <2>1, TopType, LenProperties DEF LayoutInv, AllStand, Top
  <2> HIDE DEF item, f
  <2>8. Stands(f, Len(stack), input)
    BY <2>4, <2>7 DEF Stands, SameNames
  <2>9. below = [stack EXCEPT ![Len(stack)] = f]
    OBVIOUS
  <2> HIDE DEF below
  <2>10. /\ below \in Seq(FrameType) /\ DOMAIN below = DOMAIN stack /\ Len(below) = Len(stack) /\ below # <<>>
         /\ AllStand(below, input) /\ RootVisited(visited, below, input)
    <3>1. /\ below \in Seq(FrameType) /\ DOMAIN below = DOMAIN stack /\ Len(below) = Len(stack) /\ below # <<>>
          /\ AllStand(below, input)
          /\ \A visits : RootVisited(visits, stack, input) => RootVisited(visits, below, input)
      BY <1>0, <2>1, <2>4, <2>7, <2>8, <2>9, TopStands DEF Top
    <3> QED BY <3>1 DEF LayoutInv
  <2>11. VisitedGrows /\ visited' \in Seq(Visit)
    BY <1>6, <1>00 DEF Next, Step
  <2>12. Top.level = Len(below)
    BY <2>7, <2>10 DEF Stands
  <2>13. GetRelatives(below, Len(below) + 1, item[2].kind, item[2].name, RhsNamespace(Top))
    BY <2>5, <2>12
  <2>14. AllStand(stack', input) /\ RootVisited(visited', stack', input)
    BY <1>0, <2>3, <2>6, <2>10, <2>11, <2>13, GetRelativesStands
  <2>15. /\ FromRoot(item[2], input) /\ item[2].level = Len(stack)
         /\ (Len(stack) = 1 => ~SameNames(item[2], input))
    BY <2>2, <2>7 DEF Stands
  <2>16. Len(stack) = 1 \/ Deep(total, input)
    <3>1. Len(stack) = 1 \/ 2 \in DOMAIN stack
      <4> DEFINE n == Len(stack)
      <4>1. n \in Nat /\ DOMAIN stack = 1 .. n /\ n \in 1 .. n
        BY <1>0, <2>7, LenProperties
      <4> HIDE DEF n
      <4>2. n = 1 \/ 2 \in DOMAIN stack
        BY <4>1
      <4> QED BY <4>2 DEF n
    <3> QED BY <3>1 DEF LayoutInv
  <2>17. Laid(total', input) /\ Deep(total', input)
    <3>1. Laid(total, input)
      BY <2>1 DEF LayoutInv
    <3> QED BY <1>0, <2>3, <2>5, <2>15, <2>16, <3>1, AddLaid
  <2> QED BY <2>1, <2>5, <2>14, <2>17 DEF LayoutInv
<1>7. CASE AppendSeen
  <2> DEFINE item == Foremost(Top.seen)
             f == [Top EXCEPT !.seen = Top.seen \ {item}]
  <2>1. Searching /\ Top \in FrameType /\ phase = "search" /\ stack # <<>>
    BY <1>0, <1>7, TopType DEF AppendSeen, Searching
  <2>2. item \in Item /\ item \in Top.seen
    BY <1>7, <2>1, ForemostProperty DEF AppendSeen, FrameType
  <2>3. item[2] \in Connection
    BY <2>2 DEF Item
  <2>4. /\ f.level = Top.level /\ f.kind = Top.kind /\ f.name = Top.name /\ f.ns = Top.ns
        /\ f.seen = Top.seen \ {item} /\ f.unseen = Top.unseen /\ f \in FrameType
    BY <2>1 DEF FrameType
  <2>5. /\ total' = AppendConnections(total, item[2]) /\ UNCHANGED <<visited, phase, input>>
        /\ stack' = [stack EXCEPT ![Len(stack)] = f]
    BY <1>7 DEF AppendSeen, Top
  <2>6. Len(stack) \in DOMAIN stack /\ Stands(Top, Len(stack), input) /\ AllStand(stack, input)
    BY <1>0, <2>1, TopType, LenProperties DEF LayoutInv, AllStand, Top
  <2> HIDE DEF item, f
  <2>7. Stands(f, Len(stack), input)
    BY <2>4, <2>6 DEF Stands, SameNames
  <2>8. DOMAIN stack' = DOMAIN stack /\ AllStand(stack', input) /\ RootVisited(visited, stack', input)
    <3>1. /\ DOMAIN stack' = DOMAIN stack /\ AllStand(stack', input)
          /\ \A visits : RootVisited(visits, stack, input) => RootVisited(visits, stack', input)
      BY <1>0, <2>1, <2>4, <2>5, <2>6, <2>7, TopStands DEF Top
    <3> QED BY <3>1 DEF LayoutInv
  <2>9. FromRoot(item[2], input) /\ item[2].level = Len(stack)
    BY <2>2, <2>6 DEF Stands
  <2>10. Len(stack) = 1 \/ Deep(total, input)
    <3>1. Len(stack) = 1 \/ 2 \in DOMAIN stack
      <4> DEFINE n == Len(stack)
      <4>1. n \in Nat /\ DOMAIN stack = 1 .. n /\ n \in 1 .. n
        BY <1>0, <2>6, LenProperties
      <4> HIDE DEF n
      <4>2. n = 1 \/ 2 \in DOMAIN stack
        BY <4>1
      <4> QED BY <4>2 DEF n
    <3> QED BY <3>1 DEF LayoutInv
  <2>11. Laid(total', input) /\ (Deep(total, input) => Deep(total', input))
    <3>1. Laid(total, input)
      BY <2>1 DEF LayoutInv
    <3> QED BY <1>0, <2>3, <2>5, <2>9, <2>10, <3>1, AddLaid
  <2> QED BY <2>1, <2>5, <2>8, <2>11 DEF LayoutInv
<1>8. CASE Return
  <2>1. Searching /\ phase = "search" /\ UNCHANGED <<visited, total, phase, input>>
    BY <1>8 DEF Return, BetweenTasks, Searching
  <2>2. Len(stack) \in Nat \ {0} /\ DOMAIN stack = 1 .. Len(stack)
    BY <1>0, <2>1, TopType, LenProperties
  <2>3. DOMAIN stack' = 1 .. Len(stack) - 1 /\ \A i \in 1 .. Len(stack) - 1 : stack'[i] = stack[i]
    BY <1>0, <1>8, <2>2, SubSeqProperties DEF Return
  <2>4. DOMAIN stack' \subseteq DOMAIN stack /\ \A i \in DOMAIN stack' : stack'[i] = stack[i]
    BY <2>2, <2>3
  <2>5. AllStand(stack', input)
    BY <2>4 DEF AllStand, LayoutInv
  <2>6. RootVisited(visited, stack', input)
    <3>1. stack' \in Seq(FrameType)
      BY <2>1, <1>8, <1>00, StepInv DEF Next, Step, InductiveInv, TypeOK
    <3>2. stack' # <<>> => 1 \in DOMAIN stack'
      BY <3>1, EmptySeq, LenProperties
    <3> QED BY <2>1, <2>4, <3>2 DEF RootVisited, LayoutInv, Searching
  <2> QED BY <2>1, <2>4, <2>5, <2>6 DEF LayoutInv
<1>9. CASE PrintRelatives
  BY <1>9 DEF PrintRelatives, LayoutInv
<1>10. CASE UNCHANGED vars
  BY <1>10 DEF vars, LayoutInv
<1> QED BY <1>1, <1>2, <1>4, <1>5, <1>6, <1>7, <1>8, <1>9, <1>10 DEF Next, Step, Terminated

\* The default and the flat format print every connection of the result: it
\* begins with the root and goes on with a connection of level 1.
THEOREM AllPrinted == Spec => []NothingLeftOut
<1>1. TypeOK /\ LayoutInv => NothingLeftOut
  <2> SUFFICES ASSUME TypeOK, LayoutInv, phase = "printed", Len(total) > 1
               PROVE  printConnections(total) = DOMAIN total
    BY DEF NothingLeftOut
  <2> DEFINE level1 == {i \in DOMAIN total : total[i].level = 1}
             n == Len(total)
  <2>1. DOMAIN total = 1 .. n /\ n \in Nat /\ n > 1
    BY LenProperties DEF TypeOK
  <2>2. 2 \in level1
    BY <2>1 DEF LayoutInv, Laid
  <2>3. level1 \subseteq 1 .. n
    BY <2>1
  <2>4. printConnections(total) = {1} \union (Min(level1) .. n)
    BY <2>2 DEF printConnections
  <2> HIDE DEF level1, n
  <2>5. Min(level1) \in 1 .. n /\ Min(level1) <= 2
    <3>1. level1 \subseteq Nat
      BY <2>1, <2>3
    <3> QED BY <2>2, <2>3, <3>1, MinProperty
  <2>6. {1} \union (Min(level1) .. n) = 1 .. n
    BY <2>1, <2>5
  <2> QED BY <2>1, <2>4, <2>6
<1>2. InductiveInv => TypeOK
  BY DEF InductiveInv
<1> QED BY <1>1, <1>2, Invariant, InitReported, ReportedStep, InitLayout, LayoutStep, PTL DEF Spec

-----------------------------------------------------------------------------
(* The relations *)

\* The result tells of the relation c, from either end.
Told(all, c) ==
    \E i \in DOMAIN all :
        \/ IsReverse(all[i], c)
        \/ SameNames(all[i], c) /\ SameNames(all[i].peer, c.peer)

\* The same connection, found at any level.
Alike(c, d) ==
    /\ c.kind = d.kind /\ c.name = d.name /\ c.namespace = d.namespace
    /\ c.relType = d.relType /\ c.peer = d.peer

\* The connections of one of the batches found are in the result or wait.
Accounted(found, all, waiting) ==
    \E batch \in found : \A item \in batch :
        Told(all, item[2]) \/ \E other \in waiting : Alike(other[2], item[2])

\* An activation for r has the task t to do or is at what it found.
AtWork(f, found, all, r, t) ==
    SameNames(f, r) /\ (t \in f.todo \/ Accounted(found, all, Waiting(f)))

\* An activation has still to search r.
Awaits(frames, r) == \E i \in DOMAIN frames : \E item \in frames[i].unseen : SameNames(item[2], r)

\* What the task t of r finds has been dealt with, or will be.
Pending(found, frames, all, r, t) ==
    \/ Accounted(found, all, {})
    \/ \E i \in DOMAIN frames : AtWork(frames[i], found, all, r, t)
    \/ Awaits(frames, r)

IsVisited(visits, r) == \E j \in DOMAIN visits : SameNames(visits[j], r)

\* What was found in the namespace of the input.
Within(c) == c.namespace = input.namespace /\ \E r \in Named : SameNames(c, r)

Stays(f) ==
    /\ f.ns = input.namespace /\ \E r \in Named : SameNames(f, r)
    /\ f.todo \subseteq Tasks(f.kind)
    /\ \A item \in Waiting(f) : Within(item[2])

SearchesWithin == nsSearch \in {"", input.namespace}

\* The search has not left the namespace of the input.
WithinInv ==
    faults = 0 /\ OneNamespace =>
        /\ SearchesWithin
        /\ \A i \in DOMAIN stack : Stays(stack[i])
        /\ \A i \in DOMAIN total : Within(total[i])

IsFindable(c) == \E d \in Findable : Alike(c, d)

Settled(visits, r) == checkIgnored(r.kind, r.name) \/ IsVisited(visits, r)

\* All that the search has found is findable.  What is left for the end is
\* visited, and so is what is in the result, unless it is to be ignored.  And
\* what has been visited is searched, or will be.
Related(frames, all, visits) ==
    /\ \A i \in DOMAIN frames : \A item \in Waiting(frames[i]) : IsFindable(item[2])
    /\ \A i \in DOMAIN all : IsFindable(all[i])
    /\ \A i \in DOMAIN frames : \A item \in frames[i].seen : IsVisited(visits, item[2])
    /\ \A i \in DOMAIN all : Settled(visits, all[i])
    /\ \A j \in DOMAIN visits : ~checkIgnored(visits[j].kind, visits[j].name) =>
          \A t \in Tasks(visits[j].kind) :
             Pending(Batches(From(visits[j]), t), frames, all, visits[j], t)

RelationsInv == faults = 0 /\ Unambiguous => Related(stack, total, visited)

-----------------------------------------------------------------------------
(* What the result tells of *)

\* The parts of AppendConnections: what may be dropped, and what is added.
LEMMA AppendConnectionsParts ==
    ASSUME NEW all \in Seq(Connection), NEW c \in Connection
    PROVE  LET new == AppendConnections(all, c)
           IN  /\ \A i \in DOMAIN new : new[i] = c \/ \E j \in DOMAIN all : new[i] = all[j]
               /\ \A j \in DOMAIN all : \/ \E i \in DOMAIN new : new[i] = all[j]
                                        \/ IsReverse(all[j], c) /\ \E i \in DOMAIN new : new[i] = c
               /\ \/ \E i \in DOMAIN new : new[i] = c
                  \/ \E j \in DOMAIN all : IsReverse(all[j], c) \/ compareConnectionsRelType(all[j], c)
<1> DEFINE new == AppendConnections(all, c)
           Parts(n) == /\ \A i \in DOMAIN n : n[i] = c \/ \E j \in DOMAIN all : n[i] = all[j]
                       /\ \A j \in DOMAIN all : \/ \E i \in DOMAIN n : n[i] = all[j]
                                                \/ IsReverse(all[j], c) /\ \E i \in DOMAIN n : n[i] = c
                       /\ \/ \E i \in DOMAIN n : n[i] = c
                          \/ \E j \in DOMAIN all : IsReverse(all[j], c) \/ compareConnectionsRelType(all[j], c)
<1>1. ASSUME NEW s \in Seq(Connection)
      PROVE  /\ Len(s) + 1 \in DOMAIN Append(s, c) /\ Append(s, c)[Len(s) + 1] = c
             /\ \A i \in DOMAIN s : i \in DOMAIN Append(s, c) /\ Append(s, c)[i] = s[i]
             /\ \A i \in DOMAIN Append(s, c) : i \in DOMAIN s \/ i = Len(s) + 1
  <2>1. /\ DOMAIN Append(s, c) = 1 .. Len(s) + 1 /\ DOMAIN s = 1 .. Len(s) /\ Len(s) \in Nat
        /\ Append(s, c)[Len(s) + 1] = c /\ \A i \in DOMAIN s : Append(s, c)[i] = s[i]
    BY AppendProperties, LenProperties
  <2> QED BY <2>1
<1>2. CASE new = all /\ \E j \in DOMAIN all : IsReverse(all[j], c) \/ compareConnectionsRelType(all[j], c)
  BY <1>2
<1>3. CASE new = Append(all, c)
  <2> DEFINE new2 == Append(all, c)
  <2>1. Parts(new2)
    <3>1. /\ Len(all) + 1 \in DOMAIN new2 /\ new2[Len(all) + 1] = c
          /\ \A i \in DOMAIN all : i \in DOMAIN new2 /\ new2[i] = all[i]
          /\ \A i \in DOMAIN new2 : i \in DOMAIN all \/ i = Len(all) + 1
      BY <1>1
    <3> HIDE DEF new2
    <3> QED BY <3>1
  <2> QED BY <1>3, <2>1
<1>4. CASE Reverses(all, c) # {} /\ c.level = 1
  <2> DEFINE m == Min(Reverses(all, c))
             rest == RemoveAt(all, m)
  <2>1. new = Append(rest, c)
    BY <1>4 DEF AppendConnections
  <2>2. m \in 1 .. Len(all) /\ m \in Reverses(all, c)
    <3>1. Reverses(all, c) \subseteq Nat
      BY LenProperties DEF Reverses
    <3> QED BY <1>4, <3>1, MinProperty, ReversesMin
  <2>3. IsReverse(all[m], c)
    BY <2>2 DEF Reverses
  <2> HIDE DEF m
  <2>4. /\ rest \in Seq(Connection) /\ Len(rest) = Len(all) - 1 /\ Len(all) \in Nat
        /\ \A k \in 1 .. Len(all) - 1 : rest[k] = IF k < m THEN all[k] ELSE all[k + 1]
    BY <2>2, RemoveAtType, LenProperties
  <2>5. DOMAIN rest = 1 .. Len(all) - 1 /\ DOMAIN all = 1 .. Len(all)
    BY <2>4, LenProperties
  <2> HIDE DEF rest
  <2>6. \A k \in DOMAIN rest : \E j \in DOMAIN all : rest[k] = all[j]
    <3> SUFFICES ASSUME NEW k \in 1 .. Len(all) - 1 PROVE \E j \in DOMAIN all : rest[k] = all[j]
      BY <2>5
    <3>1. k \in DOMAIN all /\ k + 1 \in DOMAIN all
      BY <2>4, <2>5
    <3> QED BY <2>4, <3>1
  <2>7. \A j \in DOMAIN all : j = m \/ \E k \in DOMAIN rest : rest[k] = all[j]
    <3> SUFFICES ASSUME NEW j \in 1 .. Len(all), j # m PROVE \E k \in DOMAIN rest : rest[k] = all[j]
      BY <2>5
    <3>1. CASE j < m
      BY <2>2, <2>4, <2>5, <3>1
    <3>2. CASE j > m
      <4>1. j - 1 \in 1 .. Len(all) - 1 /\ ~(j - 1 < m) /\ (j - 1) + 1 = j
        BY <2>2, <2>4, <3>2
      <4>2. rest[j - 1] = all[j]
        BY <2>4, <4>1
      <4> QED BY <2>5, <4>1, <4>2
    <3> QED BY <2>2, <3>1, <3>2
  <2> DEFINE new2 == Append(rest, c)
  <2>8. /\ Len(rest) + 1 \in DOMAIN new2 /\ new2[Len(rest) + 1] = c
        /\ \A i \in DOMAIN rest : i \in DOMAIN new2 /\ new2[i] = rest[i]
        /\ \A i \in DOMAIN new2 : i \in DOMAIN rest \/ i = Len(rest) + 1
    BY <1>1, <2>4
  <2>9. new = new2
    BY <2>1
  <2> HIDE DEF new2, new
  <2>10. Parts(new2)
    <3>1. \A i \in DOMAIN new2 : new2[i] = c \/ \E j \in DOMAIN all : new2[i] = all[j]
      BY <2>6, <2>8
    <3>2. ASSUME NEW j \in DOMAIN all
          PROVE  \/ \E i \in DOMAIN new2 : new2[i] = all[j]
                 \/ IsReverse(all[j], c) /\ \E i \in DOMAIN new2 : new2[i] = c
      BY <2>3, <2>7, <2>8
    <3>3. \E i \in DOMAIN new2 : new2[i] = c
      BY <2>8
    <3> QED BY <3>1, <3>2, <3>3
  <2> QED BY <2>9, <2>10 DEF new
<1>5. \/ new = all /\ \E j \in DOMAIN all : IsReverse(all[j], c) \/ compareConnectionsRelType(all[j], c)
      \/ new = Append(all, c)
      \/ Reverses(all, c) # {} /\ c.level = 1
  BY DEF AppendConnections, Reverses
<1> QED BY <1>2, <1>3, <1>4, <1>5

\* What the result tells of it goes on telling of: the connection added makes
\* up for its reverse.
LEMMA ToldStays ==
    ASSUME NEW all \in Seq(Connection), NEW c \in Connection, NEW d, Told(all, d)
    PROVE  Told(AppendConnections(all, c), d)
<1> DEFINE new == AppendConnections(all, c)
<1>1. PICK j \in DOMAIN all : IsReverse(all[j], d) \/ (SameNames(all[j], d) /\ SameNames(all[j].peer, d.peer))
  BY DEF Told
<1>2. \/ \E i \in DOMAIN new : new[i] = all[j]
      \/ IsReverse(all[j], c) /\ \E i \in DOMAIN new : new[i] = c
  BY AppendConnectionsParts
<1> HIDE DEF new
<1>3. CASE \E i \in DOMAIN new : new[i] = all[j]
  BY <1>1, <1>3 DEF Told, new
<1>4. CASE IsReverse(all[j], c) /\ \E i \in DOMAIN new : new[i] = c
  <2>1. PICK i \in DOMAIN new : new[i] = c
    BY <1>4
  <2>2. IsReverse(c, d) \/ (SameNames(c, d) /\ SameNames(c.peer, d.peer))
    BY <1>1, <1>4 DEF IsReverse, SameNames
  <2> QED BY <2>1, <2>2 DEF Told, new
<1> QED BY <1>2, <1>3, <1>4

\* And it tells of what is added, unless that is taken for the same relation
\* to another resource.
LEMMA NowTold ==
    ASSUME NEW all \in Seq(Connection), NEW c \in Connection,
           \A j \in DOMAIN all : compareConnectionsRelType(all[j], c) => all[j].peer.kind = c.peer.kind
    PROVE  Told(AppendConnections(all, c), c)
<1> DEFINE new == AppendConnections(all, c)
<1>1. \/ \E i \in DOMAIN new : new[i] = c
      \/ \E j \in DOMAIN all : IsReverse(all[j], c) \/ compareConnectionsRelType(all[j], c)
  BY AppendConnectionsParts
<1>2. CASE \E i \in DOMAIN new : new[i] = c
  <2> HIDE DEF new
  <2> QED BY <1>2 DEF Told, SameNames, new
<1>3. CASE \E j \in DOMAIN all : IsReverse(all[j], c) \/ compareConnectionsRelType(all[j], c)
  <2>1. Told(all, c)
    BY <1>3 DEF Told, SameNames, compareConnectionsRelType, compareConnections
  <2> QED BY <2>1, ToldStays
<1> QED BY <1>1, <1>2, <1>3

-----------------------------------------------------------------------------
(* What the tasks find *)

LEMMA RelativesAlike ==
    ASSUME NEW f, NEW g, Self(f) = Self(g), f.ns = g.ns, NEW i, NEW relType
    PROVE  Alike(RelativeOf(f, i, relType), RelativeOf(g, i, relType))
BY DEF Alike, RelativeOf

LEMMA ComposedAlike ==
    ASSUME NEW f, NEW g, Self(f) = Self(g), f.ns = g.ns, NEW i
    PROVE  Alike(ComposedOf(f, i), ComposedOf(g, i))
<1> DEFINE relType == "owner reference"
           c(h) == [level |-> h.level, kind |-> objs[i].kind, name |-> objs[i].name, namespace |-> h.ns,
                    relType |-> relType, peer |-> Self(h)]
           d(h) == [level |-> h.level, kind |-> objs[i].kind, name |-> objs[i].name,
                    namespace |-> objs[i].namespace, relType |-> relType, peer |-> Self(h)]
<1>1. \A h : ComposedOf(h, i) = [c(h) EXCEPT !.namespace = objs[i].namespace]
  BY DEF ComposedOf, RelativeOf
<1> HIDE DEF relType
<1>2. \A h : [c(h) EXCEPT !.namespace = objs[i].namespace] = d(h)
  OBVIOUS
<1>3. Alike(d(f), d(g))
  BY DEF Alike
<1> QED BY <1>1, <1>2, <1>3

LEMMA OwnersAlike ==
    ASSUME NEW f, NEW g, Self(f) = Self(g), f.ns = g.ns, f.kind = g.kind, NEW owner
    PROVE  Alike(OwnerOf(f, owner), OwnerOf(g, owner))
<1> DEFINE relType == "owner reference"
           c(h) == [level |-> h.level, kind |-> owner.kind, name |-> owner.name, namespace |-> h.ns,
                    relType |-> relType, peer |-> IF owner.kind # h.kind THEN Self(h) ELSE NoPeer]
<1>1. OwnerOf(f, owner) = c(f) /\ OwnerOf(g, owner) = c(g)
  BY DEF OwnerOf
<1> HIDE DEF relType
<1>2. Alike(c(f), c(g))
  BY DEF Alike
<1> QED BY <1>1, <1>2

\* Each connection of the one batch is in the other, at any level.
BatchesMatch(batch, other) ==
    /\ \A x \in batch : \E y \in other : Alike(x[2], y[2])
    /\ \A y \in other : \E x \in batch : Alike(x[2], y[2])

\* What a task finds does not depend on the level it is done at.
LEMMA BatchAtAnyLevel ==
    ASSUME NEW f, NEW g, SameNames(f, g), f.ns = g.ns, NEW t, NEW batch \in Batches(f, t)
    PROVE  \E other \in Batches(g, t) : BatchesMatch(batch, other)
<1>1. f.kind = g.kind /\ f.name = g.name /\ Self(f) = Self(g)
  BY DEF SameNames, Self
<1>2. CASE t.stage \in {Downstream, Upstream}
  <2>0. t.stage # Parent /\ t.stage # Children
    BY <1>2 DEF Downstream, Upstream, Parent, Children
  <2> DEFINE rel == Relationship(t)
             Found(h) == IF t.stage = Downstream THEN FoundDownstream(h, rel) ELSE FoundUpstream(h, t.src, rel)
             Of(h, S) == {<<i, RelativeOf(h, i, rel.relType)>> : i \in S}
  <2>1. \A h : Batches(h, t) = {Of(h, S) : S \in Found(h)}
    BY <1>2, <2>0, Zenon DEF Batches, RelatedBatches
  <2>2. FoundDownstream(f, rel) = FoundDownstream(g, rel)
    BY <1>1 DEF FoundDownstream, LhsNamespace, RhsNamespace
  <2>3. FoundUpstream(f, t.src, rel) = FoundUpstream(g, t.src, rel)
    BY <1>1 DEF FoundUpstream, RhsNamespace
  <2>4. Found(f) = Found(g)
    BY <2>2, <2>3
  <2> HIDE DEF Found
  <2>5. PICK S \in Found(f) : batch = Of(f, S)
    BY <2>1
  <2>6. Of(g, S) \in Batches(g, t)
    BY <2>1, <2>4
  <2>7. \A i : Alike(RelativeOf(f, i, rel.relType), RelativeOf(g, i, rel.relType))
    BY <1>1, RelativesAlike
  <2>8. ASSUME NEW x \in Of(f, S) PROVE \E y \in Of(g, S) : Alike(x[2], y[2])
    <3>1. PICK i \in S : x = <<i, RelativeOf(f, i, rel.relType)>>
      OBVIOUS
    <3> DEFINE y == <<i, RelativeOf(g, i, rel.relType)>>
    <3>2. y \in Of(g, S) /\ y[2] = RelativeOf(g, i, rel.relType) /\ x[2] = RelativeOf(f, i, rel.relType)
      BY <3>1
    <3> HIDE DEF y
    <3> QED BY <2>7, <3>2, Zenon
  <2>9. ASSUME NEW y \in Of(g, S) PROVE \E x \in Of(f, S) : Alike(x[2], y[2])
    <3>1. PICK i \in S : y = <<i, RelativeOf(g, i, rel.relType)>>
      OBVIOUS
    <3> DEFINE x == <<i, RelativeOf(f, i, rel.relType)>>
    <3>2. x \in Of(f, S) /\ y[2] = RelativeOf(g, i, rel.relType) /\ x[2] = RelativeOf(f, i, rel.relType)
      BY <3>1
    <3> HIDE DEF x
    <3> QED BY <2>7, <3>2, Zenon
  <2> HIDE DEF Of
  <2>10. BatchesMatch(batch, Of(g, S))
    BY <2>5, <2>8, <2>9 DEF BatchesMatch
  <2> QED BY <2>6, <2>10
<1>3. CASE t.stage = Parent
  <2>1. batch = ParentBatch(f) /\ ParentBatch(g) \in Batches(g, t)
    BY <1>3 DEF Batches, Parent, Children, Downstream, Upstream
  <2>2. \A owner : Alike(OwnerOf(f, owner), OwnerOf(g, owner))
    BY <1>1, OwnersAlike
  <2> DEFINE Those(h) == {j \in Get(objs, h.kind, h.name, h.ns) : findOwner(objs[j]).name # ""}
  <2>3. /\ \A h : ParentBatch(h) = {<<i, OwnerOf(h, findOwner(objs[i]))>> : i \in Those(h)}
        /\ Those(f) = Those(g)
    BY <1>1 DEF ParentBatch
  <2> HIDE DEF Those
  <2>4. ASSUME NEW x \in ParentBatch(f) PROVE \E y \in ParentBatch(g) : Alike(x[2], y[2])
    <3>1. PICK i \in Those(f) : x = <<i, OwnerOf(f, findOwner(objs[i]))>>
      BY <2>3
    <3> DEFINE y == <<i, OwnerOf(g, findOwner(objs[i]))>>
    <3>2. y \in ParentBatch(g) /\ y[2] = OwnerOf(g, findOwner(objs[i])) /\ x[2] = OwnerOf(f, findOwner(objs[i]))
      BY <2>3, <3>1
    <3> HIDE DEF y
    <3> QED BY <2>2, <3>2, Zenon
  <2>5. ASSUME NEW y \in ParentBatch(g) PROVE \E x \in ParentBatch(f) : Alike(x[2], y[2])
    <3>1. PICK i \in Those(f) : y = <<i, OwnerOf(g, findOwner(objs[i]))>>
      BY <2>3
    <3> DEFINE x == <<i, OwnerOf(f, findOwner(objs[i]))>>
    <3>2. x \in ParentBatch(f) /\ y[2] = OwnerOf(g, findOwner(objs[i])) /\ x[2] = OwnerOf(f, findOwner(objs[i]))
      BY <2>3, <3>1
    <3> HIDE DEF x
    <3> QED BY <2>2, <3>2, Zenon
  <2>6. BatchesMatch(ParentBatch(f), ParentBatch(g))
    BY <2>4, <2>5 DEF BatchesMatch
  <2> QED BY <2>1, <2>6
<1>4. CASE t.stage = Children
  <2>1. PICK ks \in ChildKindLists : batch = ChildrenBatch(f, ks)
    BY <1>4 DEF Batches, Parent, Children, Downstream, Upstream
  <2>2. ChildrenBatch(g, ks) \in Batches(g, t)
    BY <1>4 DEF Batches, Parent, Children, Downstream, Upstream
  <2> DEFINE relType == "owner reference"
             Of(h, k) == {<<(k - 1) * Len(objs) + i, RelativeOf(h, i, relType)>> :
                             i \in {j \in Listed(objs, ks[k], h.ns) :
                                      findOwner(objs[j]) = [kind |-> h.kind, name |-> h.name]}}
  <2>3. \A h : ChildrenBatch(h, ks) = UNION {Of(h, k) : k \in DOMAIN ks}
    BY DEF ChildrenBatch
  <2>4. \A i : Alike(RelativeOf(f, i, relType), RelativeOf(g, i, relType))
    BY <1>1, RelativesAlike
  <2> HIDE DEF relType
  <2> DEFINE index(k, i) == (k - 1) * Len(objs) + i
             Those(h, k) == {j \in Listed(objs, ks[k], h.ns) :
                               findOwner(objs[j]) = [kind |-> h.kind, name |-> h.name]}
  <2>5. /\ \A h, k : Of(h, k) = {<<index(k, i), RelativeOf(h, i, relType)>> : i \in Those(h, k)}
        /\ \A k : Those(f, k) = Those(g, k)
    BY <1>1
  <2> HIDE DEF Of, index, Those
  <2>6. ASSUME NEW k, NEW x \in Of(f, k) PROVE \E y \in Of(g, k) : Alike(x[2], y[2])
    <3>1. PICK i \in Those(f, k) : x = <<index(k, i), RelativeOf(f, i, relType)>>
      BY <2>5
    <3> DEFINE y == <<index(k, i), RelativeOf(g, i, relType)>>
    <3>2. y \in Of(g, k) /\ y[2] = RelativeOf(g, i, relType) /\ x[2] = RelativeOf(f, i, relType)
      BY <2>5, <3>1
    <3> HIDE DEF y
    <3> QED BY <2>4, <3>2, Zenon
  <2>7. ASSUME NEW k, NEW y \in Of(g, k) PROVE \E x \in Of(f, k) : Alike(x[2], y[2])
    <3>1. PICK i \in Those(f, k) : y = <<index(k, i), RelativeOf(g, i, relType)>>
      BY <2>5
    <3> DEFINE x == <<index(k, i), RelativeOf(f, i, relType)>>
    <3>2. x \in Of(f, k) /\ y[2] = RelativeOf(g, i, relType) /\ x[2] = RelativeOf(f, i, relType)
      BY <2>5, <3>1
    <3> HIDE DEF x
    <3> QED BY <2>4, <3>2, Zenon
  <2>8. \A k : BatchesMatch(Of(f, k), Of(g, k))
    BY <2>6, <2>7 DEF BatchesMatch
  <2>9. BatchesMatch(ChildrenBatch(f, ks), ChildrenBatch(g, ks))
    BY <2>3, <2>8 DEF BatchesMatch
  <2> QED BY <2>1, <2>2, <2>9
<1>5. CASE t.stage \notin {Downstream, Upstream, Parent, Children}
  <2>1. batch = CompositionBatch(f) /\ CompositionBatch(g) \in Batches(g, t)
    BY <1>5 DEF Batches
  <2> DEFINE Of(h, i) == {<<k, ComposedOf(h, objs[i].composed[k])>> : k \in DOMAIN objs[i].composed}
             Those(h) == {j \in Get(objs, h.kind, h.name, h.ns) : objs[j].namespace = input.namespace}
  <2>2. \A h : CompositionBatch(h) = UNION {Of(h, i) : i \in Those(h)}
    BY DEF CompositionBatch
  <2>3. \A i : Alike(ComposedOf(f, i), ComposedOf(g, i))
    BY <1>1, ComposedAlike
  <2>4. ASSUME NEW i, NEW x \in Of(f, i) PROVE \E y \in Of(g, i) : Alike(x[2], y[2])
    <3>1. PICK k \in DOMAIN objs[i].composed : x = <<k, ComposedOf(f, objs[i].composed[k])>>
      OBVIOUS
    <3> DEFINE y == <<k, ComposedOf(g, objs[i].composed[k])>>
    <3>2. /\ y \in Of(g, i) /\ y[2] = ComposedOf(g, objs[i].composed[k])
          /\ x[2] = ComposedOf(f, objs[i].composed[k])
      BY <3>1
    <3> HIDE DEF y
    <3> QED BY <2>3, <3>2, Zenon
  <2>5. ASSUME NEW i, NEW y \in Of(g, i) PROVE \E x \in Of(f, i) : Alike(x[2], y[2])
    <3>1. PICK k \in DOMAIN objs[i].composed : y = <<k, ComposedOf(g, objs[i].composed[k])>>
      OBVIOUS
    <3> DEFINE x == <<k, ComposedOf(f, objs[i].composed[k])>>
    <3>2. /\ x \in Of(f, i) /\ y[2] = ComposedOf(g, objs[i].composed[k])
          /\ x[2] = ComposedOf(f, objs[i].composed[k])
      BY <3>1
    <3> HIDE DEF x
    <3> QED BY <2>3, <3>2, Zenon
  <2>6. \A i : BatchesMatch(Of(f, i), Of(g, i))
    BY <2>4, <2>5 DEF BatchesMatch
  <2>7. Those(f) = Those(g)
    BY <1>1
  <2> HIDE DEF Of, Those
  <2>8. BatchesMatch(CompositionBatch(f), CompositionBatch(g))
    BY <2>2, <2>6, <2>7 DEF BatchesMatch
  <2> QED BY <2>1, <2>8
<1> QED BY <1>2, <1>3, <1>4, <1>5

\* In one namespace, the searches find what is seen there.
LEMMA BatchWithin ==
    ASSUME Context, OneNamespace, SearchesWithin,
           NEW f, f.ns = input.namespace, NEW t, NEW batch \in Batches(f, t), NEW item \in batch
    PROVE  Within(item[2])
<1> DEFINE ns == input.namespace
           Seen == {i \in DOMAIN objs : objs[i].namespace \in {ns, ""}}
<1>1. /\ \A i \in Seen : [kind |-> objs[i].kind, name |-> objs[i].name] \in Named
      /\ \A i \in Seen : findOwner(objs[i]) \in Named
  BY DEF Named
<1>2. RhsNamespace(f) = ns /\ LhsNamespace(f) = ns
  BY DEF RhsNamespace, LhsNamespace, SearchesWithin
<1>3. \A kind, name : Listed(objs, kind, ns) \subseteq Seen /\ Get(objs, kind, name, ns) \subseteq Seen
  BY DEF Listed, Get
<1> HIDE DEF Seen, ns
<1>4. ASSUME NEW i \in Seen, NEW relType, item[2] = RelativeOf(f, i, relType) PROVE Within(item[2])
  <2>1. item[2] = [level |-> f.level, kind |-> objs[i].kind, name |-> objs[i].name, namespace |-> f.ns,
                   relType |-> relType, peer |-> Self(f)]
    BY <1>4 DEF RelativeOf
  <2>2. item[2].kind = objs[i].kind /\ item[2].name = objs[i].name /\ item[2].namespace = f.ns
    BY <2>1
  <2> QED BY <1>1, <2>2 DEF Within, SameNames
<1>5. CASE t.stage \in {Downstream, Upstream}
  <2>0. t.stage # Parent /\ t.stage # Children
    BY <1>5 DEF Downstream, Upstream, Parent, Children
  <2>1. batch \in RelatedBatches(f, t)
    BY <1>5, <2>0, Zenon DEF Batches
  <2>2. PICK S : /\ S \in FoundDownstream(f, Relationship(t)) \union FoundUpstream(f, t.src, Relationship(t))
                 /\ batch = {<<i, RelativeOf(f, i, Relationship(t).relType)>> : i \in S}
    BY <2>1 DEF RelatedBatches
  <2>3. ASSUME NEW rel, NEW related PROVE /\ \A T \in FoundDownstream(f, rel) : T \subseteq Seen
                                          /\ \A T \in FoundUpstream(f, related, rel) : T \subseteq Seen
    <3>1. f.ns = ns
      BY DEF ns
    <3>2. \A T \in FieldTargets(objs, f.kind, f.name, f.ns, rel.lhs, rel.target) : T \subseteq Seen
      BY <1>3, <3>1 DEF FieldTargets
    <3>3. \A T \in FieldSources(objs, f.kind, f.name, f.ns, rel.lhs, related) : T \subseteq Seen
      BY <1>3, <3>1 DEF FieldSources
    <3>4. \A T \in FoundDownstream(f, rel) : T \subseteq Seen
      BY <1>2, <1>3, <3>1, <3>2 DEF FoundDownstream, searchLabels, EnvTargets, AnnotationTargets
    <3>5. \A T \in FoundUpstream(f, related, rel) : T \subseteq Seen
      BY <1>2, <1>3, <3>1, <3>3 DEF FoundUpstream, searchSelectors, EnvSources, AnnotationSources
    <3> QED BY <3>4, <3>5
  <2>4. PICK i \in Seen : item = <<i, RelativeOf(f, i, Relationship(t).relType)>>
    BY <2>2, <2>3
  <2> QED BY <1>4, <2>4
<1>6. CASE t.stage = Parent
  <2>1. batch = ParentBatch(f)
    BY <1>6 DEF Batches, Parent, Children, Downstream, Upstream
  <2>2. PICK i \in Seen : item = <<i, OwnerOf(f, findOwner(objs[i]))>>
    BY <1>3, <2>1 DEF ParentBatch, ns
  <2> DEFINE owner == findOwner(objs[i])
  <2>3. item[2].kind = owner.kind /\ item[2].name = owner.name /\ item[2].namespace = f.ns
    <3> DEFINE relType == "owner reference"
               peer == IF owner.kind # f.kind THEN Self(f) ELSE NoPeer
    <3>1. item[2] = [level |-> f.level, kind |-> owner.kind, name |-> owner.name, namespace |-> f.ns,
                     relType |-> relType, peer |-> peer]
      BY <2>2 DEF OwnerOf
    <3> HIDE DEF relType, peer, owner
    <3> QED BY <3>1
  <2> HIDE DEF owner
  <2> QED BY <1>1, <2>3 DEF Within, SameNames, owner
<1>7. CASE t.stage = Children
  <2>1. PICK ks \in ChildKindLists : batch = ChildrenBatch(f, ks)
    BY <1>7 DEF Batches, Parent, Children, Downstream, Upstream
  <2>2. PICK k \in DOMAIN ks, i \in Seen :
           item = <<(k - 1) * Len(objs) + i, RelativeOf(f, i, "owner reference")>>
    BY <1>3, <2>1 DEF ChildrenBatch, ns
  <2>3. item[2] = RelativeOf(f, i, "owner reference")
    BY <2>2
  <2> QED BY <1>4, <2>3
<1>8. CASE t.stage \notin {Downstream, Upstream, Parent, Children}
  <2>1. batch = CompositionBatch(f)
    BY <1>8 DEF Batches
  <2>2. PICK i \in Get(objs, f.kind, f.name, f.ns) :
           /\ objs[i].namespace = ns
           /\ \E k \in DOMAIN objs[i].composed : item[2] = ComposedOf(f, objs[i].composed[k])
    BY <2>1 DEF CompositionBatch, ns
  <2>3. i \in DOMAIN objs
    BY DEF Get, Listed
  <2>4. PICK k \in DOMAIN objs[i].composed : item[2] = ComposedOf(f, objs[i].composed[k])
    BY <2>2
  <2> DEFINE j == objs[i].composed[k]
  <2>5. j \in DOMAIN objs /\ objs[j].namespace = ns
    BY <2>2, <2>3 DEF Context, IsCluster, OneNamespace, ns
  <2>6. item[2] = ComposedOf(f, j)
    BY <2>4
  <2> HIDE DEF j
  <2>7. item[2].kind = objs[j].kind /\ item[2].name = objs[j].name /\ item[2].namespace = ns
    BY <2>5, <2>6 DEF ComposedOf, RelativeOf
  <2>8. j \in Seen
    BY <2>5 DEF Seen
  <2> QED BY <1>1, <2>7, <2>8 DEF Within, SameNames, ns
<1> QED BY <1>5, <1>6, <1>7, <1>8

\* And what the tasks of a resource find is what is called findable.
LEMMA BatchFindable ==
    ASSUME NEW f, f.ns = input.namespace, NEW r \in Named, SameNames(f, r),
           NEW t \in Tasks(f.kind), NEW batch \in Batches(f, t), NEW item \in batch
    PROVE  IsFindable(item[2])
<1>1. SameNames(f, From(r)) /\ From(r).ns = f.ns /\ r.kind = f.kind
  BY DEF From, SameNames
<1>2. PICK other \in Batches(From(r), t) : BatchesMatch(batch, other)
  BY <1>1, BatchAtAnyLevel
<1>3. PICK y \in other : Alike(item[2], y[2])
  BY <1>2 DEF BatchesMatch
<1>4. y[2] \in Findable
  <2> DEFINE Of(s) == UNION {Batches(From(s), u) : u \in Tasks(s.kind)}
             All == UNION {Of(s) : s \in Named}
  <2>1. other \in Of(r)
    BY <1>1
  <2> HIDE DEF Of
  <2>2. other \in All
    BY <2>1
  <2> HIDE DEF All
  <2>3. y[2] \in {x[2] : x \in UNION All}
    BY <2>2
  <2> QED BY <2>3 DEF Findable, All, Of
<1> QED BY <1>3, <1>4 DEF IsFindable

\* Where the search does not leave the namespace, a step changes nothing in
\* what a task finds there.
LEMMA BatchesKept ==
    ASSUME UNCHANGED <<objs, input>>, SearchesWithin, SearchesWithin',
           NEW f, f.ns = input.namespace, NEW t
    PROVE  Batches(f, t)' = Batches(f, t)
<1>1. RhsNamespace(f)' = RhsNamespace(f)
  BY DEF RhsNamespace, SearchesWithin
<1>2. LhsNamespace(f)' = LhsNamespace(f)
  BY DEF LhsNamespace
<1>3. ASSUME NEW rel PROVE FoundDownstream(f, rel)' = FoundDownstream(f, rel)
  BY <1>1, <1>2 DEF FoundDownstream
<1>4. ASSUME NEW rel, NEW related PROVE FoundUpstream(f, related, rel)' = FoundUpstream(f, related, rel)
  BY <1>1 DEF FoundUpstream
<1>5. ASSUME NEW i, NEW relType PROVE RelativeOf(f, i, relType)' = RelativeOf(f, i, relType)
  BY DEF RelativeOf
<1>6. RelatedBatches(f, t)' = RelatedBatches(f, t)
  <2> DEFINE rel == Relationship(t)
  <2>1. \A S : {<<i, RelativeOf(f, i, rel.relType)>> : i \in S}' = {<<i, RelativeOf(f, i, rel.relType)>> : i \in S}
    BY <1>5
  <2> QED BY <1>3, <1>4, <1>5, <2>1 DEF RelatedBatches
<1>7. ParentBatch(f)' = ParentBatch(f)
  BY DEF ParentBatch
<1>8. ASSUME NEW ks PROVE ChildrenBatch(f, ks)' = ChildrenBatch(f, ks)
  <2> DEFINE relType == "owner reference"
             index(k, i) == (k - 1) * Len(objs) + i
             Those(k) == {j \in Listed(objs, ks[k], f.ns) :
                            findOwner(objs[j]) = [kind |-> f.kind, name |-> f.name]}
             Of(k) == {<<index(k, i), RelativeOf(f, i, relType)>> : i \in Those(k)}
  <2>1. \A k, i : index(k, i)' = index(k, i)
    OBVIOUS
  <2>2. \A k : Those(k)' = Those(k)
    OBVIOUS
  <2>3. \A i : RelativeOf(f, i, relType)' = RelativeOf(f, i, relType)
    BY <1>5
  <2>4. ChildrenBatch(f, ks) = UNION {Of(k) : k \in DOMAIN ks}
    BY DEF ChildrenBatch
  <2>5. ChildrenBatch(f, ks)' = UNION {Of(k)' : k \in DOMAIN ks}
    BY DEF ChildrenBatch
  <2> HIDE DEF relType, index, Those
  <2>6. \A k : Of(k)' = Of(k)
    BY <2>1, <2>2, <2>3
  <2> HIDE DEF Of
  <2> QED BY <2>4, <2>5, <2>6
<1>9. CompositionBatch(f)' = CompositionBatch(f)
  <2>1. \A i : ComposedOf(f, i)' = ComposedOf(f, i)
    BY <1>5 DEF ComposedOf
  <2> QED BY <2>1 DEF CompositionBatch
<1> QED BY <1>6, <1>7, <1>8, <1>9 DEF Batches

LEMMA NamedKept ==
    ASSUME UNCHANGED <<objs, input>>
    PROVE  /\ Named' = Named /\ OneNamespace' = OneNamespace
           /\ \A r : From(r)' = From(r)
           /\ \A c : Within(c)' = Within(c)
<1>1. Named' = Named
  BY DEF Named
<1>2. OneNamespace' = OneNamespace
  BY <1>1 DEF OneNamespace
<1> QED BY <1>1, <1>2 DEF From, Within

LEMMA FindableKept ==
    ASSUME UNCHANGED <<objs, input>>, SearchesWithin, SearchesWithin'
    PROVE  /\ \A r, t : Batches(From(r), t)' = Batches(From(r), t)
           /\ Unambiguous' = Unambiguous
           /\ \A c : IsFindable(c)' = IsFindable(c)
<1>1. \A r, t : Batches(From(r), t)' = Batches(From(r), t)
  <2>1. \A f, t : f.ns = input.namespace => Batches(f, t)' = Batches(f, t)
    BY BatchesKept
  <2>2. \A r : From(r).ns = input.namespace
    BY DEF From
  <2> QED BY <2>1, <2>2, NamedKept
<1>2. Findable' = Findable
  <2>1. Root' = Root
    BY DEF Root
  <2>2. \A r : {Batches(From(r), t) : t \in Tasks(r.kind)}' = {Batches(From(r), t) : t \in Tasks(r.kind)}
    BY <1>1
  <2> DEFINE Of(r) == UNION {Batches(From(r), t) : t \in Tasks(r.kind)}
  <2>3. \A r : Of(r)' = Of(r)
    BY <2>2
  <2>4. Findable = {Root} \union {item[2] : item \in UNION UNION {Of(r) : r \in Named}}
    BY DEF Findable
  <2>5. Findable' = {Root'} \union {item[2] : item \in UNION UNION {Of(r)' : r \in Named'}}
    BY DEF Findable
  <2> HIDE DEF Of
  <2> QED BY <2>1, <2>3, <2>4, <2>5, NamedKept
<1>3. Unambiguous' = Unambiguous
  BY <1>2, NamedKept DEF Unambiguous
<1> QED BY <1>1, <1>2, <1>3 DEF IsFindable

-----------------------------------------------------------------------------
(* The search stays in the namespace of the input *)

\* Calling GetRelatives for a resource of the namespace.
LEMMA GetRelativesWithin ==
    ASSUME OneNamespace, SearchesWithin, UNCHANGED <<objs, input>>,
           NEW below \in Seq(FrameType), \A i \in DOMAIN below : Stays(below[i]),
           NEW level, NEW kind, NEW name, NEW r \in Named, r.kind = kind, r.name = name,
           GetRelatives(below, level, kind, name, input.namespace)
    PROVE  /\ SearchesWithin'
           /\ \A i \in DOMAIN stack' : Stays(stack'[i])
<1> DEFINE namespaceKind == "Namespace"
           ns == IF kind = namespaceKind THEN name ELSE input.namespace
           f == Frame(level, kind, name, ns)
<1>1. CASE checkIgnored(kind, name)
  <2>1. stack' = below /\ nsSearch' = nsSearch
    BY <1>1 DEF GetRelatives
  <2>2. SearchesWithin'
    BY <2>1 DEF SearchesWithin
  <2> QED BY <2>1, <2>2
<1>2. CASE ~checkIgnored(kind, name)
  <2>1. /\ nsSearch' = IF kind = namespaceKind THEN name ELSE nsSearch
        /\ stack' = Append(below, f)
    BY <1>2 DEF GetRelatives
  <2>2. kind = namespaceKind => name = input.namespace
    BY DEF OneNamespace
  <2>3. ns = input.namespace
    BY <2>2
  <2>4. f.ns = ns /\ f.kind = kind /\ f.name = name /\ f.unseen = {} /\ f.seen = {} /\ f.todo = Tasks(kind)
    BY DEF Frame
  <2> HIDE DEF namespaceKind, ns, f
  <2>5. SearchesWithin'
    BY <2>1, <2>2 DEF SearchesWithin
  <2>6. Stays(f)
    BY <2>3, <2>4 DEF Stays, SameNames, Waiting
  <2>7. /\ DOMAIN stack' = 1 .. Len(below) + 1 /\ DOMAIN below = 1 .. Len(below) /\ Len(below) \in Nat
        /\ stack'[Len(below) + 1] = f /\ \A i \in DOMAIN below : stack'[i] = below[i]
    BY <2>1, AppendProperties, LenProperties
  <2>8. \A i \in DOMAIN stack' : i \in DOMAIN below \/ stack'[i] = f
    BY <2>7
  <2> QED BY <2>5, <2>6, <2>7, <2>8
<1> QED BY <1>1, <1>2

\* A frame takes the place of the top one.
LEMMA TopFrame ==
    ASSUME TypeOK, Searching, NEW f
    PROVE  LET new == [stack EXCEPT ![Len(stack)] = f]
           IN  /\ DOMAIN new = DOMAIN stack /\ Len(stack) \in DOMAIN stack
               /\ \A i \in DOMAIN stack : new[i] = IF i = Len(stack) THEN f ELSE stack[i]
<1>1. stack \in Seq(FrameType) /\ Len(stack) \in DOMAIN stack
  BY TopType, LenProperties DEF TypeOK
<1> QED BY <1>1

\* The top frame goes.
LEMMA TopPopped ==
    ASSUME TypeOK, Return
    PROVE  /\ DOMAIN stack' \subseteq DOMAIN stack
           /\ \A i \in DOMAIN stack' : stack'[i] = stack[i]
           /\ \A i \in DOMAIN stack : i \in DOMAIN stack' \/ stack[i] = Top
<1>1. stack \in Seq(FrameType) /\ Len(stack) \in Nat \ {0} /\ DOMAIN stack = 1 .. Len(stack)
  BY TopType, LenProperties DEF TypeOK, Return, BetweenTasks
<1>2. DOMAIN stack' = 1 .. Len(stack) - 1 /\ \A i \in 1 .. Len(stack) - 1 : stack'[i] = stack[i]
  BY <1>1, SubSeqProperties DEF Return
<1> QED BY <1>1, <1>2 DEF Top

\* What a step other than a failing one leaves alone.
LEMMA Undisturbed ==
    ASSUME InductiveInv, [Next]_vars, faults' = 0
    PROVE  /\ faults = 0 /\ ~SearchFails /\ UNCHANGED <<objs, input, ignore>>
           /\ Context /\ TypeOK /\ total \in Seq(Connection) /\ visited \in Seq(Visit) /\ stack \in Seq(FrameType)
<1>1. /\ Context /\ TypeOK /\ total \in Seq(Connection) /\ visited \in Seq(Visit) /\ stack \in Seq(FrameType)
      /\ faults \in Nat
  <2>1. faults \in 0 .. MaxFaults /\ MaxFaults \in Nat
    BY FaultsAssumption DEF InductiveInv, TypeOK
  <2>2. faults \in Nat
    BY <2>1
  <2> QED BY <2>2 DEF InductiveInv, TypeOK, Context
<1>2. faults + 1 # 0
  BY <1>1
<1>3. /\ Start => faults' = faults /\ UNCHANGED <<objs, input, ignore>>
      /\ NotFound => (faults' = faults \/ faults' = faults + 1) /\ UNCHANGED <<objs, input, ignore>>
      /\ SearchTask => faults' = faults /\ UNCHANGED <<objs, input, ignore>>
      /\ SearchFails => faults' = faults + 1
      /\ AddPeer => faults' = faults /\ UNCHANGED <<objs, input, ignore>>
      /\ Descend => faults' = faults /\ UNCHANGED <<objs, input, ignore>>
      /\ AppendSeen => faults' = faults /\ UNCHANGED <<objs, input, ignore>>
      /\ Return => faults' = faults /\ UNCHANGED <<objs, input, ignore>>
      /\ PrintRelatives => faults' = faults /\ UNCHANGED <<objs, input, ignore>>
      /\ UNCHANGED vars => faults' = faults /\ UNCHANGED <<objs, input, ignore>>
  BY Zenon DEF Start, NotFound, SearchTask, SearchFails, AddPeer, Descend, AppendSeen, Return, PrintRelatives, vars
<1> QED BY <1>1, <1>2, <1>3 DEF Next, Step, Terminated

\* What AppendConnections adds to the result is within the namespace, if the
\* connection is.
LEMMA TotalWithin ==
    ASSUME NEW all \in Seq(Connection), \A i \in DOMAIN all : Within(all[i]),
           NEW c \in Connection, Within(c), NEW new, new = AppendConnections(all, c)
    PROVE  \A i \in DOMAIN new : Within(new[i])
<1>1. \A i \in DOMAIN new : new[i] = c \/ \E j \in DOMAIN all : new[i] = all[j]
  BY AppendConnectionsParts
<1> QED BY <1>1

LEMMA InitWithin == Init => WithinInv
<1> SUFFICES ASSUME Init PROVE WithinInv
  OBVIOUS
<1>1. total = <<>> /\ stack = <<>>
  BY DEF Init
<1>2. DOMAIN stack = {} /\ DOMAIN total = {}
  BY <1>1
<1>3. SearchesWithin
  BY DEF Init, SearchesWithin
<1> QED BY <1>2, <1>3 DEF WithinInv

LEMMA WithinStep == InductiveInv /\ ReportedInv /\ WithinInv /\ [Next]_vars => WithinInv'
<1> SUFFICES ASSUME InductiveInv, ReportedInv, WithinInv, [Next]_vars, faults' = 0, OneNamespace'
             PROVE  (/\ SearchesWithin
                     /\ \A i \in DOMAIN stack : Stays(stack[i])
                     /\ \A i \in DOMAIN total : Within(total[i]))'
  BY DEF WithinInv
<1>1. /\ faults = 0 /\ ~SearchFails /\ UNCHANGED <<objs, input>>
      /\ Context /\ TypeOK /\ total \in Seq(Connection) /\ stack \in Seq(FrameType)
      /\ phase # "search" => stack = <<>>
  BY Undisturbed DEF ReportedInv
<1>2. OneNamespace /\ \A c : Within(c)' = Within(c)
  BY <1>1, NamedKept
<1>3. \A f : Stays(f)' = Stays(f)
  BY <1>1, <1>2, NamedKept DEF Stays
<1>4. SearchesWithin /\ (\A i \in DOMAIN stack : Stays(stack[i])) /\ \A i \in DOMAIN total : Within(total[i])
  BY <1>1, <1>2 DEF WithinInv
<1> SUFFICES /\ SearchesWithin' /\ \A i \in DOMAIN stack' : Stays(stack'[i])
             /\ \A i \in DOMAIN total' : Within(total'[i])
  BY <1>2, <1>3
<1>5. nsSearch' = nsSearch => SearchesWithin'
  BY <1>1, <1>4 DEF SearchesWithin
<1>6. ASSUME Searching PROVE RhsNamespace(Top) = input.namespace /\ Stays(Top) /\ Top \in FrameType
  <2>1. Len(stack) \in DOMAIN stack
    BY <1>1, <1>6, TopFrame
  <2>2. Stays(Top)
    BY <1>4, <2>1 DEF Top
  <2> QED BY <1>1, <1>4, <1>6, <2>2, TopType DEF Stays, RhsNamespace, SearchesWithin
<1>7. CASE Start
  <2>1. Root \in Connection /\ Root.kind = input.kind /\ Root.name = input.name /\ Root.namespace = input.namespace
    <3>1. input.kind \in STRING /\ input.name \in STRING /\ input.namespace \in STRING
      BY <1>1 DEF TypeOK, Resource
    <3> QED BY <3>1, LiteralsAssumption DEF Root, Connection, NoPeer, Resource
  <2> DEFINE r == [kind |-> input.kind, name |-> input.name]
  <2>2. r \in Named
    <3>1. PICK i \in DOMAIN objs : /\ objs[i].kind = input.kind /\ objs[i].name = input.name
                                   /\ objs[i].namespace \in {input.namespace, ""}
      BY <1>7 DEF Start, Exists, Get, Listed
    <3>2. r = [kind |-> objs[i].kind, name |-> objs[i].name]
      BY <3>1
    <3> HIDE DEF r
    <3> QED BY <3>1, <3>2 DEF Named
  <2>3. r.kind = input.kind /\ r.name = input.name
    OBVIOUS
  <2> HIDE DEF r
  <2>4. Within(Root)
    BY <2>1, <2>2, <2>3 DEF Within, SameNames
  <2>5. total' = AppendConnections(total, Root)
    BY <1>7 DEF Start
  <2>6. \A i \in DOMAIN total' : Within(total'[i])
    BY <1>1, <1>4, <2>1, <2>4, <2>5, TotalWithin
  <2>7. GetRelatives(<<>>, 1, input.kind, input.name, input.namespace)
    BY <1>7 DEF Start
  <2>8. <<>> \in Seq(FrameType) /\ \A i \in DOMAIN <<>> : Stays(<<>>[i])
    <3>1. DOMAIN <<>> = {}
      OBVIOUS
    <3> QED BY <3>1
  <2>9. SearchesWithin' /\ \A i \in DOMAIN stack' : Stays(stack'[i])
    BY <1>1, <1>2, <1>4, <2>2, <2>3, <2>7, <2>8, GetRelativesWithin
  <2> QED BY <2>6, <2>9
<1>8. CASE SearchTask
  <2>1. PICK t, batch : t \in NextTasks(Top) /\ batch \in Batches(Top, t) /\ Search(t, batch)
    BY <1>8 DEF SearchTask
  <2>2. Searching /\ UNCHANGED <<total, nsSearch>>
    BY <1>8 DEF SearchTask, BetweenTasks
  <2> DEFINE seen == filterConnections(visited, batch)
             peers == IF t.stage \in {Downstream, Upstream} THEN batch ELSE {}
             f == [Top EXCEPT !.todo = Top.todo \ {t}, !.src = t.src, !.peers = peers,
                              !.unseen = batch \ seen, !.seen = seen]
  <2>3. stack' = [stack EXCEPT ![Len(stack)] = f]
    BY <2>1 DEF Search
  <2>4. /\ f.ns = Top.ns /\ f.kind = Top.kind /\ f.name = Top.name /\ Waiting(f) = batch
        /\ f.todo \subseteq Top.todo
    BY <1>6, <2>2 DEF FrameType, Waiting, filterConnections
  <2> HIDE DEF f, seen, peers
  <2>5. Stays(f)
    <3>1. Top.ns = input.namespace /\ \E r \in Named : SameNames(Top, r)
      BY <1>6, <2>2 DEF Stays
    <3>2. \A item \in batch : Within(item[2])
      BY <1>1, <1>2, <1>4, <2>1, <3>1, BatchWithin
    <3>3. \E r \in Named : SameNames(f, r)
      BY <2>4, <3>1 DEF SameNames
    <3> QED BY <1>6, <2>2, <2>4, <3>1, <3>2, <3>3 DEF Stays
  <2>6. \A i \in DOMAIN stack' : Stays(stack'[i])
    BY <1>1, <1>4, <2>2, <2>3, <2>5, TopFrame
  <2> QED BY <1>4, <1>5, <2>2, <2>6
<1>9. CASE AddPeer
  <2> DEFINE item == Foremost(Top.peers)
             f == [Top EXCEPT !.peers = Top.peers \ {item}]
  <2>1. Searching /\ UNCHANGED <<total, nsSearch>> /\ stack' = [stack EXCEPT ![Len(stack)] = f]
    BY <1>9 DEF AddPeer, Top
  <2>2. /\ f.ns = Top.ns /\ f.kind = Top.kind /\ f.name = Top.name /\ Waiting(f) = Waiting(Top)
        /\ f.todo = Top.todo
    BY <1>6, <2>1 DEF FrameType, Waiting
  <2> HIDE DEF f
  <2>3. Stays(f)
    BY <1>6, <2>1, <2>2 DEF Stays, SameNames
  <2>4. \A i \in DOMAIN stack' : Stays(stack'[i])
    BY <1>1, <1>4, <2>1, <2>3, TopFrame
  <2> QED BY <1>4, <1>5, <2>1, <2>4
<1>10. CASE Descend
  <2> DEFINE item == Foremost(Top.unseen)
             f == [Top EXCEPT !.unseen = Top.unseen \ {item}]
             below == [stack EXCEPT ![Len(stack)] = f]
  <2>1. Searching
    BY <1>10 DEF Descend
  <2>2. item \in Item /\ item \in Waiting(Top)
    BY <1>6, <1>10, <2>1, ForemostProperty DEF Descend, FrameType, Waiting
  <2>3. item[2] \in Connection /\ Within(item[2])
    BY <1>6, <2>1, <2>2 DEF Item, Stays
  <2>4. f \in FrameType /\ f.ns = Top.ns /\ f.kind = Top.kind /\ f.name = Top.name
        /\ f.todo = Top.todo /\ Waiting(f) \subseteq Waiting(Top)
    BY <1>6, <2>1 DEF FrameType, Waiting
  <2>5. /\ total' = AppendConnections(total, item[2])
        /\ GetRelatives(below, Top.level + 1, item[2].kind, item[2].name, RhsNamespace(Top))
    BY <1>10 DEF Descend, Top
  <2> HIDE DEF item, f
  <2>6. Stays(f)
    BY <1>6, <2>1, <2>4 DEF Stays, SameNames
  <2>7. below \in Seq(FrameType) /\ \A i \in DOMAIN below : Stays(below[i])
    BY <1>1, <1>4, <2>1, <2>4, <2>6, TopFrame, TopType
  <2> HIDE DEF below
  <2>8. \A i \in DOMAIN total' : Within(total'[i])
    BY <1>1, <1>4, <2>3, <2>5, TotalWithin
  <2>9. PICK r \in Named : r.kind = item[2].kind /\ r.name = item[2].name
    BY <2>3 DEF Within, SameNames
  <2>10. GetRelatives(below, Top.level + 1, item[2].kind, item[2].name, input.namespace)
    BY <1>6, <2>1, <2>5
  <2>11. SearchesWithin' /\ \A i \in DOMAIN stack' : Stays(stack'[i])
    BY <1>1, <1>2, <1>4, <2>7, <2>9, <2>10, GetRelativesWithin
  <2> QED BY <2>8, <2>11
<1>11. CASE AppendSeen
  <2> DEFINE item == Foremost(Top.seen)
             f == [Top EXCEPT !.seen = Top.seen \ {item}]
  <2>1. Searching /\ UNCHANGED nsSearch /\ stack' = [stack EXCEPT ![Len(stack)] = f]
        /\ total' = AppendConnections(total, item[2])
    BY <1>11 DEF AppendSeen, Top
  <2>2. item \in Item /\ item \in Waiting(Top)
    BY <1>6, <1>11, <2>1, ForemostProperty DEF AppendSeen, FrameType, Waiting
  <2>3. item[2] \in Connection /\ Within(item[2])
    BY <1>6, <2>1, <2>2 DEF Item, Stays
  <2>4. f.ns = Top.ns /\ f.kind = Top.kind /\ f.name = Top.name
        /\ f.todo = Top.todo /\ Waiting(f) \subseteq Waiting(Top)
    BY <1>6, <2>1 DEF FrameType, Waiting
  <2> HIDE DEF item, f
  <2>5. Stays(f)
    BY <1>6, <2>1, <2>4 DEF Stays, SameNames
  <2>6. \A i \in DOMAIN stack' : Stays(stack'[i])
    BY <1>1, <1>4, <2>1, <2>5, TopFrame
  <2>7. \A i \in DOMAIN total' : Within(total'[i])
    BY <1>1, <1>4, <2>1, <2>3, TotalWithin
  <2> QED BY <1>5, <2>1, <2>6, <2>7
<1>12. CASE Return
  <2>1. UNCHANGED <<total, nsSearch>>
    BY <1>12 DEF Return
  <2>2. \A i \in DOMAIN stack' : Stays(stack'[i])
    BY <1>1, <1>4, <1>12, TopPopped
  <2> QED BY <1>4, <1>5, <2>1, <2>2
<1>13. CASE NotFound \/ PrintRelatives \/ UNCHANGED vars
  <2>1. UNCHANGED <<stack, total, nsSearch>>
    BY <1>13 DEF NotFound, PrintRelatives, vars
  <2> QED BY <1>4, <1>5, <2>1
<1> QED BY <1>1, <1>7, <1>8, <1>9, <1>10, <1>11, <1>12, <1>13 DEF Next, Step, Terminated

-----------------------------------------------------------------------------
(* Every relation is told of or will be *)

\* The visited list has the resource that is visited, and no other is new.
LEMMA VisitedNow ==
    ASSUME visited \in Seq(Visit), VisitedUnique, NEW c \in Visit, visited' = appendConnections1(visited, c), NEW r
    PROVE  IsVisited(visited', r) <=> IsVisited(visited, r) \/ SameNames(c, r)
<1>1. ASSUME IsVisited(visited', r) PROVE IsVisited(visited, r) \/ SameNames(c, r)
  <2>1. PICK j \in DOMAIN visited' : SameNames(visited'[j], r)
    BY <1>1 DEF IsVisited
  <2>2. \/ visited'[j].kind = c.kind /\ visited'[j].name = c.name
        \/ \E i \in DOMAIN visited : visited'[j].kind = visited[i].kind /\ visited'[j].name = visited[i].name
    BY VisitedMembers
  <2> QED BY <2>1, <2>2 DEF IsVisited, SameNames
<1>2. ASSUME SameNames(c, r) PROVE IsVisited(visited', r)
  <2>1. PICK j \in DOMAIN visited' : compareConnections(c, visited'[j])
    BY NowVisited
  <2> QED BY <1>2, <2>1 DEF IsVisited, SameNames, compareConnections
<1>3. ASSUME IsVisited(visited, r) PROVE IsVisited(visited', r)
  <2>1. PICK j \in DOMAIN visited : SameNames(visited[j], r)
    BY <1>3 DEF IsVisited
  <2>2. VisitedGrows /\ visited' \in Seq(Visit)
    BY VisitKept DEF VisitedKept
  <2>3. j \in DOMAIN visited'
    BY <2>2, LenProperties DEF VisitedGrows
  <2>4. visited'[j].kind = visited[j].kind /\ visited'[j].name = visited[j].name
    BY <2>2 DEF VisitedGrows, compareConnections
  <2> QED BY <2>1, <2>3, <2>4 DEF IsVisited, SameNames
<1> QED BY <1>1, <1>2, <1>3

\* Only the names of a resource matter to what is pending for it.
LEMMA PendingNames ==
    ASSUME NEW frames, NEW all, NEW u, NEW r, SameNames(u, r), NEW t,
           Pending(Batches(From(u), t), frames, all, u, t)
    PROVE  Pending(Batches(From(r), t), frames, all, r, t)
<1>1. From(u) = From(r)
  BY DEF From, SameNames
<1>2. \A f : SameNames(f, u) => SameNames(f, r)
  BY DEF SameNames
<1> QED BY <1>1, <1>2 DEF Pending, AtWork, Awaits

\* What is visited and not ignored is searched, or will be.
Searched(frames, all, visits) ==
    \A r : IsVisited(visits, r) /\ ~checkIgnored(r.kind, r.name) =>
       \A t \in Tasks(r.kind) : Pending(Batches(From(r), t), frames, all, r, t)

LEMMA SearchedOrPending ==
    ASSUME NEW frames, NEW all, NEW visits
    PROVE  Searched(frames, all, visits) <=>
              \A j \in DOMAIN visits : ~checkIgnored(visits[j].kind, visits[j].name) =>
                 \A t \in Tasks(visits[j].kind) :
                    Pending(Batches(From(visits[j]), t), frames, all, visits[j], t)
<1> DEFINE Each == \A j \in DOMAIN visits : ~checkIgnored(visits[j].kind, visits[j].name) =>
                      \A t \in Tasks(visits[j].kind) :
                         Pending(Batches(From(visits[j]), t), frames, all, visits[j], t)
<1>1. ASSUME Searched(frames, all, visits) PROVE Each
  <2>1. \A j \in DOMAIN visits : IsVisited(visits, visits[j])
    BY DEF IsVisited, SameNames
  <2> QED BY <1>1, <2>1 DEF Searched
<1>2. ASSUME Each, NEW r, IsVisited(visits, r), ~checkIgnored(r.kind, r.name), NEW t \in Tasks(r.kind)
      PROVE  Pending(Batches(From(r), t), frames, all, r, t)
  <2>1. PICK j \in DOMAIN visits : SameNames(visits[j], r)
    BY <1>2 DEF IsVisited
  <2>2. visits[j].kind = r.kind /\ visits[j].name = r.name
    BY <2>1 DEF SameNames
  <2>3. Pending(Batches(From(visits[j]), t), frames, all, visits[j], t)
    BY <1>2, <2>2
  <2> QED BY <2>1, <2>3, PendingNames
<1> HIDE DEF Each
<1>3. Each => Searched(frames, all, visits)
  BY <1>2 DEF Searched
<1> QED BY <1>1, <1>3 DEF Each

\* What is told of is told of as anything like it.
LEMMA ToldAlike == ASSUME NEW all, NEW c, NEW d, Alike(c, d), Told(all, c) PROVE Told(all, d)
BY DEF Told, Alike, IsReverse, SameNames

LEMMA AccountedStays ==
    ASSUME NEW found, NEW all, NEW new, \A d : Told(all, d) => Told(new, d),
           NEW waiting, NEW left, \A item \in waiting : item \in left \/ Told(new, item[2]),
           Accounted(found, all, waiting)
    PROVE  Accounted(found, new, left)
<1>1. PICK batch \in found : \A item \in batch :
               Told(all, item[2]) \/ \E other \in waiting : Alike(other[2], item[2])
  BY DEF Accounted
<1>2. ASSUME NEW item \in batch PROVE Told(new, item[2]) \/ \E other \in left : Alike(other[2], item[2])
  <2>1. CASE Told(all, item[2])
    BY <2>1
  <2>2. CASE \E other \in waiting : Alike(other[2], item[2])
    BY <2>2, ToldAlike
  <2> QED BY <1>1, <2>1, <2>2
<1> QED BY <1>2 DEF Accounted

\* What is pending for r stays so, as long as the activations for r keep the
\* task or what it found, unless that is told of.
LEMMA PendingStays ==
    ASSUME NEW found, NEW frames, NEW rest, NEW all, NEW new, NEW r, NEW t,
           \A d : Told(all, d) => Told(new, d),
           \A i \in DOMAIN frames : SameNames(frames[i], r) =>
              \/ t \notin frames[i].todo /\ Waiting(frames[i]) = {}
              \/ \E k \in DOMAIN rest :
                    /\ SameNames(rest[k], r)
                    /\ t \in frames[i].todo => t \in rest[k].todo
                    /\ \A item \in Waiting(frames[i]) : item \in Waiting(rest[k]) \/ Told(new, item[2]),
           Awaits(frames, r) => Awaits(rest, r),
           Pending(found, frames, all, r, t)
    PROVE  Pending(found, rest, new, r, t)
<1>1. CASE Accounted(found, all, {})
  <2>1. Accounted(found, new, {})
    BY <1>1, AccountedStays
  <2> QED BY <2>1 DEF Pending
<1>2. CASE Awaits(frames, r)
  BY <1>2 DEF Pending
<1>3. CASE \E i \in DOMAIN frames : AtWork(frames[i], found, all, r, t)
  <2>1. PICK i \in DOMAIN frames : AtWork(frames[i], found, all, r, t)
    BY <1>3
  <2>2. SameNames(frames[i], r) /\ (t \in frames[i].todo \/ Accounted(found, all, Waiting(frames[i])))
    BY <2>1 DEF AtWork
  <2>3. CASE t \notin frames[i].todo /\ Waiting(frames[i]) = {}
    <3>1. Accounted(found, all, {})
      BY <2>2, <2>3
    <3> QED BY <1>1, <3>1
  <2>4. CASE \E k \in DOMAIN rest :
               /\ SameNames(rest[k], r)
               /\ t \in frames[i].todo => t \in rest[k].todo
               /\ \A item \in Waiting(frames[i]) : item \in Waiting(rest[k]) \/ Told(new, item[2])
    <3>1. PICK k \in DOMAIN rest :
               /\ SameNames(rest[k], r)
               /\ t \in frames[i].todo => t \in rest[k].todo
               /\ \A item \in Waiting(frames[i]) : item \in Waiting(rest[k]) \/ Told(new, item[2])
      BY <2>4
    <3>2. Accounted(found, all, Waiting(frames[i])) => Accounted(found, new, Waiting(rest[k]))
      BY <3>1, AccountedStays
    <3> QED BY <2>2, <3>1, <3>2 DEF Pending, AtWork
  <2> QED BY <2>2, <2>3, <2>4
<1> QED BY <1>1, <1>2, <1>3 DEF Pending

\* A frame of the same resource takes the place of the top one, and what
\* waited in it waits or is told of.
LEMMA PendingReplaced ==
    ASSUME TypeOK, Searching, NEW f, SameNames(f, Top), NEW rest, rest = [stack EXCEPT ![Len(stack)] = f],
           NEW all, NEW new, \A d : Told(all, d) => Told(new, d),
           \A item \in Waiting(Top) : item \in Waiting(f) \/ Told(new, item[2]),
           NEW r, NEW t, SameNames(Top, r) /\ t \in Top.todo => t \in f.todo,
           \A item \in Top.unseen : item \in f.unseen \/ ~SameNames(item[2], r),
           NEW found, Pending(found, stack, all, r, t)
    PROVE  Pending(found, rest, new, r, t)
<1>1. /\ DOMAIN rest = DOMAIN stack /\ Len(stack) \in DOMAIN stack
      /\ \A i \in DOMAIN stack : rest[i] = IF i = Len(stack) THEN f ELSE stack[i]
  BY TopFrame
<1>2. ASSUME NEW i \in DOMAIN stack, SameNames(stack[i], r)
      PROVE  /\ SameNames(rest[i], r)
             /\ t \in stack[i].todo => t \in rest[i].todo
             /\ \A item \in Waiting(stack[i]) : item \in Waiting(rest[i]) \/ Told(new, item[2])
  <2>1. CASE i = Len(stack)
    <3>1. stack[i] = Top /\ rest[i] = f
      BY <1>1, <2>1 DEF Top
    <3> QED BY <1>2, <3>1 DEF SameNames
  <2>2. CASE i # Len(stack)
    BY <1>1, <1>2, <2>2
  <2> QED BY <2>1, <2>2
<1>3. Awaits(stack, r) => Awaits(rest, r)
  <2> SUFFICES ASSUME NEW i \in DOMAIN stack, NEW item \in stack[i].unseen, SameNames(item[2], r)
               PROVE  item \in rest[i].unseen
    BY <1>1 DEF Awaits
  <2> QED BY <1>1 DEF Top
<1> QED BY <1>1, <1>2, <1>3, PendingStays

\* A connection is added to the result.
LEMMA TotalRelated ==
    ASSUME Unambiguous, NEW frames, NEW visits, NEW all \in Seq(Connection), Related(frames, all, visits),
           NEW c \in Connection, IsFindable(c), NEW new, new = AppendConnections(all, c)
    PROVE  /\ Told(new, c) /\ \A d : Told(all, d) => Told(new, d)
           /\ \A i \in DOMAIN new : IsFindable(new[i])
           /\ \A i \in DOMAIN new : Settled(visits, new[i]) \/ new[i] = c
<1>1. \A i \in DOMAIN all : IsFindable(all[i]) /\ Settled(visits, all[i])
  BY DEF Related
<1>2. \A i \in DOMAIN new : new[i] = c \/ \E j \in DOMAIN all : new[i] = all[j]
  BY AppendConnectionsParts
<1>3. \A d : Told(all, d) => Told(new, d)
  BY ToldStays
<1>4. ASSUME NEW j \in DOMAIN all, compareConnectionsRelType(all[j], c)
      PROVE  all[j].peer.kind = c.peer.kind
  <2>1. PICK x \in Findable : Alike(all[j], x)
    BY <1>1 DEF IsFindable
  <2>2. PICK y \in Findable : Alike(c, y)
    BY DEF IsFindable
  <2>3. SameNames(x, y) /\ x.relType = y.relType /\ x.peer.name = y.peer.name
    BY <1>4, <2>1, <2>2 DEF Alike, SameNames, compareConnectionsRelType, compareConnections
  <2>4. x.peer.kind = y.peer.kind
    BY <2>3 DEF Unambiguous
  <2> QED BY <2>1, <2>2, <2>4 DEF Alike
<1>5. Told(new, c)
  BY <1>4, NowTold
<1> QED BY <1>1, <1>2, <1>3, <1>5

\* Everything is related, but c has still to be searched.
RelatedBut(frames, all, visits, c) ==
    /\ \A i \in DOMAIN frames : \A item \in Waiting(frames[i]) : IsFindable(item[2])
    /\ \A i \in DOMAIN all : IsFindable(all[i])
    /\ \A i \in DOMAIN frames : \A item \in frames[i].seen : IsVisited(visits, item[2])
    /\ \A i \in DOMAIN all : Settled(visits, all[i]) \/ SameNames(all[i], c)
    /\ \A r : IsVisited(visits, r) /\ ~checkIgnored(r.kind, r.name) /\ ~SameNames(c, r) =>
          \A t \in Tasks(r.kind) : Pending(Batches(From(r), t), frames, all, r, t)

\* Calling GetRelatives for c.
LEMMA GetRelativesRelated ==
    ASSUME visited \in Seq(Visit), VisitedUnique, NEW below \in Seq(FrameType), NEW all,
           NEW level \in Nat, NEW kind \in STRING, NEW name \in STRING, NEW namespace \in STRING,
           NEW c, c.kind = kind, c.name = name, RelatedBut(below, all, visited, c),
           GetRelatives(below, level, kind, name, namespace)
    PROVE  Related(stack', all, visited')
<1> DEFINE ns == IF kind = "Namespace" THEN name ELSE namespace
           f == Frame(level, kind, name, ns)
           v == [level |-> level, kind |-> kind, name |-> name, namespace |-> ns]
<1>1. CASE checkIgnored(kind, name)
  <2>1. stack' = below /\ visited' = visited
    BY <1>1 DEF GetRelatives
  <2>2. \A i \in DOMAIN all : Settled(visited, all[i])
    BY <1>1 DEF RelatedBut, Settled, SameNames
  <2>3. Searched(below, all, visited)
    <3>1. \A r : SameNames(c, r) => checkIgnored(r.kind, r.name)
      BY <1>1 DEF SameNames
    <3> QED BY <3>1 DEF RelatedBut, Searched
  <2>4. Related(below, all, visited)
    BY <2>2, <2>3, SearchedOrPending DEF RelatedBut, Related
  <2> QED BY <2>1, <2>4
<1>2. CASE ~checkIgnored(kind, name)
  <2>1. visited' = appendConnections1(visited, v) /\ stack' = Append(below, f)
    BY <1>2 DEF GetRelatives
  <2>2. v \in Visit /\ SameNames(v, c)
    BY DEF Visit, SameNames
  <2>3. SameNames(f, c) /\ f.unseen = {} /\ f.seen = {} /\ f.todo = Tasks(c.kind)
    BY DEF Frame, SameNames
  <2> HIDE DEF f, v, ns
  <2>4. \A r : IsVisited(visited', r) <=> IsVisited(visited, r) \/ SameNames(v, r)
    BY <2>1, <2>2, VisitedNow
  <2>5. /\ DOMAIN stack' = 1 .. Len(below) + 1 /\ DOMAIN below = 1 .. Len(below) /\ Len(below) \in Nat
        /\ stack'[Len(below) + 1] = f /\ \A i \in DOMAIN below : stack'[i] = below[i]
    BY <2>1, AppendProperties, LenProperties
  <2>6. /\ \A i \in DOMAIN stack' : i \in DOMAIN below \/ stack'[i] = f
        /\ \A i \in DOMAIN below : i \in DOMAIN stack'
        /\ Len(below) + 1 \in DOMAIN stack'
    BY <2>5
  <2>7. \A i \in DOMAIN stack' : \A item \in Waiting(stack'[i]) : IsFindable(item[2])
    BY <2>3, <2>5, <2>6 DEF RelatedBut, Waiting
  <2>8. \A i \in DOMAIN stack' : \A item \in stack'[i].seen : IsVisited(visited', item[2])
    BY <2>3, <2>4, <2>5, <2>6 DEF RelatedBut
  <2>9. \A i \in DOMAIN all : Settled(visited', all[i])
    <3>1. \A r : SameNames(r, c) => IsVisited(visited', r)
      BY <2>2, <2>4 DEF SameNames
    <3> QED BY <2>4, <3>1 DEF RelatedBut, Settled
  <2>10. ASSUME NEW r, IsVisited(visited', r), ~checkIgnored(r.kind, r.name), NEW t \in Tasks(r.kind)
         PROVE  Pending(Batches(From(r), t), stack', all, r, t)
    <3>1. CASE SameNames(c, r)
      <4>1. SameNames(f, r) /\ t \in f.todo
        BY <2>3, <3>1 DEF SameNames
      <4> QED BY <2>5, <2>6, <4>1 DEF Pending, AtWork
    <3>2. CASE ~SameNames(c, r)
      <4>1. IsVisited(visited, r)
        BY <2>2, <2>4, <2>10, <3>2 DEF SameNames
      <4>2. Pending(Batches(From(r), t), below, all, r, t)
        BY <2>10, <3>2, <4>1 DEF RelatedBut
      <4>3. Awaits(below, r) => Awaits(stack', r)
        BY <2>5, <2>6 DEF Awaits
      <4>4. \A i \in DOMAIN below : SameNames(below[i], r) =>
               \E k \in DOMAIN stack' :
                  /\ SameNames(stack'[k], r)
                  /\ t \in below[i].todo => t \in stack'[k].todo
                  /\ \A item \in Waiting(below[i]) : item \in Waiting(stack'[k]) \/ Told(all, item[2])
        BY <2>5, <2>6
      <4> QED BY <4>2, <4>3, <4>4, PendingStays
    <3> QED BY <3>1, <3>2
  <2>11. Searched(stack', all, visited')
    BY <2>10 DEF Searched
  <2> QED BY <2>7, <2>8, <2>9, <2>11, SearchedOrPending DEF RelatedBut, Related
<1> QED BY <1>1, <1>2

LEMMA InitRelations == Init => RelationsInv
<1> SUFFICES ASSUME Init PROVE RelationsInv
  OBVIOUS
<1>1. total = <<>> /\ stack = <<>> /\ visited = <<>>
  BY DEF Init
<1>2. DOMAIN stack = {} /\ DOMAIN total = {} /\ DOMAIN visited = {}
  BY <1>1
<1> QED BY <1>2 DEF RelationsInv, Related

\* What a step leaves alone keeps its meaning.
LEMMA RelatedKept ==
    ASSUME UNCHANGED <<objs, input, ignore>>, SearchesWithin, SearchesWithin', Related(stack', total', visited')
    PROVE  Related(stack, total, visited)'
<1>1. /\ \A c : IsFindable(c)' = IsFindable(c)
      /\ \A r, t : Batches(From(r), t)' = Batches(From(r), t)
  BY FindableKept
<1>2. \A kind, name : checkIgnored(kind, name)' = checkIgnored(kind, name)
  BY DEF checkIgnored
<1>3. \A visits, r : Settled(visits, r)' = Settled(visits, r)
  BY <1>2 DEF Settled
<1> QED BY <1>1, <1>2, <1>3 DEF Related

LEMMA RelationsStep ==
    InductiveInv /\ ReportedInv /\ WithinInv /\ RelationsInv /\ [Next]_vars => RelationsInv'
<1> SUFFICES ASSUME InductiveInv, ReportedInv, WithinInv, RelationsInv, [Next]_vars, faults' = 0, Unambiguous'
             PROVE  Related(stack, total, visited)'
  BY DEF RelationsInv
<1>1. /\ faults = 0 /\ ~SearchFails /\ UNCHANGED <<objs, input, ignore>>
      /\ Context /\ TypeOK /\ total \in Seq(Connection) /\ visited \in Seq(Visit) /\ stack \in Seq(FrameType)
      /\ VisitedUnique /\ PeersWait(stack) /\ (phase # "search" => stack = <<>>)
  BY Undisturbed DEF ReportedInv, InductiveInv
<1>2. OneNamespace /\ OneNamespace'
  BY <1>1, NamedKept DEF Unambiguous
<1>3. /\ SearchesWithin /\ SearchesWithin'
      /\ \A i \in DOMAIN stack : Stays(stack[i])
  <2>1. WithinInv'
    BY WithinStep
  <2> QED BY <1>1, <1>2, <2>1 DEF WithinInv
<1>4. Unambiguous
  BY <1>1, <1>3, FindableKept
<1>5. Related(stack, total, visited)
  BY <1>1, <1>4 DEF RelationsInv
<1>6. Searched(stack, total, visited)
  BY <1>5, SearchedOrPending DEF Related
<1> SUFFICES Related(stack', total', visited')
  BY <1>1, <1>3, RelatedKept
<1>7. ASSUME Searching
      PROVE  /\ Top \in FrameType /\ Len(stack) \in DOMAIN stack /\ Top = stack[Len(stack)] /\ Stays(Top)
             /\ \A item \in Waiting(Top) : IsFindable(item[2])
             /\ \A item \in Top.seen : IsVisited(visited, item[2])
  <2>1. Len(stack) \in DOMAIN stack /\ Top = stack[Len(stack)]
    BY <1>1, <1>7, TopFrame DEF Top
  <2> QED BY <1>1, <1>3, <1>5, <1>7, <2>1, TopType DEF Related
\* Another frame at the top: what it has, the others have.
<1>8. ASSUME Searching, NEW f, NEW rest, rest = [stack EXCEPT ![Len(stack)] = f],
             \A item \in Waiting(f) : IsFindable(item[2]), \A item \in f.seen : IsVisited(visited, item[2])
      PROVE  /\ \A i \in DOMAIN rest : \A item \in Waiting(rest[i]) : IsFindable(item[2])
             /\ \A i \in DOMAIN rest : \A item \in rest[i].seen : IsVisited(visited, item[2])
  <2>1. /\ DOMAIN rest = DOMAIN stack
        /\ \A i \in DOMAIN stack : rest[i] = IF i = Len(stack) THEN f ELSE stack[i]
    BY <1>1, <1>8, TopFrame
  <2> QED BY <1>5, <1>8, <2>1 DEF Related
<1>9. CASE Start
  <2>1. Root \in Connection /\ Root.kind = input.kind /\ Root.name = input.name
    <3>1. input.kind \in STRING /\ input.name \in STRING /\ input.namespace \in STRING
      BY <1>1 DEF TypeOK, Resource
    <3> QED BY <3>1, LiteralsAssumption DEF Root, Connection, NoPeer, Resource
  <2>2. IsFindable(Root)
    <3>1. Root \in Findable
      BY DEF Findable
    <3> QED BY <3>1 DEF IsFindable, Alike
  <2>3. total' = AppendConnections(total, Root) /\ stack = <<>>
        /\ GetRelatives(<<>>, 1, input.kind, input.name, input.namespace)
    <3>1. phase = "start"
      BY <1>9 DEF Start
    <3>2. stack = <<>>
      BY <1>1, <3>1
    <3> QED BY <1>9, <3>2 DEF Start
  <2>4. /\ \A d : Told(total, d) => Told(total', d)
        /\ \A i \in DOMAIN total' : IsFindable(total'[i])
        /\ \A i \in DOMAIN total' : Settled(visited, total'[i]) \/ total'[i] = Root
    BY <1>1, <1>4, <1>5, <2>1, <2>2, <2>3, TotalRelated
  <2>5. DOMAIN stack = {} /\ stack \in Seq(FrameType)
    BY <2>3
  <2>6. RelatedBut(stack, total', visited, Root)
    <3>1. \A i \in DOMAIN total' : Settled(visited, total'[i]) \/ SameNames(total'[i], Root)
      BY <2>4 DEF SameNames
    <3>2. ASSUME NEW r, IsVisited(visited, r), ~checkIgnored(r.kind, r.name), NEW t \in Tasks(r.kind)
          PROVE  Pending(Batches(From(r), t), stack, total', r, t)
      <4>1. Pending(Batches(From(r), t), stack, total, r, t)
        BY <1>6, <3>2 DEF Searched
      <4> QED BY <2>4, <2>5, <4>1, PendingStays
    <3> QED BY <2>4, <2>5, <3>1, <3>2 DEF RelatedBut
  <2>7. input.kind \in STRING /\ input.name \in STRING /\ input.namespace \in STRING /\ 1 \in Nat
    BY <1>1 DEF TypeOK, Resource
  <2>8. GetRelatives(stack, 1, input.kind, input.name, input.namespace)
    BY <2>3
  <2> HIDE DEF Root
  <2> QED BY <1>1, <2>1, <2>5, <2>6, <2>7, <2>8, GetRelativesRelated
<1>10. CASE SearchTask
  <2>1. PICK t, batch : t \in NextTasks(Top) /\ batch \in Batches(Top, t) /\ Search(t, batch)
    BY <1>10 DEF SearchTask
  <2>2. Searching /\ Waiting(Top) = {} /\ UNCHANGED <<total, visited>>
    BY <1>10 DEF SearchTask, BetweenTasks, Waiting
  <2> DEFINE seen == filterConnections(visited, batch)
             peers == IF t.stage \in {Downstream, Upstream} THEN batch ELSE {}
             f == [Top EXCEPT !.todo = Top.todo \ {t}, !.src = t.src, !.peers = peers,
                              !.unseen = batch \ seen, !.seen = seen]
  <2>3. stack' = [stack EXCEPT ![Len(stack)] = f]
    BY <2>1 DEF Search
  <2>4. /\ f.kind = Top.kind /\ f.name = Top.name /\ Waiting(f) = batch
        /\ f.todo = Top.todo \ {t} /\ f.seen = seen
    BY <1>7, <2>2 DEF FrameType, Waiting, filterConnections
  <2>5. \A item \in seen : IsVisited(visited, item[2])
    BY DEF filterConnections, IsVisited, SameNames, compareConnections
  <2> HIDE DEF f, seen, peers
  <2>6. t \in Tasks(Top.kind) /\ Top.ns = input.namespace
    BY <1>7, <2>1, <2>2 DEF NextTasks, Stays
  <2>7. \A item \in Waiting(f) : IsFindable(item[2])
    <3>1. PICK r \in Named : SameNames(Top, r)
      BY <1>7, <2>2 DEF Stays
    <3>2. \A item \in batch : IsFindable(item[2])
      BY <2>1, <2>6, <3>1, BatchFindable
    <3> QED BY <2>4, <3>2
  <2>8. /\ \A i \in DOMAIN stack' : \A item \in Waiting(stack'[i]) : IsFindable(item[2])
        /\ \A i \in DOMAIN stack' : \A item \in stack'[i].seen : IsVisited(visited, item[2])
    BY <1>8, <2>2, <2>3, <2>4, <2>5, <2>7
  <2>9. ASSUME NEW r, IsVisited(visited, r), ~checkIgnored(r.kind, r.name), NEW u \in Tasks(r.kind)
        PROVE  Pending(Batches(From(r), u), stack', total, r, u)
    <3>1. CASE SameNames(Top, r) /\ u = t
      <4>1. SameNames(Top, From(r)) /\ Top.ns = From(r).ns
        BY <2>6, <3>1 DEF From, SameNames
      <4>2. PICK other \in Batches(From(r), t) : BatchesMatch(batch, other)
        BY <2>1, <4>1, BatchAtAnyLevel
      <4>3. Accounted(Batches(From(r), u), total, Waiting(f))
        BY <2>4, <3>1, <4>2 DEF Accounted, BatchesMatch
      <4>4. SameNames(f, r)
        BY <2>4, <3>1 DEF SameNames
      <4>5. Len(stack) \in DOMAIN stack' /\ stack'[Len(stack)] = f
        BY <1>1, <2>2, <2>3, TopFrame
      <4> QED BY <4>3, <4>4, <4>5 DEF Pending, AtWork
    <3>2. CASE ~(SameNames(Top, r) /\ u = t)
      <4>1. Pending(Batches(From(r), u), stack, total, r, u)
        BY <1>6, <2>9 DEF Searched
      <4>2. SameNames(f, Top)
        BY <2>4 DEF SameNames
      <4>3. SameNames(Top, r) /\ u \in Top.todo => u \in f.todo
        BY <2>4, <3>2
      <4>4. \A item \in Waiting(Top) : item \in Waiting(f) \/ Told(total, item[2])
        BY <2>2
      <4>5. \A item \in Top.unseen : item \in f.unseen \/ ~SameNames(item[2], r)
        BY <2>2 DEF Waiting
      <4> QED BY <1>1, <2>2, <2>3, <4>1, <4>2, <4>3, <4>4, <4>5, PendingReplaced
    <3> QED BY <3>1, <3>2
  <2>10. Searched(stack', total, visited)
    BY <2>9 DEF Searched
  <2>11. Related(stack', total, visited)
    BY <1>5, <2>8, <2>10, SearchedOrPending DEF Related
  <2> QED BY <2>2, <2>11
<1>11. CASE AddPeer
  <2> DEFINE item == Foremost(Top.peers)
             c == [level |-> item[2].level, kind |-> item[2].kind, name |-> item[2].name,
                   namespace |-> item[2].namespace]
             f == [Top EXCEPT !.peers = Top.peers \ {item}]
  <2>1. Searching /\ UNCHANGED total /\ stack' = [stack EXCEPT ![Len(stack)] = f]
        /\ visited' = appendConnections1(visited, c)
    BY <1>11 DEF AddPeer, Top
  <2>2. item \in Top.peers /\ item \in Item
    BY <1>7, <1>11, <2>1, ForemostProperty DEF AddPeer, FrameType
  <2>3. item \in Top.unseen \/ item \in Top.seen
    BY <1>1, <1>7, <2>1, <2>2 DEF PeersWait, Waiting
  <2>4. c \in Visit /\ c.kind = item[2].kind /\ c.name = item[2].name
    BY <2>2 DEF Item, Connection, Visit
  <2>5. /\ SameNames(f, Top) /\ Waiting(f) = Waiting(Top) /\ f.todo = Top.todo
        /\ f.unseen = Top.unseen /\ f.seen = Top.seen
    BY <1>7, <2>1 DEF FrameType, Waiting, SameNames
  <2> HIDE DEF item, c, f
  <2>6. \A r : IsVisited(visited', r) <=> IsVisited(visited, r) \/ SameNames(c, r)
    BY <1>1, <2>1, <2>4, VisitedNow
  <2>7. /\ \A i \in DOMAIN stack' : \A other \in Waiting(stack'[i]) : IsFindable(other[2])
        /\ \A i \in DOMAIN stack' : \A other \in stack'[i].seen : IsVisited(visited, other[2])
    BY <1>7, <1>8, <2>1, <2>5
  <2>8. \A i \in DOMAIN total : Settled(visited', total[i])
    BY <1>5, <2>6 DEF Related, Settled
  <2>9. ASSUME NEW r, IsVisited(visited', r), ~checkIgnored(r.kind, r.name), NEW t \in Tasks(r.kind)
        PROVE  Pending(Batches(From(r), t), stack', total, r, t)
    <3>1. CASE IsVisited(visited, r)
      <4>1. Pending(Batches(From(r), t), stack, total, r, t)
        BY <1>6, <2>9, <3>1 DEF Searched
      <4>2. /\ SameNames(Top, r) /\ t \in Top.todo => t \in f.todo
            /\ \A other \in Waiting(Top) : other \in Waiting(f) \/ Told(total, other[2])
            /\ \A other \in Top.unseen : other \in f.unseen \/ ~SameNames(other[2], r)
        BY <2>5
      <4> QED BY <1>1, <2>1, <2>5, <4>1, <4>2, PendingReplaced
    <3>2. CASE ~IsVisited(visited, r)
      <4>1. SameNames(item[2], r)
        BY <2>4, <2>6, <2>9, <3>2 DEF SameNames
      <4>2. item \notin Top.seen
        BY <1>7, <2>1, <3>2, <4>1 DEF IsVisited, SameNames
      <4>3. item \in f.unseen
        BY <2>3, <2>5, <4>2
      <4>4. Len(stack) \in DOMAIN stack' /\ stack'[Len(stack)] = f
        BY <1>1, <2>1, TopFrame
      <4> QED BY <4>1, <4>3, <4>4 DEF Pending, Awaits
    <3> QED BY <3>1, <3>2
  <2>10. Searched(stack', total, visited')
    BY <2>9 DEF Searched
  <2>11. \A i \in DOMAIN stack' : \A other \in stack'[i].seen : IsVisited(visited', other[2])
    BY <2>6, <2>7
  <2>12. Related(stack', total, visited')
    BY <1>5, <2>7, <2>8, <2>10, <2>11, SearchedOrPending DEF Related
  <2> QED BY <2>1, <2>12
<1>12. CASE Descend
  <2> DEFINE item == Foremost(Top.unseen)
             f == [Top EXCEPT !.unseen = Top.unseen \ {item}]
             below == [stack EXCEPT ![Len(stack)] = f]
  <2>1. Searching
    BY <1>12 DEF Descend
  <2>2. item \in Item /\ item \in Waiting(Top)
    BY <1>7, <1>12, <2>1, ForemostProperty DEF Descend, FrameType, Waiting
  <2>3. /\ item[2] \in Connection /\ IsFindable(item[2])
        /\ item[2].kind \in STRING /\ item[2].name \in STRING
    BY <1>7, <2>1, <2>2 DEF Item, Connection
  <2>4. /\ f \in FrameType /\ SameNames(f, Top) /\ f.todo = Top.todo /\ f.seen = Top.seen
        /\ f.unseen = Top.unseen \ {item}
    BY <1>7, <2>1 DEF FrameType, SameNames
  <2>5. /\ total' = AppendConnections(total, item[2])
        /\ GetRelatives(below, Top.level + 1, item[2].kind, item[2].name, RhsNamespace(Top))
    BY <1>12 DEF Descend, Top
  <2>6. Top.level + 1 \in Nat /\ RhsNamespace(Top) \in STRING
    <3>1. Top.level \in Nat /\ Top.ns \in STRING /\ nsSearch \in STRING
      BY <1>1, <1>7, <2>1 DEF FrameType, TypeOK
    <3>2. \A n \in Nat : n + 1 \in Nat
      OBVIOUS
    <3> QED BY <3>1, <3>2 DEF RhsNamespace
  <2> HIDE DEF item, f
  <2>7. below \in Seq(FrameType)
    BY <1>1, <2>1, <2>4, TopType
  <2>8. below = [stack EXCEPT ![Len(stack)] = f]
    OBVIOUS
  <2> HIDE DEF below
  <2>9. /\ Told(total', item[2]) /\ \A d : Told(total, d) => Told(total', d)
        /\ \A i \in DOMAIN total' : IsFindable(total'[i])
        /\ \A i \in DOMAIN total' : Settled(visited, total'[i]) \/ total'[i] = item[2]
    BY <1>1, <1>4, <1>5, <2>3, <2>5, TotalRelated
  <2>10. Waiting(f) \subseteq Waiting(Top) /\ \A other \in Waiting(Top) : other \in Waiting(f) \/ other = item
    BY <2>4 DEF Waiting
  <2>11. /\ \A i \in DOMAIN below : \A other \in Waiting(below[i]) : IsFindable(other[2])
         /\ \A i \in DOMAIN below : \A other \in below[i].seen : IsVisited(visited, other[2])
    <3>1. /\ \A other \in Waiting(f) : IsFindable(other[2])
          /\ \A other \in f.seen : IsVisited(visited, other[2])
      BY <1>7, <2>1, <2>4, <2>10
    <3> QED BY <1>8, <2>1, <2>8, <3>1
  <2>12. ASSUME NEW r, IsVisited(visited, r), ~checkIgnored(r.kind, r.name), ~SameNames(item[2], r),
                NEW t \in Tasks(r.kind)
         PROVE  Pending(Batches(From(r), t), below, total', r, t)
    <3>1. Pending(Batches(From(r), t), stack, total, r, t)
      BY <1>6, <2>12 DEF Searched
    <3>2. SameNames(Top, r) /\ t \in Top.todo => t \in f.todo
      BY <2>4
    <3>3. \A other \in Waiting(Top) : other \in Waiting(f) \/ Told(total', other[2])
      BY <2>9, <2>10
    <3>4. \A other \in Top.unseen : other \in f.unseen \/ ~SameNames(other[2], r)
      BY <2>4, <2>12
    <3> QED BY <1>1, <2>1, <2>4, <2>8, <2>9, <3>1, <3>2, <3>3, <3>4, PendingReplaced
  <2>13. RelatedBut(below, total', visited, item[2])
    <3>1. \A i \in DOMAIN total' : Settled(visited, total'[i]) \/ SameNames(total'[i], item[2])
      BY <2>9 DEF SameNames
    <3> QED BY <2>9, <2>11, <2>12, <3>1 DEF RelatedBut
  <2> QED BY <1>1, <2>3, <2>5, <2>6, <2>7, <2>13, GetRelativesRelated
<1>13. CASE AppendSeen
  <2> DEFINE item == Foremost(Top.seen)
             f == [Top EXCEPT !.seen = Top.seen \ {item}]
  <2>1. Searching /\ UNCHANGED visited /\ stack' = [stack EXCEPT ![Len(stack)] = f]
        /\ total' = AppendConnections(total, item[2])
    BY <1>13 DEF AppendSeen, Top
  <2>2. item \in Item /\ item \in Waiting(Top) /\ item \in Top.seen
    BY <1>7, <1>13, <2>1, ForemostProperty DEF AppendSeen, FrameType, Waiting
  <2>3. item[2] \in Connection /\ IsFindable(item[2]) /\ IsVisited(visited, item[2])
    BY <1>7, <2>1, <2>2 DEF Item
  <2>4. /\ SameNames(f, Top) /\ f.todo = Top.todo /\ f.unseen = Top.unseen
        /\ f.seen = Top.seen \ {item}
    BY <1>7, <2>1 DEF FrameType, SameNames
  <2> HIDE DEF item, f
  <2>5. /\ Told(total', item[2]) /\ \A d : Told(total, d) => Told(total', d)
        /\ \A i \in DOMAIN total' : IsFindable(total'[i])
        /\ \A i \in DOMAIN total' : Settled(visited, total'[i]) \/ total'[i] = item[2]
    BY <1>1, <1>4, <1>5, <2>1, <2>3, TotalRelated
  <2>6. Waiting(f) \subseteq Waiting(Top) /\ \A other \in Waiting(Top) : other \in Waiting(f) \/ other = item
    BY <2>4 DEF Waiting
  <2>7. /\ \A i \in DOMAIN stack' : \A other \in Waiting(stack'[i]) : IsFindable(other[2])
        /\ \A i \in DOMAIN stack' : \A other \in stack'[i].seen : IsVisited(visited, other[2])
    <3>1. /\ \A other \in Waiting(f) : IsFindable(other[2])
          /\ \A other \in f.seen : IsVisited(visited, other[2])
      BY <1>7, <2>1, <2>4, <2>6
    <3> QED BY <1>8, <2>1, <3>1
  <2>8. ASSUME NEW r, IsVisited(visited, r), ~checkIgnored(r.kind, r.name), NEW t \in Tasks(r.kind)
        PROVE  Pending(Batches(From(r), t), stack', total', r, t)
    <3>1. Pending(Batches(From(r), t), stack, total, r, t)
      BY <1>6, <2>8 DEF Searched
    <3>2. SameNames(Top, r) /\ t \in Top.todo => t \in f.todo
      BY <2>4
    <3>3. \A other \in Waiting(Top) : other \in Waiting(f) \/ Told(total', other[2])
      BY <2>5, <2>6
    <3>4. \A other \in Top.unseen : other \in f.unseen \/ ~SameNames(other[2], r)
      BY <2>4
    <3>5. /\ TypeOK /\ Searching /\ stack' = [stack EXCEPT ![Len(stack)] = f] /\ SameNames(f, Top)
          /\ \A d : Told(total, d) => Told(total', d)
      BY <1>1, <2>1, <2>4, <2>5
    <3> QED BY <3>1, <3>2, <3>3, <3>4, <3>5, PendingReplaced
  <2>9. Searched(stack', total', visited)
    BY <2>8 DEF Searched
  <2>10. \A i \in DOMAIN total' : Settled(visited, total'[i])
    BY <2>3, <2>5 DEF Settled
  <2>11. Related(stack', total', visited)
    BY <2>5, <2>7, <2>9, <2>10, SearchedOrPending DEF Related
  <2> QED BY <2>1, <2>11
<1>14. CASE Return
  <2>1. Searching /\ Top.todo = {} /\ Waiting(Top) = {} /\ Top.unseen = {} /\ UNCHANGED <<total, visited>>
    BY <1>14 DEF Return, BetweenTasks, Waiting
  <2>2. /\ DOMAIN stack' \subseteq DOMAIN stack
        /\ \A i \in DOMAIN stack' : stack'[i] = stack[i]
        /\ \A i \in DOMAIN stack : i \in DOMAIN stack' \/ stack[i] = Top
    BY <1>1, <1>14, TopPopped
  <2>3. ASSUME NEW r, IsVisited(visited, r), ~checkIgnored(r.kind, r.name), NEW t \in Tasks(r.kind)
        PROVE  Pending(Batches(From(r), t), stack', total, r, t)
    <3>1. Pending(Batches(From(r), t), stack, total, r, t)
      BY <1>6, <2>3 DEF Searched
    <3>2. Awaits(stack, r) => Awaits(stack', r)
      BY <2>1, <2>2 DEF Awaits
    <3>3. \A i \in DOMAIN stack : SameNames(stack[i], r) =>
             \/ t \notin stack[i].todo /\ Waiting(stack[i]) = {}
             \/ \E k \in DOMAIN stack' :
                   /\ SameNames(stack'[k], r)
                   /\ t \in stack[i].todo => t \in stack'[k].todo
                   /\ \A item \in Waiting(stack[i]) : item \in Waiting(stack'[k]) \/ Told(total, item[2])
      BY <2>1, <2>2
    <3> QED BY <3>1, <3>2, <3>3, PendingStays
  <2>4. Searched(stack', total, visited)
    BY <2>3 DEF Searched
  <2>5. Related(stack', total, visited)
    BY <1>5, <2>2, <2>4, SearchedOrPending DEF Related
  <2> QED BY <2>1, <2>5
<1>15. CASE NotFound \/ PrintRelatives \/ UNCHANGED vars
  <2>1. UNCHANGED <<stack, total, visited>>
    BY <1>15 DEF NotFound, PrintRelatives, vars
  <2> QED BY <1>5, <2>1
<1> QED BY <1>1, <1>9, <1>10, <1>11, <1>12, <1>13, <1>14, <1>15 DEF Next, Step, Terminated

\* No relation is missing from the result, if no search fails, the search
\* stays in one namespace and there are no namesakes: a connection dropped for
\* its reverse or as told already is told of, and a resource the visited list
\* cuts off is searched from where it was found first.
THEOREM RelationsAllReported == Spec => []RelationsReported
<1>1. InductiveInv /\ ReportedInv /\ WithinInv /\ RelationsInv => RelationsReported
  <2> SUFFICES ASSUME InductiveInv, ReportedInv, WithinInv, RelationsInv,
                      phase = "printed", faults = 0, Unambiguous
               PROVE  NoneMissing
    BY DEF RelationsReported
  <2>1. DOMAIN stack = {}
    BY DEF ReportedInv
  <2>2. Related(stack, total, visited) /\ \A i \in DOMAIN total : Within(total[i])
    BY DEF RelationsInv, WithinInv, Unambiguous
  <2>3. Searched(stack, total, visited)
    BY <2>2, SearchedOrPending DEF Related
  <2> SUFFICES ASSUME NEW v \in Range(total), ~checkIgnored(v.kind, v.name), NEW t \in Tasks(v.kind),
                      NEW item \in UNION Batches(Expanded(v), t),
                      \A b \in Batches(Expanded(v), t) : \E same \in b : same[2] = item[2]
               PROVE  \E c \in Range(total) :
                         \/ IsReverse(c, item[2])
                         \/ /\ c.kind = item[2].kind /\ c.name = item[2].name
                            /\ c.peer.kind = item[2].peer.kind
                            /\ c.peer.name = item[2].peer.name
    BY DEF NoneMissing
  <2>4. PICK i \in DOMAIN total : total[i] = v
    BY DEF Range
  <2>5. IsVisited(visited, v) /\ v.namespace = input.namespace
    BY <2>2, <2>4 DEF Related, Settled, Within
  <2>6. Pending(Batches(From(v), t), stack, total, v, t)
    BY <2>3, <2>5 DEF Searched
  <2>7. PICK batch \in Batches(From(v), t) : \A other \in batch : Told(total, other[2])
    BY <2>1, <2>6 DEF Pending, Awaits, Accounted
  <2>8. SameNames(From(v), Expanded(v)) /\ From(v).ns = Expanded(v).ns
    BY <2>5 DEF From, Expanded, SameNames
  <2>9. PICK found \in Batches(Expanded(v), t) : BatchesMatch(batch, found)
    BY <2>8, BatchAtAnyLevel
  <2>10. PICK same \in found : same[2] = item[2]
    OBVIOUS
  <2>11. PICK other \in batch : Alike(other[2], same[2])
    BY <2>9, <2>10 DEF BatchesMatch
  <2>12. Told(total, item[2])
    BY <2>7, <2>10, <2>11, ToldAlike
  <2>13. PICK k \in DOMAIN total :
            IsReverse(total[k], item[2]) \/ (SameNames(total[k], item[2]) /\ SameNames(total[k].peer, item[2].peer))
    BY <2>12 DEF Told
  <2>14. total[k] \in Range(total)
    BY DEF Range
  <2> QED BY <2>13, <2>14 DEF SameNames
<1> QED BY <1>1, Invariant, InitReported, ReportedStep, InitWithin, WithinStep, InitRelations, RelationsStep,
           PTL DEF Spec
=============================================================================
