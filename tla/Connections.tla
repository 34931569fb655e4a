---------------------------- MODULE Connections ----------------------------
(***************************************************************************)
(* The connection lists of kubediscovery (pkg/discovery/utils.go): how two *)
(* connections are compared, how a connection enters the list of visited   *)
(* resources and how one enters the list that is printed.                  *)
(*                                                                         *)
(* A connection is a record                                                *)
(*   [level, kind, name, namespace, relType, peer]                         *)
(* whose peer is a record [kind, name, namespace].  The relation details   *)
(* and the unused Owner fields are text for the reader and are left out.   *)
(* As in Go, the empty string stands for "none".                           *)
(***************************************************************************)
EXTENDS Integers, Sequences, FiniteSetsExt, SequencesExt

\* The Peer of a connection that has none: all three names empty.
NoPeer == [kind |-> "", name |-> "", namespace |-> ""]

\* The same resource: kind, name and namespace.
compareConnections(c1, c2) ==
    /\ c1.kind = c2.kind
    /\ c1.name = c2.name
    /\ c1.namespace = c2.namespace

\* Mutant of compareConnectionsRelType: the peer is not compared.
compareWithoutPeer(c1, c2) == compareConnections(c1, c2) /\ c1.relType = c2.relType

\* The same relation: the same resource, relation type and peer NAME (the
\* peer's kind and namespace are not compared).
compareConnectionsRelType(c1, c2) ==
    /\ compareConnections(c1, c2)
    /\ c1.relType = c2.relType
    /\ c1.peer.name = c2.peer.name

\* c is the relation d seen from its other end (namespaces are not compared).
IsReverse(c, d) ==
    /\ c.kind = d.peer.kind
    /\ c.name = d.peer.name
    /\ c.peer.kind = d.kind
    /\ c.peer.name = d.name

Reverses(all, c) == {i \in DOMAIN all : IsReverse(all[i], c)}

\* Mutant of AppendConnections: a reverse entry is replaced at every level.
AppendConnectionsAnyLevel(all, c) ==
    LET R == Reverses(all, c)
    IN  IF R # {} THEN Append(RemoveAt(all, Min(R)), c)
        ELSE IF \E i \in DOMAIN all : compareConnectionsRelType(all[i], c)
             THEN all
             ELSE Append(all, c)

\* Mutant of AppendConnections: the reverse entries are not looked for.
AppendConnectionsOneWay(all, c) ==
    IF \E i \in DOMAIN all : compareConnectionsRelType(all[i], c) THEN all ELSE Append(all, c)

\* Adds c to the list that is printed.  A relation already there from its
\* other end is kept, unless c was found at level 1: then the first such entry
\* is dropped and c goes to the end.
AppendConnections(all, c) ==
    LET R == Reverses(all, c)
    IN  IF R # {}
        THEN IF c.level = 1 THEN Append(RemoveAt(all, Min(R)), c) ELSE all
        ELSE IF \E i \in DOMAIN all : compareConnectionsRelType(all[i], c)
             THEN all
             ELSE Append(all, c)

\* Mutant of appendConnections1: a shorter path is taken for another resource.
appendConnectionsPerLevel(all, c) ==
    IF \E i \in DOMAIN all : compareConnections(c, all[i]) /\ all[i].level <= c.level
    THEN all
    ELSE Append(all, c)

\* Mutant of appendConnections1: the levels are compared the wrong way round.
appendConnectionsLonger(all, c) ==
    LET P == {i \in DOMAIN all : compareConnections(c, all[i])}
    IN  IF P = {}
        THEN Append(all, c)
        ELSE IF all[Min(P)].level < c.level
             THEN [all EXCEPT ![Min(P)].level = c.level]
             ELSE all

\* Adds c to a list that holds a resource at most once, where a resource
\* found again by a shorter path takes the smaller level.  (The Go function
\* takes a list of connections and does this for each in turn.)
appendConnections1(all, c) ==
    LET P == {i \in DOMAIN all : compareConnections(c, all[i])}
    IN  IF P = {}
        THEN Append(all, c)
        ELSE IF all[Min(P)].level > c.level
             THEN [all EXCEPT ![Min(P)].level = c.level]
             ELSE all

\* The items <<index, connection>> of a batch whose resource is in the list;
\* the other items of the batch are the ones still to be searched.
filterConnections(all, batch) ==
    {item \in batch : \E j \in DOMAIN all : compareConnections(item[2], all[j])}
============================================================================
