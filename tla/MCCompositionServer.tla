------------------------- MODULE MCCompositionServer -------------------------
(***************************************************************************)
(* Small instances of the composition server.                              *)
(***************************************************************************)
EXTENDS CompositionServer

CONSTANTS w1, w2

Ref(kind, name, ns) == [kind |-> kind, name |-> name, namespace |-> ns]

MCKinds == {"Moodle", "Mysql"}

\* Below the Moodle m two lists are made, the second only if the first one
\* succeeds; below the others one.
MCDeeper(o, found) ==
    \/ found = <<>>
    \/ o.kind = "Moodle" /\ o.name = "m" /\ Len(found) = 1 /\ found[1] # Missed

One == {w1}
Two == {w1, w2}

\* Three resources of different names, in two namespaces.
Distinct == {Ref("Moodle", "m", "ns1"), Ref("Mysql", "db", "ns1"), Ref("Moodle", "n", "default")}

\* Two resources of one name and one more.
SameName == {Ref("Moodle", "m", "ns1"), Ref("Mysql", "m", "ns1"), Ref("Moodle", "n", "ns1")}

\* Every resource, or all but one.
DistinctClusters == {c \in [Distinct -> {0, 1}] : Cardinality({o \in Distinct : c[o] = 0}) <= 1}
AllDistinct == {[o \in Distinct |-> 1]}
AllSameName == {[o \in SameName |-> 1]}

BothNamespaces == {Ref("Moodle", "*", "ns1"), Ref("Moodle", "n", "")}
OneNamespace == {Ref("Moodle", "*", "ns1"), Ref("Mysql", "m", "ns1")}
=============================================================================
