-------------------------- MODULE MCCustomResources --------------------------
(***************************************************************************)
(* Small sets of CRDs: two custom resource kinds, one of them changing its *)
(* annotations; a CRD of the same kind and one of the same plural in other *)
(* groups; and one of the kind and plural of the built-in Service.  Secret  *)
(* and Ingress have their paths as types.go writes them.                   *)
(***************************************************************************)
EXTENDS CustomResources

MCBuiltinKinds ==
    [Deployment |-> [plural |-> "deployments", path |-> <<"apis", "apps", "v1">>, group |-> "apps",
                     composition |-> {"ReplicaSet"}, rels |-> <<<<"owner reference", 0>>>>],
     ReplicaSet |-> [plural |-> "replicasets", path |-> <<"apis", "apps", "v1">>, group |-> "apps",
                     composition |-> {"Pod"}, rels |-> <<<<"owner reference", 0>>>>],
     Service    |-> [plural |-> "services", path |-> <<"api", "v1">>, group |-> "",
                     composition |-> {}, rels |-> <<<<"label", 0>>>>],
     Secret     |-> [plural |-> "secrets", path |-> <<"v1">>, group |-> "",
                     composition |-> {}, rels |-> <<>>],
     Ingress    |-> [plural |-> "ingresses", path |-> <<"networking.k8s.io", "v1">>,
                     group |-> "networking.k8s.io", composition |-> {},
                     rels |-> <<<<"specproperty", 0>>>>]]

Place(namespace, name) == [namespace |-> namespace, name |-> name]

Moodle ==
    [name |-> "moodles.moodle.org", kind |-> "Moodle", plural |-> "moodles", group |-> "moodle.org",
     version |-> "v1", composition |-> {"Deployment", "Service"},
     rels |-> {<<"label", 0>>, <<"label", 1>>, <<"label", 2>>, <<"annotation", 1>>},
     usage |-> Place("", "manual")]

\* Its annotations changed.
MoodleNext ==
    [Moodle EXCEPT !.composition = {}, !.rels = {<<"label", 2>>, <<"specproperty", 1>>},
                   !.usage = Place("docs", "manual")]

MoodleNoDot == [Moodle EXCEPT !.usage = NoDot]

Mysql ==
    [name |-> "mysqls.mysql.org", kind |-> "Mysql", plural |-> "mysqls", group |-> "mysql.org",
     version |-> "v1", composition |-> {"StatefulSet"}, rels |-> {<<"label", 1>>}, usage |-> NoUsage]

OtherMoodle ==
    [Mysql EXCEPT !.name = "moodles.other.org", !.kind = "Moodle", !.plural = "moodles",
                  !.group = "other.org", !.usage = Place("docs", "manual")]

SamePlural == [OtherMoodle EXCEPT !.kind = "Moodler", !.usage = NoUsage]

OtherService == [Mysql EXCEPT !.name = "services.other.org", !.kind = "Service", !.plural = "services",
                              !.group = "other.org"]

NoMaps == [p \in {} |-> ""]
Manuals == [p \in {Place("ns1", "manual"), Place("docs", "manual")} |-> p.namespace]

MCCluster(crds, maps) == [crds |-> crds, configMaps |-> maps]

MCClusters ==
    {MCCluster({}, Manuals),
     MCCluster({Moodle, Mysql}, Manuals),
     MCCluster({MoodleNext, Mysql}, Manuals),
     MCCluster({MoodleNext, Mysql}, NoMaps),
     MCCluster({MoodleNoDot, OtherService}, Manuals),
     MCCluster({Moodle, OtherMoodle}, Manuals),
     MCCluster({SamePlural, Moodle, OtherService}, NoMaps)}

\* kind_compositions.yaml, cut down to two of its kinds.
RepositoryFile ==
    [Deployment |-> [plural |-> "deployments", composition |-> {"ReplicaSet"},
                     endpoint |-> <<"apis", "apps", "v1">>],
     ReplicaSet |-> [plural |-> "replicasets", composition |-> {"Pod"},
                     endpoint |-> <<"apis", "extensions", "v1beta1">>]]

RepositoryFiles == {RepositoryFile}
MCFiles == {NoFile, RepositoryFile}

Request(to, kind) == [to |-> to, kind |-> kind, namespace |-> "ns1"]

MCRequests ==
    {Request("composition", "Moodle"), Request("composition", "Service"), Request("man", "Moodle"),
     Request("details", "Moodle"), Request("details", "Service"), Request("details", "Ingress")}
=============================================================================
