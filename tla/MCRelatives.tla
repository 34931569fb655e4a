----------------------------- MODULE MCRelatives -----------------------------
(***************************************************************************)
(* Small clusters for the connections command.  The kinds and their        *)
(* relationships are those of pkg/discovery/types.go, cut down to the      *)
(* kinds the clusters use, and one custom resource kind, Moodle, with the  *)
(* relationships its CRD could be annotated with.                          *)
(***************************************************************************)
EXTENDS Relatives

Rel(relType, lhs, target) == [relType |-> relType, lhs |-> lhs, target |-> target]

MCKinds == {"Deployment", "ReplicaSet", "Pod", "Service", "Ingress", "PersistentVolumeClaim",
            "Namespace", "Moodle"}

MCRelationshipMap ==
    [k \in MCKinds |->
        CASE k = "Deployment" -> <<Rel("owner reference", "", "ReplicaSet")>>
          [] k = "ReplicaSet" -> <<Rel("owner reference", "", "Pod")>>
          [] k = "Pod"        -> <<Rel("envvariable", "env", "Service"),
                                   Rel("specproperty", "claimName", "PersistentVolumeClaim"),
                                   Rel("specproperty", "namespace", "Namespace")>>
          [] k = "Service"    -> <<Rel("label", "", "Pod")>>
          [] k = "Ingress"    -> <<Rel("specproperty", "name", "Service")>>
          [] k = "Moodle"     -> <<Rel("specproperty", "host", "Pod"), Rel("label", "", "Pod"),
                                   Rel("annotation", "release", "Namespace"),
                                   Rel("annotation", "release", "Service")>>
          [] OTHER            -> <<>>]

\* findChildKinds: the owner reference targets of Deployment and of
\* ReplicaSet, in either order, and of a StatefulSet, as in types.go.
MCChildKindLists ==
    {<<"ReplicaSet", "Pod", "ReplicaSet", "Pod">>, <<"Pod", "ReplicaSet", "Pod", "ReplicaSet">>}

Obj(kind, name, ns) ==
    [kind |-> kind, name |-> name, namespace |-> ns, labels |-> {}, selector |-> {}, fields |-> {},
     env |-> {}, annotations |-> {}, owners |-> <<>>, composed |-> <<>>]

Owner(kind, name) == <<[kind |-> kind, name |-> name]>>

\* A Deployment of two Pods behind a Service and an Ingress.  One Pod names
\* the Service in its environment, both use one claim.
WebApp ==
    LET app == {<<"app", "web">>}
        pod(n) == [Obj("Pod", n, "ns1") EXCEPT !.labels = app, !.fields = {<<"claimName", "data">>},
                                               !.owners = Owner("ReplicaSet", "rs")]
    IN  << Obj("Deployment", "dep", "ns1"),
           [Obj("ReplicaSet", "rs", "ns1") EXCEPT !.owners = Owner("Deployment", "dep")],
           [pod("p1") EXCEPT !.env = {"svc"}],
           pod("p2"),
           [Obj("Service", "svc", "ns1") EXCEPT !.selector = app],
           [Obj("Ingress", "ing", "ns1") EXCEPT !.fields = {<<"name", "svc">>, <<"name", "ing">>}],
           Obj("PersistentVolumeClaim", "data", "ns1"),
           Obj("Namespace", "ns1", "") >>

\* A Service and the Moodle instance of the same name it is annotated with.
\* Neither has a selector: their Pods are found by the name in their labels.
Twins ==
    << [Obj("Service", "m", "ns1") EXCEPT !.annotations = {<<"release", "m">>}],
       Obj("Moodle", "m", "ns1"),
       [Obj("Pod", "p1", "ns1") EXCEPT !.labels = {<<"app", "m">>}],
       [Obj("Pod", "p2", "ns1") EXCEPT !.labels = {<<"app", "m">>}] >>

\* A Moodle instance in ns1 that owns a Deployment there, and whose release
\* is in the namespace ns2 made for it.
Release ==
    << [Obj("Moodle", "m", "ns1") EXCEPT !.composed = <<2>>],
       [Obj("Deployment", "dep", "ns1") EXCEPT !.owners = Owner("Moodle", "m")],
       [Obj("ReplicaSet", "rs", "ns1") EXCEPT !.owners = Owner("Deployment", "dep")],
       [Obj("Pod", "p1", "ns1") EXCEPT !.labels = {<<"release", "m">>}, !.owners = Owner("Node", "n")],
       [Obj("Namespace", "ns2", "") EXCEPT !.annotations = {<<"release", "m">>}],
       [Obj("Service", "svc", "ns2") EXCEPT !.annotations = {<<"release", "m">>},
                                            !.selector = {<<"app", "web">>}],
       [Obj("Pod", "p2", "ns2") EXCEPT !.labels = {<<"app", "web">>}],
       Obj("Namespace", "ns1", "") >>

\* Every cluster of two Pods, a Service and a Moodle instance, over these
\* labels, variables, selectors and owners.  No two objects share a name.
Mixed ==
    { << [Obj("Pod", "p1", "ns1") EXCEPT !.labels = labels1, !.env = env1, !.owners = owners1],
         [Obj("Pod", "p2", "ns1") EXCEPT !.labels = labels2],
         [Obj("Service", "svc", "ns1") EXCEPT !.selector = selector,
                                              !.annotations = {<<"release", "m">>}],
         [Obj("Moodle", "m", "ns1") EXCEPT !.composed = IF owners1 = Owner("Moodle", "m")
                                                        THEN <<1>> ELSE <<>>] >> :
      labels1  \in SUBSET {<<"app", "web">>, <<"release", "m">>},
      labels2  \in {{}, {<<"app", "web">>}},
      env1     \in SUBSET {"svc", "m"},
      owners1  \in {<<>>, Owner("Moodle", "m"), Owner("Pod", "p2")},
      selector \in {{}, {<<"app", "web">>}} }

MCInput(kind, name, ns) == [kind |-> kind, name |-> name, namespace |-> ns]

MixedInputs == {MCInput("Pod", "p1", "ns1"), MCInput("Service", "svc", "ns1"), MCInput("Moodle", "m", "ns1")}

TwinClusters == {Twins}
TwinInputs == {MCInput("Service", "m", "ns1"), MCInput("Moodle", "m", "ns1")}

ReleaseInputs ==
    {MCInput("Moodle", "m", "ns1"), MCInput("Pod", "p2", "ns2"), MCInput("Service", "svc", "ns2")}

WebInputs == {MCInput(WebApp[i].kind, WebApp[i].name, "ns1") : i \in DOMAIN WebApp}
                \union {MCInput("Pod", "gone", "ns1")}

\* The application and the release, asked about from any of their resources.
WebAndReleaseClusters == {WebApp, Release}
WebAndReleaseInputs == WebInputs \union ReleaseInputs

MixedAndWebClusters == Mixed \union {WebApp}

NoIgnore == {{}}
SomeIgnore == {{}, {[kind |-> "Pod", name |-> "*"]}, {[kind |-> "Service", name |-> "svc"]}}
MCCrdKinds == {"Moodle"}
=============================================================================
