-------------------------- MODULE MCCompositionTree --------------------------
(***************************************************************************)
(* Small clusters for the composition trees: a Moodle instance, the        *)
(* Service, the Deployment and the Pods it may own, ReplicaSets and their  *)
(* Pods, many combinations of owners.  The kinds below Deployment and      *)
(* ReplicaSet are those of pkg/discovery/types.go.                         *)
(***************************************************************************)
EXTENDS CompositionTree

Id2(kind, name) == [kind |-> kind, name |-> name]
Obj(kind, name, owners) == [kind |-> kind, name |-> name, owners |-> owners]

M == Id2("Moodle", "m")
D == Id2("Deployment", "d")
R1 == Id2("ReplicaSet", "r1")
R2 == Id2("ReplicaSet", "r2")

AnyCluster ==
    { << Obj("Moodle", "m", {}), Obj("Service", "s", {M}), Obj("Deployment", "d", deployment),
         Obj("ReplicaSet", "r1", {D}), Obj("ReplicaSet", "r2", replicas),
         Obj("Pod", "p1", pod1), Obj("Pod", "p2", pod2) >> :
      deployment \in {{}, {M}}, replicas \in {{}, {D}},
      pod1 \in {{}, {M}, {R1}, {R2}}, pod2 \in {{R1}, {R2}} }

CompositionMap(children) ==
    [k \in {"Moodle", "Deployment", "ReplicaSet"} |->
        CASE k = "Moodle" -> children
          [] k = "Deployment" -> <<"ReplicaSet">>
          [] OTHER -> <<"Pod">>]

AnyMap == {CompositionMap(<<"Service", "Deployment">>), CompositionMap(<<"Deployment", "Service">>),
           CompositionMap(<<"Deployment", "Pod">>), CompositionMap(<<"Pod", "Deployment">>)}

AllKinds == {"Service", "Deployment", "ReplicaSet", "Pod"}
OneUnknown == {AllKinds} \union {AllKinds \ {kind} : kind \in {"Service", "ReplicaSet"}}
AllKnown == {AllKinds}

AnyRoot == {M, D, R1}

\* A Deployment after a rolling update: the first ReplicaSet has no Pods left.
RollingUpdate ==
    { << Obj("Deployment", "d", {}), Obj("ReplicaSet", "r1", {D}), Obj("ReplicaSet", "r2", {D}),
         Obj("Pod", "p1", {R2}), Obj("Pod", "p2", {R2}) >> }
OneMap == {CompositionMap(<<"Deployment", "Service">>)}
DeploymentRoot == {D}
=============================================================================
