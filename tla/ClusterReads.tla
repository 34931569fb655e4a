---------------------------- MODULE ClusterReads ----------------------------
(***************************************************************************)
(* What a connections command may rely on when it reads the cluster, the   *)
(* abstract specification of the object cache of pkg/discovery/utils.go.   *)
(*                                                                         *)
(* Every read is answered with what the API server would have said at one  *)
(* moment: one during the read itself, or, once a list of the kind and     *)
(* namespace was answered, one since the command began.  Lists keep to the *)
(* namespace, unless listing in it has failed once.                        *)
(***************************************************************************)
EXTENDS APIServer

VARIABLES
    cluster,  \* the cluster
    past,     \* the clusters since the command began
    recent,   \* the clusters since the read in progress began
    request,  \* the read in progress, NoRequest between reads
    failed,   \* a call to the API server has failed during it
    reply,    \* the last answer, between reads
    listed,   \* the kinds and namespaces a list of which was answered
    wide      \* those of them whose lists may have objects of other namespaces

vars == <<cluster, past, recent, request, failed, reply, listed, wide>>

NoRequest == [kind |-> "", name |-> "", namespace |-> ""]
NoReply == [to |-> NoRequest, found |-> {}, err |-> FALSE]

IsList(r) == r.name = "*"
Key(r) == [kind |-> r.kind, namespace |-> r.namespace]

\* The objects the reader of a kind and namespace should see.
Limited(c, key) == {o \in c : o.kind = key.kind /\ o.namespace \in {key.namespace, ""}}

\* There are objects of another namespace among them.
IsWide(objects, key) == \E o \in objects : o.namespace \notin {key.namespace, ""}

Init ==
    /\ cluster \in Clusters
    /\ past = {cluster}
    /\ recent = {cluster}
    /\ request = NoRequest
    /\ failed = FALSE
    /\ reply = NoReply
    /\ listed = {}
    /\ wide = {}

Ask ==
    /\ request = NoRequest
    /\ request' \in Requests
    /\ recent' = {cluster}
    /\ failed' = FALSE
    /\ reply' = NoReply
    /\ UNCHANGED <<cluster, past, listed, wide>>

CallFails ==
    /\ request # NoRequest
    /\ failed' = TRUE
    /\ UNCHANGED <<cluster, past, recent, request, reply, listed, wide>>

Moments == IF Key(request) \in listed THEN past ELSE recent

Answer(found, err) ==
    /\ request' = NoRequest
    /\ reply' = [to |-> request, found |-> found, err |-> err]
    /\ UNCHANGED <<cluster, past, recent, failed>>

AnswerList ==
    /\ request # NoRequest
    /\ IsList(request)
    /\ \E c \in Moments : \E found \in {Limited(c, Key(request)), ListAll(c, request.kind)} :
          /\ IsWide(found, Key(request)) => failed \/ Key(request) \in wide
          /\ wide' = IF IsWide(found, Key(request)) THEN wide \union {Key(request)} ELSE wide
          /\ Answer(found, FALSE)
    /\ listed' = listed \union {Key(request)}

AnswerObject ==
    /\ request # NoRequest
    /\ ~IsList(request)
    /\ \E c \in Moments : \E o \in Limited(c, Key(request)) :
          /\ o.name = request.name
          /\ Answer({o}, FALSE)
    /\ UNCHANGED <<listed, wide>>

\* An error: a call failed, or, for a single object, it was not there.
AnswerError ==
    /\ request # NoRequest
    /\ \/ failed
       \/ /\ ~IsList(request)
          /\ \E c \in recent : \A o \in Limited(c, Key(request)) : o.name # request.name
    /\ Answer({}, TRUE)
    /\ UNCHANGED <<listed, wide>>

Change ==
    /\ cluster' \in Following(past)
    /\ past' = past \union {cluster'}
    /\ recent' = recent \union {cluster'}
    /\ UNCHANGED <<request, failed, reply, listed, wide>>

Next == Ask \/ CallFails \/ AnswerList \/ AnswerObject \/ AnswerError \/ Change

Spec == Init /\ [][Next]_vars
=============================================================================
