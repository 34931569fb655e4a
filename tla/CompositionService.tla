------------------------- MODULE CompositionService -------------------------
(***************************************************************************)
(* What a client of /composition may rely on, the abstract specification   *)
(* of CompositionServer: there is no store, no mutex and no purge, only    *)
(* requests and what the cluster was while they were served.               *)
(*                                                                         *)
(* A tree is answered whole, but every list in it may be of another moment *)
(* since the process started, and a list is missing where a call failed,   *)
(* in this request or in an earlier one.  A request that no other one      *)
(* overlapped, and during which no call failed, is answered with all       *)
(* resources that were there all the time, each with a tree all of whose   *)
(* lists are of moments of the request, and with nothing that was not      *)
(* there at all, unless a resource of its name was.  So where the cluster  *)
(* did not change meanwhile, what such a request is told is what there is. *)
(***************************************************************************)
EXTENDS Integers, Sequences

CONSTANTS
    Workers,   \* the requests that may be served at once
    Objects,   \* the resources there may be: [kind, name, namespace]
    Clusters,  \* the initial clusters: functions from Objects to versions
    Requests,  \* the possible requests: [kind, name, namespace]
    Deeper(_, _)  \* whether more lists belong to a tree than the ones in a sequence

VARIABLES
    cluster,  \* for each object the version of what is below it, 0 if it does not exist
    past,     \* the clusters since the process started
    faulty,   \* whether a call ever failed
    session   \* for each worker what its client knows, and what happened to the request

vars == <<cluster, past, faulty, session>>

Absent == 0
Missed == -1

\* The tree of a resource has the version seen by each of its lists, or Missed.
Entry == [obj : Objects, tree : Seq(Nat \union {Missed})]

NoRequest == [kind |-> "", name |-> "", namespace |-> ""]

\* since is the clusters since the request began; it is disturbed if a call
\* failed or another request overlapped it.
Idle == [at |-> "idle", request |-> NoRequest, since |-> {}, disturbed |-> FALSE, answer |-> {}]

Init ==
    /\ cluster \in Clusters
    /\ past = {cluster}
    /\ faulty = FALSE
    /\ session = [w \in Workers |-> Idle]

Served(w) == session[w].at # "idle"

Ask(w) ==
    /\ ~Served(w)
    /\ \E r \in Requests :
          LET ns == IF r.namespace = "" THEN "default" ELSE r.namespace
              others == {v \in Workers \ {w} : Served(v)}
          IN  session' =
                [v \in Workers |->
                    IF v = w
                    THEN [Idle EXCEPT !.at = "asked", !.request = [r EXCEPT !.namespace = ns],
                                      !.since = {cluster}, !.disturbed = others # {}]
                    ELSE [session[v] EXCEPT !.disturbed = @ \/ v \in others]]
    /\ UNCHANGED <<cluster, past, faulty>>

CallFails(w) ==
    /\ session[w].at = "asked"
    /\ session' = [session EXCEPT ![w].disturbed = TRUE]
    /\ faulty' = TRUE
    /\ UNCHANGED <<cluster, past>>

Wanted(r, o) ==
    /\ o.kind = r.kind
    /\ r.name \in {"*", o.name}
    /\ o.namespace = r.namespace

Exists(clusters, o) == \E c \in clusters : c[o] # Absent

\* The resource was there at one of the moments, and each list of its tree is
\* of one of them, or of one that failed.
Tells(entry, clusters, mayMiss) ==
    /\ Exists(clusters, entry.obj)
    /\ ~Deeper(entry.obj, entry.tree)
    /\ \A i \in DOMAIN entry.tree :
          \/ entry.tree[i] = Missed /\ mayMiss
          \/ \E c \in clusters : entry.tree[i] = c[entry.obj]

Namesake(o, p) == o # p /\ o.name = p.name /\ o.namespace = p.namespace

Fresh(s, answer) ==
    /\ \A o \in Objects :
          Wanted(s.request, o) /\ (\A c \in s.since : c[o] # Absent) =>
              \E entry \in answer : entry.obj = o /\ Tells(entry, s.since, FALSE)
    /\ \A entry \in answer :
          \/ Tells(entry, s.since, FALSE)
          \/ \E o \in Objects : Namesake(o, entry.obj) /\ Exists(s.since, o)

Answer(w) ==
    LET answer == session'[w].answer
    IN  /\ session[w].at = "asked"
        /\ \A entry \in answer :
              entry \in Entry /\ Wanted(session[w].request, entry.obj) /\ Tells(entry, past, faulty)
        /\ session[w].disturbed \/ Fresh(session[w], answer)
        /\ session' = [session EXCEPT ![w].at = "answered", ![w].answer = answer]
        /\ UNCHANGED <<cluster, past, faulty>>

\* The client has its answer, or the connection was closed without one, which
\* only happens to a request that another one overlapped.
Leave(w) ==
    /\ session[w].at = "answered" \/ (session[w].at = "asked" /\ session[w].disturbed)
    /\ session' = [session EXCEPT ![w] = Idle]
    /\ UNCHANGED <<cluster, past, faulty>>

\* The process dies, which only overlapping requests make it do.  What it knew
\* of the past is gone with it.
Restart ==
    /\ \E v, w \in Workers : v # w /\ Served(v) /\ Served(w)
    /\ past' = {cluster}
    /\ session' = [w \in Workers |-> Idle]
    /\ UNCHANGED <<cluster, faulty>>

Change ==
    /\ cluster' \in [Objects -> Nat]
    /\ past' = past \union {cluster'}
    /\ session' = [w \in Workers |->
                     IF Served(w) THEN [session[w] EXCEPT !.since = @ \union {cluster'}] ELSE session[w]]
    /\ UNCHANGED faulty

Next ==
    \/ \E w \in Workers : Ask(w) \/ CallFails(w) \/ Answer(w) \/ Leave(w)
    \/ Restart \/ Change

Spec == Init /\ [][Next]_vars
=============================================================================
