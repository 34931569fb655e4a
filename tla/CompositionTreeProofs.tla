------------------------ MODULE CompositionTreeProofs ------------------------
(***************************************************************************)
(* What the list in the store and the answer of a request are, for every   *)
(* cluster: the invariants of CompositionTree.                             *)
(***************************************************************************)
EXTENDS CompositionTree, ListProofs

-----------------------------------------------------------------------------
(* Loops *)

LoopSteps(step, start, s, n, f) ==
    f = [i \in 0 .. n |-> IF i = 0 THEN start ELSE step[f[i - 1]][s[i]]]

LEMMA LoopStepsExist ==
    ASSUME NEW step, NEW start, NEW s, NEW n \in Nat
    PROVE  \E f : LoopSteps(step, start, s, n, f)
<1> DEFINE S == {m \in Nat : \E f : LoopSteps(step, start, s, m, f)}
<1>1. 0 \in S
  <2>1. LoopSteps(step, start, s, 0, [i \in 0 .. 0 |-> start])
    BY DEF LoopSteps
  <2> QED BY <2>1
<1>2. ASSUME NEW m \in S PROVE m + 1 \in S
  <2>1. PICK f : LoopSteps(step, start, s, m, f)
    BY <1>2
  <2> DEFINE last == step[f[m]][s[m + 1]]
             g == [i \in 0 .. m + 1 |-> IF i = m + 1 THEN last ELSE f[i]]
  <2>2. \A i \in 0 .. m + 1 : i # m + 1 => g[i] = f[i] /\ i \in 0 .. m
    OBVIOUS
  <2>3. g[m + 1] = last
    OBVIOUS
  <2>4. \A i \in 0 .. m : f[i] = IF i = 0 THEN start ELSE step[f[i - 1]][s[i]]
    BY <2>1 DEF LoopSteps
  <2>5. \A i \in 0 .. m + 1 : g[i] = IF i = 0 THEN start ELSE step[g[i - 1]][s[i]]
    <3> SUFFICES ASSUME NEW i \in 0 .. m + 1
                 PROVE  g[i] = IF i = 0 THEN start ELSE step[g[i - 1]][s[i]]
      OBVIOUS
    <3> HIDE DEF last
    <3>1. CASE i = m + 1
      <4>1. i # 0 /\ i - 1 \in 0 .. m /\ i - 1 = m /\ g[i - 1] = f[m]
        BY <2>2, <3>1
      <4> QED BY <2>3, <3>1, <4>1 DEF last
    <3>2. CASE i # m + 1
      BY <2>2, <2>4, <3>2
    <3> QED BY <3>1, <3>2
  <2> HIDE DEF g
  <2>6. g = [i \in 0 .. m + 1 |-> g[i]]
    BY DEF g
  <2>7. LoopSteps(step, start, s, m + 1, g)
    BY <2>5, <2>6 DEF LoopSteps
  <2> QED BY <2>7
<1>3. S = Nat
  BY <1>1, <1>2, NatSetInduction
<1> QED BY <1>3

\* What holds at the start of a loop and is kept by each step holds of the
\* result.
LEMMA LoopInvariant ==
    ASSUME NEW step, NEW start, NEW s, Len(s) \in Nat, NEW I,
           start \in I[0],
           \A i \in 1 .. Len(s) : \A a \in I[i - 1] : step[a][s[i]] \in I[i]
    PROVE  Loop(step, start, s) \in I[Len(s)]
<1> DEFINE f == CHOOSE g : LoopSteps(step, start, s, Len(s), g)
<1>1. LoopSteps(step, start, s, Len(s), f)
  BY LoopStepsExist, Zenon
<1>2. Loop(step, start, s) = f[Len(s)]
  BY DEF Loop, LoopSteps
<1> HIDE DEF f
<1>3. \A i \in 0 .. Len(s) : f[i] = IF i = 0 THEN start ELSE step[f[i - 1]][s[i]]
  BY <1>1 DEF LoopSteps
<1> DEFINE S == {n \in Nat : n <= Len(s) => f[n] \in I[n]}
<1>4. 0 \in S
  <2>1. 0 \in 0 .. Len(s)
    OBVIOUS
  <2> QED BY <1>3, <2>1
<1>5. ASSUME NEW n \in S PROVE n + 1 \in S
  <2> SUFFICES ASSUME n + 1 <= Len(s) PROVE f[n + 1] \in I[n + 1]
    OBVIOUS
  <2>1. n + 1 \in 1 .. Len(s) /\ (n + 1) - 1 = n /\ f[n] \in I[n]
    OBVIOUS
  <2>2. f[n + 1] = step[f[n]][s[n + 1]]
    BY <1>3, <2>1
  <2> QED BY <2>1, <2>2
<1>6. S = Nat
  BY <1>4, <1>5, NatSetInduction
<1> QED BY <1>2, <1>6

\* The same for an invariant that does not depend on the step.
LEMMA LoopKeeps ==
    ASSUME NEW step, NEW start, NEW s, Len(s) \in Nat, NEW I,
           start \in I,
           \A i \in 1 .. Len(s) : \A a \in I : step[a][s[i]] \in I
    PROVE  Loop(step, start, s) \in I
<1> DEFINE J == [i \in 0 .. Len(s) |-> I]
<1>1. start \in J[0]
  OBVIOUS
<1>2. \A i \in 1 .. Len(s) : \A a \in J[i - 1] : step[a][s[i]] \in J[i]
  <2> SUFFICES ASSUME NEW i \in 1 .. Len(s), NEW a \in J[i - 1] PROVE step[a][s[i]] \in J[i]
    OBVIOUS
  <2>1. i - 1 \in 0 .. Len(s) /\ i \in 0 .. Len(s)
    OBVIOUS
  <2> QED BY <2>1
<1> HIDE DEF J
<1>3. Loop(step, start, s) \in J[Len(s)]
  BY <1>1, <1>2, LoopInvariant
<1> QED BY <1>3 DEF J

-----------------------------------------------------------------------------
(* Lists *)

LEMMA AppendProperty ==
    ASSUME NEW S, NEW s \in Seq(S), NEW x \in S
    PROVE  /\ Append(s, x) \in Seq(S)
           /\ Len(s) \in Nat /\ DOMAIN s = 1 .. Len(s)
           /\ Len(Append(s, x)) = Len(s) + 1 /\ DOMAIN Append(s, x) = 1 .. Len(s) + 1
           /\ \A i \in DOMAIN s : Append(s, x)[i] = s[i]
           /\ Append(s, x)[Len(s) + 1] = x
           /\ Range(Append(s, x)) = Range(s) \union {x}
<1> DEFINE t == Append(s, x)
<1>1. t \in Seq(S) /\ Len(s) \in Nat /\ DOMAIN s = 1 .. Len(s)
  OBVIOUS
<1>2. Len(t) = Len(s) + 1 /\ DOMAIN t = 1 .. Len(s) + 1
  OBVIOUS
<1>3. \A i \in DOMAIN s : t[i] = s[i]
  OBVIOUS
<1>4. t[Len(s) + 1] = x
  OBVIOUS
<1> HIDE DEF t
<1>5. Range(t) = Range(s) \union {x}
  <2>1. ASSUME NEW i \in DOMAIN t PROVE t[i] \in Range(s) \union {x}
    <3>1. CASE i = Len(s) + 1
      BY <1>4, <3>1
    <3>2. CASE i # Len(s) + 1
      <4>1. i \in DOMAIN s
        BY <1>1, <1>2, <3>2
      <4> QED BY <1>3, <4>1 DEF Range
    <3> QED BY <3>1, <3>2
  <2>2. ASSUME NEW i \in DOMAIN s PROVE s[i] \in Range(t)
    <3>1. i \in DOMAIN t /\ t[i] = s[i]
      BY <1>1, <1>2, <1>3
    <3> QED BY <3>1, Zenon DEF Range
  <2>3. x \in Range(t)
    <3>1. Len(s) + 1 \in DOMAIN t
      BY <1>1, <1>2
    <3> QED BY <1>4, <3>1, Zenon DEF Range
  <2> QED BY <2>1, <2>2, <2>3 DEF Range
<1> QED BY <1>1, <1>2, <1>3, <1>4, <1>5 DEF t

LEMMA ConcatProperty ==
    ASSUME NEW S, NEW s \in Seq(S), NEW t \in Seq(S)
    PROVE  /\ s \o t \in Seq(S)
           /\ Len(s) \in Nat /\ Len(t) \in Nat /\ DOMAIN s = 1 .. Len(s) /\ DOMAIN t = 1 .. Len(t)
           /\ Len(s \o t) = Len(s) + Len(t) /\ DOMAIN (s \o t) = 1 .. Len(s) + Len(t)
           /\ \A i \in DOMAIN s : (s \o t)[i] = s[i]
           /\ \A i \in DOMAIN t : (s \o t)[Len(s) + i] = t[i] /\ Len(s) + i \in DOMAIN (s \o t)
           /\ \A i \in DOMAIN (s \o t) : i \in DOMAIN s \/ i - Len(s) \in DOMAIN t
           /\ Range(s \o t) = Range(s) \union Range(t)
<1> DEFINE u == s \o t
<1>1. u \in Seq(S) /\ Len(s) \in Nat /\ Len(t) \in Nat /\ DOMAIN s = 1 .. Len(s) /\ DOMAIN t = 1 .. Len(t)
  OBVIOUS
<1>2. Len(u) = Len(s) + Len(t) /\ DOMAIN u = 1 .. Len(s) + Len(t)
  OBVIOUS
<1>3. \A i \in DOMAIN s : u[i] = s[i]
  OBVIOUS
<1>4. \A i \in DOMAIN t : u[Len(s) + i] = t[i]
  OBVIOUS
<1> HIDE DEF u
<1>5. \A i \in DOMAIN t : Len(s) + i \in DOMAIN u
  BY <1>1, <1>2
<1>6. \A i \in DOMAIN u : i \in DOMAIN s \/ i - Len(s) \in DOMAIN t
  BY <1>1, <1>2
<1>7. Range(u) = Range(s) \union Range(t)
  <2>1. ASSUME NEW i \in DOMAIN u PROVE u[i] \in Range(s) \union Range(t)
    <3>1. CASE i \in DOMAIN s
      BY <1>3, <3>1 DEF Range
    <3>2. CASE i - Len(s) \in DOMAIN t
      <4>1. u[i] = t[i - Len(s)]
        BY <1>1, <1>2, <1>4, <3>2
      <4> QED BY <3>2, <4>1 DEF Range
    <3> QED BY <1>6, <3>1, <3>2
  <2>2. ASSUME NEW i \in DOMAIN s PROVE s[i] \in Range(u)
    <3>1. i \in DOMAIN u /\ u[i] = s[i]
      BY <1>1, <1>2, <1>3
    <3> QED BY <3>1, Zenon DEF Range
  <2>3. ASSUME NEW i \in DOMAIN t PROVE t[i] \in Range(u)
    BY <1>4, <1>5, Zenon DEF Range
  <2> QED BY <2>1, <2>2, <2>3 DEF Range
<1> QED BY <1>1, <1>2, <1>3, <1>4, <1>5, <1>6, <1>7 DEF u

LEMMA ElementsProperty ==
    ASSUME NEW S, NEW s \in Seq(S)
    PROVE  Range(s) \subseteq S /\ Len(s) \in Nat /\ DOMAIN s = 1 .. Len(s) /\ \A i \in 1 .. Len(s) : s[i] \in S
<1>1. Len(s) \in Nat
  OBVIOUS
<1>2. DOMAIN s = 1 .. Len(s)
  OBVIOUS
<1>3. \A i \in 1 .. Len(s) : s[i] \in S
  OBVIOUS
<1>4. Range(s) \subseteq S
  BY <1>2, <1>3 DEF Range
<1> QED BY <1>1, <1>2, <1>3, <1>4

LEMMA HeadTailProperty ==
    ASSUME NEW S, NEW s \in Seq(S), s # <<>>
    PROVE  Head(s) \in S /\ Tail(s) \in Seq(S) /\ Range(s) = {Head(s)} \union Range(Tail(s))
<1> DEFINE t == Tail(s)
           h == Head(s)
<1>1. t \in Seq(S) /\ h = s[1] /\ 1 \in DOMAIN s /\ h \in S
  BY HeadTailProperties, TailProperty
<1>2. /\ \A i \in DOMAIN t : i + 1 \in DOMAIN s /\ t[i] = s[i + 1]
      /\ \A i \in DOMAIN s : i # 1 => i - 1 \in DOMAIN t /\ t[i - 1] = s[i]
  BY TailProperty
<1> HIDE DEF t, h
<1>3. \A i \in DOMAIN s : s[i] = h \/ s[i] \in Range(t)
  BY <1>1, <1>2 DEF Range
<1>4. \A i \in DOMAIN t : t[i] \in Range(s)
  BY <1>2 DEF Range
<1>5. h \in Range(s)
  BY <1>1 DEF Range
<1>6. Range(s) = {h} \union Range(t)
  BY <1>3, <1>4, <1>5 DEF Range
<1> QED BY <1>1, <1>6 DEF t, h

-----------------------------------------------------------------------------
(* The cluster and the names of the resources a resource owns *)

\* What a request is about, and the clusters it has seen.
Given ==
    /\ compositionMap \in CompositionMaps /\ root \in Roots
    /\ objs \in seen /\ seen \subseteq Clusters

LEMMA GivenTypes ==
    ASSUME Given
    PROVE  /\ objs \in Seq(Object)
           /\ \A i, j \in DOMAIN objs : Ref(objs[i]) = Ref(objs[j]) => i = j
           /\ \A cluster \in seen : cluster \in Seq(Object)
           /\ DOMAIN compositionMap \subseteq Name
           /\ \A kind \in DOMAIN compositionMap : compositionMap[kind] \in Seq(Name)
           /\ root \in Reference
<1>1. \A cluster \in seen : cluster \in Clusters
  BY DEF Given
<1> QED BY <1>1, ClustersAssumption, MapsAssumption, RootsAssumption DEF Given

LEMMA ObjectTypes ==
    ASSUME NEW o \in Object
    PROVE  o.kind \in Name /\ o.name \in Name /\ o.owners \subseteq Reference /\ Ref(o) \in Reference
<1>1. o.kind \in Name /\ o.name \in Name /\ o.owners \in SUBSET Reference
  BY DEF Object
<1> QED BY <1>1 DEF Ref, Reference

LEMMA OwnedByProperty ==
    ASSUME Given, NEW kind \in Name, NEW parent \in Reference
    PROVE  /\ OwnedBy(kind, parent) \in Seq(Name)
           /\ Range(OwnedBy(kind, parent)) = {o.name : o \in {q \in Range(objs) : IsOwned(q, kind, parent)}}
           /\ \A i, j \in DOMAIN OwnedBy(kind, parent) :
                 OwnedBy(kind, parent)[i] = OwnedBy(kind, parent)[j] => i = j
<1>1. /\ objs \in Seq(Object) /\ Len(objs) \in Nat /\ DOMAIN objs = 1 .. Len(objs)
      /\ \A i, j \in DOMAIN objs : Ref(objs[i]) = Ref(objs[j]) => i = j
  BY GivenTypes, ElementsProperty
<1>2. \A i \in 1 .. Len(objs) : objs[i] \in Object /\ objs[i].name \in Name
  <2>1. \A i \in 1 .. Len(objs) : objs[i] \in Object
    BY <1>1
  <2> QED BY <2>1, ObjectTypes
<1> DEFINE step == [names \in Seq(Name) |-> [o \in Object |->
                       IF IsOwned(o, kind, parent) THEN Append(names, o.name) ELSE names]]
           From(i) == {j \in 1 .. i : IsOwned(objs[j], kind, parent)}
           Names(i) == {objs[j].name : j \in From(i)}
           I == [i \in 0 .. Len(objs) |->
                   {names \in Seq(Name) : /\ Range(names) = Names(i)
                                            /\ \A k, l \in DOMAIN names : names[k] = names[l] => k = l}]
<1>3. <<>> \in I[0]
  <2>1. Names(0) = {} /\ Range(<<>>) = {} /\ DOMAIN <<>> = {}
    BY DEF Range
  <2>2. <<>> \in Seq(Name) /\ 0 \in 0 .. Len(objs)
    BY <1>1
  <2> HIDE DEF Names
  <2> QED BY <2>1, <2>2
<1>4. ASSUME NEW i \in 1 .. Len(objs), NEW names \in I[i - 1] PROVE step[names][objs[i]] \in I[i]
  <2>1. /\ i - 1 \in 0 .. Len(objs) /\ i \in 0 .. Len(objs) /\ objs[i] \in Object /\ objs[i].name \in Name
        /\ From(i) = IF IsOwned(objs[i], kind, parent) THEN From(i - 1) \union {i} ELSE From(i - 1)
    BY <1>1, <1>2
  <2>2. Names(i) = IF IsOwned(objs[i], kind, parent) THEN Names(i - 1) \union {objs[i].name} ELSE Names(i - 1)
    <3>1. CASE IsOwned(objs[i], kind, parent)
      <4>1. From(i) = From(i - 1) \union {i}
        BY <2>1, <3>1
      <4> HIDE DEF From
      <4> QED BY <3>1, <4>1
    <3>2. CASE ~ IsOwned(objs[i], kind, parent)
      <4>1. From(i) = From(i - 1)
        BY <2>1, <3>2
      <4> HIDE DEF From
      <4> QED BY <3>2, <4>1
    <3> QED BY <3>1, <3>2
  <2>3. names \in Seq(Name) /\ Range(names) = Names(i - 1) /\ \A k, l \in DOMAIN names : names[k] = names[l] => k = l
    BY <2>1
  <2>4. step[names][objs[i]] = IF IsOwned(objs[i], kind, parent) THEN Append(names, objs[i].name) ELSE names
    BY <2>1, <2>3
  <2>5. IsOwned(objs[i], kind, parent) => objs[i].name \notin Range(names)
    <3> SUFFICES ASSUME IsOwned(objs[i], kind, parent), NEW j \in From(i - 1), objs[j].name = objs[i].name
                 PROVE  FALSE
      BY <2>3
    <3>1. j \in DOMAIN objs /\ i \in DOMAIN objs /\ j # i /\ IsOwned(objs[j], kind, parent)
      BY <1>1
    <3>2. Ref(objs[j]) = Ref(objs[i])
      BY <3>1 DEF Ref, IsOwned
    <3> QED BY <1>1, <3>1, <3>2
  <2> HIDE DEF step, Names
  <2>6. CASE IsOwned(objs[i], kind, parent)
    <3> DEFINE x == objs[i].name
               s == Append(names, x)
    <3>1. /\ s \in Seq(Name) /\ Range(s) = Range(names) \union {x} /\ DOMAIN s = 1 .. Len(names) + 1
          /\ DOMAIN names = 1 .. Len(names) /\ Len(names) \in Nat
          /\ (\A k \in DOMAIN names : s[k] = names[k]) /\ s[Len(names) + 1] = x
      BY <2>1, <2>3, AppendProperty
    <3>2. \A k \in DOMAIN names : names[k] # x
      BY <2>5, <2>6 DEF Range
    <3> HIDE DEF s, x
    <3>3. \A k, l \in DOMAIN s : s[k] = s[l] => k = l
      <4> SUFFICES ASSUME NEW k \in DOMAIN s, NEW l \in DOMAIN s, s[k] = s[l] PROVE k = l
        OBVIOUS
      <4>1. CASE k = Len(names) + 1 /\ l = Len(names) + 1
        BY <4>1
      <4>2. CASE k = Len(names) + 1 /\ l # Len(names) + 1
        <5>1. l \in DOMAIN names
          BY <3>1, <4>2
        <5> QED BY <3>1, <3>2, <4>2, <5>1
      <4>3. CASE k # Len(names) + 1 /\ l = Len(names) + 1
        <5>1. k \in DOMAIN names
          BY <3>1, <4>3
        <5> QED BY <3>1, <3>2, <4>3, <5>1
      <4>4. CASE k # Len(names) + 1 /\ l # Len(names) + 1
        <5>1. k \in DOMAIN names /\ l \in DOMAIN names
          BY <3>1, <4>4
        <5> QED BY <2>3, <3>1, <5>1
      <4> QED BY <4>1, <4>2, <4>3, <4>4
    <3>4. Range(s) = Names(i)
      BY <2>2, <2>3, <2>6, <3>1 DEF x
    <3>5. s \in I[i]
      BY <2>1, <3>1, <3>3, <3>4
    <3> QED BY <2>4, <2>6, <3>5 DEF s, x
  <2>7. CASE ~ IsOwned(objs[i], kind, parent)
    BY <2>1, <2>2, <2>3, <2>4, <2>7
  <2> QED BY <2>6, <2>7
<1>5. OwnedBy(kind, parent) = Loop(step, <<>>, objs)
  BY Zenon DEF OwnedBy
<1>6. Names(Len(objs)) = {o.name : o \in {q \in Range(objs) : IsOwned(q, kind, parent)}}
  <2>1. \A j \in From(Len(objs)) : objs[j] \in {q \in Range(objs) : IsOwned(q, kind, parent)}
    BY <1>1 DEF Range
  <2>2. \A o \in {q \in Range(objs) : IsOwned(q, kind, parent)} : \E j \in From(Len(objs)) : o = objs[j]
    BY <1>1 DEF Range
  <2> HIDE DEF From
  <2> QED BY <2>1, <2>2
<1>7. Len(objs) \in 0 .. Len(objs)
  BY <1>1
<1> HIDE DEF step, I
<1>8. Loop(step, <<>>, objs) \in I[Len(objs)]
  BY <1>1, <1>3, <1>4, LoopInvariant
<1> HIDE DEF Names
<1> QED BY <1>5, <1>6, <1>7, <1>8 DEF I

\* The names are those of the resources of the kind right below the parent.
LEMMA OwnedByChildren ==
    ASSUME Given, NEW parent \in Reference, parent.kind \in DOMAIN compositionMap,
           NEW kind \in Range(compositionMap[parent.kind]), kind \in Name, NEW name \in Name
    PROVE  name \in Range(OwnedBy(kind, parent)) <=> [kind |-> kind, name |-> name] \in Children(objs, parent)
<1>1. \A o \in Range(objs) : o \in Object
  BY GivenTypes, ElementsProperty
<1>2. Range(OwnedBy(kind, parent)) = {o.name : o \in {q \in Range(objs) : IsOwned(q, kind, parent)}}
  BY OwnedByProperty
<1>3. name \in Range(OwnedBy(kind, parent)) <=>
        \E o \in Range(objs) : o.kind = kind /\ parent \in o.owners /\ o.name = name
  BY <1>2 DEF IsOwned
<1>4. ASSUME NEW o \in Range(objs)
      PROVE  [kind |-> kind, name |-> name] = Ref(o) <=> o.kind = kind /\ o.name = name
  BY DEF Ref
<1>5. [kind |-> kind, name |-> name] \in Children(objs, parent) <=>
        \E o \in Range(objs) : /\ o.kind \in Range(compositionMap[parent.kind]) /\ parent \in o.owners
                               /\ o.kind = kind /\ o.name = name
  BY <1>4 DEF Children
<1> QED BY <1>3, <1>5

LEMMA OnceTypes ==
    ASSUME Given, NEW p
    PROVE  /\ Once(p) \subseteq Reference
           /\ \A c \in Once(p) : p.kind \in DOMAIN compositionMap /\ c.kind \in Range(compositionMap[p.kind])
<1> SUFFICES ASSUME NEW cluster \in seen, NEW c \in Children(cluster, p)
             PROVE  /\ c \in Reference
                    /\ p.kind \in DOMAIN compositionMap /\ c.kind \in Range(compositionMap[p.kind])
  BY DEF Once
<1>1. cluster \in Seq(Object)
  BY GivenTypes
<1>2. p.kind \in DOMAIN compositionMap
  BY DEF Children
<1>3. PICK o \in Range(cluster) : c = Ref(o) /\ o.kind \in Range(compositionMap[p.kind])
  BY <1>2 DEF Children
<1>4. o \in Object
  BY <1>1, ElementsProperty
<1> QED BY <1>2, <1>3, <1>4, ObjectTypes DEF Ref

\* What was right below at some moment remains so, and what was below all
\* along was so before.
LEMMA Moments ==
    ASSUME seen # {}, seen \subseteq seen', missed \subseteq missed',
           compositionMap' = compositionMap, known' = known, NEW p, NEW level
    PROVE  Once(p) \subseteq Once(p)' /\ Always(p, level)' \subseteq Always(p, level)
<1>1. \A cluster : Children(cluster, p)' = Children(cluster, p)
  BY DEF Children
<1>2. Once(p)' = UNION {Children(cluster, p) : cluster \in seen'}
  BY <1>1, Zenon DEF Once
<1>3. Once(p) \subseteq Once(p)'
  BY <1>2 DEF Once
<1>4. ASSUME NEW c \in Always(p, level)' PROVE c \in Always(p, level)
  <2>1. /\ \A cluster \in seen' : c \in Children(cluster, p)
        /\ c.kind \in known /\ [level |-> level, kind |-> c.kind, parent |-> p] \notin missed'
    BY <1>1, Zenon DEF Always
  <2>2. \A cluster \in seen : c \in Children(cluster, p)
    BY <2>1
  <2>3. c \in Once(p)
    BY <2>2 DEF Once
  <2> QED BY <2>1, <2>2, <2>3 DEF Always
<1> QED BY <1>3, <1>4

-----------------------------------------------------------------------------
(* The calls that buildCompositions makes *)

LEMMA ListingsOfProperty ==
    ASSUME Given, NEW parent \in Reference, NEW level \in Nat
    PROVE  /\ ListingsOf(parent, level) \in Seq(Listing)
           /\ \A listing \in Range(ListingsOf(parent, level)) :
                 /\ listing.level = level + 1 /\ listing.parent = parent
                 /\ parent.kind \in DOMAIN compositionMap /\ listing.kind \in Range(compositionMap[parent.kind])
           /\ parent.kind \in DOMAIN compositionMap =>
                 \A kind \in Range(compositionMap[parent.kind]) :
                    [level |-> level + 1, kind |-> kind, parent |-> parent] \in Range(ListingsOf(parent, level))
<1>1. CASE parent.kind \notin DOMAIN compositionMap
  <2>1. ListingsOf(parent, level) = <<>>
    BY <1>1 DEF ListingsOf
  <2> QED BY <1>1, <2>1 DEF Range
<1>2. CASE parent.kind \in DOMAIN compositionMap
  <2> DEFINE kinds == compositionMap[parent.kind]
             listings == [i \in DOMAIN kinds |-> [level |-> level + 1, kind |-> kinds[i], parent |-> parent]]
  <2>1. kinds \in Seq(Name)
    BY <1>2, GivenTypes
  <2>2. Len(kinds) \in Nat /\ DOMAIN kinds = 1 .. Len(kinds) /\ \A i \in 1 .. Len(kinds) : kinds[i] \in Name
    BY <2>1, ElementsProperty
  <2>3. ListingsOf(parent, level) = listings
    BY <1>2 DEF ListingsOf
  <2> HIDE DEF kinds
  <2>4. \A i \in 1 .. Len(kinds) : listings[i] \in Listing
    BY <2>2 DEF Listing
  <2>5. listings \in Seq(Listing)
    BY <2>2, <2>4
  <2>6. \A i \in DOMAIN kinds : listings[i] \in Range(listings)
    BY DEF Range
  <2>7. \A kind \in Range(kinds) : [level |-> level + 1, kind |-> kind, parent |-> parent] \in Range(listings)
    <3> SUFFICES ASSUME NEW i \in DOMAIN kinds
                 PROVE  [level |-> level + 1, kind |-> kinds[i], parent |-> parent] \in Range(listings)
      BY DEF Range
    <3> QED BY <2>6
  <2>8. \A listing \in Range(listings) :
           listing.level = level + 1 /\ listing.parent = parent /\ listing.kind \in Range(kinds)
    BY DEF Range
  <2> HIDE DEF listings
  <2> QED BY <1>2, <2>3, <2>5, <2>7, <2>8 DEF kinds
<1> QED BY <1>1, <1>2

LEMMA ListingsBelowProperty ==
    ASSUME Given, NEW listing \in Listing, NEW names \in Seq(Name)
    PROVE  /\ ListingsBelow(listing, names) \in Seq(Listing)
           /\ Range(ListingsBelow(listing, names)) =
                UNION {Range(ListingsOf([kind |-> listing.kind, name |-> c], listing.level)) : c \in Range(names)}
<1> DEFINE Of(name) == ListingsOf([kind |-> listing.kind, name |-> name], listing.level)
           step == [listings \in Seq(Listing) |-> [name \in Name |-> listings \o Of(name)]]
           Upto(i) == UNION {Range(Of(names[j])) : j \in 1 .. i}
           I == [i \in 0 .. Len(names) |-> {listings \in Seq(Listing) : Range(listings) = Upto(i)}]
<1>1. Len(names) \in Nat /\ DOMAIN names = 1 .. Len(names) /\ \A i \in 1 .. Len(names) : names[i] \in Name
  BY ElementsProperty
<1>2. ASSUME NEW name \in Name PROVE Of(name) \in Seq(Listing)
  <2>1. [kind |-> listing.kind, name |-> name] \in Reference /\ listing.level \in Nat
    BY DEF Listing, Reference
  <2> QED BY <2>1, ListingsOfProperty
<1>3. ListingsBelow(listing, names) = Loop(step, <<>>, names)
  BY DEF ListingsBelow
<1> HIDE DEF Of
<1>4. <<>> \in I[0]
  <2>1. Upto(0) = {} /\ Range(<<>>) = {} /\ <<>> \in Seq(Listing) /\ 0 \in 0 .. Len(names)
    BY <1>1 DEF Range
  <2> HIDE DEF Upto
  <2> QED BY <2>1
<1>5. ASSUME NEW i \in 1 .. Len(names), NEW listings \in I[i - 1] PROVE step[listings][names[i]] \in I[i]
  <2>1. i - 1 \in 0 .. Len(names) /\ i \in 0 .. Len(names) /\ names[i] \in Name /\ Of(names[i]) \in Seq(Listing)
    BY <1>1, <1>2
  <2>2. listings \in Seq(Listing) /\ Range(listings) = Upto(i - 1)
    BY <2>1
  <2>3. step[listings][names[i]] = listings \o Of(names[i])
    BY <2>1, <2>2
  <2>4. /\ listings \o Of(names[i]) \in Seq(Listing)
        /\ Range(listings \o Of(names[i])) = Range(listings) \union Range(Of(names[i]))
    BY <2>1, <2>2, ConcatProperty
  <2>5. Upto(i) = Upto(i - 1) \union Range(Of(names[i]))
    <3>1. \A j \in 1 .. i : j \in 1 .. i - 1 \/ j = i
      BY <1>1
    <3>2. i \in 1 .. i /\ \A j \in 1 .. i - 1 : j \in 1 .. i
      BY <1>1
    <3> QED BY <3>1, <3>2
  <2> HIDE DEF Upto, step
  <2> QED BY <2>1, <2>2, <2>3, <2>4, <2>5
<1> HIDE DEF step, I
<1>6. Loop(step, <<>>, names) \in I[Len(names)]
  BY <1>1, <1>4, <1>5, LoopInvariant
<1>7. Upto(Len(names)) = UNION {Range(Of(c)) : c \in Range(names)}
  <2>1. \A j \in 1 .. Len(names) : names[j] \in Range(names)
    BY <1>1 DEF Range
  <2>2. \A c \in Range(names) : \E j \in 1 .. Len(names) : c = names[j]
    BY <1>1 DEF Range
  <2> QED BY <2>1, <2>2
<1>8. Len(names) \in 0 .. Len(names)
  BY <1>1
<1> HIDE DEF Upto
<1> QED BY <1>3, <1>6, <1>7, <1>8 DEF I, Of

-----------------------------------------------------------------------------
(* The invariant of a build *)

\* The resource is the root, or one of the first i nodes has it at the level.
Shown(nodes, i, p, level) ==
    \/ level = 1 /\ p = root
    \/ \E k \in 1 .. i : nodes[k].level = level /\ p \in Resources(nodes[k])

\* The parent of a node or of a call is in an earlier node, a level above.
Placed(nodes, i, x) == x.level > 1 /\ Shown(nodes, i, x.parent, x.level - 1)

\* A node has what it has to, of its kind and below its parent.
RightNode(n) ==
    /\ \A i, j \in DOMAIN n.children : n.children[i] = n.children[j] => i = j
    /\ Resources(n) \subseteq Once(n.parent)
    /\ \A c \in Always(n.parent, n.level) : c.kind = n.kind => c \in Resources(n)

RightCall(listing) ==
    /\ listing.parent.kind \in DOMAIN compositionMap
    /\ listing.kind \in Range(compositionMap[listing.parent.kind])

\* For each resource the list has, and each kind below it, there is a node,
\* or a call still to make.
Asked(nodes, listings, p, level, kind) ==
    \/ \E k \in DOMAIN nodes : nodes[k].level = level /\ nodes[k].kind = kind /\ nodes[k].parent = p
    \/ [level |-> level, kind |-> kind, parent |-> p] \in Range(listings)

Complete(nodes, listings) ==
    \A level \in Nat, p \in Reference :
       Shown(nodes, Len(nodes), p, level) /\ p.kind \in DOMAIN compositionMap =>
          \A kind \in Range(compositionMap[p.kind]) : Asked(nodes, listings, p, level + 1, kind)

TypeOK ==
    /\ Given
    /\ pc \in {"build", "answered"}
    /\ tree \in Seq(Node) /\ agenda \in Seq(Listing)

Built ==
    /\ \A n \in Range(tree) : RightNode(n)
    /\ \A i \in DOMAIN tree : Placed(tree, i - 1, tree[i])
    /\ \A listing \in Range(agenda) : RightCall(listing) /\ Placed(tree, Len(tree), listing)
    /\ Complete(tree, agenda)

Answered == Answer => agenda = <<>> /\ answer = getComposition([self |-> RootPart, nodes |-> tree, done |-> <<>>])

IInv == TypeOK /\ Built /\ Answered

LEMMA ListingsConcat ==
    \A s, t \in Seq(Listing) : s \o t \in Seq(Listing) /\ Range(s \o t) = Range(s) \union Range(t)
BY ConcatProperty

LEMMA ShownAppend ==
    ASSUME NEW nodes \in Seq(Node), NEW x \in Node, NEW new, new = Append(nodes, x), NEW p, NEW level
    PROVE  /\ \A i \in 0 .. Len(nodes) : Shown(new, i, p, level) <=> Shown(nodes, i, p, level)
           /\ Shown(new, Len(nodes) + 1, p, level) <=>
                \/ Shown(nodes, Len(nodes), p, level)
                \/ x.level = level /\ p \in Resources(x)
<1>1. /\ Len(nodes) \in Nat /\ DOMAIN nodes = 1 .. Len(nodes)
      /\ \A i \in DOMAIN nodes : new[i] = nodes[i]
      /\ new[Len(nodes) + 1] = x
  BY AppendProperty
<1>2. ASSUME NEW i \in 0 .. Len(nodes) PROVE Shown(new, i, p, level) <=> Shown(nodes, i, p, level)
  <2>1. \A k \in 1 .. i : k \in DOMAIN nodes
    BY <1>1
  <2>2. \A k \in 1 .. i : new[k] = nodes[k]
    BY <1>1, <2>1
  <2> QED BY <2>2, Zenon DEF Shown
<1>3. \A k : k \in 1 .. Len(nodes) + 1 <=> k \in 1 .. Len(nodes) \/ k = Len(nodes) + 1
  BY <1>1
<1>4. Shown(new, Len(nodes) + 1, p, level) <=>
        Shown(new, Len(nodes), p, level) \/ (new[Len(nodes) + 1].level = level /\ p \in Resources(new[Len(nodes) + 1]))
  BY <1>3, Zenon DEF Shown
<1>5. Len(nodes) \in 0 .. Len(nodes)
  BY <1>1
<1> QED BY <1>1, <1>2, <1>4, <1>5

\* What has been shown stays shown as the list grows.
LEMMA ShownMore ==
    ASSUME NEW nodes, NEW i \in Nat, NEW j \in Nat, i <= j, NEW p, NEW level, Shown(nodes, i, p, level)
    PROVE  Shown(nodes, j, p, level)
<1>1. \A k \in 1 .. i : k \in 1 .. j
  OBVIOUS
<1> QED BY <1>1, Zenon DEF Shown

LEMMA ShownReference ==
    ASSUME Given, NEW nodes \in Seq(Node), NEW i \in 0 .. Len(nodes), NEW p, NEW level, Shown(nodes, i, p, level)
    PROVE  p \in Reference
<1>1. CASE p = root
  BY <1>1, GivenTypes
<1>2. ASSUME NEW k \in 1 .. i, p \in Resources(nodes[k]) PROVE p \in Reference
  <2>1. nodes[k] \in Node
    BY ElementsProperty
  <2>2. nodes[k].kind \in Name /\ nodes[k].children \in Seq(Name)
    BY <2>1 DEF Node
  <2>3. Range(nodes[k].children) \subseteq Name
    BY <2>2, ElementsProperty
  <2> QED BY <1>2, <2>2, <2>3 DEF Resources, Reference
<1> QED BY <1>1, <1>2 DEF Shown

\* What is right remains so as the cluster changes and calls fail.
LEMMA RightLater ==
    ASSUME Given, Given', seen \subseteq seen', missed \subseteq missed',
           compositionMap' = compositionMap, known' = known, NEW n, RightNode(n)
    PROVE  RightNode(n)'
<1>1. seen # {}
  BY DEF Given
<1>2. Once(n.parent) \subseteq Once(n.parent)' /\ Always(n.parent, n.level)' \subseteq Always(n.parent, n.level)
  BY <1>1, Moments
<1>3. Resources(n)' = Resources(n)
  BY DEF Resources
<1> QED BY <1>2, <1>3 DEF RightNode

\* The next call has shown the names, in the node.
ShowsNode(names, listing, node) ==
    /\ Building /\ listing = Head(agenda)
    /\ Shows(names) /\ missed \subseteq missed'
    /\ node = [level |-> listing.level, kind |-> listing.kind, parent |-> listing.parent, children |-> names]

\* What it has shown is right.
LEMMA ShowsStep ==
    ASSUME TypeOK, Built, NEW names \in Seq(Name), NEW listing, NEW node,
           ShowsNode(names, listing, node), RightNode(node)'
    PROVE  TypeOK' /\ Built'
<1> DEFINE below == ListingsBelow(listing, names)
           rest == Tail(agenda)
           last == Len(tree)
<1>1. /\ Given /\ tree \in Seq(Node) /\ agenda \in Seq(Listing) /\ agenda # <<>> /\ pc = "build"
      /\ listing = Head(agenda) /\ missed \subseteq missed'
  BY DEF TypeOK, Building, ShowsNode
<1>2. /\ listing \in Listing /\ rest \in Seq(Listing) /\ Range(agenda) = {listing} \union Range(rest)
  BY <1>1, HeadTailProperty
<1>3. /\ tree' = Append(tree, node) /\ agenda' = below \o rest
      /\ pc' = pc /\ objs' = objs /\ compositionMap' = compositionMap /\ known' = known /\ root' = root
      /\ seen' = seen
  BY DEF ShowsNode, Shows
<1>4. /\ below \in Seq(Listing)
      /\ Range(below) = UNION {Range(ListingsOf([kind |-> listing.kind, name |-> c], listing.level)) : c \in Range(names)}
  BY <1>1, <1>2, ListingsBelowProperty
<1>5. RightCall(listing) /\ Placed(tree, last, listing)
  BY <1>2 DEF Built
<1>6. node \in Node /\ node.level = listing.level /\ node.kind = listing.kind /\ node.parent = listing.parent
      /\ Resources(node) = {[kind |-> listing.kind, name |-> c] : c \in Range(names)}
  BY <1>2 DEF ShowsNode, Node, Listing, Resources
<1> HIDE DEF below, rest
<1>7. /\ tree' \in Seq(Node) /\ last \in Nat /\ DOMAIN tree = 1 .. last
      /\ Len(tree') = last + 1 /\ DOMAIN tree' = 1 .. last + 1
      /\ (\A i \in DOMAIN tree : tree'[i] = tree[i]) /\ tree'[last + 1] = node
      /\ Range(tree') = Range(tree) \union {node}
  BY <1>1, <1>3, <1>6, AppendProperty
<1>8. agenda' \in Seq(Listing) /\ Range(agenda') = Range(below) \union Range(rest)
  <2>1. below \in Seq(Listing) /\ rest \in Seq(Listing) /\ agenda' = below \o rest
    BY <1>2, <1>3, <1>4
  <2> QED BY <2>1, ListingsConcat, Zenon
<1>9. Given'
  BY <1>1, <1>3 DEF Given
<1>10. TypeOK'
  BY <1>1, <1>3, <1>7, <1>8, <1>9 DEF TypeOK
<1>11. \A n \in Range(tree') : RightNode(n)'
  <2>1. ASSUME NEW n \in Range(tree) PROVE RightNode(n)'
    <3>1. RightNode(n)
      BY DEF Built
    <3> QED BY <1>1, <1>3, <1>9, <3>1, RightLater
  <2> QED BY <1>7, <2>1
<1> DEFINE new == Append(tree, node)
<1>12. \A i, p, level : Shown(tree, i, p, level)' <=> Shown(new, i, p, level)
  BY <1>3, Zenon DEF Shown, Resources
<1>13. \A i, x : Placed(tree, i, x)' <=> Placed(new, i, x)
  BY <1>12, Zenon DEF Placed
<1>14. ASSUME NEW p, NEW level
       PROVE  /\ \A i \in 0 .. last : Shown(new, i, p, level) <=> Shown(tree, i, p, level)
              /\ Shown(new, last + 1, p, level) <=>
                   Shown(tree, last, p, level) \/ (node.level = level /\ p \in Resources(node))
  <2>1. tree \in Seq(Node) /\ node \in Node
    BY <1>1, <1>6
  <2>2. new = Append(tree, node)
    OBVIOUS
  <2> HIDE DEF new
  <2> QED BY <2>1, <2>2, ShownAppend
<1>15. \A i \in 0 .. last : \A x : Placed(new, i, x) <=> Placed(tree, i, x)
  BY <1>14, Zenon DEF Placed
<1>16. \A x : Placed(tree, last, x) => Placed(new, last + 1, x)
  BY <1>14, Zenon DEF Placed
<1> HIDE DEF new, last
<1>17. \A i \in DOMAIN tree' : Placed(tree, i - 1, tree[i])'
  <2>3. \A i : Placed(tree, i - 1, tree[i])' <=> Placed(new, i - 1, tree'[i])
    BY <1>3 DEF Placed, Shown, Resources, new
  <2> SUFFICES ASSUME NEW i \in 1 .. last + 1 PROVE Placed(new, i - 1, tree'[i])
    BY <1>7, <2>3
  <2>1. CASE i = last + 1
    <3>1. i - 1 = last /\ last \in 0 .. last /\ tree'[i] = node
      BY <1>7, <2>1
    <3>2. Placed(tree, last, node)
      BY <1>5, <1>6 DEF Placed
    <3> QED BY <1>15, <3>1, <3>2
  <2>2. CASE i # last + 1
    <3>1. i \in DOMAIN tree /\ i - 1 \in 0 .. last /\ tree'[i] = tree[i]
      BY <1>7, <2>2
    <3>2. Placed(tree, i - 1, tree[i])
      BY <3>1 DEF Built
    <3> QED BY <1>15, <3>1, <3>2
  <2> QED BY <2>1, <2>2
<1>18. ASSUME NEW x \in Range(agenda') PROVE RightCall(x)' /\ Placed(new, last + 1, x)
  <2>1. CASE x \in Range(rest)
    <3>1. RightCall(x) /\ Placed(tree, last, x)
      BY <1>2, <2>1 DEF Built, last
    <3> QED BY <1>3, <1>16, <3>1 DEF RightCall
  <2>2. CASE x \in Range(below)
    <3>1. PICK c \in Range(names) : x \in Range(ListingsOf([kind |-> listing.kind, name |-> c], listing.level))
      BY <1>4, <2>2
    <3> DEFINE p == [kind |-> listing.kind, name |-> c]
    <3>2. p \in Resources(node) /\ p \in Reference /\ listing.level \in Nat /\ listing.level > 1
      <4>1. c \in Name
        BY ElementsProperty
      <4> QED BY <1>2, <1>5, <1>6, <4>1 DEF Listing, Reference, Placed
    <3> HIDE DEF p
    <3>3. x \in Range(ListingsOf(p, listing.level))
      BY <3>1 DEF p
    <3>4. /\ x.level = listing.level + 1 /\ x.parent = p
          /\ p.kind \in DOMAIN compositionMap /\ x.kind \in Range(compositionMap[p.kind])
      BY <1>1, <3>2, <3>3, ListingsOfProperty
    <3>5. x.level > 1 /\ x.level - 1 = listing.level
      BY <3>2, <3>4
    <3>6. Shown(new, last + 1, p, listing.level)
      BY <1>6, <1>14, <3>2
    <3> QED BY <1>3, <3>4, <3>5, <3>6 DEF RightCall, Placed
  <2> QED BY <1>8, <2>1, <2>2
<1>19. \A x \in Range(agenda') : RightCall(x)' /\ Placed(tree, Len(tree), x)'
  <2>1. \A x : Placed(tree, Len(tree), x)' <=> Placed(new, last + 1, x)
    BY <1>3, <1>7 DEF Placed, Shown, Resources, new
  <2> QED BY <1>18, <2>1
<1>20. ASSUME NEW level \in Nat, NEW p \in Reference, Shown(new, last + 1, p, level), p.kind \in DOMAIN compositionMap,
              NEW kind \in Range(compositionMap[p.kind])
       PROVE  Asked(tree', agenda', p, level + 1, kind)
  <2>1. CASE Shown(tree, last, p, level)
    <3>1. Asked(tree, agenda, p, level + 1, kind)
      BY <1>20, <2>1 DEF Built, Complete, last
    <3>2. CASE \E k \in DOMAIN tree : tree[k].level = level + 1 /\ tree[k].kind = kind /\ tree[k].parent = p
      <4>1. PICK k \in DOMAIN tree : tree[k].level = level + 1 /\ tree[k].kind = kind /\ tree[k].parent = p
        BY <3>2
      <4>2. k \in DOMAIN tree' /\ tree'[k] = tree[k]
        BY <1>7
      <4> QED BY <4>1, <4>2, Zenon DEF Asked
    <3>3. CASE [level |-> level + 1, kind |-> kind, parent |-> p] = listing
      <4>1. node.level = level + 1 /\ node.kind = kind /\ node.parent = p
        BY <1>6, <3>3
      <4>2. last + 1 \in DOMAIN tree' /\ tree'[last + 1] = node
        BY <1>7
      <4> QED BY <4>1, <4>2, Zenon DEF Asked
    <3>4. CASE [level |-> level + 1, kind |-> kind, parent |-> p] \in Range(rest)
      BY <1>8, <3>4 DEF Asked
    <3> QED BY <1>2, <3>1, <3>2, <3>3, <3>4 DEF Asked
  <2>2. CASE node.level = level /\ p \in Resources(node)
    <3>1. PICK c \in Range(names) : p = [kind |-> listing.kind, name |-> c]
      BY <1>6, <2>2
    <3>2. [level |-> level + 1, kind |-> kind, parent |-> p] \in Range(ListingsOf(p, level))
      BY <1>1, <1>20, ListingsOfProperty
    <3>3. [level |-> level + 1, kind |-> kind, parent |-> p] \in Range(below)
      BY <1>4, <1>6, <2>2, <3>1, <3>2
    <3> QED BY <1>8, <3>3 DEF Asked
  <2> QED BY <1>14, <1>20, <2>1, <2>2
<1>21. Complete(tree, agenda)'
  <2>1. \A p, level : Shown(tree, Len(tree), p, level)' <=> Shown(new, last + 1, p, level)
    BY <1>3, <1>7 DEF Shown, Resources, new
  <2>2. \A p, level, kind : Asked(tree, agenda, p, level, kind)' <=> Asked(tree', agenda', p, level, kind)
    BY DEF Asked
  <2>3. compositionMap' = compositionMap
    BY <1>3
  <2> SUFFICES ASSUME NEW level \in Nat, NEW p \in Reference,
                      Shown(tree, Len(tree), p, level)', p.kind \in DOMAIN compositionMap',
                      NEW kind \in Range(compositionMap'[p.kind])
               PROVE  Asked(tree, agenda, p, level + 1, kind)'
    BY Zenon DEF Complete
  <2> QED BY <1>20, <2>1, <2>2, <2>3
<1> QED BY <1>10, <1>11, <1>17, <1>19, <1>21 DEF Built

\* The next call and its node.
LEMMA NextCall ==
    ASSUME TypeOK, Built, Building, NEW names \in Seq(Name), NEW listing, listing = Head(agenda),
           Shows(names), missed \subseteq missed'
    PROVE  LET node == [level |-> listing.level, kind |-> listing.kind, parent |-> listing.parent, children |-> names]
           IN  /\ listing \in Listing /\ RightCall(listing)
               /\ ShowsNode(names, listing, node)
               /\ Resources(node) = {[kind |-> listing.kind, name |-> c] : c \in Range(names)}
               /\ Once(listing.parent) \subseteq Once(listing.parent)'
               /\ Always(listing.parent, listing.level)' \subseteq Always(listing.parent, listing.level)
<1> DEFINE node == [level |-> listing.level, kind |-> listing.kind, parent |-> listing.parent, children |-> names]
<1>1. agenda \in Seq(Listing) /\ agenda # <<>> /\ seen # {}
  BY DEF TypeOK, Building, Given
<1>2. listing \in Listing /\ listing \in Range(agenda)
  BY <1>1, HeadTailProperty
<1>3. RightCall(listing)
  BY <1>2 DEF Built
<1>4. Resources(node) = {[kind |-> listing.kind, name |-> c] : c \in Range(names)}
  BY DEF Resources
<1>5. ShowsNode(names, listing, node)
  BY DEF ShowsNode
<1>6. seen' = seen /\ compositionMap' = compositionMap /\ known' = known
  BY DEF Shows
<1>7. /\ Once(listing.parent) \subseteq Once(listing.parent)'
      /\ Always(listing.parent, listing.level)' \subseteq Always(listing.parent, listing.level)
  BY <1>1, <1>6, Moments
<1> QED BY <1>2, <1>3, <1>4, <1>5, <1>7

LEMMA ListChildrenStep ==
    ASSUME TypeOK, Built, ListChildren
    PROVE  TypeOK' /\ Built'
<1>1. PICK listing : listing = Head(agenda)
  OBVIOUS
<1> DEFINE parent == listing.parent
           kind == listing.kind
<1>2. PICK names : names = OwnedBy(kind, parent)
  OBVIOUS
<1>3. Given /\ Building /\ Shows(names) /\ missed' = missed /\ agenda \in Seq(Listing) /\ agenda # <<>>
  BY <1>1, <1>2 DEF TypeOK, ListChildren, Building
<1>4. listing \in Listing
  BY <1>1, <1>3, HeadTailProperty
<1>5. kind \in Name /\ parent \in Reference
  BY <1>4 DEF Listing
<1>6. /\ names \in Seq(Name)
      /\ \A i, j \in DOMAIN names : names[i] = names[j] => i = j
  BY <1>3, <1>5, <1>2, OwnedByProperty
<1>7. Range(names) \subseteq Name
  BY <1>6, ElementsProperty
<1>8. PICK node : node = [level |-> listing.level, kind |-> kind, parent |-> parent, children |-> names]
  OBVIOUS
<1>9. /\ RightCall(listing)
      /\ ShowsNode(names, listing, node)
      /\ Resources(node) = {[kind |-> kind, name |-> c] : c \in Range(names)}
      /\ Once(parent) \subseteq Once(parent)'
      /\ Always(parent, listing.level)' \subseteq Always(parent, listing.level)
  <2>1. missed \subseteq missed'
    BY <1>3
  <2> QED BY <1>1, <1>3, <1>6, <1>8, <2>1, NextCall
<1>10. ASSUME NEW name \in Name
      PROVE  name \in Range(names) <=> [kind |-> kind, name |-> name] \in Children(objs, parent)
  BY <1>3, <1>5, <1>9, <1>2, OwnedByChildren DEF RightCall
<1>11. Resources(node) \subseteq Once(parent)
  <2> SUFFICES ASSUME NEW c \in Range(names) PROVE [kind |-> kind, name |-> c] \in Once(parent)
    BY <1>9
  <2>1. [kind |-> kind, name |-> c] \in Children(objs, parent)
    BY <1>7, <1>10
  <2>2. objs \in seen
    BY <1>3 DEF Given
  <2> QED BY <2>1, <2>2, Zenon DEF Once
<1>12. ASSUME NEW c \in Always(parent, listing.level), c.kind = kind PROVE c \in Resources(node)
  <2>1. c \in Once(parent) /\ c \in Children(objs, parent)
    BY <1>3 DEF Always, Given
  <2>2. c \in Reference
    BY <1>3, <2>1, OnceTypes
  <2>3. c.name \in Name /\ c = [kind |-> kind, name |-> c.name]
    BY <1>12, <2>2 DEF Reference
  <2>4. c.name \in Range(names)
    BY <1>10, <2>1, <2>3
  <2> QED BY <1>9, <2>3, <2>4
<1>13. RightNode(node)'
  <2>1. node.children = names /\ node.parent = parent /\ node.level = listing.level /\ node.kind = kind
    BY <1>8
  <2>2. Resources(node)' = Resources(node)
    BY DEF Resources
  <2> QED BY <1>6, <1>9, <1>11, <1>12, <2>1, <2>2 DEF RightNode
<1> QED BY <1>6, <1>9, <1>13, ShowsStep

\* A call that shows nothing is right where nothing had to be shown.
LEMMA NothingStep ==
    ASSUME TypeOK, Built, Building, NEW listing, listing = Head(agenda), Shows(<<>>), missed \subseteq missed',
           \A c \in Always(listing.parent, listing.level)' : c.kind # listing.kind
    PROVE  TypeOK' /\ Built'
<1> DEFINE node == [level |-> listing.level, kind |-> listing.kind, parent |-> listing.parent, children |-> <<>>]
<1>1. <<>> \in Seq(Name) /\ DOMAIN <<>> = {} /\ Range(<<>>) = {}
  BY DEF Range
<1>2. ShowsNode(<<>>, listing, node)
  BY <1>1, NextCall
<1>3. RightNode(node)'
  BY <1>1 DEF RightNode, Resources
<1> QED BY <1>1, <1>2, <1>3, ShowsStep

LEMMA SkipUnknownStep ==
    ASSUME TypeOK, Built, SkipUnknown
    PROVE  TypeOK' /\ Built'
<1>1. PICK listing : listing = Head(agenda)
  OBVIOUS
<1>2. Building /\ Shows(<<>>) /\ missed' = missed /\ listing.kind \notin known
  BY <1>1 DEF SkipUnknown
<1>3. known' = known
  BY <1>2 DEF Shows
<1>4. \A c \in Always(listing.parent, listing.level)' : c.kind # listing.kind
  BY <1>2, <1>3 DEF Always
<1> QED BY <1>1, <1>2, <1>4, NothingStep

LEMMA ListFailsStep ==
    ASSUME TypeOK, Built, ListFails
    PROVE  TypeOK' /\ Built'
<1>1. PICK listing : listing = Head(agenda)
  OBVIOUS
<1>2. Building /\ Shows(<<>>) /\ missed' = missed \union {listing}
  BY <1>1 DEF ListFails
<1>3. agenda \in Seq(Listing) /\ agenda # <<>>
  BY <1>2 DEF TypeOK, Building
<1>4. listing \in Listing
  BY <1>1, <1>3, HeadTailProperty
<1>5. listing = [level |-> listing.level, kind |-> listing.kind, parent |-> listing.parent]
  BY <1>4 DEF Listing
<1>6. \A c \in Always(listing.parent, listing.level)' : c.kind # listing.kind
  <2> SUFFICES ASSUME NEW c \in Always(listing.parent, listing.level)', c.kind = listing.kind PROVE FALSE
    OBVIOUS
  <2>1. [level |-> listing.level, kind |-> c.kind, parent |-> listing.parent] \notin missed'
    BY DEF Always
  <2> QED BY <1>2, <1>5, <2>1
<1> QED BY <1>1, <1>2, <1>6, NothingStep

\* A step that does not build anything.
LEMMA BuiltUnchanged ==
    ASSUME TypeOK, Built, Given', seen \subseteq seen', missed' = missed,
           compositionMap' = compositionMap, known' = known, root' = root, agenda' = agenda, tree' = tree
    PROVE  Built'
<1>1. \A n \in Range(tree) : RightNode(n)'
  <2> SUFFICES ASSUME NEW n \in Range(tree) PROVE RightNode(n)'
    OBVIOUS
  <2>1. Given /\ RightNode(n)
    BY DEF TypeOK, Built
  <2> QED BY <2>1, RightLater
<1>2. \A n \in Range(tree') : RightNode(n)'
  BY <1>1
<1>3. (\A i \in DOMAIN tree : Placed(tree, i - 1, tree[i]))'
  BY DEF Built, Placed, Shown, Resources
<1>4. (\A listing \in Range(agenda) : RightCall(listing) /\ Placed(tree, Len(tree), listing))'
  BY DEF Built, RightCall, Placed, Shown, Resources
<1>5. Complete(tree, agenda)'
  BY DEF Built, Complete, Shown, Asked, Resources
<1> QED BY <1>2, <1>3, <1>4, <1>5 DEF Built

LEMMA ChangeStep ==
    ASSUME TypeOK, Built, Change
    PROVE  TypeOK' /\ Built'
<1>1. /\ objs' \in Clusters /\ seen' = seen \union {objs'} /\ pc' = pc /\ missed' = missed
      /\ compositionMap' = compositionMap /\ known' = known /\ root' = root /\ agenda' = agenda /\ tree' = tree
  BY DEF Change
<1>2. Given'
  BY <1>1 DEF TypeOK, Given
<1>3. TypeOK'
  BY <1>1, <1>2 DEF TypeOK
<1> QED BY <1>1, <1>2, <1>3, BuiltUnchanged

LEMMA GetCompositionsStep ==
    ASSUME IInv, GetCompositions
    PROVE  IInv'
<1>1. /\ pc = "build" /\ agenda = <<>> /\ pc' = "answered"
      /\ answer' = getComposition([self |-> RootPart, nodes |-> tree, done |-> <<>>])
      /\ objs' = objs /\ seen' = seen /\ missed' = missed
      /\ compositionMap' = compositionMap /\ known' = known /\ root' = root /\ agenda' = agenda /\ tree' = tree
  BY DEF GetCompositions
<1>2. TypeOK /\ Built
  BY DEF IInv
<1>3. Given'
  BY <1>1, <1>2 DEF TypeOK, Given
<1>4. TypeOK'
  BY <1>1, <1>2, <1>3 DEF TypeOK
<1>5. Built'
  BY <1>1, <1>2, <1>3, BuiltUnchanged
<1>6. RootPart' = RootPart
  BY <1>1 DEF RootPart
<1>7. Answered'
  BY <1>1, <1>6 DEF Answered
<1> QED BY <1>4, <1>5, <1>7 DEF IInv

LEMMA InitIInv == Init => IInv
<1> SUFFICES ASSUME Init PROVE IInv
  OBVIOUS
<1>1. /\ pc = "build" /\ agenda = ListingsOf(root, 1) /\ tree = <<>> /\ seen = {objs}
      /\ objs \in Clusters /\ compositionMap \in CompositionMaps /\ root \in Roots
  BY DEF Init
<1>2. Given
  BY <1>1 DEF Given
<1>3. root \in Reference
  BY <1>2, GivenTypes
<1>4. /\ agenda \in Seq(Listing)
      /\ \A listing \in Range(agenda) : listing.level = 2 /\ listing.parent = root /\ RightCall(listing)
      /\ root.kind \in DOMAIN compositionMap =>
           \A kind \in Range(compositionMap[root.kind]) :
              [level |-> 2, kind |-> kind, parent |-> root] \in Range(agenda)
  BY <1>1, <1>2, <1>3, ListingsOfProperty DEF RightCall
<1>5. TypeOK
  BY <1>1, <1>2, <1>4 DEF TypeOK
<1>6. Range(tree) = {} /\ DOMAIN tree = {} /\ Len(tree) = 0
  BY <1>1 DEF Range
<1>7. \A p, level : Shown(tree, 0, p, level) <=> level = 1 /\ p = root
  BY DEF Shown
<1>8. \A listing \in Range(agenda) : Placed(tree, Len(tree), listing)
  BY <1>4, <1>6, <1>7 DEF Placed
<1>9. Complete(tree, agenda)
  BY <1>4, <1>6, <1>7 DEF Complete, Asked
<1>10. Answered
  BY <1>1 DEF Answered, Answer
<1> QED BY <1>4, <1>5, <1>6, <1>8, <1>9, <1>10 DEF Built, IInv

LEMMA NextIInv == IInv /\ [Next]_vars => IInv'
<1> SUFFICES ASSUME IInv, [Next]_vars PROVE IInv'
  OBVIOUS
<1>1. TypeOK /\ Built
  BY DEF IInv
<1>2. ASSUME pc' = "build" PROVE Answered'
  BY <1>2 DEF Answered, Answer
<1>3. CASE ListChildren
  <2>1. pc' = "build"
    BY <1>3 DEF ListChildren, Building, Shows
  <2> QED BY <1>1, <1>2, <1>3, <2>1, ListChildrenStep DEF IInv
<1>4. CASE SkipUnknown
  <2>1. pc' = "build"
    BY <1>4 DEF SkipUnknown, Building, Shows
  <2> QED BY <1>1, <1>2, <1>4, <2>1, SkipUnknownStep DEF IInv
<1>5. CASE ListFails
  <2>1. pc' = "build"
    BY <1>5 DEF ListFails, Building, Shows
  <2> QED BY <1>1, <1>2, <1>5, <2>1, ListFailsStep DEF IInv
<1>6. CASE Change
  <2>1. pc' = "build"
    BY <1>6 DEF Change, Building
  <2> QED BY <1>1, <1>2, <1>6, <2>1, ChangeStep DEF IInv
<1>7. CASE GetCompositions
  BY <1>7, GetCompositionsStep
<1>8. CASE UNCHANGED vars
  <2>1. /\ pc' = pc /\ answer' = answer /\ objs' = objs /\ seen' = seen /\ missed' = missed
        /\ compositionMap' = compositionMap /\ known' = known /\ root' = root /\ agenda' = agenda /\ tree' = tree
    BY <1>8 DEF vars
  <2>2. Given' /\ TypeOK'
    BY <1>1, <2>1 DEF TypeOK, Given
  <2>3. Built'
    BY <1>1, <2>1, <2>2, BuiltUnchanged
  <2>4. RootPart' = RootPart
    BY <2>1 DEF RootPart
  <2>5. Answered'
    BY <2>1, <2>4 DEF IInv, Answered, Answer
  <2> QED BY <2>2, <2>3, <2>5 DEF IInv
<1> QED BY <1>3, <1>4, <1>5, <1>6, <1>7, <1>8 DEF Next, Terminated

LEMMA Invariance == Spec => []IInv
BY InitIInv, NextIInv, PTL DEF Spec

-----------------------------------------------------------------------------
(* The calls of getComposition *)

Start(c) == [parts |-> <<c.self>>, done |-> c.done, rest |-> c.nodes]

\* What a call makes of the calls nested in it.
Search(calls, c) == Loop(AddNode(calls, c.self.depth + 1), Start(c), c.nodes)

GetSteps(n, f) == f = [left \in 0 .. n |-> [c \in Call |-> IF left = 0 THEN Start(c) ELSE Search(f[left - 1], c)]]

LEMMA GetStepsExist ==
    ASSUME NEW n \in Nat
    PROVE  \E f : GetSteps(n, f)
<1> DEFINE S == {m \in Nat : \E f : GetSteps(m, f)}
           Calling(left, before) == [c \in Call |-> IF left = 0 THEN Start(c) ELSE Search(before, c)]
<1>1. 0 \in S
  <2> DEFINE f == [left \in 0 .. 0 |-> Calling(0, {})]
  <2>1. \A X, Y : Calling(0, X) = Calling(0, Y)
    OBVIOUS
  <2>2. \A left \in 0 .. 0 : left = 0
    OBVIOUS
  <2> HIDE DEF Calling
  <2>3. f = [left \in 0 .. 0 |-> Calling(left, f[left - 1])]
    BY <2>1, <2>2
  <2>4. GetSteps(0, f)
    BY <2>3 DEF GetSteps, Calling
  <2> QED BY <2>4
<1>2. ASSUME NEW m \in S PROVE m + 1 \in S
  <2>1. PICK f : GetSteps(m, f)
    BY <1>2
  <2> DEFINE last == Calling(m + 1, f[m])
             g == [l \in 0 .. m + 1 |-> IF l = m + 1 THEN last ELSE f[l]]
  <2>2. \A l \in 0 .. m : f[l] = Calling(l, f[l - 1])
    BY <2>1, Zenon DEF GetSteps
  <2>3. \A X, Y : Calling(0, X) = Calling(0, Y)
    OBVIOUS
  <2> HIDE DEF Calling
  <2>4. \A l \in 0 .. m + 1 : g[l] = Calling(l, g[l - 1])
    <3> SUFFICES ASSUME NEW l \in 0 .. m + 1 PROVE g[l] = Calling(l, g[l - 1])
      OBVIOUS
    <3>1. l # 0 => l - 1 \in 0 .. m + 1 /\ l - 1 # m + 1 /\ g[l - 1] = f[l - 1]
      OBVIOUS
    <3>2. l # m + 1 => l \in 0 .. m /\ g[l] = f[l]
      OBVIOUS
    <3>3. l = m + 1 => g[l] = last /\ l - 1 = m /\ l # 0
      OBVIOUS
    <3> HIDE DEF g
    <3>4. CASE l = 0
      <4>1. l # m + 1
        BY <3>3, <3>4
      <4>2. g[l] = Calling(0, f[l - 1])
        BY <2>2, <3>2, <3>4, <4>1
      <4>3. Calling(0, f[l - 1]) = Calling(0, g[l - 1])
        BY <2>3, Zenon
      <4> QED BY <3>4, <4>2, <4>3
    <3>5. CASE l # 0 /\ l # m + 1
      BY <2>2, <3>1, <3>2, <3>5
    <3>6. CASE l = m + 1
      BY <3>1, <3>3, <3>6
    <3> QED BY <3>4, <3>5, <3>6
  <2> HIDE DEF g
  <2>5. g = [l \in 0 .. m + 1 |-> g[l]]
    BY DEF g
  <2>6. g = [l \in 0 .. m + 1 |-> Calling(l, g[l - 1])]
    BY <2>4, <2>5
  <2>7. GetSteps(m + 1, g)
    BY <2>6, Zenon DEF GetSteps, Calling
  <2> QED BY <2>7
<1>3. S = Nat
  BY <1>1, <1>2, NatSetInduction
<1> QED BY <1>3

Get(n) == CHOOSE f : GetSteps(n, f)

LEMMA GetProperty ==
    ASSUME NEW n \in Nat
    PROVE  /\ Get(n)[0] = [c \in Call |-> Start(c)]
           /\ \A left \in 1 .. n : Get(n)[left] = [c \in Call |-> Search(Get(n)[left - 1], c)]
<1> DEFINE f == Get(n)
<1>1. GetSteps(n, f)
  BY GetStepsExist, Zenon DEF Get
<1> HIDE DEF f
<1>2. \A left \in 0 .. n : f[left] = [c \in Call |-> IF left = 0 THEN Start(c) ELSE Search(f[left - 1], c)]
  BY <1>1, Zenon DEF GetSteps
<1>3. f[0] = [c \in Call |-> Start(c)]
  <2>1. 0 \in 0 .. n
    OBVIOUS
  <2>2. f[0] = [c \in Call |-> IF 0 = 0 THEN Start(c) ELSE Search(f[0 - 1], c)]
    BY <1>2, <2>1, Zenon
  <2> QED BY <2>2
<1>4. ASSUME NEW left \in 1 .. n PROVE f[left] = [c \in Call |-> Search(f[left - 1], c)]
  <2>1. left \in 0 .. n /\ left # 0
    OBVIOUS
  <2>2. f[left] = [c \in Call |-> IF left = 0 THEN Start(c) ELSE Search(f[left - 1], c)]
    BY <1>2, <2>1, Zenon
  <2> QED BY <2>1, <2>2
<1> QED BY <1>3, <1>4 DEF f

LEMMA GetStep ==
    ASSUME NEW n \in Nat, NEW k \in Nat, k + 1 <= n
    PROVE  Get(n)[k + 1] = [c \in Call |-> Search(Get(n)[k], c)]
<1>1. k + 1 \in 1 .. n /\ (k + 1) - 1 = k
  OBVIOUS
<1>2. \A left \in 1 .. n : Get(n)[left] = [c \in Call |-> Search(Get(n)[left - 1], c)]
  BY GetProperty
<1>3. Get(n)[k + 1] = [c \in Call |-> Search(Get(n)[(k + 1) - 1], c)]
  BY <1>1, <1>2, Zenon
<1> QED BY <1>1, <1>3

LEMMA GetCompositionIsGet ==
    ASSUME NEW call
    PROVE  getComposition(call) = Get(Len(call.nodes) + 1)[Len(call.nodes) + 1][call].parts
BY Zenon DEF getComposition, Get, GetSteps, Search, Start

LEMMA CallTypes ==
    ASSUME NEW c \in Call
    PROVE  /\ c.self \in Part /\ c.nodes \in Seq(Node) /\ c.done \in Seq(Node)
           /\ c.self.depth \in Nat /\ Start(c) \in Progress
<1>1. c.self \in Part /\ c.nodes \in Seq(Node) /\ c.done \in Seq(Node)
  BY DEF Call
<1>2. c.self.depth \in Nat
  BY <1>1 DEF Part
<1>3. <<c.self>> \in Seq(Part)
  BY <1>1
<1>4. Start(c) \in Progress
  BY <1>1, <1>3 DEF Start, Progress
<1> QED BY <1>1, <1>2, <1>4

LEMMA TrimmedProperty ==
    ASSUME NEW nodes \in Seq(Node), NEW node \in Node
    PROVE  /\ Trimmed(nodes, node) \in Seq(Node)
           /\ Range(Trimmed(nodes, node)) = {n \in Range(nodes) : IsKept(n, node)}
           /\ Len(Trimmed(nodes, node)) <= Len(nodes)
           /\ node \in Range(nodes) => Len(Trimmed(nodes, node)) < Len(nodes)
<1> DEFINE step == [kept \in Seq(Node) |-> [n \in Node |-> IF IsKept(n, node) THEN Append(kept, n) ELSE kept]]
           Upto(i) == {nodes[j] : j \in {k \in 1 .. i : IsKept(nodes[k], node)}}
           Dropped(i) == \E j \in 1 .. i : ~ IsKept(nodes[j], node)
           I == [i \in 0 .. Len(nodes) |->
                   {kept \in Seq(Node) : Range(kept) = Upto(i) /\ Len(kept) <= i /\ (Dropped(i) => Len(kept) < i)}]
<1>1. Len(nodes) \in Nat /\ DOMAIN nodes = 1 .. Len(nodes) /\ \A i \in 1 .. Len(nodes) : nodes[i] \in Node
  BY ElementsProperty
<1>2. <<>> \in I[0]
  <2>1. 0 \in 0 .. Len(nodes) /\ Upto(0) = {} /\ ~ Dropped(0) /\ Range(<<>>) = {}
    BY <1>1 DEF Range
  <2>2. Len(<<>>) = 0 /\ <<>> \in Seq(Node)
    OBVIOUS
  <2> HIDE DEF Upto, Dropped
  <2>3. I[0] = {kept \in Seq(Node) : Range(kept) = Upto(0) /\ Len(kept) <= 0 /\ (Dropped(0) => Len(kept) < 0)}
    BY <2>1, Zenon
  <2>4. 0 <= 0
    OBVIOUS
  <2> HIDE DEF I
  <2> QED BY <2>1, <2>2, <2>3, <2>4, Zenon
<1>3. ASSUME NEW i \in 1 .. Len(nodes), NEW kept \in I[i - 1] PROVE step[kept][nodes[i]] \in I[i]
  <2>1. i - 1 \in 0 .. Len(nodes) /\ i \in 0 .. Len(nodes) /\ nodes[i] \in Node
    BY <1>1
  <2>2. /\ Upto(i) = IF IsKept(nodes[i], node) THEN Upto(i - 1) \union {nodes[i]} ELSE Upto(i - 1)
        /\ Dropped(i) <=> Dropped(i - 1) \/ ~ IsKept(nodes[i], node)
    <3>1. 1 .. i = (1 .. (i - 1)) \union {i}
      BY <1>1
    <3>2. Dropped(i) <=> Dropped(i - 1) \/ ~ IsKept(nodes[i], node)
      BY <3>1
    <3>3. CASE IsKept(nodes[i], node)
      <4>1. {k \in 1 .. i : IsKept(nodes[k], node)} = {k \in 1 .. (i - 1) : IsKept(nodes[k], node)} \union {i}
        BY <3>1, <3>3
      <4>2. Upto(i) = Upto(i - 1) \union {nodes[i]}
        BY <4>1
      <4> HIDE DEF Upto
      <4> QED BY <3>2, <3>3, <4>2
    <3>4. CASE ~ IsKept(nodes[i], node)
      <4>1. {k \in 1 .. i : IsKept(nodes[k], node)} = {k \in 1 .. (i - 1) : IsKept(nodes[k], node)}
        BY <3>1, <3>4
      <4>2. Upto(i) = Upto(i - 1)
        BY <4>1
      <4> HIDE DEF Upto
      <4> QED BY <3>2, <3>4, <4>2
    <3> QED BY <3>3, <3>4
  <2> HIDE DEF Upto, Dropped
  <2>3. kept \in Seq(Node) /\ Range(kept) = Upto(i - 1) /\ Len(kept) <= i - 1 /\ (Dropped(i - 1) => Len(kept) < i - 1)
        /\ Len(kept) \in Nat
    BY <2>1
  <2>4. step[kept][nodes[i]] = IF IsKept(nodes[i], node) THEN Append(kept, nodes[i]) ELSE kept
    BY <2>1, <2>3
  <2> HIDE DEF step
  <2>5. CASE IsKept(nodes[i], node)
    <3> DEFINE t == Append(kept, nodes[i])
    <3>1. t \in Seq(Node) /\ Range(t) = Range(kept) \union {nodes[i]} /\ Len(t) = Len(kept) + 1
      BY <2>1, <2>3, AppendProperty
    <3>2. step[kept][nodes[i]] = t
      BY <2>4, <2>5
    <3> HIDE DEF t
    <3>3. Len(t) <= i /\ (Dropped(i) => Len(t) < i)
      BY <2>2, <2>3, <2>5, <3>1
    <3> QED BY <2>1, <2>2, <2>3, <2>5, <3>1, <3>2, <3>3
  <2>6. CASE ~ IsKept(nodes[i], node)
    <3>1. Len(kept) < i
      BY <2>3
    <3> QED BY <2>1, <2>2, <2>3, <2>4, <2>6, <3>1
  <2> QED BY <2>5, <2>6
<1>4. Trimmed(nodes, node) = Loop(step, <<>>, nodes)
  BY Zenon DEF Trimmed
<1> HIDE DEF step, I
<1>5. Loop(step, <<>>, nodes) \in I[Len(nodes)]
  BY <1>1, <1>2, <1>3, LoopInvariant
<1>6. Upto(Len(nodes)) = {n \in Range(nodes) : IsKept(n, node)}
  BY <1>1 DEF Range
<1>7. node \in Range(nodes) => Dropped(Len(nodes))
  BY <1>1 DEF Range, IsKept
<1>8. Len(nodes) \in 0 .. Len(nodes)
  BY <1>1
<1> HIDE DEF Upto, Dropped
<1> QED BY <1>4, <1>5, <1>6, <1>7, <1>8 DEF I

-----------------------------------------------------------------------------
(* What is in a composition, and that nothing is in it twice *)

Marks(nodes) == {<<n.level, n.kind>> : n \in Range(nodes)}
Mark(x) == <<x.level, x.kind>>

\* A part for a child of one of the nodes.
IsFrom(nodes, part) ==
    \E n \in Range(nodes) : n.level = part.level /\ n.kind = part.kind /\ part.name \in Range(n.children)

\* No node has a child twice, and the nodes like the one that the call is
\* about are processed.
GoodCall(c) ==
    /\ c \in Call
    /\ \A n \in Range(c.nodes) : /\ \A i, j \in DOMAIN n.children : n.children[i] = n.children[j] => i = j
                                 /\ Mark(n) = Mark(c.self) => Mark(n) \in Marks(c.done)

\* The parts that a call has made so far: its own and, once each, children
\* of nodes that were not processed before and are now.
Sound(c, acc) ==
    /\ acc \in Progress
    /\ acc.parts # <<>> /\ acc.parts[1] = c.self
    /\ Marks(c.done) \subseteq Marks(acc.done)
    /\ \A i \in DOMAIN acc.parts :
          i # 1 => /\ IsFrom(c.nodes, acc.parts[i])
                   /\ Mark(acc.parts[i]) \in Marks(acc.done) \ Marks(c.done)
    /\ \A i, j \in DOMAIN acc.parts : Place(acc.parts[i]) = Place(acc.parts[j]) => i = j

LEMMA ProcessedMark ==
    ASSUME NEW nodes, NEW node
    PROVE  processed(nodes, node) <=> Mark(node) \in Marks(nodes)
BY DEF processed, Mark, Marks, Range

LEMMA MarksAppend ==
    ASSUME NEW nodes \in Seq(Node), NEW node \in Node
    PROVE  Append(nodes, node) \in Seq(Node) /\ Marks(Append(nodes, node)) = Marks(nodes) \union {Mark(node)}
<1>1. Append(nodes, node) \in Seq(Node) /\ Range(Append(nodes, node)) = Range(nodes) \union {node}
  BY AppendProperty
<1> QED BY <1>1 DEF Marks, Mark

LEMMA PlaceMark ==
    ASSUME NEW x \in Part, NEW y \in Part
    PROVE  Place(x) = Place(y) <=> Mark(x) = Mark(y) /\ x.name = y.name
BY DEF Place, Mark

LEMMA ProgressTypes ==
    ASSUME NEW acc \in Progress
    PROVE  /\ acc.parts \in Seq(Part) /\ acc.done \in Seq(Node) /\ acc.rest \in Seq(Node)
           /\ Len(acc.parts) \in Nat /\ DOMAIN acc.parts = 1 .. Len(acc.parts)
           /\ \A i \in DOMAIN acc.parts : acc.parts[i] \in Part
           /\ acc.parts # <<>> => 1 \in DOMAIN acc.parts
<1>1. acc.parts \in Seq(Part) /\ acc.done \in Seq(Node) /\ acc.rest \in Seq(Node)
  BY DEF Progress
<1> DEFINE s == acc.parts
<1>2. s \in Seq(Part)
  BY <1>1
<1> HIDE DEF s
<1>3. Len(s) \in Nat /\ DOMAIN s = 1 .. Len(s) /\ \A i \in DOMAIN s : s[i] \in Part
  BY <1>2
<1>4. s # <<>> => 1 \in DOMAIN s
  BY <1>2, <1>3, EmptySeq
<1> QED BY <1>1, <1>3, <1>4 DEF s

\* The call with a child, and what the round of its loop makes.
ChildCall(acc, depth, node, child) ==
    [self |-> [depth |-> depth, level |-> node.level, kind |-> node.kind, name |-> child],
     nodes |-> Trimmed(acc.rest, node), done |-> Append(acc.done, node)]

LEMMA ChildCallProperty ==
    ASSUME NEW acc \in Progress, NEW depth \in Nat, NEW node \in Node, NEW child \in Name
    PROVE  /\ ChildCall(acc, depth, node, child) \in Call
           /\ Mark(ChildCall(acc, depth, node, child).self) = Mark(node)
           /\ ChildCall(acc, depth, node, child).self.name = child
           /\ ChildCall(acc, depth, node, child).nodes = Trimmed(acc.rest, node)
           /\ Range(ChildCall(acc, depth, node, child).nodes) \subseteq Range(acc.rest)
           /\ Marks(ChildCall(acc, depth, node, child).done) = Marks(acc.done) \union {Mark(node)}
<1> DEFINE call == ChildCall(acc, depth, node, child)
<1>1. acc.rest \in Seq(Node) /\ acc.done \in Seq(Node)
  BY ProgressTypes
<1>2. Trimmed(acc.rest, node) \in Seq(Node) /\ Range(Trimmed(acc.rest, node)) \subseteq Range(acc.rest)
  BY <1>1, TrimmedProperty
<1>3. Append(acc.done, node) \in Seq(Node) /\ Marks(Append(acc.done, node)) = Marks(acc.done) \union {Mark(node)}
  BY <1>1, MarksAppend
<1>4. call.self \in Part
  BY DEF ChildCall, Part, Node
<1>5. call \in Call
  BY <1>2, <1>3, <1>4 DEF ChildCall, Call
<1>6. /\ Mark(call.self) = Mark(node) /\ call.self.name = child
      /\ call.nodes = Trimmed(acc.rest, node) /\ call.done = Append(acc.done, node)
  BY DEF ChildCall, Mark
<1> HIDE DEF call
<1> QED BY <1>2, <1>3, <1>5, <1>6 DEF call

WithChild(acc, r) == [parts |-> acc.parts \o r.parts, done |-> r.done, rest |-> <<>>]

LEMMA AddChildRound ==
    ASSUME NEW calls, NEW depth, NEW node, NEW acc \in Progress, NEW child \in Name
    PROVE  AddChild(calls, depth, node)[acc][child] = WithChild(acc, calls[ChildCall(acc, depth, node, child)])
BY DEF AddChild, ChildCall, WithChild

LEMMA SoundChild ==
    ASSUME NEW c, GoodCall(c), NEW acc, Sound(c, acc),
           NEW node \in Range(c.nodes), Mark(node) \notin Marks(c.done), NEW child \in Range(node.children),
           \A i \in DOMAIN acc.parts : i # 1 /\ Mark(acc.parts[i]) = Mark(node) => acc.parts[i].name # child,
           NEW call, GoodCall(call), Mark(call.self) = Mark(node), call.self.name = child,
           Range(call.nodes) \subseteq Range(c.nodes), Marks(call.done) = Marks(acc.done) \union {Mark(node)},
           NEW r, Sound(call, r)
    PROVE  /\ Sound(c, WithChild(acc, r))
           /\ \A i \in DOMAIN WithChild(acc, r).parts :
                 i # 1 /\ Mark(WithChild(acc, r).parts[i]) = Mark(node) =>
                    \/ WithChild(acc, r).parts[i].name = child
                    \/ \E j \in DOMAIN acc.parts : j # 1 /\ acc.parts[j] = WithChild(acc, r).parts[i]
<1> DEFINE s == acc.parts
           t == r.parts
           u == s \o t
           new == [parts |-> u, done |-> r.done, rest |-> <<>>]
<1>1. acc \in Progress /\ r \in Progress
  BY DEF Sound
<1>2. /\ s \in Seq(Part) /\ t \in Seq(Part) /\ r.done \in Seq(Node)
      /\ (\A i \in DOMAIN s : s[i] \in Part) /\ (\A i \in DOMAIN t : t[i] \in Part)
      /\ 1 \in DOMAIN s /\ 1 \in DOMAIN t
  BY <1>1, ProgressTypes DEF Sound
<1>3. /\ s[1] = c.self /\ t[1] = call.self
      /\ Marks(c.done) \subseteq Marks(acc.done) /\ Marks(call.done) \subseteq Marks(r.done)
  BY DEF Sound
<1>4. \A i \in DOMAIN s : i # 1 => IsFrom(c.nodes, s[i]) /\ Mark(s[i]) \in Marks(acc.done) \ Marks(c.done)
  BY DEF Sound
<1>5. \A i \in DOMAIN t : i # 1 => IsFrom(call.nodes, t[i]) /\ Mark(t[i]) \in Marks(r.done) \ Marks(call.done)
  BY DEF Sound
<1>6. \A i, j \in DOMAIN s : Place(s[i]) = Place(s[j]) => i = j
  BY DEF Sound
<1>7. \A i, j \in DOMAIN t : Place(t[i]) = Place(t[j]) => i = j
  BY DEF Sound
<1>8. \A n \in Range(c.nodes) : Mark(n) = Mark(c.self) => Mark(n) \in Marks(c.done)
  BY DEF GoodCall
<1> HIDE DEF s, t
<1>9. /\ u \in Seq(Part) /\ Len(s) \in Nat /\ Len(t) \in Nat /\ DOMAIN s = 1 .. Len(s) /\ DOMAIN t = 1 .. Len(t)
      /\ DOMAIN u = 1 .. Len(s) + Len(t) /\ Len(u) = Len(s) + Len(t)
      /\ (\A i \in DOMAIN s : u[i] = s[i]) /\ (\A i \in DOMAIN t : u[Len(s) + i] = t[i])
      /\ (\A i \in DOMAIN u : i \in DOMAIN s \/ i - Len(s) \in DOMAIN t)
  BY <1>2, ConcatProperty
<1> HIDE DEF u
<1>10. \A k \in DOMAIN u : \/ k \in DOMAIN s /\ u[k] = s[k]
                           \/ \E m \in DOMAIN t : k = Len(s) + m /\ u[k] = t[m]
  <2> SUFFICES ASSUME NEW k \in DOMAIN u, k \notin DOMAIN s
               PROVE  \E m \in DOMAIN t : k = Len(s) + m /\ u[k] = t[m]
    BY <1>9
  <2>1. k - Len(s) \in DOMAIN t /\ k = Len(s) + (k - Len(s))
    BY <1>9
  <2> QED BY <1>9, <2>1
<1>11. \A i \in DOMAIN t : IsFrom(c.nodes, t[i]) /\ Mark(t[i]) \in Marks(r.done) \ Marks(c.done)
  <2> SUFFICES ASSUME NEW i \in DOMAIN t
               PROVE  IsFrom(c.nodes, t[i]) /\ Mark(t[i]) \in Marks(r.done) \ Marks(c.done)
    OBVIOUS
  <2>1. CASE i = 1
    <3>1. IsFrom(c.nodes, t[1])
      <4>1. node.level = t[1].level /\ node.kind = t[1].kind /\ t[1].name = child
        BY <1>3 DEF Mark
      <4> QED BY <4>1 DEF IsFrom
    <3>2. Mark(t[1]) = Mark(node)
      BY <1>3
    <3> QED BY <1>3, <2>1, <3>1, <3>2
  <2>2. CASE i # 1
    <3>1. IsFrom(c.nodes, t[i])
      BY <1>5, <2>2 DEF IsFrom
    <3>2. Mark(t[i]) \in Marks(r.done) /\ Mark(t[i]) \notin Marks(call.done)
      BY <1>5, <2>2
    <3> QED BY <1>3, <3>1, <3>2
  <2> QED BY <2>1, <2>2
\* A part that was there and one that is added are not of one place.
<1>12. \A i \in DOMAIN s, j \in DOMAIN t : Place(s[i]) # Place(t[j])
  <2> SUFFICES ASSUME NEW i \in DOMAIN s, NEW j \in DOMAIN t, Mark(s[i]) = Mark(t[j]), s[i].name = t[j].name
               PROVE  FALSE
    BY <1>2, PlaceMark
  <2>1. CASE i = 1
    <3>1. PICK n \in Range(c.nodes) : Mark(n) = Mark(t[j])
      BY <1>11 DEF IsFrom, Mark
    <3>2. Mark(n) = Mark(c.self)
      BY <1>3, <2>1, <3>1
    <3> QED BY <1>8, <1>11, <3>1, <3>2
  <2>2. CASE i # 1 /\ j = 1
    <3>1. Mark(s[i]) = Mark(node) /\ s[i].name = child
      BY <1>3, <2>2
    <3> QED BY <2>2, <3>1 DEF s
  <2>3. CASE i # 1 /\ j # 1
    BY <1>4, <1>5, <2>3
  <2> QED BY <2>1, <2>2, <2>3
<1>13. new \in Progress
  <2>1. <<>> \in Seq(Node)
    OBVIOUS
  <2> QED BY <1>2, <1>9, <2>1 DEF Progress
<1>14. u # <<>> /\ u[1] = c.self
  <2>1. 1 \in DOMAIN u /\ u[1] = s[1]
    BY <1>2, <1>9
  <2> QED BY <1>3, <1>9, <2>1, EmptySeq
<1>15. \A i \in DOMAIN u : i # 1 => IsFrom(c.nodes, u[i]) /\ Mark(u[i]) \in Marks(r.done) \ Marks(c.done)
  <2> SUFFICES ASSUME NEW i \in DOMAIN u, i # 1
               PROVE  IsFrom(c.nodes, u[i]) /\ Mark(u[i]) \in Marks(r.done) \ Marks(c.done)
    OBVIOUS
  <2>1. CASE i \in DOMAIN s /\ u[i] = s[i]
    BY <1>3, <1>4, <2>1
  <2>2. CASE \E m \in DOMAIN t : i = Len(s) + m /\ u[i] = t[m]
    BY <1>11, <2>2
  <2> QED BY <1>10, <2>1, <2>2
<1>16. \A i, j \in DOMAIN u : Place(u[i]) = Place(u[j]) => i = j
  <2> SUFFICES ASSUME NEW i \in DOMAIN u, NEW j \in DOMAIN u, Place(u[i]) = Place(u[j]) PROVE i = j
    OBVIOUS
  <2>1. CASE i \in DOMAIN s /\ u[i] = s[i] /\ j \in DOMAIN s /\ u[j] = s[j]
    BY <1>6, <2>1
  <2>2. CASE i \in DOMAIN s /\ u[i] = s[i] /\ \E m \in DOMAIN t : j = Len(s) + m /\ u[j] = t[m]
    BY <1>12, <2>2
  <2>3. CASE j \in DOMAIN s /\ u[j] = s[j] /\ \E m \in DOMAIN t : i = Len(s) + m /\ u[i] = t[m]
    BY <1>12, <2>3
  <2>4. CASE /\ \E m \in DOMAIN t : i = Len(s) + m /\ u[i] = t[m]
             /\ \E m \in DOMAIN t : j = Len(s) + m /\ u[j] = t[m]
    BY <1>7, <2>4
  <2> QED BY <1>10, <2>1, <2>2, <2>3, <2>4
<1>17. Marks(c.done) \subseteq Marks(r.done)
  BY <1>3
<1>18. Sound(c, new)
  <2>1. new.parts = u /\ new.done = r.done
    OBVIOUS
  <2> HIDE DEF new
  <2> QED BY <1>13, <1>14, <1>15, <1>16, <1>17, <2>1 DEF Sound
<1>19. \A i \in DOMAIN u : i # 1 /\ Mark(u[i]) = Mark(node) =>
          u[i].name = child \/ \E j \in DOMAIN s : j # 1 /\ s[j] = u[i]
  <2> SUFFICES ASSUME NEW i \in DOMAIN u, i # 1, Mark(u[i]) = Mark(node), i \notin DOMAIN s
               PROVE  u[i].name = child
    BY <1>9
  <2>1. PICK m \in DOMAIN t : u[i] = t[m]
    BY <1>10
  <2>2. m = 1
    BY <1>5, <2>1
  <2> QED BY <1>3, <2>1, <2>2
<1>20. WithChild(acc, r) = new /\ new.parts = u
  BY DEF WithChild, new, u, s, t
<1> HIDE DEF new
<1> QED BY <1>18, <1>19, <1>20 DEF s

SoundCalls(calls) == calls \in [Call -> Progress] /\ \A c \in Call : GoodCall(c) => Sound(c, calls[c])

\* The parts other than the first that are for children of a node: none is
\* for a child, or those that are new are.
NoneFor(parts, node, child) ==
    \A i \in DOMAIN parts : i # 1 /\ Mark(parts[i]) = Mark(node) => parts[i].name # child
NewFor(old, new, node, child) ==
    \A i \in DOMAIN new :
       i # 1 /\ Mark(new[i]) = Mark(node) => new[i].name = child \/ \E j \in DOMAIN old : j # 1 /\ old[j] = new[i]

LEMMA SoundRound ==
    ASSUME NEW calls, SoundCalls(calls), NEW depth \in Nat, NEW c, GoodCall(c),
           NEW acc, Sound(c, acc), Range(acc.rest) \subseteq Range(c.nodes),
           NEW node \in Range(c.nodes), Mark(node) \notin Marks(c.done), NEW child \in Range(node.children),
           NoneFor(acc.parts, node, child), NEW new, new = AddChild(calls, depth, node)[acc][child]
    PROVE  Sound(c, new) /\ new.rest = <<>> /\ NewFor(acc.parts, new.parts, node, child)
<1>1. acc \in Progress /\ c \in Call
  BY DEF Sound, GoodCall
<1>2. node \in Node
  BY <1>1, CallTypes, ElementsProperty
<1>3. child \in Name
  <2>1. node.children \in Seq(Name)
    BY <1>2 DEF Node
  <2> QED BY <2>1, ElementsProperty
<1> DEFINE call == ChildCall(acc, depth, node, child)
<1>4. /\ call \in Call /\ Mark(call.self) = Mark(node) /\ call.self.name = child
      /\ Range(call.nodes) \subseteq Range(acc.rest)
      /\ Marks(call.done) = Marks(acc.done) \union {Mark(node)}
  BY <1>1, <1>2, <1>3, ChildCallProperty
<1>5. new = WithChild(acc, calls[call])
  BY <1>1, <1>3, AddChildRound
<1> HIDE DEF call
<1>6. Range(call.nodes) \subseteq Range(c.nodes)
  BY <1>4
<1>7. GoodCall(call)
  <2>1. \A n \in Range(call.nodes) : n \in Range(c.nodes)
    BY <1>6
  <2>2. \A n \in Range(call.nodes) : \A i, j \in DOMAIN n.children : n.children[i] = n.children[j] => i = j
    BY <2>1, Zenon DEF GoodCall
  <2>3. Mark(node) \in Marks(call.done)
    BY <1>4
  <2> QED BY <1>4, <2>2, <2>3, Zenon DEF GoodCall
<1>8. Sound(call, calls[call])
  BY <1>4, <1>7 DEF SoundCalls
<1>9. new.rest = <<>>
  BY <1>5 DEF WithChild
<1>10. /\ Sound(c, WithChild(acc, calls[call]))
       /\ \A i \in DOMAIN WithChild(acc, calls[call]).parts :
             i # 1 /\ Mark(WithChild(acc, calls[call]).parts[i]) = Mark(node) =>
                \/ WithChild(acc, calls[call]).parts[i].name = child
                \/ \E j \in DOMAIN acc.parts : j # 1 /\ acc.parts[j] = WithChild(acc, calls[call]).parts[i]
  BY <1>4, <1>6, <1>7, <1>8, SoundChild DEF NoneFor
<1> QED BY <1>5, <1>9, <1>10 DEF NewFor

\* The loop over a node's children.
LEMMA SoundNode ==
    ASSUME NEW calls, SoundCalls(calls), NEW depth \in Nat, NEW c, GoodCall(c),
           NEW acc, Sound(c, acc), Range(acc.rest) \subseteq Range(c.nodes), NEW node \in Range(c.nodes)
    PROVE  /\ Sound(c, AddNode(calls, depth)[acc][node])
           /\ Range(AddNode(calls, depth)[acc][node].rest) \subseteq Range(c.nodes)
<1> DEFINE names == node.children
           step == AddChild(calls, depth, node)
           Known(a, i) == \A k \in DOMAIN a.parts :
                             k # 1 /\ Mark(a.parts[k]) = Mark(node) => \E j \in 1 .. i : a.parts[k].name = names[j]
           I == [i \in 0 .. Len(names) |->
                   {a \in Progress : Sound(c, a) /\ Range(a.rest) \subseteq Range(c.nodes) /\ Known(a, i)}]
<1>1. acc \in Progress /\ c \in Call
  BY DEF Sound, GoodCall
<1>2. node \in Node
  BY <1>1, CallTypes, ElementsProperty
<1>3. /\ names \in Seq(Name) /\ Len(names) \in Nat /\ DOMAIN names = 1 .. Len(names)
      /\ (\A i \in 1 .. Len(names) : names[i] \in Name)
      /\ \A i, j \in DOMAIN names : names[i] = names[j] => i = j
  <2>1. names \in Seq(Name)
    BY <1>2 DEF Node
  <2>2. \A i, j \in DOMAIN names : names[i] = names[j] => i = j
    BY DEF GoodCall
  <2> HIDE DEF names
  <2> QED BY <2>1, <2>2, ElementsProperty
<1>4. AddNode(calls, depth)[acc][node] = IF processed(acc.done, node) THEN acc ELSE Loop(step, acc, names)
  BY <1>1, <1>2 DEF AddNode
<1>5. CASE processed(acc.done, node)
  BY <1>4, <1>5
<1>6. CASE ~ processed(acc.done, node)
  <2>1. Mark(node) \notin Marks(acc.done) /\ Mark(node) \notin Marks(c.done)
    <3>1. Mark(node) \notin Marks(acc.done)
      BY <1>6, ProcessedMark
    <3> QED BY <3>1 DEF Sound
  <2>2. acc \in I[0]
    <3>1. Known(acc, 0)
      BY <2>1 DEF Sound
    <3>2. 0 \in 0 .. Len(names)
      BY <1>3
    <3> HIDE DEF Known
    <3> QED BY <1>1, <3>1, <3>2
  <2>3. ASSUME NEW i \in 1 .. Len(names), NEW a \in I[i - 1] PROVE step[a][names[i]] \in I[i]
    <3>1. i - 1 \in 0 .. Len(names) /\ i \in 0 .. Len(names) /\ names[i] \in Name /\ names[i] \in Range(names)
      BY <1>3 DEF Range
    <3> DEFINE child == names[i]
               new == step[a][child]
    <3>2. a \in Progress /\ Sound(c, a) /\ Range(a.rest) \subseteq Range(c.nodes) /\ Known(a, i - 1)
      <4> HIDE DEF Known
      <4> QED BY <3>1
    <3>3. \A k \in DOMAIN a.parts : k # 1 /\ Mark(a.parts[k]) = Mark(node) => a.parts[k].name # child
      <4> SUFFICES ASSUME NEW k \in DOMAIN a.parts, k # 1, Mark(a.parts[k]) = Mark(node), a.parts[k].name = child
                   PROVE  FALSE
        OBVIOUS
      <4>1. PICK j \in 1 .. i - 1 : names[j] = child
        BY <3>2
      <4>2. j \in DOMAIN names /\ i \in DOMAIN names /\ j # i
        BY <1>3, <4>1
      <4> QED BY <1>3, <4>1, <4>2
    <3>4. child \in Range(node.children)
      BY <3>1
    <3>5. new = AddChild(calls, depth, node)[a][child]
      OBVIOUS
    <3> HIDE DEF child, new
    <3>9. Sound(c, new) /\ new.rest = <<>> /\ NewFor(a.parts, new.parts, node, child)
      <4>1. Sound(c, a) /\ Range(a.rest) \subseteq Range(c.nodes)
        BY <3>2
      <4> HIDE DEF I, Known, step, names
      <4>2. NoneFor(a.parts, node, child)
        BY <3>3 DEF NoneFor
      <4> QED BY <2>1, <4>2, <3>4, <3>5, <4>1, SoundRound
    <3>10. Known(new, i)
      <4> SUFFICES ASSUME NEW k \in DOMAIN new.parts, k # 1, Mark(new.parts[k]) = Mark(node)
                   PROVE  \E j \in 1 .. i : new.parts[k].name = names[j]
        OBVIOUS
      <4>1. CASE new.parts[k].name = child
        <5>1. i \in 1 .. i
          BY <3>1
        <5> QED BY <4>1, <5>1 DEF child
      <4>2. CASE \E j \in DOMAIN a.parts : j # 1 /\ a.parts[j] = new.parts[k]
        <5>1. \E j \in 1 .. i - 1 : new.parts[k].name = names[j]
          BY <3>2, <4>2
        <5>2. \A j \in 1 .. i - 1 : j \in 1 .. i
          BY <3>1
        <5> QED BY <5>1, <5>2
      <4> QED BY <3>9, <4>1, <4>2 DEF NewFor
    <3>11. new.rest = <<>> /\ new \in Progress
      BY <3>9 DEF Sound
    <3>12. Range(<<>>) = {}
      BY DEF Range
    <3> HIDE DEF Known
    <3>13. new \in I[i]
      BY <3>1, <3>9, <3>10, <3>11, <3>12
    <3> QED BY <3>13 DEF child, new
  <2> HIDE DEF step, I
  <2>4. Loop(step, acc, names) \in I[Len(names)]
    BY <1>3, <2>2, <2>3, LoopInvariant
  <2>5. Len(names) \in 0 .. Len(names)
    BY <1>3
  <2> HIDE DEF Known
  <2>6. Sound(c, Loop(step, acc, names)) /\ Range(Loop(step, acc, names).rest) \subseteq Range(c.nodes)
    BY <2>4, <2>5 DEF I
  <2> QED BY <1>4, <1>6, <2>6
<1> QED BY <1>5, <1>6

LEMMA SoundStart ==
    ASSUME NEW c \in Call
    PROVE  Sound(c, Start(c))
<1>1. Start(c) \in Progress /\ c.self \in Part
  BY CallTypes
<1>2. Start(c).parts = <<c.self>> /\ Start(c).done = c.done
  BY DEF Start
<1> DEFINE s == <<c.self>>
<1>3. s # <<>> /\ s[1] = c.self /\ DOMAIN s = {1}
  BY <1>1
<1> HIDE DEF s
<1> QED BY <1>1, <1>2, <1>3 DEF Sound, s

\* The loop over the nodes.
LEMMA SoundSearch ==
    ASSUME NEW calls, SoundCalls(calls), NEW c, GoodCall(c)
    PROVE  Sound(c, Search(calls, c))
<1> DEFINE step == AddNode(calls, c.self.depth + 1)
           I == {a \in Progress : Sound(c, a) /\ Range(a.rest) \subseteq Range(c.nodes)}
<1>1. c \in Call /\ c.self.depth + 1 \in Nat /\ c.nodes \in Seq(Node)
  BY CallTypes DEF GoodCall
<1>2. Len(c.nodes) \in Nat /\ \A i \in 1 .. Len(c.nodes) : c.nodes[i] \in Range(c.nodes)
  <2>1. Len(c.nodes) \in Nat /\ DOMAIN c.nodes = 1 .. Len(c.nodes)
    BY <1>1
  <2> QED BY <2>1 DEF Range
<1>3. Start(c) \in I
  <2>1. Start(c).rest = c.nodes
    BY DEF Start
  <2> QED BY <1>1, <2>1, SoundStart DEF Sound
<1>4. ASSUME NEW i \in 1 .. Len(c.nodes), NEW a \in I PROVE step[a][c.nodes[i]] \in I
  <2>1. Sound(c, step[a][c.nodes[i]]) /\ Range(step[a][c.nodes[i]].rest) \subseteq Range(c.nodes)
    BY <1>1, <1>2, SoundNode
  <2> QED BY <2>1 DEF Sound
<1>5. Search(calls, c) = Loop(step, Start(c), c.nodes)
  BY DEF Search
<1> HIDE DEF step, I
<1>6. Loop(step, Start(c), c.nodes) \in I
  BY <1>2, <1>3, <1>4, LoopKeeps
<1> QED BY <1>5, <1>6 DEF I

LEMMA ProgressOfSearch ==
    ASSUME NEW calls \in [Call -> Progress], NEW c \in Call
    PROVE  Search(calls, c) \in Progress
<1> DEFINE step == AddNode(calls, c.self.depth + 1)
<1>1. c.self.depth + 1 \in Nat /\ c.nodes \in Seq(Node) /\ Start(c) \in Progress
  BY CallTypes
<1>2. Len(c.nodes) \in Nat /\ \A i \in 1 .. Len(c.nodes) : c.nodes[i] \in Node
  BY <1>1, ElementsProperty
<1>3. ASSUME NEW a \in Progress, NEW node \in Node PROVE step[a][node] \in Progress
  <2> DEFINE names == node.children
             inner == AddChild(calls, c.self.depth + 1, node)
  <2>1. names \in Seq(Name)
    BY DEF Node
  <2> HIDE DEF names
  <2>2. Len(names) \in Nat /\ \A i \in 1 .. Len(names) : names[i] \in Name
    BY <2>1, ElementsProperty
  <2>3. step[a][node] = IF processed(a.done, node) THEN a ELSE Loop(inner, a, names)
    BY DEF AddNode, names
  <2>4. ASSUME NEW b \in Progress, NEW child \in Name PROVE inner[b][child] \in Progress
    <3> DEFINE call == ChildCall(b, c.self.depth + 1, node, child)
               r == calls[call]
    <3>1. call \in Call
      BY <1>1, ChildCallProperty
    <3>2. inner[b][child] = WithChild(b, r)
      BY AddChildRound
    <3> HIDE DEF call, inner
    <3>3. r \in Progress
      BY <3>1
    <3>4. b.parts \in Seq(Part) /\ r.parts \in Seq(Part) /\ r.done \in Seq(Node)
      BY <3>3, ProgressTypes
    <3> HIDE DEF r
    <3>5. b.parts \o r.parts \in Seq(Part) /\ <<>> \in Seq(Node)
      BY <3>4
    <3> QED BY <3>2, <3>4, <3>5 DEF Progress, WithChild
  <2> HIDE DEF inner
  <2>5. Loop(inner, a, names) \in Progress
    BY <2>2, <2>4, LoopKeeps
  <2> QED BY <2>3, <2>5
<1> HIDE DEF step
<1>4. Loop(step, Start(c), c.nodes) \in Progress
  BY <1>1, <1>2, <1>3, LoopKeeps
<1> QED BY <1>4 DEF Search, step

LEMMA SoundGet ==
    ASSUME NEW n \in Nat
    PROVE  \A left \in 0 .. n : SoundCalls(Get(n)[left])
<1> DEFINE S == {k \in Nat : k <= n => SoundCalls(Get(n)[k])}
<1>1. 0 \in S
  BY GetProperty, CallTypes, SoundStart DEF SoundCalls
<1>2. ASSUME NEW k \in S PROVE k + 1 \in S
  <2> SUFFICES ASSUME k + 1 <= n PROVE SoundCalls(Get(n)[k + 1])
    OBVIOUS
  <2> DEFINE calls == Get(n)[k]
  <2>1. k + 1 \in 1 .. n /\ (k + 1) - 1 = k /\ SoundCalls(calls)
    OBVIOUS
  <2>2. Get(n)[k + 1] = [c \in Call |-> Search(calls, c)]
    BY GetStep
  <2> HIDE DEF calls
  <2>3. calls \in [Call -> Progress]
    BY <2>1 DEF SoundCalls
  <2>4. [c \in Call |-> Search(calls, c)] \in [Call -> Progress]
    BY <2>3, ProgressOfSearch
  <2>5. \A c \in Call : GoodCall(c) => Sound(c, Search(calls, c))
    BY <2>1, SoundSearch
  <2> QED BY <2>2, <2>4, <2>5 DEF SoundCalls
<1>3. S = Nat
  BY <1>1, <1>2, NatSetInduction
<1> QED BY <1>3
-----------------------------------------------------------------------------
(* The list in the store *)

LEMMA StoredShown ==
    ASSUME TypeOK, NEW p, NEW level
    PROVE  p \in Stored(level) <=> Shown(tree, Len(tree), p, level)
<1>1. DOMAIN tree = 1 .. Len(tree)
  BY ElementsProperty DEF TypeOK
<1>2. p \in Stored(level) <=> (level = 1 /\ p = root) \/ \E n \in Range(tree) : n.level = level /\ p \in Resources(n)
  BY DEF Stored
<1>3. (\E n \in Range(tree) : n.level = level /\ p \in Resources(n)) <=>
        \E k \in 1 .. Len(tree) : tree[k].level = level /\ p \in Resources(tree[k])
  BY <1>1 DEF Range
<1> QED BY <1>2, <1>3 DEF Shown

\* What the invariant says of a node.
LEMMA NodeProperty ==
    ASSUME TypeOK, Built, NEW n \in Range(tree)
    PROVE  /\ n \in Node /\ n.level \in Nat /\ n.level > 1 /\ n.parent \in Stored(n.level - 1)
           /\ Resources(n) \subseteq Once(n.parent) /\ Resources(n) \subseteq Stored(n.level)
<1>1. tree \in Seq(Node) /\ Len(tree) \in Nat /\ DOMAIN tree = 1 .. Len(tree)
  BY ElementsProperty DEF TypeOK
<1>2. PICK i \in DOMAIN tree : n = tree[i]
  BY DEF Range
<1>3. n \in Node /\ n.level \in Nat
  <2>1. n \in Node
    BY <1>1, <1>2, ElementsProperty
  <2> QED BY <2>1 DEF Node
<1>4. Placed(tree, i - 1, n) /\ RightNode(n)
  BY <1>2 DEF Built
<1>5. i - 1 \in Nat /\ i - 1 <= Len(tree)
  BY <1>1
<1>6. Shown(tree, Len(tree), n.parent, n.level - 1)
  BY <1>1, <1>4, <1>5, ShownMore DEF Placed
<1>7. n.parent \in Stored(n.level - 1)
  BY <1>6, StoredShown
<1>8. Resources(n) \subseteq Stored(n.level)
  BY DEF Stored
<1> QED BY <1>3, <1>4, <1>7, <1>8 DEF Placed, RightNode

LEMMA IInvStoreFaithful == IInv => StoreFaithful
<1> SUFFICES ASSUME IInv, agenda = <<>>
             PROVE  /\ \A n \in Range(tree) : n.parent \in Stored(n.level - 1)
                    /\ \A level \in Levels : \A p \in Stored(level) :
                          /\ StoredBelow(p, level + 1) \subseteq Once(p)
                          /\ Always(p, level + 1) \subseteq StoredBelow(p, level + 1)
  BY DEF StoreFaithful
<1>1. TypeOK /\ Built /\ Given /\ Complete(tree, agenda)
  BY DEF IInv, TypeOK, Built
<1>2. ASSUME NEW level \in Levels, NEW p \in Stored(level) PROVE StoredBelow(p, level + 1) \subseteq Once(p)
  BY <1>1, NodeProperty DEF StoredBelow
<1>3. ASSUME NEW level \in Levels, NEW p \in Stored(level), NEW c \in Always(p, level + 1)
      PROVE  c \in StoredBelow(p, level + 1)
  <2>1. c \in Once(p)
    BY DEF Always
  <2>2. p.kind \in DOMAIN compositionMap /\ c.kind \in Range(compositionMap[p.kind])
    BY <1>1, <2>1, OnceTypes
  <2>3. Shown(tree, Len(tree), p, level)
    BY <1>1, <1>3, StoredShown
  <2>4. level \in Nat
    BY <1>1, NodeProperty DEF Levels
  <2>5. p \in Reference
    <3>1. tree \in Seq(Node) /\ Len(tree) \in 0 .. Len(tree)
      BY <1>1, ElementsProperty DEF TypeOK
    <3> QED BY <1>1, <2>3, <3>1, ShownReference
  <2>6. Asked(tree, agenda, p, level + 1, c.kind)
    BY <1>1, <2>2, <2>3, <2>4, <2>5, Zenon DEF Complete
  <2>7. Range(agenda) = {}
    BY DEF Range
  <2>8. PICK k \in DOMAIN tree : tree[k].level = level + 1 /\ tree[k].kind = c.kind /\ tree[k].parent = p
    BY <2>6, <2>7 DEF Asked
  <2>9. tree[k] \in Range(tree)
    BY DEF Range
  <2>10. c \in Resources(tree[k])
    BY <1>1, <2>8, <2>9 DEF Built, RightNode
  <2> QED BY <2>8, <2>9, <2>10 DEF StoredBelow
<1> QED BY <1>1, <1>2, <1>3, NodeProperty

-----------------------------------------------------------------------------
(* The resources at a level below the root *)

BelowSteps(n, f) ==
    f = [l \in 1 .. n |-> IF l = 1 THEN {root} ELSE UNION {Once(p) : p \in f[l - 1]}]

LEMMA BelowStepsExist ==
    ASSUME NEW n \in Nat
    PROVE  \E f : BelowSteps(n, f)
<1> DEFINE S == {m \in Nat : \E f : BelowSteps(m, f)}
           Next1(X) == UNION {Once(p) : p \in X}
<1>1. 0 \in S
  <2>1. BelowSteps(0, [l \in 1 .. 0 |-> {}])
    BY DEF BelowSteps
  <2> QED BY <2>1
<1>2. ASSUME NEW m \in S PROVE m + 1 \in S
  <2>1. PICK f : BelowSteps(m, f)
    BY <1>2
  <2> DEFINE last == IF m + 1 = 1 THEN {root} ELSE Next1(f[m])
             g == [l \in 1 .. m + 1 |-> IF l = m + 1 THEN last ELSE f[l]]
  <2>2. \A l \in 1 .. m : f[l] = IF l = 1 THEN {root} ELSE Next1(f[l - 1])
    BY <2>1, Zenon DEF BelowSteps
  <2> HIDE DEF Next1
  <2>3. \A l \in 1 .. m + 1 : g[l] = IF l = 1 THEN {root} ELSE Next1(g[l - 1])
    <3> SUFFICES ASSUME NEW l \in 1 .. m + 1
                 PROVE  g[l] = IF l = 1 THEN {root} ELSE Next1(g[l - 1])
      OBVIOUS
    <3>1. l # 1 => l - 1 \in 1 .. m + 1 /\ l - 1 # m + 1 /\ g[l - 1] = f[l - 1]
      OBVIOUS
    <3>2. l # m + 1 => l \in 1 .. m /\ g[l] = f[l]
      OBVIOUS
    <3>3. l = m + 1 => g[l] = last /\ l - 1 = m
      OBVIOUS
    <3> QED BY <2>2, <3>1, <3>2, <3>3
  <2> HIDE DEF g
  <2>4. g = [l \in 1 .. m + 1 |-> g[l]]
    BY DEF g
  <2>5. g = [l \in 1 .. m + 1 |-> IF l = 1 THEN {root} ELSE Next1(g[l - 1])]
    BY <2>3, <2>4
  <2>6. BelowSteps(m + 1, g)
    BY <2>5, Zenon DEF BelowSteps, Next1
  <2> QED BY <2>6
<1>3. S = Nat
  BY <1>1, <1>2, NatSetInduction
<1> QED BY <1>3

\* What the list has at a level is at that level below the root.
LEMMA StoredBelowRoot ==
    ASSUME TypeOK, Built, NEW level \in Nat, level > 0
    PROVE  Stored(level) \subseteq Below(level)
<1> DEFINE f == CHOOSE g : BelowSteps(level, g)
<1>1. BelowSteps(level, f)
  BY BelowStepsExist, Zenon
<1>2. Below(level) = f[level]
  BY Zenon DEF Below, BelowSteps
<1> HIDE DEF f
<1>3. \A l \in 1 .. level : f[l] = IF l = 1 THEN {root} ELSE UNION {Once(p) : p \in f[l - 1]}
  BY <1>1, Zenon DEF BelowSteps
<1> DEFINE S == {k \in Nat : k < level => Stored(k + 1) \subseteq f[k + 1]}
<1>4. 0 \in S
  <2>1. 1 \in 1 .. level
    OBVIOUS
  <2>2. f[1] = {root}
    BY <1>3, <2>1
  <2>3. Stored(1) \subseteq {root}
    <3>1. \A n \in Range(tree) : n.level # 1
      BY NodeProperty
    <3> QED BY <3>1 DEF Stored
  <2> QED BY <2>2, <2>3
<1>5. ASSUME NEW k \in S PROVE k + 1 \in S
  <2> SUFFICES ASSUME k + 1 < level, NEW c \in Stored(k + 2) PROVE c \in f[k + 2]
    OBVIOUS
  <2>1. k \in Nat /\ k + 2 \in 1 .. level /\ k + 2 # 1 /\ (k + 2) - 1 = k + 1
    OBVIOUS
  <2>2. Stored(k + 1) \subseteq f[k + 1]
    BY <2>1
  <2>3. PICK n \in Range(tree) : n.level = k + 2 /\ c \in Resources(n)
    BY <2>1 DEF Stored
  <2>4. n.parent \in f[k + 1] /\ c \in Once(n.parent)
    BY <2>1, <2>2, <2>3, NodeProperty
  <2>5. f[k + 2] = UNION {Once(p) : p \in f[k + 1]}
    BY <1>3, <2>1
  <2> QED BY <2>4, <2>5
<1>6. S = Nat
  BY <1>4, <1>5, NatSetInduction
<1>7. level - 1 \in Nat /\ level - 1 < level /\ (level - 1) + 1 = level
  OBVIOUS
<1>8. Stored(level) \subseteq f[level]
  BY <1>6, <1>7
<1> QED BY <1>2, <1>8

-----------------------------------------------------------------------------
(* The answer of a request *)

\* The call with the resource asked for.
RootCall == [self |-> RootPart, nodes |-> tree, done |-> <<>>]

LEMMA RootCallProperty ==
    ASSUME TypeOK, Built
    PROVE  RootCall \in Call /\ GoodCall(RootCall) /\ RootCall.self = RootPart
           /\ RootCall.nodes = tree /\ RootCall.done = <<>>
<1>1. tree \in Seq(Node) /\ <<>> \in Seq(Node) /\ root \in Reference
  BY GivenTypes DEF TypeOK
<1>2. RootPart \in Part
  BY <1>1 DEF RootPart, Part, Reference
<1>3. RootCall \in Call
  BY <1>1, <1>2 DEF RootCall, Call
<1>4. RootCall.self = RootPart /\ RootCall.nodes = tree /\ RootCall.done = <<>>
  BY DEF RootCall
<1>5. ASSUME NEW n \in Range(tree) PROVE Mark(n) # Mark(RootPart)
  <2>1. n.level # 1
    BY NodeProperty
  <2>2. RootPart.level = 1
    BY DEF RootPart
  <2> QED BY <2>1, <2>2 DEF Mark
<1>6. \A n \in Range(tree) : \A i, j \in DOMAIN n.children : n.children[i] = n.children[j] => i = j
  BY DEF Built, RightNode
<1> QED BY <1>3, <1>4, <1>5, <1>6 DEF GoodCall

\* The parts of the answer.
LEMMA AnswerSound ==
    ASSUME TypeOK, Built
    PROVE  \E r : Sound(RootCall, r) /\ getComposition(RootCall) = r.parts
<1> DEFINE n == Len(RootCall.nodes) + 1
           r == Get(n)[n][RootCall]
<1>1. n \in Nat
  <2>1. RootCall.nodes \in Seq(Node)
    BY RootCallProperty, CallTypes
  <2> QED BY <2>1
<1>2. getComposition(RootCall) = r.parts
  BY GetCompositionIsGet
<1> HIDE DEF n
<1>3. SoundCalls(Get(n)[n])
  BY <1>1, SoundGet
<1>4. Sound(RootCall, r)
  BY <1>3, RootCallProperty DEF SoundCalls
<1> QED BY <1>2, <1>4

LEMMA IInvOnlyDescendants == IInv => OnlyDescendants
<1> SUFFICES ASSUME IInv, Answer, NEW i \in DOMAIN answer, i # 1
             PROVE  answer[i].level > 1 /\ Ref(answer[i]) \in Below(answer[i].level)
  BY DEF OnlyDescendants
<1>1. TypeOK /\ Built /\ answer = getComposition(RootCall)
  BY DEF IInv, Answered, RootCall
<1>2. PICK r : Sound(RootCall, r) /\ answer = r.parts
  BY <1>1, AnswerSound
<1>3. IsFrom(tree, answer[i])
  BY <1>1, <1>2, RootCallProperty DEF Sound
<1>4. PICK n \in Range(tree) :
         n.level = answer[i].level /\ n.kind = answer[i].kind /\ answer[i].name \in Range(n.children)
  BY <1>3 DEF IsFrom
<1>5. n.level \in Nat /\ n.level > 1 /\ Resources(n) \subseteq Stored(n.level)
  BY <1>1, NodeProperty
<1>6. Ref(answer[i]) \in Resources(n)
  BY <1>4 DEF Ref, Resources
<1> QED BY <1>1, <1>4, <1>5, <1>6, StoredBelowRoot

LEMMA IInvNoneTwice == IInv => NoneTwice
<1> SUFFICES ASSUME IInv, Answer PROVE \A i, j \in DOMAIN answer : Place(answer[i]) = Place(answer[j]) => i = j
  BY DEF NoneTwice
<1>1. TypeOK /\ Built /\ answer = getComposition(RootCall)
  BY DEF IInv, Answered, RootCall
<1>2. PICK r : Sound(RootCall, r) /\ answer = r.parts
  BY <1>1, AnswerSound
<1> QED BY <1>2 DEF Sound

\* Whatever changes and fails during a build, the list in the store has
\* below each resource only what was there at some moment, and all that was
\* there all along and whose call did not fail: buildCompositions loses and
\* invents nothing of what its calls show.
THEOREM StoreIsFaithful == Spec => []StoreFaithful
BY Invariance, IInvStoreFaithful, PTL

\* Whatever the order of the nodes in the list, getComposition puts nothing
\* into the answer that owner references did not put below the resource, and
\* nothing at another level than they did.
THEOREM AnswerHasOnlyDescendants == Spec => []OnlyDescendants
BY Invariance, IInvOnlyDescendants, PTL

\* The processed nodes, which all calls of getComposition share, keep a
\* resource from being in the answer twice at a level, also when a resource
\* that changes its owner during the build is twice in the list.
THEOREM AnswerHasNoneTwice == Spec => []NoneTwice
BY Invariance, IInvNoneTwice, PTL

-----------------------------------------------------------------------------
(* The order of the nodes *)

Owning(n) == Range(n.children) # {}

\* A node for resources two or more levels below is listed after one for
\* resources a level above those.
Ordered(nodes, level) ==
    \A j \in DOMAIN nodes :
       Owning(nodes[j]) /\ nodes[j].level > level + 1 =>
          \E k \in 1 .. j - 1 : Owning(nodes[k]) /\ nodes[k].level = nodes[j].level - 1

HasLevel(nodes, level) == \E k \in DOMAIN nodes : Owning(nodes[k]) /\ nodes[k].level = level

\* What is kept of an ordered list is ordered, if all nodes for resources
\* further below are kept.
LEMMA TrimmedOrdered ==
    ASSUME NEW nodes \in Seq(Node), NEW node \in Node, NEW level \in Nat, Ordered(nodes, level),
           \A n \in Range(nodes) : Owning(n) /\ n.level > level + 1 => IsKept(n, node)
    PROVE  Ordered(Trimmed(nodes, node), level + 1)
<1> DEFINE step == [kept \in Seq(Node) |-> [n \in Node |-> IF IsKept(n, node) THEN Append(kept, n) ELSE kept]]
           All(kept, i) == \A k \in 1 .. i : IsKept(nodes[k], node) => \E h \in DOMAIN kept : kept[h] = nodes[k]
           I == [i \in 0 .. Len(nodes) |->
                   {kept \in Seq(Node) : Ordered(kept, level + 1) /\ All(kept, i)}]
<1>1. Len(nodes) \in Nat /\ DOMAIN nodes = 1 .. Len(nodes) /\ \A i \in 1 .. Len(nodes) : nodes[i] \in Node
  BY ElementsProperty
<1>2. <<>> \in I[0]
  <2>1. 0 \in 0 .. Len(nodes) /\ All(<<>>, 0) /\ <<>> \in Seq(Node) /\ Ordered(<<>>, level + 1)
    BY <1>1 DEF Ordered
  <2> HIDE DEF All
  <2> QED BY <2>1
<1>3. ASSUME NEW i \in 1 .. Len(nodes), NEW kept \in I[i - 1] PROVE step[kept][nodes[i]] \in I[i]
  <2> DEFINE n == nodes[i]
  <2>1. i - 1 \in 0 .. Len(nodes) /\ i \in 0 .. Len(nodes) /\ n \in Node /\ n \in Range(nodes)
    BY <1>1 DEF Range
  <2> HIDE DEF All
  <2>2. kept \in Seq(Node) /\ Ordered(kept, level + 1) /\ All(kept, i - 1)
    BY <2>1
  <2>3. step[kept][n] = IF IsKept(n, node) THEN Append(kept, n) ELSE kept
    BY <2>1, <2>2
  <2> HIDE DEF step, n
  <2>4. CASE IsKept(n, node)
    <3> DEFINE t == Append(kept, n)
    <3>1. /\ t \in Seq(Node) /\ Len(kept) \in Nat /\ DOMAIN kept = 1 .. Len(kept) /\ DOMAIN t = 1 .. Len(kept) + 1
          /\ (\A h \in DOMAIN kept : t[h] = kept[h]) /\ t[Len(kept) + 1] = n
      BY <2>1, <2>2, AppendProperty
    <3> HIDE DEF t
    <3>2. All(t, i)
      <4> SUFFICES ASSUME NEW k \in 1 .. i, IsKept(nodes[k], node) PROVE \E h \in DOMAIN t : t[h] = nodes[k]
        BY DEF All
      <4>1. CASE k = i
        <5>1. Len(kept) + 1 \in DOMAIN t
          BY <3>1
        <5> QED BY <3>1, <4>1, <5>1 DEF n
      <4>2. CASE k # i
        <5>1. k \in 1 .. i - 1
          BY <1>1, <4>2
        <5>2. PICK h \in DOMAIN kept : kept[h] = nodes[k]
          BY <2>2, <5>1 DEF All
        <5>3. h \in DOMAIN t
          BY <3>1
        <5> QED BY <3>1, <5>2, <5>3
      <4> QED BY <4>1, <4>2
    <3>3. ASSUME NEW j \in DOMAIN t, Owning(t[j]), t[j].level > level + 1 + 1
          PROVE  \E k \in 1 .. j - 1 : Owning(t[k]) /\ t[k].level = t[j].level - 1
      <4>1. CASE j = Len(kept) + 1
        <5>1. Owning(n) /\ n.level > level + 2 /\ n.level \in Nat
          <6>1. t[j] = n /\ Owning(t[j]) /\ t[j].level > level + 1 + 1
            BY <3>1, <3>3, <4>1
          <6>2. n.level \in Nat
            BY <2>1 DEF Node
          <6> QED BY <6>1, <6>2
        <5>2. PICK k \in 1 .. i - 1 : Owning(nodes[k]) /\ nodes[k].level = n.level - 1
          <6>1. i \in DOMAIN nodes /\ n.level > level + 1
            BY <1>1, <5>1
          <6>2. Owning(nodes[i]) /\ nodes[i].level > level + 1
            BY <5>1, <6>1 DEF n
          <6>3. \E k \in 1 .. i - 1 : Owning(nodes[k]) /\ nodes[k].level = nodes[i].level - 1
            BY <6>1, <6>2, Zenon DEF Ordered
          <6> QED BY <6>3 DEF n
        <5>3. nodes[k] \in Range(nodes) /\ nodes[k].level > level + 1
          <6>1. k \in DOMAIN nodes
            BY <1>1
          <6>2. nodes[k] \in Range(nodes)
            BY <6>1 DEF Range
          <6> QED BY <5>1, <5>2, <6>2
        <5>4. PICK h \in DOMAIN kept : kept[h] = nodes[k]
          BY <2>2, <5>2, <5>3 DEF All
        <5>5. h \in 1 .. j - 1
          BY <3>1, <4>1
        <5> QED BY <3>1, <4>1, <5>2, <5>4, <5>5
      <4>2. CASE j # Len(kept) + 1
        <5>1. j \in DOMAIN kept /\ t[j] = kept[j]
          BY <3>1, <4>2
        <5>2. PICK k \in 1 .. j - 1 : Owning(kept[k]) /\ kept[k].level = kept[j].level - 1
          BY <2>2, <3>3, <5>1 DEF Ordered
        <5>3. k \in DOMAIN kept
          BY <3>1, <5>1
        <5> QED BY <3>1, <5>1, <5>2, <5>3
      <4> QED BY <4>1, <4>2
    <3>4. Ordered(t, level + 1)
      BY <3>3 DEF Ordered
    <3>5. step[kept][n] = t
      BY <2>3, <2>4 DEF t
    <3> QED BY <2>1, <3>1, <3>2, <3>4, <3>5 DEF n
  <2>5. CASE ~ IsKept(n, node)
    <3>1. All(kept, i)
      <4> SUFFICES ASSUME NEW k \in 1 .. i, IsKept(nodes[k], node) PROVE \E h \in DOMAIN kept : kept[h] = nodes[k]
        BY DEF All
      <4>1. k \in 1 .. i - 1
        BY <1>1, <2>5 DEF n
      <4> QED BY <2>2, <4>1 DEF All
    <3> QED BY <2>1, <2>2, <2>3, <2>5, <3>1 DEF n
  <2> QED BY <2>4, <2>5
<1>4. Trimmed(nodes, node) = Loop(step, <<>>, nodes)
  BY Zenon DEF Trimmed
<1> HIDE DEF step, I
<1>5. Loop(step, <<>>, nodes) \in I[Len(nodes)]
  BY <1>1, <1>2, <1>3, LoopInvariant
<1>6. Len(nodes) \in 0 .. Len(nodes)
  BY <1>1
<1> HIDE DEF All
<1> QED BY <1>4, <1>5, <1>6 DEF I

-----------------------------------------------------------------------------
(* The answer where the resources below the root are a chain *)

LEMMA NoRound ==
    ASSUME NEW step, NEW start, NEW s, Len(s) = 0
    PROVE  Loop(step, start, s) = start
<1> DEFINE I == {start}
<1>1. Loop(step, start, s) \in I
  <2>1. Len(s) \in Nat /\ start \in I /\ \A i \in 1 .. Len(s) : \A a \in I : step[a][s[i]] \in I
    OBVIOUS
  <2> HIDE DEF I
  <2> QED BY <2>1, LoopKeeps
<1> QED BY <1>1

LEMMA OneRound ==
    ASSUME NEW step, NEW start, NEW s, Len(s) = 1
    PROVE  Loop(step, start, s) = step[start][s[1]]
<1> DEFINE I == [i \in 0 .. 1 |-> IF i = 0 THEN {start} ELSE {step[start][s[1]]}]
<1>1. I[0] = {start} /\ I[1] = {step[start][s[1]]}
  OBVIOUS
<1> HIDE DEF I
<1>2. start \in I[0] /\ Len(s) \in Nat
  BY <1>1
<1>3. \A i \in 1 .. Len(s) : \A a \in I[i - 1] : step[a][s[i]] \in I[i]
  <2> SUFFICES ASSUME NEW i \in 1 .. Len(s), NEW a \in I[i - 1] PROVE step[a][s[i]] \in I[i]
    OBVIOUS
  <2>1. i = 1 /\ i - 1 = 0
    OBVIOUS
  <2>2. a = start
    BY <1>1, <2>1
  <2> QED BY <1>1, <2>1, <2>2
<1>4. Loop(step, start, s) \in I[Len(s)]
  BY <1>2, <1>3, LoopInvariant
<1> QED BY <1>1, <1>4

From(level) == {l \in Nat : l >= level}

\* What is said of the resources of a chain, for all levels below the root.
LEMMA ChainUnique ==
    ASSUME TypeOK, Built, IsChain, NEW l \in From(2), NEW m \in From(2), NEW p \in Stored(l), NEW q \in Stored(m)
    PROVE  (l = m => p = q) /\ (p.kind = q.kind => l = m)
<1>1. ASSUME NEW k \in From(2), NEW x \in Stored(k) PROVE k \in Levels \ {1}
  <2>1. k # 1
    BY DEF From
  <2> QED BY <2>1 DEF Stored, Levels
<1> QED BY <1>1 DEF IsChain

LEMMA StoredRoot ==
    ASSUME TypeOK, Built
    PROVE  Stored(1) = {root} /\ root \in Reference
<1>1. \A n \in Range(tree) : n.level # 1
  BY NodeProperty
<1> QED BY <1>1, GivenTypes DEF Stored, TypeOK

\* The node of a resource in a chain has that resource and no other.
LEMMA OwningNode ==
    ASSUME TypeOK, Built, IsChain, NEW n \in Range(tree), Owning(n)
    PROVE  /\ n \in Node /\ n.level \in From(2)
           /\ Len(n.children) = 1 /\ n.children[1] \in Name
           /\ [kind |-> n.kind, name |-> n.children[1]] \in Stored(n.level)
<1> DEFINE s == n.children
<1>1. n \in Node /\ n.level \in Nat /\ n.level > 1 /\ Resources(n) \subseteq Stored(n.level)
  BY NodeProperty
<1>2. n \in Node /\ n.level \in From(2) /\ \A c \in Range(s) : [kind |-> n.kind, name |-> c] \in Stored(n.level)
  BY <1>1 DEF From, Resources
<1>3. \A i, j \in DOMAIN s : s[i] = s[j] => i = j
  BY DEF Built, RightNode
<1>4. s \in Seq(Name)
  BY <1>2 DEF Node
<1>5. s # <<>>
  BY DEF Owning, Range
<1> HIDE DEF s
<1>6. Len(s) \in Nat /\ DOMAIN s = 1 .. Len(s) /\ 1 \in DOMAIN s /\ \A i \in DOMAIN s : s[i] \in Range(s) /\ s[i] \in Name
  <2>1. Len(s) \in Nat /\ DOMAIN s = 1 .. Len(s) /\ \A i \in DOMAIN s : s[i] \in Name
    BY <1>4
  <2>2. Len(s) # 0
    BY <1>4, <1>5, EmptySeq
  <2> QED BY <2>1, <2>2 DEF Range
<1>7. Len(s) = 1
  <2> SUFFICES ASSUME 2 \in DOMAIN s PROVE FALSE
    BY <1>6
  <2>1. [kind |-> n.kind, name |-> s[1]] \in Stored(n.level) /\ [kind |-> n.kind, name |-> s[2]] \in Stored(n.level)
    BY <1>2, <1>6
  <2>2. n.level \in From(2)
    BY <1>2
  <2>3. [kind |-> n.kind, name |-> s[1]] = [kind |-> n.kind, name |-> s[2]]
    BY <2>1, <2>2, ChainUnique
  <2>4. s[1] = s[2]
    BY <2>3
  <2> QED BY <1>3, <1>6, <2>4
<1> QED BY <1>2, <1>6, <1>7 DEF s

\* A call with the resource at a level, which has all nodes for what is
\* further below to search.
ChainCall(c, level) ==
    /\ c \in Call /\ level \in From(1)
    /\ Ref(c.self) \in Stored(level) /\ c.self.level = level
    /\ Range(c.nodes) \subseteq Range(tree)
    /\ Ordered(c.nodes, level)
    /\ \A n \in Range(c.nodes) : Owning(n) => n.level > level
    /\ \A l \in From(level + 1) : Stored(l) # {} => HasLevel(c.nodes, l)
    /\ \A m \in Marks(c.done) : m[1] <= level

\* The resources at the level and at all below it, each nested in the one
\* above; their nodes are processed.
ChainResult(c, level, r) ==
    /\ r \in Progress
    /\ Len(r.parts) > 0 /\ level + Len(r.parts) \in From(1)
    /\ Stored(level + Len(r.parts)) = {}
    /\ \A j \in DOMAIN r.parts : /\ Ref(r.parts[j]) \in Stored(level + j - 1)
                                 /\ r.parts[j].depth = c.self.depth + j - 1
                                 /\ r.parts[j].level = level + j - 1
    /\ Marks(c.done) \subseteq Marks(r.done)
    /\ \A n \in Range(c.nodes) : Owning(n) => Mark(n) \in Marks(r.done)

LEMMA ChildChainCall ==
    ASSUME TypeOK, Built, IsChain, NEW c, NEW level, ChainCall(c, level),
           NEW node \in Range(c.nodes), Owning(node), node.level = level + 1,
           NEW call, call = ChildCall(Start(c), c.self.depth + 1, node, node.children[1])
    PROVE  /\ ChainCall(call, level + 1)
           /\ Len(call.nodes) < Len(c.nodes)
           /\ call.self.depth = c.self.depth + 1
           /\ Marks(call.done) = Marks(c.done) \union {Mark(node)}
           /\ \A n \in Range(c.nodes) : Owning(n) => Mark(n) = Mark(node) \/ n \in Range(call.nodes)
<1> DEFINE child == node.children[1]
<1>1. c \in Call /\ level \in From(1) /\ level \in Nat /\ Range(c.nodes) \subseteq Range(tree)
  BY DEF ChainCall, From
<1>2. /\ node \in Node /\ node.level \in From(2) /\ child \in Name
      /\ [kind |-> node.kind, name |-> child] \in Stored(node.level)
  BY <1>1, OwningNode
<1>3. /\ c.nodes \in Seq(Node) /\ c.self.depth + 1 \in Nat /\ Start(c) \in Progress
      /\ Start(c).rest = c.nodes /\ Start(c).done = c.done
  <2>1. /\ c.nodes \in Seq(Node) /\ c.self.depth \in Nat /\ Start(c) \in Progress
    BY <1>1, CallTypes
  <2>2. Start(c).rest = c.nodes /\ Start(c).done = c.done
    BY DEF Start
  <2> QED BY <2>1, <2>2
<1> HIDE DEF child
<1>4. call = ChildCall(Start(c), c.self.depth + 1, node, child)
  BY DEF child
<1>5. /\ call \in Call /\ call.nodes = Trimmed(c.nodes, node)
      /\ Marks(call.done) = Marks(c.done) \union {Mark(node)}
  <2> DEFINE acc == Start(c)
             depth == c.self.depth + 1
  <2>1. acc \in Progress /\ depth \in Nat /\ acc.rest = c.nodes /\ acc.done = c.done
    BY <1>3
  <2>2. call = ChildCall(acc, depth, node, child)
    BY <1>4
  <2> HIDE DEF acc, depth
  <2> QED BY <1>2, <2>1, <2>2, ChildCallProperty
<1>6. call.self = [depth |-> c.self.depth + 1, level |-> node.level, kind |-> node.kind, name |-> child]
  BY <1>4 DEF ChildCall
<1>7. /\ Range(call.nodes) = {n \in Range(c.nodes) : IsKept(n, node)}
      /\ Len(call.nodes) < Len(c.nodes)
  BY <1>2, <1>3, <1>5, TrimmedProperty
<1>8. ASSUME NEW n \in Range(c.nodes), Owning(n)
      PROVE  /\ n.level \in From(level + 1)
             /\ n.level \in Nat
             /\ n.level > level + 1 => IsKept(n, node)
             /\ n.level = level + 1 => Mark(n) = Mark(node)
  <2>1. n.level \in From(2) /\ [kind |-> n.kind, name |-> n.children[1]] \in Stored(n.level)
    BY <1>1, <1>8, OwningNode
  <2>2. n.level > level
    BY <1>8 DEF ChainCall
  <2>3. level + 1 \in From(2) /\ n.level \in From(2)
    BY <1>1, <1>2, <2>1 DEF From
  <2> DEFINE p == [kind |-> n.kind, name |-> n.children[1]]
             q == [kind |-> node.kind, name |-> child]
  <2>4. p \in Stored(n.level) /\ q \in Stored(level + 1) /\ p.kind = n.kind /\ q.kind = node.kind
    BY <1>2, <2>1
  <2> HIDE DEF p, q
  <2>5. (n.level = level + 1 => p = q) /\ (n.kind = node.kind => n.level = level + 1)
    BY <2>3, <2>4, ChainUnique
  <2>6. n.level > level + 1 => IsKept(n, node)
    BY <1>1, <2>1, <2>5 DEF IsKept, From
  <2>7. n.level = level + 1 => Mark(n) = Mark(node)
    BY <2>4, <2>5 DEF Mark
  <2> QED BY <1>1, <2>1, <2>2, <2>6, <2>7 DEF From
<1>9. \A n \in Range(c.nodes) : Owning(n) => Mark(n) = Mark(node) \/ n \in Range(call.nodes)
  BY <1>1, <1>7, <1>8 DEF From
<1>10. level + 1 \in From(1) /\ Ref(call.self) \in Stored(level + 1) /\ call.self.level = level + 1
  BY <1>1, <1>2, <1>6 DEF Ref, From
<1>11. Range(call.nodes) \subseteq Range(tree)
  BY <1>1, <1>7
<1>12. Ordered(call.nodes, level + 1)
  <2>1. Ordered(c.nodes, level) /\ level \in Nat
    BY <1>1 DEF ChainCall
  <2>2. \A n \in Range(c.nodes) : Owning(n) /\ n.level > level + 1 => IsKept(n, node)
    BY <1>8
  <2> QED BY <1>2, <1>3, <1>5, <2>1, <2>2, TrimmedOrdered
<1>13. \A n \in Range(call.nodes) : Owning(n) => n.level > level + 1
  <2> SUFFICES ASSUME NEW n \in Range(call.nodes), Owning(n) PROVE n.level > level + 1
    OBVIOUS
  <2>1. n \in Range(c.nodes) /\ IsKept(n, node)
    BY <1>7
  <2>2. n.level # level + 1
    BY <2>1 DEF IsKept
  <2> QED BY <1>1, <1>8, <2>1, <2>2 DEF From
<1>14. ASSUME NEW l \in From(level + 1 + 1), Stored(l) # {} PROVE HasLevel(call.nodes, l)
  <2>1. l \in From(level + 1) /\ l > level + 1
    BY <1>1 DEF From
  <2>2. PICK k \in DOMAIN c.nodes : Owning(c.nodes[k]) /\ c.nodes[k].level = l
    BY <1>14, <2>1 DEF ChainCall, HasLevel
  <2>3. c.nodes[k] \in Range(c.nodes)
    BY DEF Range
  <2>4. c.nodes[k] \in Range(call.nodes)
    BY <1>7, <1>8, <2>1, <2>2, <2>3
  <2> QED BY <2>2, <2>4 DEF HasLevel, Range
<1>15. \A m \in Marks(call.done) : m[1] <= level + 1
  <2> SUFFICES ASSUME NEW m \in Marks(call.done) PROVE m[1] <= level + 1
    OBVIOUS
  <2>1. CASE m = Mark(node)
    BY <1>1, <2>1 DEF Mark
  <2>2. CASE m \in Marks(c.done)
    <3>1. m[1] <= level
      BY <2>2 DEF ChainCall
    <3>2. m[1] \in Nat
      <4>1. \A n \in Range(c.done) : n \in Node
        BY <1>1, CallTypes, ElementsProperty
      <4> QED BY <2>2, <4>1 DEF Marks, Node
    <3> QED BY <1>1, <3>1, <3>2
  <2> QED BY <1>5, <2>1, <2>2
<1>16. ChainCall(call, level + 1)
  BY <1>5, <1>10, <1>11, <1>12, <1>13, <1>14, <1>15 DEF ChainCall
<1> QED BY <1>5, <1>6, <1>7, <1>9, <1>16

LEMMA ChainWith ==
    ASSUME NEW c, NEW level, ChainCall(c, level), NEW call, NEW node, NEW r,
           ChainResult(call, level + 1, r), call.self.depth = c.self.depth + 1,
           Marks(call.done) = Marks(c.done) \union {Mark(node)},
           \A n \in Range(c.nodes) : Owning(n) => Mark(n) = Mark(node) \/ n \in Range(call.nodes)
    PROVE  ChainResult(c, level, WithChild(Start(c), r))
<1> DEFINE s == <<c.self>>
           t == r.parts
           u == s \o t
           new == WithChild(Start(c), r)
<1>1. c \in Call /\ level \in From(1) /\ level \in Nat /\ Ref(c.self) \in Stored(level) /\ c.self.level = level
  BY DEF ChainCall, From
<1>2. c.self \in Part /\ c.self.depth \in Nat /\ s \in Seq(Part) /\ Len(s) = 1 /\ s[1] = c.self /\ DOMAIN s = 1 .. 1
  <2>1. c.self \in Part /\ c.self.depth \in Nat
    BY <1>1, CallTypes
  <2> QED BY <2>1
<1>3. r \in Progress /\ t \in Seq(Part) /\ r.done \in Seq(Node)
  BY ProgressTypes DEF ChainResult
<1>4. /\ Len(t) > 0 /\ level + 1 + Len(t) \in From(1) /\ Stored(level + 1 + Len(t)) = {}
      /\ \A j \in DOMAIN t : /\ Ref(t[j]) \in Stored(level + 1 + j - 1)
                            /\ t[j].depth = c.self.depth + 1 + j - 1
                            /\ t[j].level = level + 1 + j - 1
  BY DEF ChainResult
<1> HIDE DEF s, t
<1>5. /\ u \in Seq(Part) /\ Len(t) \in Nat /\ DOMAIN t = 1 .. Len(t) /\ Len(u) = 1 + Len(t) /\ DOMAIN u = 1 .. 1 + Len(t)
      /\ u[1] = c.self /\ \A i \in DOMAIN t : u[1 + i] = t[i]
  <2>1. /\ u \in Seq(Part) /\ Len(t) \in Nat /\ DOMAIN t = 1 .. Len(t) /\ Len(u) = Len(s) + Len(t)
        /\ DOMAIN u = 1 .. Len(s) + Len(t) /\ (\A i \in DOMAIN s : u[i] = s[i])
        /\ \A i \in DOMAIN t : u[Len(s) + i] = t[i]
    <3>1. s \in Seq(Part) /\ t \in Seq(Part)
      BY <1>2, <1>3
    <3> QED BY <3>1, ConcatProperty
  <2> HIDE DEF u
  <2> QED BY <1>2, <2>1
<1> HIDE DEF u
<1>6. new.parts = u /\ new.done = r.done /\ new \in Progress
  <2>1. new = [parts |-> u, done |-> r.done, rest |-> <<>>]
    BY DEF WithChild, Start, u, s, t
  <2>2. <<>> \in Seq(Node)
    OBVIOUS
  <2> HIDE DEF new
  <2> QED BY <1>3, <1>5, <2>1, <2>2 DEF Progress
<1>7. Len(u) > 0 /\ level + Len(u) = level + 1 + Len(t)
  BY <1>1, <1>5
<1>8. ASSUME NEW j \in DOMAIN u
      PROVE  /\ Ref(u[j]) \in Stored(level + j - 1)
             /\ u[j].depth = c.self.depth + j - 1
             /\ u[j].level = level + j - 1
  <2>1. CASE j = 1
    <3>1. level + j - 1 = level /\ c.self.depth + j - 1 = c.self.depth
      BY <1>1, <1>2, <2>1
    <3> QED BY <1>1, <1>5, <2>1, <3>1
  <2>2. CASE j # 1
    <3> DEFINE i == j - 1
    <3>1. i \in DOMAIN t /\ j = 1 + i
      BY <1>5, <2>2
    <3>2. level + 1 + i - 1 = level + j - 1 /\ c.self.depth + 1 + i - 1 = c.self.depth + j - 1
      <4>1. j \in Nat /\ level \in Nat /\ c.self.depth \in Nat
        BY <1>1, <1>2, <1>5
      <4> QED BY <4>1
    <3> HIDE DEF i
    <3>3. u[j] = t[i]
      BY <1>5, <3>1
    <3> QED BY <1>4, <3>1, <3>2, <3>3
  <2> QED BY <2>1, <2>2
<1>9. Marks(call.done) \subseteq Marks(r.done) /\ \A n \in Range(call.nodes) : Owning(n) => Mark(n) \in Marks(r.done)
  BY DEF ChainResult
<1>10. Marks(c.done) \subseteq Marks(r.done) /\ \A n \in Range(c.nodes) : Owning(n) => Mark(n) \in Marks(r.done)
  BY <1>9
<1> HIDE DEF new
<1>11. ChainResult(c, level, new)
  BY <1>4, <1>6, <1>7, <1>8, <1>10 DEF ChainResult
<1> QED BY <1>11 DEF new

ChainCalls(calls, n) ==
    \A c, level : ChainCall(c, level) /\ Len(c.nodes) < n => ChainResult(c, level, calls[c])

\* The first node with a resource is for the one right below; when its call
\* has returned, all others are processed.
LEMMA ChainSearch ==
    ASSUME TypeOK, Built, IsChain, NEW calls, NEW c, NEW level, ChainCall(c, level), ChainCalls(calls, Len(c.nodes))
    PROVE  ChainResult(c, level, Search(calls, c))
<1> DEFINE step == AddNode(calls, c.self.depth + 1)
           None(i) == \A k \in 1 .. i : ~ Owning(c.nodes[k])
           I == [i \in 0 .. Len(c.nodes) |->
                   {a \in Progress : ChainResult(c, level, a) \/ (a = Start(c) /\ None(i))}]
<1>1. /\ c \in Call /\ level \in From(1) /\ level \in Nat /\ c.nodes \in Seq(Node) /\ c.self.level = level
      /\ Ref(c.self) \in Stored(level) /\ c.self \in Part
      /\ Start(c) \in Progress /\ Start(c).done = c.done /\ Start(c).parts = <<c.self>>
  BY CallTypes DEF ChainCall, Start, From
<1>2. Len(c.nodes) \in Nat /\ DOMAIN c.nodes = 1 .. Len(c.nodes)
      /\ \A i \in 1 .. Len(c.nodes) : c.nodes[i] \in Node /\ c.nodes[i] \in Range(c.nodes)
  <2>1. Len(c.nodes) \in Nat /\ DOMAIN c.nodes = 1 .. Len(c.nodes) /\ \A i \in 1 .. Len(c.nodes) : c.nodes[i] \in Node
    BY <1>1, ElementsProperty
  <2> QED BY <2>1 DEF Range
<1>3. Start(c) \in I[0]
  <2>1. 0 \in 0 .. Len(c.nodes) /\ None(0)
    BY <1>2
  <2> HIDE DEF None
  <2> QED BY <1>1, <2>1
<1>4. ASSUME NEW i \in 1 .. Len(c.nodes), NEW a \in I[i - 1] PROVE step[a][c.nodes[i]] \in I[i]
  <2> DEFINE node == c.nodes[i]
  <2>1. i - 1 \in 0 .. Len(c.nodes) /\ i \in 0 .. Len(c.nodes) /\ node \in Node /\ node \in Range(c.nodes)
    BY <1>2
  <2>2. a \in Progress /\ (ChainResult(c, level, a) \/ (a = Start(c) /\ None(i - 1)))
    <3> HIDE DEF None
    <3> QED BY <2>1
  <2>3. step[a][node] = IF processed(a.done, node) THEN a ELSE Loop(AddChild(calls, c.self.depth + 1, node), a, node.children)
    BY <2>1, <2>2 DEF AddNode
  <2> HIDE DEF step
  <2>4. CASE ~ Owning(node)
    <3>1. Len(node.children) = 0
      <4> DEFINE s == node.children
      <4>1. s \in Seq(Name)
        BY <2>1 DEF Node
      <4>2. Range(s) = {}
        BY <2>4 DEF Owning
      <4> HIDE DEF s
      <4>3. Len(s) \in Nat /\ DOMAIN s = 1 .. Len(s)
        BY <4>1
      <4>4. 1 \notin DOMAIN s
        BY <4>2 DEF Range
      <4>5. Len(s) = 0
        BY <4>3, <4>4
      <4> QED BY <4>5 DEF s
    <3>2. step[a][node] = a
      BY <2>3, <3>1, NoRound
    <3>3. None(i - 1) => None(i)
      <4>1. \A k \in 1 .. i : k = i \/ k \in 1 .. i - 1
        BY <1>2
      <4> QED BY <2>4, <4>1
    <3> HIDE DEF None, node
    <3> QED BY <2>1, <2>2, <3>2, <3>3 DEF node
  <2>5. CASE Owning(node) /\ ChainResult(c, level, a)
    <3>1. processed(a.done, node)
      <4>1. Mark(node) \in Marks(a.done)
        BY <2>1, <2>5 DEF ChainResult
      <4> QED BY <4>1, ProcessedMark
    <3> HIDE DEF None, node
    <3> QED BY <2>1, <2>2, <2>3, <2>5, <3>1 DEF node
  <2>6. CASE Owning(node) /\ a = Start(c) /\ None(i - 1)
    <3>1. node.level > level /\ node.level \in Nat /\ level \in Nat
      <4>1. node.level > level
        <5> HIDE DEF node
        <5> QED BY <2>1, <2>6 DEF ChainCall
      <4>2. node.level \in Nat
        <5> HIDE DEF node
        <5> QED BY <2>1 DEF Node
      <4> QED BY <1>1, <4>1, <4>2
    <3>2. node.level = level + 1
      <4> SUFFICES ASSUME node.level > level + 1 PROVE FALSE
        BY <3>1
      <4>1. \E k \in 1 .. i - 1 : Owning(c.nodes[k])
        BY <1>2, <2>6 DEF ChainCall, Ordered
      <4> QED BY <2>6, <4>1
    <3>3. ~ processed(a.done, node)
      <4>1. \A m \in Marks(c.done) : m[1] <= level
        BY DEF ChainCall
      <4>2. Mark(node) \notin Marks(c.done)
        BY <3>1, <4>1 DEF Mark
      <4> QED BY <1>1, <2>6, <4>2, ProcessedMark
    <3> DEFINE child == node.children[1]
               call == ChildCall(Start(c), c.self.depth + 1, node, child)
    <3>4. Len(node.children) = 1 /\ child \in Name
      BY <2>1, <2>6, OwningNode DEF ChainCall
    <3> HIDE DEF None, node
    <3>5. call = ChildCall(Start(c), c.self.depth + 1, node, node.children[1])
      BY DEF child
    <3> HIDE DEF call, child
    <3>6. /\ ChainCall(call, level + 1) /\ Len(call.nodes) < Len(c.nodes) /\ call.self.depth = c.self.depth + 1
          /\ Marks(call.done) = Marks(c.done) \union {Mark(node)}
          /\ \A n \in Range(c.nodes) : Owning(n) => Mark(n) = Mark(node) \/ n \in Range(call.nodes)
      BY <2>1, <2>6, <3>2, <3>5, ChildChainCall
    <3>7. step[a][node] = AddChild(calls, c.self.depth + 1, node)[a][child]
      BY <2>3, <3>3, <3>4, OneRound DEF child
    <3>8. step[a][node] = WithChild(Start(c), calls[call])
      <4>1. call = ChildCall(Start(c), c.self.depth + 1, node, child)
        BY DEF call
      <4> QED BY <1>1, <2>1, <2>6, <3>4, <3>7, <4>1, AddChildRound
    <3>9. ChainResult(call, level + 1, calls[call])
      BY <3>6 DEF ChainCalls
    <3>10. ChainResult(c, level, step[a][node])
      BY <3>6, <3>8, <3>9, ChainWith
    <3> QED BY <2>1, <3>10 DEF ChainResult, node
  <2> QED BY <2>2, <2>4, <2>5, <2>6
<1>5. Search(calls, c) = Loop(step, Start(c), c.nodes)
  BY DEF Search
<1> HIDE DEF step, I
<1>6. Loop(step, Start(c), c.nodes) \in I[Len(c.nodes)]
  BY <1>2, <1>3, <1>4, LoopInvariant
<1>7. ChainResult(c, level, Search(calls, c)) \/ (Search(calls, c) = Start(c) /\ None(Len(c.nodes)))
  <2>1. Len(c.nodes) \in 0 .. Len(c.nodes)
    BY <1>2
  <2> HIDE DEF None
  <2> QED BY <1>5, <1>6, <2>1 DEF I
<1>8. ASSUME None(Len(c.nodes)) PROVE ChainResult(c, level, Start(c))
  <2>1. \A n \in Range(c.nodes) : ~ Owning(n)
    BY <1>2, <1>8 DEF Range
  <2>3. level + 1 \in From(level + 1) /\ level + 1 \in From(1)
    BY <1>1 DEF From
  <2>4. Stored(level + 1) = {}
    BY <1>2, <1>8, <2>3 DEF ChainCall, HasLevel
  <2> DEFINE s == Start(c).parts
  <2>5. Len(s) = 1 /\ DOMAIN s = {1} /\ s[1] = c.self
    BY <1>1
  <2>6. level + 1 - 1 = level /\ c.self.depth + 1 - 1 = c.self.depth
    <3>1. c.self.depth \in Nat
      BY <1>1, CallTypes
    <3> QED BY <1>1, <3>1
  <2>7. \A j \in DOMAIN s : /\ Ref(s[j]) \in Stored(level + j - 1)
                            /\ s[j].depth = c.self.depth + j - 1
                            /\ s[j].level = level + j - 1
    BY <1>1, <2>5, <2>6
  <2>8. Marks(c.done) \subseteq Marks(Start(c).done)
    BY <1>1
  <2> HIDE DEF s
  <2>9. Len(s) > 0 /\ level + Len(s) = level + 1
    BY <2>5
  <2> QED BY <1>1, <2>1, <2>3, <2>4, <2>7, <2>8, <2>9 DEF ChainResult, s
<1> HIDE DEF None
<1> QED BY <1>7, <1>8

LEMMA ChainGet ==
    ASSUME TypeOK, Built, IsChain, NEW n \in Nat
    PROVE  \A left \in 0 .. n : ChainCalls(Get(n)[left], left)
<1> DEFINE S == {k \in Nat : k <= n => ChainCalls(Get(n)[k], k)}
<1>1. \A c, level : ChainCall(c, level) => c \in Call /\ Len(c.nodes) \in Nat
  <2> SUFFICES ASSUME NEW c, NEW level, ChainCall(c, level) PROVE c \in Call /\ Len(c.nodes) \in Nat
    OBVIOUS
  <2>1. c \in Call
    BY DEF ChainCall
  <2>2. c.nodes \in Seq(Node)
    BY <2>1, CallTypes
  <2> QED BY <2>1, <2>2, ElementsProperty
<1>2. 0 \in S
  <2>1. \A c, level : ChainCall(c, level) => ~ (Len(c.nodes) < 0)
    BY <1>1
  <2> QED BY <2>1 DEF ChainCalls
<1>3. ASSUME NEW k \in S PROVE k + 1 \in S
  <2> SUFFICES ASSUME k + 1 <= n, NEW c, NEW level, ChainCall(c, level), Len(c.nodes) < k + 1
               PROVE  ChainResult(c, level, Get(n)[k + 1][c])
    BY DEF ChainCalls
  <2> DEFINE calls == Get(n)[k]
  <2>1. k + 1 \in 1 .. n /\ (k + 1) - 1 = k /\ ChainCalls(calls, k)
    OBVIOUS
  <2>2. Get(n)[k + 1] = [d \in Call |-> Search(calls, d)]
    BY GetStep
  <2> HIDE DEF calls
  <2>3. ChainCalls(calls, Len(c.nodes))
    <3>1. \A a, b \in Nat : a < b /\ b < k + 1 => a < k
      OBVIOUS
    <3>2. \A d, m : ChainCall(d, m) /\ Len(d.nodes) < Len(c.nodes) => Len(d.nodes) < k
      BY <1>1, <3>1, Zenon
    <3> QED BY <2>1, <3>2, Zenon DEF ChainCalls
  <2>4. ChainResult(c, level, Search(calls, c))
    BY <2>3, ChainSearch
  <2> QED BY <1>1, <2>2, <2>4
<1>4. S = Nat
  BY <1>2, <1>3, NatSetInduction
<1> QED BY <1>4

\* The parent of a node is in an earlier one.
LEMMA BuiltOrdered ==
    ASSUME TypeOK, Built
    PROVE  Ordered(tree, 1)
<1> SUFFICES ASSUME NEW j \in DOMAIN tree, tree[j].level > 1 + 1
             PROVE  \E k \in 1 .. j - 1 : Owning(tree[k]) /\ tree[k].level = tree[j].level - 1
  BY DEF Ordered
<1>1. Shown(tree, j - 1, tree[j].parent, tree[j].level - 1)
  BY DEF Built, Placed
<1>2. tree[j].level \in Nat
  BY NodeProperty DEF Range
<1>3. PICK k \in 1 .. j - 1 : tree[k].level = tree[j].level - 1 /\ tree[j].parent \in Resources(tree[k])
  BY <1>1, <1>2 DEF Shown
<1>4. Owning(tree[k])
  BY <1>3 DEF Resources, Owning
<1> QED BY <1>3, <1>4

LEMMA AnswerChain ==
    ASSUME TypeOK, Built, IsChain
    PROVE  \E r : ChainResult(RootCall, 1, r) /\ getComposition(RootCall) = r.parts
<1> DEFINE n == Len(RootCall.nodes) + 1
           r == Get(n)[n][RootCall]
<1>1. /\ RootCall \in Call /\ RootCall.self = RootPart /\ RootCall.nodes = tree /\ RootCall.done = <<>>
      /\ 1 \in From(1) /\ root \in Stored(1) /\ root \in Reference
  BY RootCallProperty, StoredRoot DEF From
<1>2. n \in Nat /\ Len(RootCall.nodes) < n
  <2>1. RootCall.nodes \in Seq(Node)
    BY <1>1, CallTypes
  <2>2. Len(RootCall.nodes) \in Nat
    BY <2>1, ElementsProperty
  <2> QED BY <2>2
<1>3. Ref(RootCall.self) \in Stored(1) /\ RootCall.self.level = 1
  <2>1. Ref(RootPart) = root
    BY <1>1 DEF Ref, RootPart, Reference
  <2> QED BY <1>1, <2>1 DEF RootPart
<1>4. Ordered(RootCall.nodes, 1)
  BY <1>1, BuiltOrdered
<1>5. \A m \in Range(RootCall.nodes) : Owning(m) => m.level > 1
  BY <1>1, NodeProperty
<1>6. ASSUME NEW l \in From(1 + 1), Stored(l) # {} PROVE HasLevel(RootCall.nodes, l)
  <2>1. PICK q : q \in Stored(l)
    BY <1>6
  <2>2. l # 1
    BY DEF From
  <2>3. PICK m \in Range(tree) : m.level = l /\ q \in Resources(m)
    BY <2>1, <2>2 DEF Stored
  <2>4. Owning(m)
    BY <2>3 DEF Resources, Owning
  <2> QED BY <1>1, <2>3, <2>4 DEF HasLevel, Range
<1>7. \A m \in Marks(RootCall.done) : m[1] <= 1
  BY <1>1 DEF Marks, Range
<1>8. ChainCall(RootCall, 1)
  BY <1>1, <1>3, <1>4, <1>5, <1>6, <1>7 DEF ChainCall
<1>9. getComposition(RootCall) = r.parts
  BY GetCompositionIsGet
<1> HIDE DEF n
<1>10. ChainCalls(Get(n)[n], n)
  BY <1>2, ChainGet
<1>11. ChainResult(RootCall, 1, r)
  BY <1>2, <1>8, <1>10 DEF ChainCalls
<1> QED BY <1>9, <1>11

LEMMA IInvChain == IInv => ChainFollowsOwners
<1> SUFFICES ASSUME IInv, Answer, IsChain PROVE Follows
  BY DEF ChainFollowsOwners
<1>1. TypeOK /\ Built /\ answer = getComposition(RootCall)
  BY DEF IInv, Answered, RootCall
<1>2. PICK r : ChainResult(RootCall, 1, r) /\ answer = r.parts
  BY <1>1, AnswerChain
<1>3. RootCall.self.depth = 0
  BY <1>1, RootCallProperty DEF RootPart
<1>4. /\ Len(answer) \in Nat /\ DOMAIN answer = 1 .. Len(answer) /\ Len(answer) > 0
      /\ 1 + Len(answer) \in From(1) /\ Stored(1 + Len(answer)) = {}
  <2>1. Len(answer) \in Nat /\ DOMAIN answer = 1 .. Len(answer)
    BY <1>2, ProgressTypes DEF ChainResult
  <2> QED BY <1>2, <2>1 DEF ChainResult
<1>5. ASSUME NEW j \in DOMAIN answer
      PROVE  Ref(answer[j]) \in Stored(j) /\ answer[j].depth = j - 1 /\ answer[j].level = j
  <2>1. 1 + j - 1 = j /\ 0 + j - 1 = j - 1
    BY <1>4
  <2> QED BY <1>2, <1>3, <2>1 DEF ChainResult
<1>6. answer # <<>> /\ Ref(answer[1]) = root
  <2>1. 1 \in DOMAIN answer
    BY <1>4
  <2>2. Ref(answer[1]) = root
    BY <1>1, <1>5, <2>1, StoredRoot
  <2> QED BY <2>1, <2>2
<1>7. ASSUME NEW i \in DOMAIN answer PROVE Nested(i) = IF i = Len(answer) THEN {} ELSE {i + 1}
  <2>1. \A j \in i + 1 .. Len(answer) : j \in DOMAIN answer /\ j \in Nat
    BY <1>4
  <2>2. \A j \in i + 1 .. Len(answer) : answer[j].depth = answer[i].depth + 1 <=> j = i + 1
    BY <1>4, <1>5, <2>1
  <2>3. i + 1 .. (i + 1) - 1 = {}
    BY <1>4
  <2>4. \A j : j \in Nested(i) <=> j \in i + 1 .. Len(answer) /\ j = i + 1
    BY <2>2, <2>3 DEF Nested
  <2>5. i + 1 \in i + 1 .. Len(answer) <=> i # Len(answer)
    BY <1>4
  <2> QED BY <2>4, <2>5
<1>8. ASSUME NEW i \in DOMAIN answer
      PROVE  {Ref(answer[j]) : j \in Nested(i)} = StoredBelow(Ref(answer[i]), answer[i].level + 1)
  <2>1. i \in Nat /\ i # 0 /\ i \in From(1) /\ i + 1 \in From(2) /\ (i + 1) - 1 = i
    BY <1>4 DEF From
  <2>2. \A p \in Stored(i) : p = Ref(answer[i])
    <3>1. CASE i = 1
      BY <1>1, <1>5, <3>1, StoredRoot
    <3>2. CASE i # 1
      <4>1. i \in From(2)
        BY <2>1, <3>2 DEF From
      <4> QED BY <1>1, <1>5, <4>1, ChainUnique
    <3> QED BY <3>1, <3>2
  <2>3. StoredBelow(Ref(answer[i]), answer[i].level + 1) = Stored(i + 1)
    <3>1. \A n \in Range(tree) : n.level = i + 1 => n.parent = Ref(answer[i])
      <4>1. \A n \in Range(tree) : n.level = i + 1 => n.parent \in Stored(i)
        <5> SUFFICES ASSUME NEW n \in Range(tree), n.level = i + 1 PROVE n.parent \in Stored(i)
          OBVIOUS
        <5>1. n.parent \in Stored(n.level - 1)
          BY <1>1, NodeProperty
        <5> QED BY <2>1, <5>1
      <4> QED BY <2>2, <4>1
    <3>2. i + 1 # 1 /\ answer[i].level + 1 = i + 1
      <4>1. answer[i].level = i
        BY <1>5
      <4> QED BY <2>1, <4>1
    <3> DEFINE p == Ref(answer[i])
               l == i + 1
    <3>3. (\A n \in Range(tree) : n.level = l => n.parent = p) /\ l # 1
      BY <3>1, <3>2
    <3>4. StoredBelow(p, l) = Stored(l)
      <4> HIDE DEF p, l
      <4> QED BY <3>3 DEF StoredBelow, Stored
    <3> QED BY <3>2, <3>4
  <2>4. CASE i = Len(answer)
    <3>1. Stored(i + 1) = {}
      <4>1. i + 1 = 1 + Len(answer)
        BY <1>4, <2>4
      <4> QED BY <1>4, <4>1
    <3> QED BY <1>7, <2>3, <2>4, <3>1
  <2>5. CASE i # Len(answer)
    <3>1. i + 1 \in DOMAIN answer
      BY <1>4, <2>5
    <3>2. Stored(i + 1) = {Ref(answer[i + 1])}
      BY <1>1, <1>5, <2>1, <3>1, ChainUnique
    <3> QED BY <1>7, <2>3, <2>5, <3>2
  <2> QED BY <2>4, <2>5
<1> QED BY <1>6, <1>8 DEF Follows

\* Where what the calls showed is a chain, however long it is and whatever
\* failed or changed while it was read, the flat list loses nothing of it: the
\* answer has each resource nested in the one that the calls showed it under.
THEOREM ChainAnswered == Spec => []ChainFollowsOwners
BY Invariance, IInvChain, PTL
==============================================================================
