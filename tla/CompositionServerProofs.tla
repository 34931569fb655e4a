----------------------- MODULE CompositionServerProofs -----------------------
(***************************************************************************)
(* That the mutex of the composition store is held exactly by the handler  *)
(* that is inside storeCompositions (LockDiscipline), and that the         *)
(* variables have their types (TypeOK), for every number of handlers,      *)
(* every cluster and any number of requests, failing calls, panics and     *)
(* restarts.                                                               *)
(***************************************************************************)
EXTENDS CompositionServer, ListProofs

Inside == {"scan", "append"}

\* A handler is a record that has a place; what else it has does not matter.
HandlerShape == DOMAIN handler = Workers /\ \A w \in Workers : "pc" \in DOMAIN handler[w]

LockInv == HandlerShape /\ LockDiscipline

\* Only the handler w moves.
Moves(w) ==
    /\ DOMAIN handler' = Workers
    /\ "pc" \in DOMAIN handler'[w]
    /\ \A v \in Workers \ {w} : handler'[v] = handler[v]

LEMMA IdleShape == "pc" \in DOMAIN Idle /\ Idle.pc = "idle"
BY DEF Idle

LEMMA InitLock == Init => LockInv
BY WorkersAssumption, IdleShape DEF Init, LockInv, HandlerShape, LockDiscipline

-----------------------------------------------------------------------------
(* What a handler may do about the mutex *)

\* It moves outside of the mutex.
LEMMA StaysOutside ==
    ASSUME LockInv, NEW w \in Workers, Moves(w),
           handler[w].pc \notin Inside, handler'[w].pc \notin Inside, UNCHANGED mux
    PROVE  LockInv'
BY DEF LockInv, HandlerShape, LockDiscipline, Moves, Inside

\* It moves inside of the mutex and keeps it.
LEMMA StaysInside ==
    ASSUME LockInv, NEW w \in Workers, Moves(w),
           handler[w].pc \in Inside, handler'[w].pc \in Inside, UNCHANGED mux
    PROVE  LockInv'
BY DEF LockInv, HandlerShape, LockDiscipline, Moves, Inside

\* It leaves, and gives the mutex back.
LEMMA Leaves ==
    ASSUME LockInv, NEW w \in Workers, Moves(w),
           handler[w].pc \in Inside, handler'[w].pc \notin Inside, mux' = NoWorker
    PROVE  LockInv'
BY WorkersAssumption DEF LockInv, HandlerShape, LockDiscipline, Moves, Inside

\* It enters while nobody holds the mutex.
LEMMA Enters ==
    ASSUME LockInv, NEW w \in Workers, Moves(w),
           mux = NoWorker, handler'[w].pc \in Inside, mux' = w
    PROVE  LockInv'
BY WorkersAssumption DEF LockInv, HandlerShape, LockDiscipline, Moves, Inside

\* Nobody moves: other fields than the place change.
LEMMA NobodyMoves ==
    ASSUME LockInv, DOMAIN handler' = Workers, UNCHANGED mux,
           \A w \in Workers : "pc" \in DOMAIN handler'[w] /\ handler'[w].pc = handler[w].pc
    PROVE  LockInv'
BY DEF LockInv, HandlerShape, LockDiscipline

-----------------------------------------------------------------------------
(* The steps *)

LEMMA LockStep == LockInv /\ [Next]_vars => LockInv'
<1> SUFFICES ASSUME LockInv, [Next]_vars PROVE LockInv'
  OBVIOUS
<1>0. HandlerShape
  BY DEF LockInv
<1>1. ASSUME NEW w \in Workers, Begin(w) PROVE LockInv'
  <2>1. PICK r \in Requests :
           LET others == {v \in Workers \ {w} : Active(v)}
               ns == IF r.namespace = "" THEN "default" ELSE r.namespace
           IN  handler' =
                 [v \in Workers |->
                     IF v = w
                     THEN [Idle EXCEPT !.pc = "kinds", !.request = [r EXCEPT !.namespace = ns],
                                       !.since = {cluster}, !.alone = others = {}]
                     ELSE [handler[v] EXCEPT !.alone = @ /\ v \notin others]]
    BY <1>1 DEF Begin
  <2>2. "pc" \in DOMAIN handler'[w] /\ handler'[w].pc = "kinds"
    BY <2>1, IdleShape
  <2>3. /\ DOMAIN handler' = Workers
        /\ \A v \in Workers \ {w} : "pc" \in DOMAIN handler'[v] /\ handler'[v].pc = handler[v].pc
    BY <1>0, <2>1 DEF HandlerShape
  <2>4. handler[w].pc = "idle" /\ UNCHANGED mux
    BY <1>1 DEF Begin, At
  <2> QED BY <2>2, <2>3, <2>4 DEF LockInv, HandlerShape, LockDiscipline
<1>2. ASSUME NEW w \in Workers, ReadKinds(w) \/ ReadKindsFails(w) PROVE LockInv'
  <2>1. handler[w].pc = "kinds" /\ UNCHANGED mux
    BY <1>2 DEF ReadKinds, ReadKindsFails, At
  <2>2. Moves(w) /\ handler'[w].pc \in {"list", "get"}
    BY <1>0, <1>2 DEF ReadKinds, ReadKindsFails, HandlerShape, Moves
  <2> QED BY <2>1, <2>2, StaysOutside DEF Inside
<1>3. ASSUME NEW w \in Workers, ListKind(w) \/ ListKindFails(w) PROVE LockInv'
  <2>1. handler[w].pc = "list" /\ UNCHANGED mux
    BY <1>3 DEF ListKind, ListKindFails, At
  <2>2. CASE ListKind(w)
    <3>1. PICK kind : List(w, kind, Existing(kind, handler[w].request.namespace))
      BY <2>2 DEF ListKind
    <3> DEFINE objs == Existing(kind, handler[w].request.namespace)
    <3>2. Moves(w) /\ handler'[w].pc \in {"list", "build"}
      BY <1>0, <3>1 DEF List, HandlerShape, Moves
    <3> QED BY <2>1, <3>2, StaysOutside DEF Inside
  <2>3. CASE ListKindFails(w)
    <3>1. Moves(w) /\ handler'[w].pc = "list"
      BY <1>0, <2>1, <2>3 DEF ListKindFails, HandlerShape, Moves
    <3> QED BY <2>1, <3>1, StaysOutside DEF Inside
  <2> QED BY <1>3, <2>2, <2>3
<1>18. ASSUME NEW w \in Workers, ListBelow(w) \/ ListBelowFails(w) PROVE LockInv'
  <2>1. handler[w].pc = "build" /\ UNCHANGED mux
    BY <1>18 DEF ListBelow, ListBelowFails, GoesDown, At
  <2>2. Moves(w) /\ handler'[w].pc = "build"
    BY <1>0, <1>18, <2>1 DEF ListBelow, ListBelowFails, HandlerShape, Moves
  <2> QED BY <2>1, <2>2, StaysOutside DEF Inside
<1>4. ASSUME NEW w \in Workers, Build(w) PROVE LockInv'
  <2>1. handler[w].pc = "build" /\ UNCHANGED mux
    BY <1>4 DEF Build, At
  <2>2. Moves(w) /\ handler'[w].pc = "lock"
    BY <1>0, <1>4 DEF Build, HandlerShape, Moves
  <2> QED BY <2>1, <2>2, StaysOutside DEF Inside
<1>5. ASSUME NEW w \in Workers, Lock(w) PROVE LockInv'
  <2>1. mux = NoWorker /\ mux' = w
    BY <1>5 DEF Lock
  <2>2. Moves(w) /\ handler'[w].pc = "scan"
    BY <1>0, <1>5 DEF Lock, HandlerShape, Moves
  <2> QED BY <2>1, <2>2, Enters DEF Inside
<1>6. ASSUME NEW w \in Workers, Overwrite(w) PROVE LockInv'
  <2>1. handler[w].pc = "scan" /\ UNCHANGED mux
    BY <1>6 DEF Overwrite, At
  <2>2. PICK i : handler' = [handler EXCEPT ![w].pos = i + 1, ![w].found = TRUE]
    BY <1>6 DEF Overwrite
  <2>3. Moves(w) /\ handler'[w].pc = "scan"
    BY <1>0, <2>1, <2>2 DEF HandlerShape, Moves
  <2> QED BY <2>1, <2>3, StaysInside DEF Inside
<1>7. ASSUME NEW w \in Workers, Panic(w) PROVE LockInv'
  <2>1. handler[w].pc = "scan" /\ mux' = NoWorker
    BY <1>7 DEF Panic, At
  <2>2. Moves(w) /\ handler'[w].pc = "idle"
    BY <1>0, <1>7, IdleShape DEF Panic, HandlerShape, Moves
  <2> QED BY <2>1, <2>2, Leaves DEF Inside
<1>8. \A h : "pc" \in DOMAIN h => "pc" \in DOMAIN Stored(h) /\ Stored(h).pc \in {"list", "build"}
  BY DEF Stored
<1>9. ASSUME NEW w \in Workers, EndScan(w) PROVE LockInv'
  <2>1. handler[w].pc = "scan"
    BY <1>9 DEF EndScan, At
  <2>2. CASE mux' = NoWorker /\ handler' = [handler EXCEPT ![w] = Stored(@)]
    <3>1. Moves(w) /\ handler'[w].pc \in {"list", "build"}
      BY <1>0, <1>8, <2>2 DEF HandlerShape, Moves
    <3> QED BY <2>1, <2>2, <3>1, Leaves DEF Inside
  <2>3. CASE UNCHANGED mux /\ handler' = [handler EXCEPT ![w].pc = "append", ![w].snap = store]
    <3>1. Moves(w) /\ handler'[w].pc = "append"
      BY <1>0, <2>3 DEF HandlerShape, Moves
    <3> QED BY <2>1, <2>3, <3>1, StaysInside DEF Inside
  <2> QED BY <1>9, <2>2, <2>3 DEF EndScan
<1>10. ASSUME NEW w \in Workers, AppendEntry(w) PROVE LockInv'
  <2>1. handler[w].pc = "append" /\ mux' = NoWorker
    BY <1>10 DEF AppendEntry, At
  <2>2. handler' = [handler EXCEPT ![w] = Stored(@)]
    BY <1>10 DEF AppendEntry
  <2>3. Moves(w) /\ handler'[w].pc \in {"list", "build"}
    BY <1>0, <1>8, <2>2 DEF HandlerShape, Moves
  <2> QED BY <2>1, <2>3, Leaves DEF Inside
<1>11. ASSUME NEW w \in Workers, PurgeScan(w) PROVE LockInv'
  <2>1. handler[w].pc = "list" /\ UNCHANGED mux
    BY <1>11 DEF PurgeScan, At
  <2>2. PICK kept : handler' = [handler EXCEPT ![w].pc = "purge", ![w].snap = kept]
    BY <1>11 DEF PurgeScan
  <2>3. Moves(w) /\ handler'[w].pc = "purge"
    BY <1>0, <2>2 DEF HandlerShape, Moves
  <2> QED BY <2>1, <2>3, StaysOutside DEF Inside
<1>12. ASSUME NEW w \in Workers, Purge(w) PROVE LockInv'
  <2>1. handler[w].pc = "purge" /\ UNCHANGED mux
    BY <1>12 DEF Purge, At
  <2>2. Moves(w) /\ handler'[w].pc = "get"
    BY <1>0, <1>12 DEF Purge, HandlerShape, Moves
  <2> QED BY <2>1, <2>2, StaysOutside DEF Inside
<1>13. ASSUME NEW w \in Workers, GetCompositions(w) PROVE LockInv'
  <2>1. handler[w].pc = "get" /\ UNCHANGED mux
    BY <1>13 DEF GetCompositions, At
  <2>2. PICK answer : handler' = [handler EXCEPT ![w].pc = "answered", ![w].answer = answer]
    BY <1>13 DEF GetCompositions
  <2>3. Moves(w) /\ handler'[w].pc = "answered"
    BY <1>0, <2>2 DEF HandlerShape, Moves
  <2> QED BY <2>1, <2>3, StaysOutside DEF Inside
<1>14. ASSUME NEW w \in Workers, Finish(w) PROVE LockInv'
  <2>1. handler[w].pc = "answered" /\ UNCHANGED mux
    BY <1>14 DEF Finish, At
  <2>2. Moves(w) /\ handler'[w].pc = "idle"
    BY <1>0, <1>14, IdleShape DEF Finish, HandlerShape, Moves
  <2> QED BY <2>1, <2>2, StaysOutside DEF Inside
<1>15. CASE Change
  <2>1. handler' = [w \in Workers |->
                      IF Active(w) THEN [handler[w] EXCEPT !.since = @ \union {cluster'}] ELSE handler[w]]
    BY <1>15 DEF Change
  <2>2. /\ DOMAIN handler' = Workers
        /\ \A w \in Workers : "pc" \in DOMAIN handler'[w] /\ handler'[w].pc = handler[w].pc
    BY <1>0, <2>1 DEF HandlerShape
  <2> QED BY <1>15, <2>2, NobodyMoves DEF Change
<1>16. CASE RuntimeFault
  BY <1>16, IdleShape, WorkersAssumption DEF RuntimeFault, LockInv, HandlerShape, LockDiscipline
<1>17. CASE UNCHANGED vars
  BY <1>0, <1>17, NobodyMoves DEF vars, HandlerShape
<1> QED
  BY <1>1, <1>2, <1>3, <1>4, <1>5, <1>6, <1>7, <1>9, <1>10, <1>11, <1>12, <1>13, <1>14, <1>15, <1>16, <1>17,
     <1>18
  DEF Next, Work, Quiet

-----------------------------------------------------------------------------

\* The mutex is held exactly while its holder is inside storeCompositions,
\* whatever panics, failing calls and restarts there are, and however many
\* handlers: the deferred Unlock gives it back on every way out, and the
\* purge, which does not take it, never lets a second handler in.
THEOREM Locked == Spec => []LockDiscipline
<1>1. LockInv => LockDiscipline
  BY DEF LockInv
<1> QED BY <1>1, InitLock, LockStep, PTL DEF Spec

-----------------------------------------------------------------------------
(* What the loops keep that purge the store and read an answer from it *)

\* The loop of Kept, and what it has made after i rounds.
Loop(s, P, n, f) ==
    f = [i \in 0 .. n |-> IF i = 0 THEN <<>>
                          ELSE IF i \in P THEN Append(f[i - 1], s[i]) ELSE f[i - 1]]

LEMMA LoopExists ==
    ASSUME NEW s, NEW P, NEW n \in Nat
    PROVE  \E f : Loop(s, P, n, f)
<1> DEFINE S == {m \in Nat : \E f : Loop(s, P, m, f)}
<1>1. 0 \in S
  <2>1. Loop(s, P, 0, [i \in 0 .. 0 |-> <<>>])
    BY DEF Loop
  <2> QED BY <2>1
<1>2. ASSUME NEW m \in S PROVE m + 1 \in S
  <2>1. PICK f : Loop(s, P, m, f)
    BY <1>2
  <2> DEFINE last == IF m + 1 \in P THEN Append(f[m], s[m + 1]) ELSE f[m]
             g == [i \in 0 .. m + 1 |-> IF i = m + 1 THEN last ELSE f[i]]
  <2>2. \A i \in 0 .. m + 1 : i # m + 1 => g[i] = f[i] /\ i \in 0 .. m
    OBVIOUS
  <2>3. g[m + 1] = last
    OBVIOUS
  <2>4. \A i \in 0 .. m :
           f[i] = IF i = 0 THEN <<>> ELSE IF i \in P THEN Append(f[i - 1], s[i]) ELSE f[i - 1]
    BY <2>1 DEF Loop
  <2> HIDE DEF last
  <2>5. \A i \in 0 .. m + 1 :
           g[i] = IF i = 0 THEN <<>> ELSE IF i \in P THEN Append(g[i - 1], s[i]) ELSE g[i - 1]
    <3> SUFFICES ASSUME NEW i \in 0 .. m + 1
                 PROVE  g[i] = IF i = 0 THEN <<>> ELSE IF i \in P THEN Append(g[i - 1], s[i]) ELSE g[i - 1]
      OBVIOUS
    <3>1. CASE i = m + 1
      BY <2>2, <2>3, <3>1 DEF last
    <3>2. CASE i # m + 1
      BY <2>2, <2>4, <3>2
    <3> QED BY <3>1, <3>2
  <2>6. Loop(s, P, m + 1, g)
    BY <2>5 DEF Loop
  <2>7. \E h : Loop(s, P, m + 1, h)
    BY <2>6
  <2> QED BY <2>7
<1>3. S = Nat
  BY <1>1, <1>2, NatSetInduction
<1> QED BY <1>3

\* r is what a loop over the first n elements of s keeps of them at P: pos[i]
\* is where its element i was.
Selects(r, s, n, P, pos) ==
    /\ pos \in [1 .. Len(r) -> (1 .. n) \cap P]
    /\ \A i \in 1 .. Len(r) : r[i] = s[pos[i]]
    /\ \A i, j \in 1 .. Len(r) : i < j => pos[i] < pos[j]
    /\ \A k \in (1 .. n) \cap P : \E i \in 1 .. Len(r) : pos[i] = k

LEMMA SelectsNone == ASSUME NEW s, NEW P PROVE \E pos : Selects(<<>>, s, 0, P, pos)
<1>1. Selects(<<>>, s, 0, P, [i \in 1 .. 0 |-> i])
  BY DEF Selects
<1> QED BY <1>1

LEMMA SelectsNext ==
    ASSUME NEW S, NEW s \in Seq(S), NEW P, NEW n \in Nat, n + 1 \in 1 .. Len(s),
           NEW r \in Seq(S), NEW pos, Selects(r, s, n, P, pos)
    PROVE  /\ n + 1 \in P => \E p : Selects(Append(r, s[n + 1]), s, n + 1, P, p)
           /\ n + 1 \notin P => Selects(r, s, n + 1, P, pos)
<1>1. ASSUME n + 1 \notin P PROVE Selects(r, s, n + 1, P, pos)
  <2>1. (1 .. n + 1) \cap P = (1 .. n) \cap P
    BY <1>1
  <2> QED BY <2>1 DEF Selects
<1>2. ASSUME n + 1 \in P PROVE \E p : Selects(Append(r, s[n + 1]), s, n + 1, P, p)
  <2> DEFINE t == Append(r, s[n + 1])
             p == [i \in 1 .. Len(r) + 1 |-> IF i = Len(r) + 1 THEN n + 1 ELSE pos[i]]
  <2>1. /\ Len(r) \in Nat /\ Len(t) = Len(r) + 1 /\ t[Len(r) + 1] = s[n + 1]
        /\ \A i \in 1 .. Len(r) : t[i] = r[i]
    OBVIOUS
  <2>2. \A i \in 1 .. Len(r) : pos[i] \in 1 .. n /\ pos[i] \in P
    BY DEF Selects
  <2> HIDE DEF t
  <2>3. p \in [1 .. Len(t) -> (1 .. n + 1) \cap P]
    BY <1>2, <2>1, <2>2
  <2>4. \A i \in 1 .. Len(t) : t[i] = s[p[i]]
    BY <2>1 DEF Selects
  <2>5. \A i, j \in 1 .. Len(t) : i < j => p[i] < p[j]
    <3> SUFFICES ASSUME NEW i \in 1 .. Len(t), NEW j \in 1 .. Len(t), i < j PROVE p[i] < p[j]
      OBVIOUS
    <3>1. i \in 1 .. Len(r) /\ p[i] = pos[i]
      BY <2>1
    <3>2. CASE j = Len(r) + 1
      BY <2>2, <3>1, <3>2
    <3>3. CASE j # Len(r) + 1
      <4>1. j \in 1 .. Len(r) /\ p[j] = pos[j]
        BY <2>1, <3>3
      <4> QED BY <3>1, <4>1 DEF Selects
    <3> QED BY <3>2, <3>3
  <2>6. \A k \in (1 .. n + 1) \cap P : \E i \in 1 .. Len(t) : p[i] = k
    <3> SUFFICES ASSUME NEW k \in (1 .. n + 1) \cap P PROVE \E i \in 1 .. Len(t) : p[i] = k
      OBVIOUS
    <3>1. CASE k = n + 1
      BY <2>1, <3>1
    <3>2. CASE k # n + 1
      <4>1. PICK i \in 1 .. Len(r) : pos[i] = k
        BY <3>2 DEF Selects
      <4> QED BY <2>1, <4>1
    <3> QED BY <3>1, <3>2
  <2>7. Selects(t, s, n + 1, P, p)
    BY <2>3, <2>4, <2>5, <2>6 DEF Selects
  <2> QED BY <2>7 DEF t
<1> QED BY <1>1, <1>2

\* What Kept keeps: the elements at P, each once, in their order.
LEMMA KeptProperty ==
    ASSUME NEW S, NEW s \in Seq(S), NEW P
    PROVE  Kept(s, P) \in Seq(S) /\ \E pos : Selects(Kept(s, P), s, Len(s), P, pos)
<1> DEFINE f == CHOOSE f : Loop(s, P, Len(s), f)
<1>1. Len(s) \in Nat
  OBVIOUS
<1>2. Loop(s, P, Len(s), f)
  BY <1>1, LoopExists, Zenon
<1>3. Kept(s, P) = f[Len(s)]
  BY DEF Kept, Loop
<1> HIDE DEF f
<1>4. \A i \in 0 .. Len(s) :
         f[i] = IF i = 0 THEN <<>> ELSE IF i \in P THEN Append(f[i - 1], s[i]) ELSE f[i - 1]
  BY <1>2 DEF Loop
<1> DEFINE T == {n \in Nat : n <= Len(s) => f[n] \in Seq(S) /\ \E pos : Selects(f[n], s, n, P, pos)}
<1>5. 0 \in T
  <2>0. 0 \in 0 .. Len(s)
    BY <1>1
  <2>1. f[0] = <<>>
    BY <1>4, <2>0
  <2>2. \E pos : Selects(f[0], s, 0, P, pos)
    BY <2>1, SelectsNone
  <2>3. f[0] \in Seq(S)
    BY <2>1
  <2>4. 0 \in Nat
    OBVIOUS
  <2> QED BY <2>2, <2>3, <2>4, Zenon
<1>6. ASSUME NEW n \in T PROVE n + 1 \in T
  <2> SUFFICES ASSUME n + 1 <= Len(s)
               PROVE  f[n + 1] \in Seq(S) /\ \E pos : Selects(f[n + 1], s, n + 1, P, pos)
    OBVIOUS
  <2>1. n \in Nat /\ n + 1 \in 1 .. Len(s) /\ (n + 1) - 1 = n /\ s[n + 1] \in S
    BY <1>1
  <2>2. f[n] \in Seq(S)
    BY <2>1
  <2>3. PICK pos : Selects(f[n], s, n, P, pos)
    BY <2>1
  <2>4. f[n + 1] = IF n + 1 \in P THEN Append(f[n], s[n + 1]) ELSE f[n]
    BY <1>4, <2>1
  <2> QED BY <2>1, <2>2, <2>3, <2>4, SelectsNext
<1>7. T = Nat
  BY <1>5, <1>6, NatSetInduction
<1> QED BY <1>1, <1>3, <1>7

-----------------------------------------------------------------------------
(* Types *)

HandlerType ==
    [pc : Places, request : Reference, todo : SUBSET Kinds, list : Seq(Objects), tree : Seq(Part),
     snap : Seq(Entry), pos : Nat, found : BOOLEAN, names : SUBSET STRING,
     answer : Seq(Entry), since : SUBSET [Objects -> Nat], failed : BOOLEAN, alone : BOOLEAN]

\* A handler inside the loop over the resources of a kind has one to store; only
\* there it has a tree.
HasHead(h) ==
    /\ h.pc \in {"build", "lock", "scan", "append"} => h.list # <<>>
    /\ h.pc \notin {"build", "lock", "scan", "append"} => h.tree = <<>>

Typed(h) == h \in HandlerType /\ HasHead(h)

HandlersTyped == handler \in [Workers -> HandlerType] /\ \A w \in Workers : HasHead(handler[w])

Counts == [requests : 0 .. MaxRequests, changes : 0 .. MaxChanges,
           faults : 0 .. MaxFaults, restarts : 0 .. MaxRestarts]

\* The parts of TypeOK.
VarsTyped ==
    /\ cluster \in [Objects -> Nat] /\ store \in Seq(Entry) /\ mux \in Workers \union {NoWorker}
    /\ counts \in Counts /\ past \subseteq [Objects -> Nat]

TypeInv == VarsTyped /\ HandlersTyped

LEMMA Bounds ==
    /\ MaxRequests \in Nat
    /\ MaxChanges \in Nat
    /\ MaxFaults \in Nat
    /\ MaxRestarts \in Nat
BY BoundsAssumption

LEMMA IdleTyped == Typed(Idle)
<1>1. NoRequest \in Reference
  BY StringsAssumption DEF NoRequest, Reference
<1>2. <<>> \in Seq(Objects) /\ <<>> \in Seq(Entry) /\ <<>> \in Seq(Part)
  OBVIOUS
<1>1a. Idle \in HandlerType
  BY <1>1, <1>2 DEF Idle, HandlerType, Places
<1> QED BY <1>1a DEF Typed, HasHead, Idle

\* Only the handler w moves, to h.
LEMMA TypedMove ==
    ASSUME HandlersTyped, NEW w \in Workers, NEW h, Typed(h), handler' = [handler EXCEPT ![w] = h]
    PROVE  HandlersTyped'
BY DEF HandlersTyped, Typed

LEMMA InitTyped == Init => TypeInv
<1> SUFFICES ASSUME Init PROVE TypeInv
  OBVIOUS
<1>1. handler \in [Workers -> HandlerType] /\ \A w \in Workers : HasHead(handler[w])
  BY IdleTyped DEF Init, Typed
<1>2. counts \in [requests : 0 .. MaxRequests, changes : 0 .. MaxChanges,
                  faults : 0 .. MaxFaults, restarts : 0 .. MaxRestarts]
  BY Bounds DEF Init
<1>3. cluster \in [Objects -> Nat] /\ past \subseteq [Objects -> Nat]
  BY ObjectsAssumption DEF Init
<1>4. store \in Seq(Entry) /\ mux \in Workers \union {NoWorker}
  BY DEF Init
<1> QED BY <1>1, <1>2, <1>3, <1>4 DEF TypeInv, VarsTyped, HandlersTyped, Counts

\* A move of w that neither the cluster nor the store take part in.
LEMMA TypedStep ==
    ASSUME TypeInv, NEW w \in Workers, NEW h, Typed(h), handler' = [handler EXCEPT ![w] = h],
           cluster' = cluster, past' = past, store' \in Seq(Entry),
           mux' \in Workers \union {NoWorker}, counts' \in Counts
    PROVE  TypeInv'
<1>1. HandlersTyped'
  BY TypedMove DEF TypeInv
<1> QED BY <1>1 DEF TypeInv, VarsTyped

\* Each counter stays below its bound.
LEMMA CountsTyped ==
    ASSUME counts \in Counts
    PROVE  /\ counts.requests < MaxRequests => [counts EXCEPT !.requests = @ + 1] \in Counts
           /\ counts.changes < MaxChanges => [counts EXCEPT !.changes = @ + 1] \in Counts
           /\ counts.faults < MaxFaults => [counts EXCEPT !.faults = @ + 1] \in Counts
           /\ counts.restarts < MaxRestarts => [counts EXCEPT !.restarts = @ + 1] \in Counts
<1>1. /\ counts.requests < MaxRequests => counts.requests + 1 \in 0 .. MaxRequests
      /\ counts.changes < MaxChanges => counts.changes + 1 \in 0 .. MaxChanges
      /\ counts.faults < MaxFaults => counts.faults + 1 \in 0 .. MaxFaults
      /\ counts.restarts < MaxRestarts => counts.restarts + 1 \in 0 .. MaxRestarts
  BY Bounds DEF Counts
<1> QED BY <1>1 DEF Counts

LEMMA FaultTyped ==
    ASSUME TypeInv, Fault
    PROVE  counts' \in Counts
BY CountsTyped DEF TypeInv, VarsTyped, Fault

LEMMA NewEntryTyped ==
    ASSUME TypeInv, NEW w \in Workers, handler[w].list # <<>>
    PROVE  NewEntry(w) \in Entry
<1>1. handler[w].list \in Seq(Objects) /\ handler[w].tree \in Seq(Part)
  BY DEF TypeInv, HandlersTyped, HandlerType
<1> QED BY <1>1 DEF NewEntry, Entry

\* What storeCompositions leaves of the handler.
LEMMA StoredTyped ==
    ASSUME NEW h, Typed(h), h.pc \in {"scan", "append"}
    PROVE  Typed(Stored(h))
<1>1. h \in HandlerType /\ h.list \in Seq(Objects) /\ h.list # <<>>
  BY DEF Typed, HasHead, HandlerType
<1>2. Tail(h.list) \in Seq(Objects) /\ (Len(h.list) # 1 => Tail(h.list) # <<>>)
  <2>1. Tail(h.list) \in Seq(Objects) /\ Len(Tail(h.list)) = Len(h.list) - 1
    BY <1>1, HeadTailProperties
  <2> DEFINE rest == Tail(h.list)
  <2>2. Len(h.list) \in Nat
    BY <1>1
  <2> HIDE DEF rest
  <2>3. ASSUME rest = <<>> PROVE Len(rest) = 0
    BY <2>3
  <2> QED BY <2>1, <2>2, <2>3 DEF rest
<1>3. Stored(h) \in HandlerType
  <2>1. <<>> \in Seq(Entry) /\ <<>> \in Seq(Part) /\ 1 \in Nat
    OBVIOUS
  <2> DEFINE rest == Tail(h.list)
             place == IF Len(h.list) = 1 THEN "list" ELSE "build"
  <2>2. rest \in Seq(Objects) /\ place \in Places
    BY <1>2 DEF Places
  <2>3. Stored(h) = [h EXCEPT !.list = rest, !.snap = <<>>, !.pos = 1, !.tree = <<>>, !.pc = place]
    BY DEF Stored
  <2> HIDE DEF rest, place
  <2> QED BY <1>1, <2>1, <2>2, <2>3, ZenonT(40) DEF HandlerType
<1>4. HasHead(Stored(h))
  BY <1>1, <1>2 DEF Stored, HasHead, HandlerType
<1> QED BY <1>3, <1>4 DEF Typed

LEMMA TypeStep == TypeInv /\ [Next]_vars => TypeInv'
<1> SUFFICES ASSUME TypeInv, [Next]_vars PROVE TypeInv'
  OBVIOUS
<1>a. /\ cluster \in [Objects -> Nat] /\ store \in Seq(Entry) /\ counts \in Counts
      /\ mux \in Workers \union {NoWorker} /\ past \subseteq [Objects -> Nat]
  BY DEF TypeInv, VarsTyped
<1>b. \A w \in Workers : Typed(handler[w]) /\ handler[w] \in HandlerType
  BY DEF TypeInv, HandlersTyped, Typed
<1>c. handler \in [Workers -> HandlerType]
  BY DEF TypeInv, HandlersTyped
<1>1. ASSUME NEW w \in Workers, Begin(w) PROVE TypeInv'
  <2>1. PICK r \in Requests :
           LET others == {v \in Workers \ {w} : Active(v)}
               ns == IF r.namespace = "" THEN "default" ELSE r.namespace
           IN  handler' =
                 [v \in Workers |->
                     IF v = w
                     THEN [Idle EXCEPT !.pc = "kinds", !.request = [r EXCEPT !.namespace = ns],
                                       !.since = {cluster}, !.alone = others = {}]
                     ELSE [handler[v] EXCEPT !.alone = @ /\ v \notin others]]
    BY <1>1 DEF Begin
  <2> DEFINE others == {v \in Workers \ {w} : Active(v)}
             ns == IF r.namespace = "" THEN "default" ELSE r.namespace
             asked == [r EXCEPT !.namespace = ns]
             h == [Idle EXCEPT !.pc = "kinds", !.request = asked, !.since = {cluster}, !.alone = others = {}]
             g(v) == [handler[v] EXCEPT !.alone = @ /\ v \notin others]
  <2>2. asked \in Reference
    <3>1. r \in Reference /\ ns \in STRING
      BY ObjectsAssumption, StringsAssumption DEF Reference
    <3> HIDE DEF ns
    <3> QED BY <3>1 DEF Reference
  <2>3. handler' = [v \in Workers |-> IF v = w THEN h ELSE g(v)]
    BY <2>1, Zenon
  <2>4. (others = {}) \in BOOLEAN /\ \A v : (v \notin others) \in BOOLEAN
    OBVIOUS
  <2> HIDE DEF others, asked
  <2>5. h \in HandlerType /\ HasHead(h)
    <3>1. h.pc = "kinds" /\ h.tree = <<>>
      BY DEF Idle
    <3>2. HasHead(h)
      BY <3>1 DEF HasHead
    <3>3. h \in HandlerType
      BY <1>a, <2>2, <2>4, IdleTyped DEF HandlerType, Typed, Places
    <3> QED BY <3>2, <3>3
  <2>6. ASSUME NEW v \in Workers PROVE g(v) \in HandlerType /\ HasHead(g(v))
    <3>1. handler[v] \in HandlerType /\ HasHead(handler[v])
      BY <1>b DEF Typed
    <3> QED BY <2>4, <3>1 DEF HandlerType, HasHead
  <2> HIDE DEF h, g
  <2>7. HandlersTyped'
    BY <2>3, <2>5, <2>6 DEF HandlersTyped
  <2>8. counts' \in Counts
    BY <1>1, <1>a, CountsTyped DEF Begin
  <2> QED BY <1>1, <2>7, <2>8 DEF Begin, TypeInv, VarsTyped
<1>2. ASSUME NEW w \in Workers, ReadKinds(w) \/ ReadKindsFails(w) PROVE TypeInv'
  <2>1. CASE ReadKinds(w)
    <3> DEFINE h == [handler[w] EXCEPT !.pc = "list", !.todo = Kinds]
    <3>0. handler[w].tree = <<>>
      BY <1>b, <2>1 DEF ReadKinds, At, Typed, HasHead
    <3>1. Typed(h)
      BY <1>b, <3>0, ZenonT(40) DEF HandlerType, Typed, HasHead, Places
    <3>2. handler' = [handler EXCEPT ![w] = h]
      BY <1>c, <2>1 DEF ReadKinds, HandlerType
    <3> HIDE DEF h
    <3> QED BY <1>a, <2>1, <3>1, <3>2, TypedStep DEF ReadKinds
  <2>2. CASE ReadKindsFails(w)
    <3> DEFINE h == [handler[w] EXCEPT !.pc = "get", !.failed = TRUE]
    <3>0. handler[w].tree = <<>>
      BY <1>b, <2>2 DEF ReadKindsFails, At, Typed, HasHead
    <3>1. Typed(h)
      BY <1>b, <3>0, ZenonT(40) DEF HandlerType, Typed, HasHead, Places
    <3>2. handler' = [handler EXCEPT ![w] = h]
      BY <1>c, <2>2 DEF ReadKindsFails, HandlerType
    <3> HIDE DEF h
    <3> QED BY <1>a, <2>2, <3>1, <3>2, TypedStep, FaultTyped DEF ReadKindsFails
  <2> QED BY <1>2, <2>1, <2>2
<1>3. ASSUME NEW w \in Workers, ListKind(w) \/ ListKindFails(w) PROVE TypeInv'
  <2>1. CASE ListKind(w)
    <3>1. PICK kind \in handler[w].todo : List(w, kind, Existing(kind, handler[w].request.namespace))
      BY <2>1 DEF ListKind
    <3> DEFINE objs == Existing(kind, handler[w].request.namespace)
               h == [handler[w] EXCEPT !.todo = @ \ {kind}, !.list = SetToSeq(objs),
                                       !.names = @ \union {o.name : o \in objs},
                                       !.pc = IF objs = {} THEN "list" ELSE "build"]
    <3>2. objs \subseteq Objects
      BY DEF Existing
    <3>3. SetToSeq(objs) \in Seq(objs) /\ Range(SetToSeq(objs)) = objs
      BY <3>2, ObjectsAssumption, FS_Subset, SetToSeqProperty
    <3>4. SetToSeq(objs) \in Seq(Objects) /\ (objs # {} => SetToSeq(objs) # <<>>)
      BY <3>2, <3>3 DEF Range
    <3>5. {o.name : o \in objs} \subseteq STRING
      BY <3>2, ObjectsAssumption DEF Reference
    <3>6. handler' = [handler EXCEPT ![w] = h]
      BY <3>1 DEF List
    <3> HIDE DEF objs
    <3>8. handler[w].tree = <<>>
      BY <1>b, <2>1 DEF ListKind, At, Typed, HasHead
    <3>7. Typed(h)
      BY <1>b, <3>4, <3>5, <3>8, ZenonT(40) DEF HandlerType, Typed, HasHead, Places
    <3> HIDE DEF h
    <3> QED BY <1>a, <2>1, <3>6, <3>7, TypedStep DEF ListKind
  <2>2. CASE ListKindFails(w)
    <3>1. PICK kind \in handler[w].todo :
             handler' = [handler EXCEPT ![w].todo = @ \ {kind}, ![w].failed = TRUE]
      BY <2>2 DEF ListKindFails
    <3> DEFINE h == [handler[w] EXCEPT !.todo = @ \ {kind}, !.failed = TRUE]
    <3>2. Typed(h)
      BY <1>b DEF HandlerType, Typed, HasHead
    <3>3. handler' = [handler EXCEPT ![w] = h]
      BY <1>c, <3>1 DEF HandlerType
    <3> HIDE DEF h
    <3> QED BY <1>a, <2>2, <3>2, <3>3, TypedStep, FaultTyped DEF ListKindFails
  <2> QED BY <1>3, <2>1, <2>2
<1>16. ASSUME NEW w \in Workers, NEW part \in Part PROVE Append(handler[w].tree, part) \in Seq(Part)
  BY <1>16, <1>b DEF HandlerType
<1>17. ASSUME NEW w \in Workers, ListBelow(w) \/ ListBelowFails(w) PROVE TypeInv'
  <2>1. handler[w].list # <<>> /\ handler[w].list \in Seq(Objects)
    BY <1>17, <1>b DEF ListBelow, ListBelowFails, GoesDown, At, Typed, HasHead, HandlerType
  <2>2. cluster[Head(handler[w].list)] \in Part /\ Missed \in Part
    BY <1>a, <2>1 DEF Part
  <2>3. CASE ListBelow(w)
    <3> DEFINE tree == Append(handler[w].tree, cluster[Head(handler[w].list)])
               h == [handler[w] EXCEPT !.tree = tree]
    <3>1. tree \in Seq(Part)
      BY <1>16, <2>2
    <3>2. handler' = [handler EXCEPT ![w] = h]
      BY <1>c, <2>3 DEF ListBelow, HandlerType
    <3>4. handler[w].pc = "build"
      BY <2>3 DEF ListBelow, GoesDown, At
    <3> HIDE DEF tree
    <3>3. Typed(h)
      <4>1. h \in HandlerType
        BY <1>b, <3>1, ZenonT(40) DEF HandlerType
      <4>2. h.pc = "build" /\ h.list # <<>>
        BY <1>b, <2>1, <3>4 DEF HandlerType
      <4> QED BY <4>1, <4>2 DEF Typed, HasHead
    <3> HIDE DEF h
    <3> QED BY <1>a, <2>3, <3>2, <3>3, TypedStep DEF ListBelow
  <2>4. CASE ListBelowFails(w)
    <3> DEFINE tree == Append(handler[w].tree, Missed)
               h == [handler[w] EXCEPT !.tree = tree, !.failed = TRUE]
    <3>1. tree \in Seq(Part)
      BY <1>16, <2>2
    <3>2. handler' = [handler EXCEPT ![w] = h]
      BY <1>c, <2>4 DEF ListBelowFails, HandlerType
    <3>4. handler[w].pc = "build"
      BY <2>4 DEF ListBelowFails, GoesDown, At
    <3> HIDE DEF tree
    <3>3. Typed(h)
      <4>1. h \in HandlerType
        BY <1>b, <3>1, ZenonT(40) DEF HandlerType
      <4>2. h.pc = "build" /\ h.list # <<>>
        BY <1>b, <2>1, <3>4 DEF HandlerType
      <4> QED BY <4>1, <4>2 DEF Typed, HasHead
    <3> HIDE DEF h
    <3> QED BY <1>a, <2>4, <3>2, <3>3, TypedStep, FaultTyped DEF ListBelowFails
  <2> QED BY <1>17, <2>3, <2>4
<1>4. ASSUME NEW w \in Workers, Build(w) PROVE TypeInv'
  <2> DEFINE h == [handler[w] EXCEPT !.pc = "lock"]
  <2>1. handler[w].list # <<>>
    BY <1>4, <1>b DEF Build, At, Typed, HasHead, HandlerType
  <2>3. Typed(h)
    BY <1>b, <2>1, ZenonT(40) DEF HandlerType, Typed, HasHead, Places
  <2>4. handler' = [handler EXCEPT ![w] = h]
    BY <1>c, <1>4 DEF Build, HandlerType
  <2> HIDE DEF h
  <2> QED BY <1>a, <1>4, <2>3, <2>4, TypedStep DEF Build
<1>5. ASSUME NEW w \in Workers, Lock(w) PROVE TypeInv'
  <2> DEFINE h == [handler[w] EXCEPT !.pc = "scan", !.snap = store, !.pos = 1, !.found = FALSE]
  <2>1. Typed(h)
    BY <1>a, <1>b, <1>5, ZenonT(40) DEF HandlerType, Typed, HasHead, Places, Lock, At
  <2>2. handler' = [handler EXCEPT ![w] = h]
    BY <1>c, <1>5 DEF Lock
  <2> HIDE DEF h
  <2> QED BY <1>a, <1>5, <2>1, <2>2, TypedStep DEF Lock
<1>6. ASSUME NEW w \in Workers, Overwrite(w) PROVE TypeInv'
  <2>1. PICK i \in Ahead(w) :
           /\ i \in DOMAIN store
           /\ store' = [store EXCEPT ![i] = NewEntry(w)]
           /\ handler' = [handler EXCEPT ![w].pos = i + 1, ![w].found = TRUE]
    BY <1>6 DEF Overwrite
  <2> DEFINE h == [handler[w] EXCEPT !.pos = i + 1, !.found = TRUE]
  <2>2. i \in 1 .. Len(store)
    BY <1>a, <2>1
  <2>3. Typed(h)
    <3>1. i + 1 \in Nat
      BY <1>a, <2>2
    <3>2. h \in HandlerType
      BY <1>b, <3>1 DEF HandlerType
    <3>3. HasHead(h)
      BY <1>b DEF HandlerType, Typed, HasHead
    <3> QED BY <3>2, <3>3 DEF Typed
  <2>4. handler' = [handler EXCEPT ![w] = h]
    BY <1>c, <2>1 DEF HandlerType
  <2>5. NewEntry(w) \in Entry
    BY <1>6, <1>b, NewEntryTyped DEF Overwrite, At, Typed, HasHead
  <2>6. store' \in Seq(Entry)
    BY <1>a, <2>1, <2>2, <2>5
  <2> HIDE DEF h
  <2> QED BY <1>a, <1>6, <2>3, <2>4, <2>6, TypedStep DEF Overwrite
<1>7. ASSUME NEW w \in Workers, Panic(w) \/ Finish(w) PROVE TypeInv'
  BY <1>a, <1>7, IdleTyped, TypedStep DEF Panic, Finish
<1>8. ASSUME NEW w \in Workers, EndScan(w) PROVE TypeInv'
  <2>1. CASE mux' = NoWorker /\ handler' = [handler EXCEPT ![w] = Stored(@)]
    <3>1. Typed(Stored(handler[w]))
      BY <1>b, <1>8, StoredTyped DEF EndScan, At
    <3>2. handler' = [handler EXCEPT ![w] = Stored(handler[w])]
      BY <1>c, <2>1
    <3> QED BY <1>a, <1>8, <2>1, <3>1, <3>2, TypedStep DEF EndScan
  <2>2. CASE mux' = mux /\ handler' = [handler EXCEPT ![w].pc = "append", ![w].snap = store]
    <3> DEFINE h == [handler[w] EXCEPT !.pc = "append", !.snap = store]
    <3>1. Typed(h)
      <4>1. h \in HandlerType
        BY <1>a, <1>b, ZenonT(40) DEF HandlerType, Places
      <4>2. HasHead(h)
        BY <1>b, <1>8 DEF HandlerType, Typed, HasHead, EndScan, At
      <4> QED BY <4>1, <4>2 DEF Typed
    <3>2. handler' = [handler EXCEPT ![w] = h]
      BY <1>c, <2>2 DEF HandlerType
    <3> HIDE DEF h
    <3> QED BY <1>a, <1>8, <2>2, <3>1, <3>2, TypedStep DEF EndScan
  <2> QED BY <1>8, <2>1, <2>2 DEF EndScan
<1>9. ASSUME NEW w \in Workers, AppendEntry(w) PROVE TypeInv'
  <2>1. Typed(Stored(handler[w]))
    BY <1>b, <1>9, StoredTyped DEF AppendEntry, At
  <2>2. handler' = [handler EXCEPT ![w] = Stored(handler[w])]
    BY <1>c, <1>9 DEF AppendEntry
  <2>3. NewEntry(w) \in Entry
    BY <1>9, <1>b, NewEntryTyped DEF AppendEntry, At, Typed, HasHead
  <2>4. handler[w].snap \in Seq(Entry)
    BY <1>b DEF HandlerType
  <2>5. store' \in Seq(Entry)
    BY <1>9, <2>3, <2>4 DEF AppendEntry
  <2> QED BY <1>a, <1>9, <2>1, <2>2, <2>5, TypedStep DEF AppendEntry
<1>10. ASSUME NEW w \in Workers, PurgeScan(w) PROVE TypeInv'
  <2> DEFINE present == {i \in DOMAIN store : store[i].obj.name \in handler[w].names}
             h == [handler[w] EXCEPT !.pc = "purge", !.snap = Kept(store, present)]
  <2>1. Kept(store, present) \in Seq(Entry)
    BY <1>a, KeptProperty
  <2>2. handler' = [handler EXCEPT ![w] = h]
    BY <1>c, <1>10 DEF PurgeScan, HandlerType
  <2> HIDE DEF present
  <2>3. Typed(h)
    <3>1. h \in HandlerType
      BY <1>b, <2>1, ZenonT(40) DEF HandlerType, Places
    <3>2. HasHead(h)
      BY <1>10, <1>b DEF HandlerType, Typed, HasHead, PurgeScan, At
    <3> QED BY <3>1, <3>2 DEF Typed
  <2> HIDE DEF h
  <2> QED BY <1>a, <1>10, <2>2, <2>3, TypedStep DEF PurgeScan
<1>11. ASSUME NEW w \in Workers, Purge(w) PROVE TypeInv'
  <2> DEFINE h == [handler[w] EXCEPT !.pc = "get", !.snap = <<>>, !.names = {}]
  <2>1. Typed(h)
    <3>1. <<>> \in Seq(Entry) /\ {} \in SUBSET STRING
      OBVIOUS
    <3>2. h \in HandlerType
      BY <1>b, <3>1, ZenonT(40) DEF HandlerType, Places
    <3>3. HasHead(h)
      BY <1>11, <1>b DEF HandlerType, Typed, HasHead, Purge, At
    <3> QED BY <3>2, <3>3 DEF Typed
  <2>2. handler' = [handler EXCEPT ![w] = h]
    BY <1>c, <1>11 DEF Purge, HandlerType
  <2>3. store' \in Seq(Entry)
    BY <1>11, <1>b DEF Purge, HandlerType
  <2> HIDE DEF h
  <2> QED BY <1>a, <1>11, <2>1, <2>2, <2>3, TypedStep DEF Purge
<1>12. ASSUME NEW w \in Workers, GetCompositions(w) PROVE TypeInv'
  <2> DEFINE asked == {i \in DOMAIN store : Asked(handler[w].request, store[i].obj)}
             h == [handler[w] EXCEPT !.pc = "answered", !.answer = Kept(store, asked)]
  <2>1. Kept(store, asked) \in Seq(Entry)
    BY <1>a, KeptProperty
  <2>2. handler' = [handler EXCEPT ![w] = h]
    BY <1>c, <1>12 DEF GetCompositions, HandlerType
  <2> HIDE DEF asked
  <2>3. Typed(h)
    <3>1. h \in HandlerType
      BY <1>b, <2>1, ZenonT(40) DEF HandlerType, Places
    <3>2. HasHead(h)
      BY <1>12, <1>b DEF HandlerType, Typed, HasHead, GetCompositions, At
    <3> QED BY <3>1, <3>2 DEF Typed
  <2> HIDE DEF h
  <2> QED BY <1>a, <1>12, <2>2, <2>3, TypedStep DEF GetCompositions
<1>13. CASE Change
  <2>1. cluster' \in [Objects -> Nat]
    <3>1. PICK o \in Objects, version \in {Absent, counts.changes + 2} :
             cluster' = [cluster EXCEPT ![o] = version]
      BY <1>13 DEF Change
    <3>2. version \in Nat
      BY <1>a, Bounds DEF Counts, Absent
    <3> QED BY <1>a, <3>1, <3>2
  <2>2. handler' = [w \in Workers |->
                      IF Active(w) THEN [handler[w] EXCEPT !.since = @ \union {cluster'}] ELSE handler[w]]
    BY <1>13 DEF Change
  <2>3. ASSUME NEW w \in Workers
        PROVE  Typed([handler[w] EXCEPT !.since = @ \union {cluster'}])
    BY <1>b, <2>1 DEF HandlerType, Typed, HasHead
  <2>4. HandlersTyped'
    BY <1>b, <2>2, <2>3 DEF HandlersTyped, Typed
  <2>5. counts' \in Counts
    BY <1>13, <1>a, CountsTyped DEF Change
  <2>6. past' \subseteq [Objects -> Nat]
    BY <1>13, <1>a, <2>1 DEF Change
  <2> QED BY <1>13, <2>1, <2>4, <2>5, <2>6 DEF Change, TypeInv, VarsTyped
<1>14. CASE RuntimeFault
  <2>1. HandlersTyped'
    BY <1>14, IdleTyped DEF RuntimeFault, HandlersTyped, Typed
  <2>2. counts' \in Counts
    BY <1>14, <1>a, CountsTyped DEF RuntimeFault
  <2>3. cluster' = cluster /\ past' = {cluster} /\ store' = <<>> /\ mux' = NoWorker
    BY <1>14 DEF RuntimeFault
  <2>4. past' \subseteq [Objects -> Nat] /\ store' \in Seq(Entry)
    BY <1>a, <2>3
  <2> QED BY <1>a, <2>1, <2>2, <2>3, <2>4 DEF TypeInv, VarsTyped
<1>15. CASE UNCHANGED vars
  BY <1>15 DEF vars, TypeInv, VarsTyped, HandlersTyped
<1> QED
  BY <1>1, <1>2, <1>3, <1>4, <1>5, <1>6, <1>7, <1>8, <1>9, <1>10, <1>11, <1>12, <1>13, <1>14, <1>15,
     <1>17
  DEF Next, Work, Quiet

-----------------------------------------------------------------------------
(* The loop over the store *)

\* The position is inside what the loop began with, and back at the start
\* unless the loop has found an entry.
Placed(h) ==
    /\ h.pos \in 1 .. Len(h.snap) + 1
    /\ (h.pc = "scan" /\ h.found) \/ h.pos = 1

PosInv == \A w \in Workers : Placed(handler[w])

LEMMA IdlePlaced == Placed(Idle)
BY DEF Placed, Idle

LEMMA InitPlaced == Init => PosInv
BY IdlePlaced DEF Init, PosInv

\* The beginning of a loop, or no loop.
LEMMA PlacedAtStart ==
    ASSUME NEW h, NEW S, h.pos = 1, h.snap \in Seq(S)
    PROVE  Placed(h)
BY DEF Placed

LEMMA StoredPlaced == ASSUME NEW h \in HandlerType PROVE Placed(Stored(h))
<1>1. Stored(h).pos = 1 /\ Stored(h).snap = <<>>
  BY DEF Stored, HandlerType
<1> QED BY <1>1 DEF Placed

LEMMA PosMove ==
    ASSUME HandlersTyped, PosInv, NEW w \in Workers, NEW h, Placed(h), handler' = [handler EXCEPT ![w] = h]
    PROVE  PosInv'
BY DEF HandlersTyped, PosInv

LEMMA PosStep == TypeInv /\ PosInv /\ [Next]_vars => PosInv'
<1> SUFFICES ASSUME TypeInv, PosInv, [Next]_vars PROVE PosInv'
  OBVIOUS
<1>a. HandlersTyped /\ handler \in [Workers -> HandlerType] /\ store \in Seq(Entry)
  BY DEF TypeInv, VarsTyped, HandlersTyped
<1>b. \A w \in Workers : Placed(handler[w]) /\ handler[w] \in HandlerType
  BY <1>a DEF PosInv
<1>1. ASSUME \A v \in Workers : \/ Placed(handler'[v])
                               \/ /\ handler'[v].pos = handler[v].pos /\ handler'[v].snap = handler[v].snap
                                  /\ handler'[v].found = handler[v].found /\ handler'[v].pc = handler[v].pc
      PROVE  PosInv'
  BY <1>1 DEF PosInv, Placed
<1>2. ASSUME NEW w \in Workers, Begin(w) PROVE PosInv'
  <2>1. PICK r \in Requests :
           LET others == {v \in Workers \ {w} : Active(v)}
               ns == IF r.namespace = "" THEN "default" ELSE r.namespace
           IN  handler' =
                 [v \in Workers |->
                     IF v = w
                     THEN [Idle EXCEPT !.pc = "kinds", !.request = [r EXCEPT !.namespace = ns],
                                       !.since = {cluster}, !.alone = others = {}]
                     ELSE [handler[v] EXCEPT !.alone = @ /\ v \notin others]]
    BY <1>2 DEF Begin
  <2>2. handler'[w].pos = 1 /\ handler'[w].snap = <<>>
    BY <2>1 DEF Idle
  <2>3. Placed(handler'[w])
    BY <2>2 DEF Placed
  <2>4. ASSUME NEW v \in Workers \ {w}
        PROVE  /\ handler'[v].pos = handler[v].pos /\ handler'[v].snap = handler[v].snap
               /\ handler'[v].found = handler[v].found /\ handler'[v].pc = handler[v].pc
    BY <1>b, <2>1 DEF HandlerType
  <2> QED BY <1>1, <2>3, <2>4
<1>3. ASSUME NEW w \in Workers, \A v \in Workers \ {w} : handler'[v] = handler[v],
             handler'[w].pos = handler[w].pos, handler'[w].snap = handler[w].snap, handler[w].pc # "scan"
      PROVE  PosInv'
  <2>1. Placed(handler'[w])
    BY <1>3, <1>b DEF Placed
  <2> QED BY <1>1, <1>3, <2>1
<1>4. ASSUME NEW w \in Workers,
             \/ ReadKinds(w) \/ ReadKindsFails(w) \/ ListKindFails(w) \/ ListBelow(w) \/ ListBelowFails(w)
             \/ Build(w) \/ GetCompositions(w)
      PROVE  PosInv'
  <2>1. handler[w].pc # "scan"
    BY <1>4 DEF ReadKinds, ReadKindsFails, ListKindFails, ListBelow, ListBelowFails, GoesDown, Build,
                GetCompositions, At
  <2>2. handler'[w].pos = handler[w].pos /\ handler'[w].snap = handler[w].snap
    <3>1. CASE ReadKinds(w) \/ ReadKindsFails(w)
      BY <3>1, <1>a, <1>b DEF ReadKinds, ReadKindsFails, HandlerType
    <3>2. CASE ListKindFails(w)
      BY <3>2, <1>a, <1>b DEF ListKindFails, HandlerType
    <3>3. CASE ListBelow(w)
      BY <3>3, <1>a, <1>b DEF ListBelow, HandlerType
    <3>4. CASE ListBelowFails(w)
      BY <3>4, <1>a, <1>b DEF ListBelowFails, HandlerType
    <3>5. CASE Build(w) \/ GetCompositions(w)
      BY <3>5, <1>a, <1>b DEF Build, GetCompositions, HandlerType
    <3> QED BY <1>4, <3>1, <3>2, <3>3, <3>4, <3>5
  <2>3. \A v \in Workers \ {w} : handler'[v] = handler[v]
    BY <1>4, <1>a DEF ReadKinds, ReadKindsFails, ListKindFails, ListBelow, ListBelowFails, Build,
                GetCompositions
  <2> QED BY <1>3, <2>1, <2>2, <2>3
<1>5. ASSUME NEW w \in Workers, ListKind(w) PROVE PosInv'
  <2>1. handler[w].pc # "scan"
    BY <1>5 DEF ListKind, At
  <2>2. PICK kind : List(w, kind, Existing(kind, handler[w].request.namespace))
    BY <1>5 DEF ListKind
  <2>3. handler'[w].pos = handler[w].pos /\ handler'[w].snap = handler[w].snap
    BY <2>2, <1>a, <1>b DEF List, HandlerType
  <2>4. \A v \in Workers \ {w} : handler'[v] = handler[v]
    BY <2>2, <1>a DEF List
  <2> QED BY <1>3, <2>1, <2>3, <2>4
<1>6. ASSUME NEW w \in Workers, Lock(w) PROVE PosInv'
  <2> DEFINE h == [handler[w] EXCEPT !.pc = "scan", !.snap = store, !.pos = 1, !.found = FALSE]
  <2>1. h.pos = 1 /\ h.snap = store
    BY <1>b DEF HandlerType
  <2>2. handler' = [handler EXCEPT ![w] = h]
    BY <1>6 DEF Lock
  <2> HIDE DEF h
  <2>3. Placed(h)
    BY <1>a, <2>1, PlacedAtStart
  <2> QED BY <1>a, <2>2, <2>3, PosMove
<1>7. ASSUME NEW w \in Workers, Overwrite(w) PROVE PosInv'
  <2>1. PICK i \in Ahead(w) : handler' = [handler EXCEPT ![w].pos = i + 1, ![w].found = TRUE]
    BY <1>7 DEF Overwrite
  <2> DEFINE h == [handler[w] EXCEPT !.pos = i + 1, !.found = TRUE]
  <2>2. i \in 1 .. Len(handler[w].snap)
    BY <1>b DEF Ahead, HandlerType
  <2>3. handler[w].pc = "scan"
    BY <1>7 DEF Overwrite, At
  <2>4. h.pos = i + 1 /\ h.snap = handler[w].snap /\ h.found /\ h.pc = "scan"
    BY <1>b, <2>3 DEF HandlerType
  <2>5. handler' = [handler EXCEPT ![w] = h]
    BY <1>a, <2>1 DEF HandlerType
  <2> HIDE DEF h
  <2>6. Len(handler[w].snap) \in Nat
    BY <1>b DEF HandlerType
  <2>7. Placed(h)
    BY <2>2, <2>4, <2>6 DEF Placed
  <2> QED BY <1>a, <2>5, <2>7, PosMove
<1>8. ASSUME NEW w \in Workers, Panic(w) \/ Finish(w) PROVE PosInv'
  BY <1>8, <1>a, IdlePlaced, PosMove DEF Panic, Finish
<1>9. ASSUME NEW w \in Workers, handler' = [handler EXCEPT ![w] = Stored(@)] PROVE PosInv'
  <2>1. handler' = [handler EXCEPT ![w] = Stored(handler[w])]
    BY <1>9, <1>a
  <2> QED BY <1>a, <1>b, <2>1, StoredPlaced, PosMove
<1>10. ASSUME NEW w \in Workers, NEW place, NEW snap \in Seq(Entry), handler[w].pos = 1,
              handler' = [handler EXCEPT ![w].pc = place, ![w].snap = snap]
       PROVE  PosInv'
  <2> DEFINE h == [handler[w] EXCEPT !.pc = place, !.snap = snap]
  <2>1. h.pos = 1 /\ h.snap = snap
    BY <1>10, <1>b DEF HandlerType
  <2>2. handler' = [handler EXCEPT ![w] = h]
    BY <1>10, <1>a DEF HandlerType
  <2> HIDE DEF h
  <2>3. Placed(h)
    BY <2>1, PlacedAtStart
  <2> QED BY <1>a, <2>2, <2>3, PosMove
<1>11. ASSUME NEW w \in Workers, EndScan(w) PROVE PosInv'
  <2>1. CASE ~handler[w].found /\ handler' = [handler EXCEPT ![w].pc = "append", ![w].snap = store]
    <3>1. handler[w].pos = 1
      BY <1>b, <2>1 DEF Placed
    <3> QED BY <1>10, <1>a, <2>1, <3>1
  <2> QED BY <1>9, <1>11, <2>1 DEF EndScan
<1>12. ASSUME NEW w \in Workers, AppendEntry(w) PROVE PosInv'
  BY <1>9, <1>12 DEF AppendEntry
<1>13. ASSUME NEW w \in Workers, PurgeScan(w) PROVE PosInv'
  <2>1. handler[w].pos = 1
    BY <1>b, <1>13 DEF PurgeScan, At, Placed
  <2>2. PICK present : handler' = [handler EXCEPT ![w].pc = "purge", ![w].snap = Kept(store, present)]
    BY <1>13 DEF PurgeScan
  <2>3. Kept(store, present) \in Seq(Entry)
    BY <1>a, KeptProperty
  <2> QED BY <1>10, <2>1, <2>2, <2>3
<1>14. ASSUME NEW w \in Workers, Purge(w) PROVE PosInv'
  <2> DEFINE h == [handler[w] EXCEPT !.pc = "get", !.snap = <<>>, !.names = {}]
  <2>1. handler[w].pos = 1
    BY <1>b, <1>14 DEF Purge, At, Placed
  <2>2. h.pos = 1 /\ h.snap = <<>>
    BY <1>b, <2>1 DEF HandlerType
  <2>3. handler' = [handler EXCEPT ![w] = h]
    BY <1>a, <1>14 DEF Purge, HandlerType
  <2> HIDE DEF h
  <2>4. Placed(h)
    BY <2>2 DEF Placed
  <2> QED BY <1>a, <2>3, <2>4, PosMove
<1>15. CASE Change
  <2>1. handler' = [w \in Workers |->
                      IF Active(w) THEN [handler[w] EXCEPT !.since = @ \union {cluster'}] ELSE handler[w]]
    BY <1>15 DEF Change
  <2>2. ASSUME NEW v \in Workers
        PROVE  /\ handler'[v].pos = handler[v].pos /\ handler'[v].snap = handler[v].snap
               /\ handler'[v].found = handler[v].found /\ handler'[v].pc = handler[v].pc
    BY <1>b, <2>1 DEF HandlerType
  <2> QED BY <1>1, <2>2
<1>16. CASE RuntimeFault
  BY <1>16, IdlePlaced DEF RuntimeFault, PosInv
<1>17. CASE UNCHANGED vars
  BY <1>17 DEF vars, PosInv
<1> QED
  BY <1>2, <1>4, <1>5, <1>6, <1>7, <1>8, <1>11, <1>12, <1>13, <1>14, <1>15, <1>16, <1>17
  DEF Next, Work, Quiet

-----------------------------------------------------------------------------

\* The variables stay in their types: what is stored and answered are
\* compositions of resources, every place of the store that a handler
\* writes, it writes a whole entry to, and its loop over the store never
\* leaves what the store was when it began.
THEOREM TypeCorrect == Spec => []TypeOK
<1>1. TypeInv /\ PosInv => TypeOK
  BY DEF TypeInv, VarsTyped, HandlersTyped, HandlerType, Counts, PosInv, Placed, TypeOK
<1> QED BY <1>1, InitTyped, TypeStep, InitPlaced, PosStep, PTL DEF Spec
=============================================================================
