--------------------------- MODULE SkipList_proofs ---------------------------
(***************************************************************************)
(* Proofs about SkipList, for every set of keys, every MAX_LEVEL, every    *)
(* level the process may draw and every number of puts.                    *)
(***************************************************************************)
EXTENDS SkipList, StorageOps_proofs

\* ord is the order of the nodes: the head pointers in use point to the first,
\* and on every level each node points to the next.
InOrder(ord) ==
  /\ ord \in [1 .. Len(nodes) -> 1 .. Len(nodes)]
  /\ \A n \in 1 .. Len(nodes) : \E j \in 1 .. Len(nodes) : ord[j] = n
  /\ \A j, l \in 1 .. Len(nodes) : ord[j] = ord[l] => j = l
  /\ \A i \in 1 .. MAX_LEVEL :
       heads[i] = IF i <= level /\ Len(nodes) > 0 THEN ord[1] ELSE Nil
  /\ \A j \in 1 .. Len(nodes), i \in 1 .. level :
       nodes[ord[j]].forward[i] = IF j < Len(nodes) THEN ord[j + 1] ELSE Nil

\* The entries of the nodes in that order.
Listing(ord) == [j \in 1 .. Len(nodes) |-> nodes[ord[j]].entry]

\* The inductive invariant: there is one order for all levels.
Inv == TypeOK /\ \E ord : InOrder(ord)

----------------------------------------------------------------------------
\* A walk along list that starts on p ends on q.
Stops(list, Pass, p, q) ==
  /\ q \in p .. Len(list)
  /\ \A j \in p + 1 .. q : list[j].key \in Pass
  /\ q < Len(list) => list[q + 1].key \notin Pass

LEMMA WalkStops ==
  ASSUME NEW list \in Seq(Entry), NEW Pass, NEW p \in 1 .. Len(list)
  PROVE  \E q \in p .. Len(list) : Stops(list, Pass, p, q)
<1> DEFINE Here == {i \in p .. Len(list) : i < Len(list) => list[i + 1].key \notin Pass}
<1>1. Len(list) \in Nat
  BY EntryFields
<1>2. Here \subseteq Nat /\ Len(list) \in Here
  BY <1>1
<1>3. PICK q \in Here : \A j \in Here : ~ << j, q >> \in OpToRel(<, Nat)
  BY <1>2, NatLessThanWellFounded, WFMin
<1>4. \A j \in Here : ~ j < q
  BY <1>2, <1>3 DEF OpToRel
<1>5. \A j \in p + 1 .. q : list[j].key \in Pass
  <2> SUFFICES ASSUME NEW j \in p + 1 .. q, list[j].key \notin Pass
               PROVE  FALSE
    OBVIOUS
  <2>1. j - 1 \in Here
    BY <1>1, <1>2
  <2>2. q \in Nat /\ j \in Int /\ j - 1 < q
    BY <1>2
  <2> QED
    BY <2>1, <2>2, <1>4
<1> QED
  BY <1>5 DEF Stops

LEMMA StopUnique ==
  ASSUME NEW list \in Seq(Entry), NEW Pass, NEW p \in 1 .. Len(list), NEW q, NEW r,
         Stops(list, Pass, p, q), Stops(list, Pass, p, r)
  PROVE  q = r
<1>1. Len(list) \in Nat /\ q \in p .. Len(list) /\ r \in p .. Len(list)
  BY EntryFields DEF Stops
<1>2. ~ q < r
  <2> SUFFICES ASSUME q < r
               PROVE  FALSE
    OBVIOUS
  <2>1. q + 1 \in p + 1 .. r /\ q < Len(list)
    BY <1>1
  <2> QED
    BY <2>1 DEF Stops
<1>3. ~ r < q
  <2> SUFFICES ASSUME r < q
               PROVE  FALSE
    OBVIOUS
  <2>1. r + 1 \in p + 1 .. q /\ r < Len(list)
    BY <1>1
  <2> QED
    BY <2>1 DEF Stops
<1> QED
  BY <1>1, <1>2, <1>3

\* A walk that can make a step ends where it ends from there.
LEMMA StopNext ==
  ASSUME NEW list \in Seq(Entry), NEW Pass, NEW p \in 1 .. Len(list), NEW q
  PROVE  /\ (p < Len(list) /\ list[p + 1].key \in Pass) =>
              (Stops(list, Pass, p, q) => Stops(list, Pass, p + 1, q))
         /\ ~ (p < Len(list) /\ list[p + 1].key \in Pass) =>
              (Stops(list, Pass, p, q) => q = p)
<1>1. Len(list) \in Nat
  BY EntryFields
<1>2. ASSUME p < Len(list), list[p + 1].key \in Pass, Stops(list, Pass, p, q)
      PROVE  Stops(list, Pass, p + 1, q)
  <2>1. q \in p .. Len(list) /\ q # p
    BY <1>2 DEF Stops
  <2>2. q \in p + 1 .. Len(list) /\ \A j \in (p + 1) + 1 .. q : j \in p + 1 .. q
    BY <1>1, <2>1
  <2> QED
    BY <1>2, <2>2 DEF Stops
<1>3. ASSUME ~ (p < Len(list) /\ list[p + 1].key \in Pass), Stops(list, Pass, p, q), q # p
      PROVE  FALSE
  <2>1. p + 1 \in p + 1 .. q /\ p < Len(list)
    BY <1>1, <1>3 DEF Stops
  <2> QED
    BY <1>3, <2>1 DEF Stops
<1> QED
  BY <1>2, <1>3

LEMMA FunctionLen ==
  ASSUME NEW n \in Nat, NEW S, NEW f \in [1 .. n -> S]
  PROVE  f \in Seq(S) /\ Len(f) = n
<1>1. f \in Seq(S)
  BY SeqDef
<1>2. Len(f) \in Nat /\ 1 .. Len(f) = 1 .. n
  BY <1>1, LenProperties
<1>3. Len(f) = n
  <2>1. \A i \in Int : i \in 1 .. Len(f) <=> i \in 1 .. n
    BY <1>2
  <2>2. Len(f) \in 1 .. n \/ Len(f) = 0
    BY <1>2, <2>1
  <2>3. n \in 1 .. Len(f) \/ n = 0
    BY <1>2, <2>1
  <2> QED
    BY <1>2, <2>1, <2>2, <2>3
<1> QED
  BY <1>1, <1>3

\* What TypeOK says of the nodes.
LEMMA NodeFields ==
  ASSUME TypeOK
  PROVE  /\ Len(nodes) \in Nat /\ DOMAIN nodes = 1 .. Len(nodes)
         /\ level \in Nat /\ level >= 1 /\ MAX_LEVEL \in Nat /\ level <= MAX_LEVEL
         /\ \A n \in 1 .. Len(nodes) :
              /\ nodes[n] \in [entry : Entry, forward : [1 .. level -> 0 .. Len(nodes)]]
              /\ nodes[n].entry \in Entry
              /\ nodes[n].forward \in [1 .. level -> 0 .. Len(nodes)]
              /\ Len(nodes[n].forward) = level
<1> DEFINE Node == [entry : Entry, forward : [1 .. level -> 0 .. Len(nodes)]]
<1>1. level \in Nat /\ level >= 1 /\ MAX_LEVEL \in Nat /\ level <= MAX_LEVEL
  BY LevelAssumption DEF TypeOK
<1>2. nodes \in Seq(Node)
  BY DEF TypeOK
<1> HIDE DEF Node
<1>3. Len(nodes) \in Nat /\ DOMAIN nodes = 1 .. Len(nodes) /\ \A n \in 1 .. Len(nodes) : nodes[n] \in Node
  BY <1>2, LenProperties, ElementOfSeq
<1>4. ASSUME NEW n \in 1 .. Len(nodes)
      PROVE  /\ nodes[n] \in [entry : Entry, forward : [1 .. level -> 0 .. Len(nodes)]]
             /\ nodes[n].entry \in Entry
             /\ nodes[n].forward \in [1 .. level -> 0 .. Len(nodes)]
             /\ Len(nodes[n].forward) = level
  <2>1. nodes[n] \in Node
    BY <1>3
  <2>2. nodes[n].entry \in Entry /\ nodes[n].forward \in [1 .. level -> 0 .. Len(nodes)]
    BY <2>1 DEF Node
  <2> QED
    BY <1>1, <2>1, <2>2, FunctionLen DEF Node
<1> QED
  BY <1>1, <1>3, <1>4

LEMMA ListingFacts ==
  ASSUME TypeOK, NEW ord, InOrder(ord)
  PROVE  /\ Listing(ord) \in Seq(Entry) /\ Len(Listing(ord)) = Len(nodes)
         /\ \A j \in 1 .. Len(nodes) :
              ord[j] \in 1 .. Len(nodes) /\ Listing(ord)[j] = nodes[ord[j]].entry
<1>1. \A j \in 1 .. Len(nodes) : ord[j] \in 1 .. Len(nodes)
  BY DEF InOrder
<1>2. Listing(ord) \in [1 .. Len(nodes) -> Entry]
  BY <1>1, NodeFields DEF Listing
<1> QED
  BY <1>1, <1>2, NodeFields, FunctionLen DEF Listing

\* The recursion of Walk has a solution, and it leads to where the walk stops.
LEMMA WalkAlong ==
  ASSUME TypeOK, NEW ord, InOrder(ord), NEW i \in 1 .. level, NEW Pass,
         NEW p \in 1 .. Len(nodes), NEW q, Stops(Listing(ord), Pass, p, q)
  PROVE  Walk(i, ord[p], Pass) = ord[q]
<1> DEFINE N == Len(nodes)
           list == Listing(ord)
           Next1(n) == nodes[n].forward[i]
           Goes(n) == Next1(n) # Nil /\ nodes[Next1(n)].entry.key \in Pass
           Body(g) == [n \in 1 .. N |-> IF Goes(n) THEN g[Next1(n)] ELSE n]
           walk == CHOOSE g : g = Body(g)
           pos(n) == CHOOSE j \in 1 .. N : ord[j] = n
           end(j) == CHOOSE r : Stops(list, Pass, j, r)
           w == [n \in 1 .. N |-> ord[end(pos(n))]]
<1>1. N \in Nat /\ list \in Seq(Entry) /\ Len(list) = N
      /\ \A j \in 1 .. N : ord[j] \in 1 .. N /\ list[j] = nodes[ord[j]].entry
  BY NodeFields, ListingFacts
<1>2. \A j \in 1 .. N : pos(ord[j]) = j
  BY <1>1 DEF InOrder
<1>3. \A j \in 1 .. N : Next1(ord[j]) = IF j < N THEN ord[j + 1] ELSE Nil
  BY DEF InOrder
<1>4. \A j \in 1 .. N : Goes(ord[j]) <=> j < N /\ list[j + 1].key \in Pass
  <2> SUFFICES ASSUME NEW j \in 1 .. N
               PROVE  Goes(ord[j]) <=> j < N /\ list[j + 1].key \in Pass
    OBVIOUS
  <2>1. CASE j < N
    <3>1. j + 1 \in 1 .. N /\ Next1(ord[j]) = ord[j + 1]
      BY <1>1, <1>3, <2>1
    <3>2. ord[j + 1] # Nil /\ nodes[ord[j + 1]].entry = list[j + 1]
      BY <1>1, <3>1 DEF Nil
    <3> QED
      BY <2>1, <3>1, <3>2
  <2>2. CASE ~ j < N
    BY <1>3, <2>2
  <2> QED
    BY <2>1, <2>2
<1>5. \A j \in 1 .. N : Stops(list, Pass, j, end(j))
  <2> SUFFICES ASSUME NEW j \in 1 .. N
               PROVE  \E r : Stops(list, Pass, j, r)
    OBVIOUS
  <2> QED
    BY <1>1, WalkStops
<1> HIDE DEF pos, end, list, N
<1>6. \A j \in 1 .. N : w[ord[j]] = ord[end(j)]
  BY <1>1, <1>2
<1>7. ASSUME NEW j \in 1 .. N
      PROVE  w[ord[j]] = IF Goes(ord[j]) THEN w[Next1(ord[j])] ELSE ord[j]
  <2> HIDE DEF Next1, Goes, w
  <2>1. CASE Goes(ord[j])
    <3>1. j < N /\ list[j + 1].key \in Pass /\ j + 1 \in 1 .. N /\ Next1(ord[j]) = ord[j + 1]
      BY <1>1, <1>3, <1>4, <2>1
    <3>2. Stops(list, Pass, j + 1, end(j))
      BY <1>1, <1>5, <3>1, StopNext
    <3>3. end(j + 1) = end(j)
      BY <1>1, <1>5, <3>1, <3>2, StopUnique
    <3> QED
      BY <1>6, <2>1, <3>1, <3>3
  <2>2. CASE ~ Goes(ord[j])
    <3>1. ~ (j < N /\ list[j + 1].key \in Pass)
      BY <1>4, <2>2
    <3>2. end(j) = j
      BY <1>1, <1>5, <3>1, StopNext
    <3> QED
      BY <1>6, <2>2, <3>2
  <2> QED
    BY <2>1, <2>2
<1>8. w = Body(w)
  <2> HIDE DEF Next1, Goes
  <2>1. \A n \in 1 .. N : w[n] = IF Goes(n) THEN w[Next1(n)] ELSE n
    <3> HIDE DEF w
    <3> SUFFICES ASSUME NEW n \in 1 .. N
                 PROVE  w[n] = IF Goes(n) THEN w[Next1(n)] ELSE n
      OBVIOUS
    <3>1. PICK j \in 1 .. N : ord[j] = n
      BY DEF InOrder, N
    <3> QED
      BY <1>7, <3>1
  <2> QED
    BY <2>1
<1>9. walk = Body(walk)
  BY <1>8
<1>10. Walk(i, ord[p], Pass) = walk[ord[p]]
  <2>1. Walk(i, ord[p], Pass) =
          IF ord[p] = Nil \/ i > Len(nodes[ord[p]].forward) THEN ord[p] ELSE walk[ord[p]]
    BY DEF Walk, N
  <2> HIDE DEF walk
  <2>2. ord[p] \in 1 .. N /\ Len(nodes[ord[p]].forward) = level
    BY <1>1, NodeFields DEF N
  <2>3. level \in Nat /\ i \in Nat /\ i <= level /\ ord[p] # Nil
    BY <2>2, NodeFields DEF Nil
  <2> QED
    BY <2>1, <2>2, <2>3
<1> HIDE DEF walk, Goes
<1>11. \A j \in 1 .. N : walk[ord[j]] = IF Goes(ord[j]) THEN walk[Next1(ord[j])] ELSE ord[j]
  BY <1>1, <1>9
<1> HIDE DEF Next1
<1>12. q \in p .. N /\ \A j \in p .. q : Stops(list, Pass, j, q)
  <2>1. q \in p .. N
    BY <1>1 DEF Stops, list
  <2> SUFFICES ASSUME NEW j \in p .. q
               PROVE  Stops(list, Pass, j, q)
    BY <2>1
  <2>2. q \in j .. N /\ \A l \in j + 1 .. q : l \in p + 1 .. q
    BY <2>1, <1>1
  <2> QED
    BY <1>1, <2>2 DEF Stops, list
<1> DEFINE Off == {d \in 0 .. q - p : walk[ord[q - d]] # ord[q]}
<1>13. Off = {}
  <2> SUFFICES ASSUME Off # {}
               PROVE  FALSE
    OBVIOUS
  <2>1. Off \subseteq Nat
    BY <1>1, <1>12
  <2> HIDE DEF Off
  <2>2. PICK d \in Off : \A l \in Off : ~ << l, d >> \in OpToRel(<, Nat)
    BY <2>1, NatLessThanWellFounded, WFMin
  <2>3. \A l \in Off : ~ l < d
    BY <2>1, <2>2 DEF OpToRel
  <2>4. d \in 0 .. q - p /\ walk[ord[q - d]] # ord[q]
    BY DEF Off
  <2> DEFINE j == q - d
  <2>5. j \in p .. q /\ j \in 1 .. N /\ d \in Nat /\ q \in Nat
    BY <1>1, <1>12, <2>4 DEF N
  <2>6. Stops(list, Pass, j, q)
    BY <1>12, <2>5
  <2>7. CASE Goes(ord[j])
    <3>1. j < N /\ Next1(ord[j]) = ord[j + 1] /\ list[j + 1].key \in Pass
      BY <1>3, <1>4, <2>5, <2>7
    <3>2. j < q
      <4>1. Stops(list, Pass, j + 1, q)
        BY <1>1, <2>5, <2>6, <3>1, StopNext
      <4> QED
        BY <1>1, <2>5, <4>1 DEF Stops
    <3>3. d - 1 \in 0 .. q - p /\ d - 1 < d /\ q - (d - 1) = j + 1
      BY <2>4, <2>5, <3>2
    <3>4. walk[ord[j + 1]] = ord[q]
      BY <2>3, <3>3 DEF Off
    <3> QED
      BY <1>11, <2>4, <2>5, <2>7, <3>1, <3>4
  <2>8. CASE ~ Goes(ord[j])
    <3>1. q = j
      BY <1>1, <1>4, <2>5, <2>6, <2>8, StopNext
    <3> QED
      BY <1>11, <2>4, <2>5, <2>8, <3>1
  <2> QED
    BY <2>7, <2>8
<1>14. walk[ord[p]] = ord[q]
  <2>1. q - p \in 0 .. q - p /\ q - (q - p) = p
    BY <1>1, <1>12 DEF N
  <2> QED
    BY <1>13, <2>1
<1> QED
  BY <1>10, <1>14

\* Where every descent is on the levels in use: where a plain walk ends.
LandsOn(ord, Pass) ==
  IF Len(nodes) = 0 THEN Nil ELSE ord[WalkEnd(Listing(ord), Pass)]

\* On the levels nobody uses a descent stays on the first node; the first level
\* in use takes it to the end of the walk, and the others leave it there.
LEMMA DescentLands ==
  ASSUME TypeOK, NEW ord, InOrder(ord), NEW Pass, NEW top \in level .. MAX_LEVEL
  PROVE  \A i \in 1 .. level : Descent(top, Pass)[i] = LandsOn(ord, Pass)
<1> DEFINE N == Len(nodes)
           list == Listing(ord)
           e == WalkEnd(list, Pass)
           there == LandsOn(ord, Pass)
           Body(g) == [i \in 1 .. top + 1 |->
                         IF i = top + 1 THEN heads[1] ELSE Walk(i, g[i + 1], Pass)]
           descend == CHOOSE g : g = Body(g)
           At(i) == IF i > level THEN heads[1] ELSE there
           d == [i \in 1 .. top + 1 |-> At(i)]
<1>1. /\ N \in Nat /\ list \in Seq(Entry) /\ Len(list) = N
      /\ level \in Nat /\ level >= 1 /\ top \in Nat /\ level <= top
      /\ \A j \in 1 .. N : ord[j] \in 1 .. N
  <2>1. N \in Nat /\ list \in Seq(Entry) /\ Len(list) = N /\ \A j \in 1 .. N : ord[j] \in 1 .. N
    BY NodeFields, ListingFacts
  <2>2. level \in Nat /\ level >= 1 /\ MAX_LEVEL \in Nat /\ level <= MAX_LEVEL
    BY NodeFields
  <2> QED
    BY <2>1, <2>2
<1>2. heads[1] = IF N > 0 THEN ord[1] ELSE Nil
  <2>1. 1 \in 1 .. MAX_LEVEL /\ 1 <= level
    BY NodeFields
  <2> QED
    BY <2>1 DEF InOrder
<1> HIDE DEF list, N
<1>3. ASSUME N > 0
      PROVE  e \in 1 .. N /\ Stops(list, Pass, 1, e) /\ Stops(list, Pass, e, e)
  <2>1. list # << >>
    BY <1>1, <1>3
  <2>2. /\ e \in 1 .. Len(list)
        /\ \A j \in 2 .. e : list[j].key \in Pass
        /\ e < Len(list) => list[e + 1].key \notin Pass
    BY <1>1, <2>1, WalkEndFacts
  <2> HIDE DEF e
  <2> QED
    BY <1>1, <2>2 DEF Stops
<1> HIDE DEF e
<1>4. \A i \in 1 .. level : Walk(i, heads[1], Pass) = there /\ Walk(i, there, Pass) = there
  <2> SUFFICES ASSUME NEW i \in 1 .. level
               PROVE  Walk(i, heads[1], Pass) = there /\ Walk(i, there, Pass) = there
    OBVIOUS
  <2>1. CASE N = 0
    <3>1. heads[1] = Nil /\ there = Nil
      BY <1>2, <2>1 DEF LandsOn, N
    <3> HIDE DEF there
    <3> QED
      BY <3>1 DEF Walk
  <2>2. CASE N > 0
    <3>1. heads[1] = ord[1] /\ there = ord[e] /\ 1 \in 1 .. N
      BY <1>1, <1>2, <2>2 DEF LandsOn, N, e, list
    <3>2. Walk(i, ord[1], Pass) = ord[e]
      BY <1>3, <2>2, <3>1, WalkAlong DEF N, list
    <3>3. Walk(i, ord[e], Pass) = ord[e]
      BY <1>3, <2>2, WalkAlong DEF N, list
    <3> HIDE DEF there
    <3> QED
      BY <3>1, <3>2, <3>3
  <2> QED
    BY <1>1, <2>1, <2>2
<1>5. \A i \in level + 1 .. top : Walk(i, heads[1], Pass) = heads[1]
  <2> SUFFICES ASSUME NEW i \in level + 1 .. top
               PROVE  Walk(i, heads[1], Pass) = heads[1]
    OBVIOUS
  <2>1. CASE N = 0
    BY <1>2, <2>1 DEF Walk
  <2>2. CASE N > 0
    <3>1. heads[1] \in 1 .. Len(nodes)
      BY <1>1, <1>2, <2>2 DEF N
    <3>2. Len(nodes[heads[1]].forward) = level
      BY <3>1, NodeFields
    <3>3. i > Len(nodes[heads[1]].forward)
      BY <1>1, <3>2
    <3> QED
      BY <3>3 DEF Walk
  <2> QED
    BY <1>1, <2>1, <2>2
<1> HIDE DEF there
<1>6. d = Body(d)
  <2>1. ASSUME NEW i \in 1 .. top + 1
        PROVE  d[i] = IF i = top + 1 THEN heads[1] ELSE Walk(i, d[i + 1], Pass)
    <3>1. CASE i = top + 1
      BY <1>1, <3>1
    <3>2. CASE i # top + 1 /\ i > level
      <4>1. i \in level + 1 .. top /\ i + 1 \in 1 .. top + 1 /\ i + 1 > level
        BY <1>1, <3>2
      <4> QED
        BY <1>5, <3>2, <4>1
    <3>3. CASE i # top + 1 /\ ~ i > level
      <4>1. i \in 1 .. level /\ i + 1 \in 1 .. top + 1
        BY <1>1, <3>3
      <4> QED
        BY <1>4, <3>3, <4>1
    <3> QED
      BY <3>1, <3>2, <3>3
  <2> QED
    BY <2>1
<1>7. descend = Body(descend)
  <2> HIDE DEF d
  <2> QED
    BY <1>6
<1>8. Descent(top, Pass) = descend
  BY DEF Descent
<1> HIDE DEF descend
<1>9. \A i \in 1 .. top + 1 :
        descend[i] = IF i = top + 1 THEN heads[1] ELSE Walk(i, descend[i + 1], Pass)
  BY <1>7
<1> DEFINE Off == {l \in 0 .. top : descend[(top + 1) - l] # At((top + 1) - l)}
<1>10. Off = {}
  <2> SUFFICES ASSUME Off # {}
               PROVE  FALSE
    OBVIOUS
  <2>1. Off \subseteq Nat
    BY <1>1
  <2> HIDE DEF Off
  <2>2. PICK l \in Off : \A m \in Off : ~ << m, l >> \in OpToRel(<, Nat)
    BY <2>1, NatLessThanWellFounded, WFMin
  <2>3. \A m \in Off : ~ m < l
    BY <2>1, <2>2 DEF OpToRel
  <2> HIDE DEF At
  <2>4. l \in 0 .. top /\ descend[(top + 1) - l] # At((top + 1) - l)
    BY DEF Off
  <2>5. PICK i \in 1 .. top + 1 : i = (top + 1) - l
    BY <1>1, <2>4
  <2>6. CASE i = top + 1
    <3>1. descend[i] = heads[1] /\ i > level
      BY <1>1, <1>9, <2>6
    <3> QED
      BY <2>4, <2>5, <3>1 DEF At
  <2>7. CASE i # top + 1
    <3>1. l - 1 \in 0 .. top /\ l - 1 < l /\ (top + 1) - (l - 1) = i + 1
      BY <1>1, <2>4, <2>5, <2>7
    <3>2. descend[i + 1] = At(i + 1)
      BY <2>3, <3>1 DEF Off
    <3>3. descend[i] = Walk(i, At(i + 1), Pass)
      BY <1>9, <2>7, <3>2
    <3>4. CASE i > level
      <4>1. i \in level + 1 .. top /\ i + 1 > level
        BY <1>1, <2>7, <3>4
      <4> QED
        BY <1>5, <2>4, <2>5, <3>3, <3>4, <4>1 DEF At
    <3>5. CASE ~ i > level
      <4>1. i \in 1 .. level
        BY <1>1, <3>5
      <4> QED
        BY <1>4, <2>4, <2>5, <3>3, <3>5, <4>1 DEF At
    <3> QED
      BY <3>4, <3>5
  <2> QED
    BY <2>6, <2>7
<1>11. ASSUME NEW i \in 1 .. level
       PROVE  descend[i] = there
  <2>1. (top + 1) - i \in 0 .. top /\ (top + 1) - ((top + 1) - i) = i /\ ~ i > level
    BY <1>1
  <2> QED
    BY <1>10, <2>1
<1> QED
  BY <1>8, <1>11 DEF there

\* Following the pointers of a level lists the nodes in their order: what is met
\* from the j-th on is the listing from j on.
LEMMA ChainFollowsOrder ==
  ASSUME TypeOK, NEW ord, InOrder(ord), NEW i \in 1 .. level
  PROVE  Chain(i) = Listing(ord)
<1> DEFINE N == Len(nodes)
           list == Listing(ord)
           Next1(n) == nodes[n].forward[i]
           Body(g) == [n \in 0 .. N |->
                         IF n = Nil THEN << >> ELSE << nodes[n].entry >> \o g[Next1(n)]]
           from == CHOOSE g : g = Body(g)
           pos(n) == CHOOSE j \in 1 .. N : ord[j] = n
           rest(j) == SubSeq(list, j, N)
           all == [n \in 0 .. N |-> IF n = Nil THEN << >> ELSE rest(pos(n))]
<1>1. N \in Nat /\ list \in Seq(Entry) /\ Len(list) = N
      /\ \A j \in 1 .. N : ord[j] \in 1 .. N /\ list[j] = nodes[ord[j]].entry
  BY NodeFields, ListingFacts
<1>2. \A j \in 1 .. N : pos(ord[j]) = j
  BY <1>1 DEF InOrder
<1>3. \A j \in 1 .. N : Next1(ord[j]) = IF j < N THEN ord[j + 1] ELSE Nil
  BY DEF InOrder
<1>4. heads[i] = IF N > 0 THEN ord[1] ELSE Nil
  <2>1. i \in 1 .. MAX_LEVEL /\ i <= level
    BY NodeFields
  <2> QED
    BY <2>1 DEF InOrder
<1>5. Chain(i) = from[heads[i]]
  BY DEF Chain
<1>6. \A n \in 1 .. N : \E j \in 1 .. N : ord[j] = n
  BY DEF InOrder
<1> HIDE DEF pos, list, N, Next1
<1>7. \A j \in 1 .. N : rest(j) = << list[j] >> \o rest(j + 1)
  <2> SUFFICES ASSUME NEW j \in 1 .. N
               PROVE  rest(j) = << list[j] >> \o rest(j + 1)
    OBVIOUS
  <2>1. N \in j .. Len(list) /\ j \in 1 .. Len(list)
    BY <1>1
  <2> QED
    BY <1>1, <2>1, SubSeqRecursiveFirst
<1>8. rest(N + 1) = << >>
  BY <1>1, SubSeqEmpty
<1>9. rest(1) = list
  BY <1>1, SubSeqFull
<1> HIDE DEF rest
<1>10. all = Body(all)
  <2>1. all[Nil] = << >>
    BY <1>1 DEF Nil
  <2>2. \A j \in 1 .. N : all[ord[j]] = rest(j)
    BY <1>1, <1>2 DEF Nil
  <2>3. ASSUME NEW n \in 0 .. N
        PROVE  all[n] = IF n = Nil THEN << >> ELSE << nodes[n].entry >> \o all[Next1(n)]
    <3> HIDE DEF all
    <3>1. CASE n = Nil
      BY <2>1, <3>1
    <3>2. CASE n # Nil
      <4>1. n \in 1 .. N
        BY <1>1, <3>2 DEF Nil
      <4>2. PICK j \in 1 .. N : ord[j] = n
        BY <1>6, <4>1
      <4>3. all[Next1(n)] = rest(j + 1)
        <5>1. CASE j < N
          <6>1. j + 1 \in 1 .. N
            BY <1>1, <5>1
          <6> QED
            BY <1>3, <2>2, <4>2, <5>1, <6>1
        <5>2. CASE ~ j < N
          <6>1. j = N
            BY <1>1, <5>2
          <6> QED
            BY <1>3, <1>8, <2>1, <4>2, <5>2, <6>1
        <5> QED
          BY <5>1, <5>2
      <4>4. all[n] = rest(j) /\ nodes[n].entry = list[j]
        BY <1>1, <2>2, <4>2
      <4> QED
        BY <1>7, <3>2, <4>3, <4>4
    <3> QED
      BY <3>1, <3>2
  <2> QED
    BY <2>3
<1>11. from = Body(from)
  <2> HIDE DEF all
  <2> QED
    BY <1>10
<1> HIDE DEF from
<1>12. \A n \in 0 .. N : from[n] = IF n = Nil THEN << >> ELSE << nodes[n].entry >> \o from[Next1(n)]
  BY <1>11
<1>13. from[Nil] = << >>
  <2>1. Nil \in 0 .. N
    BY <1>1 DEF Nil
  <2> QED
    BY <1>12, <2>1
<1>14. \A j \in 1 .. N : from[ord[j]] = << list[j] >> \o from[Next1(ord[j])]
  <2> SUFFICES ASSUME NEW j \in 1 .. N
               PROVE  from[ord[j]] = << list[j] >> \o from[Next1(ord[j])]
    OBVIOUS
  <2>1. ord[j] \in 0 .. N /\ ord[j] # Nil /\ list[j] = nodes[ord[j]].entry
    BY <1>1 DEF Nil
  <2> QED
    BY <1>12, <2>1
<1> DEFINE Off == {d \in 0 .. N - 1 : from[ord[N - d]] # rest(N - d)}
<1>15. Off = {}
  <2> SUFFICES ASSUME Off # {}
               PROVE  FALSE
    OBVIOUS
  <2>1. Off \subseteq Nat
    BY <1>1
  <2> HIDE DEF Off
  <2>2. PICK d \in Off : \A l \in Off : ~ << l, d >> \in OpToRel(<, Nat)
    BY <2>1, NatLessThanWellFounded, WFMin
  <2>3. \A l \in Off : ~ l < d
    BY <2>1, <2>2 DEF OpToRel
  <2>4. d \in 0 .. N - 1 /\ from[ord[N - d]] # rest(N - d)
    BY DEF Off
  <2>5. PICK j \in 1 .. N : j = N - d
    BY <1>1, <2>4
  <2>6. from[Next1(ord[j])] = rest(j + 1)
    <3>1. CASE j < N
      <4>1. d - 1 \in 0 .. N - 1 /\ d - 1 < d /\ N - (d - 1) = j + 1
        BY <1>1, <2>4, <2>5, <3>1
      <4>2. from[ord[j + 1]] = rest(j + 1)
        BY <2>3, <4>1 DEF Off
      <4> QED
        BY <1>3, <3>1, <4>2
    <3>2. CASE ~ j < N
      <4>1. j = N
        BY <1>1, <3>2
      <4> QED
        BY <1>3, <1>8, <1>13, <3>2, <4>1
    <3> QED
      BY <3>1, <3>2
  <2>7. from[ord[j]] = rest(j)
    BY <1>7, <1>14, <2>6
  <2> QED
    BY <2>4, <2>5, <2>7
<1>16. CASE N = 0
  <2>1. Chain(i) = << >>
    BY <1>4, <1>5, <1>13, <1>16
  <2>2. list = << >>
    BY <1>1, <1>16, EmptySeq
  <2> QED
    BY <2>1, <2>2 DEF list
<1>17. CASE N > 0
  <2>1. N - 1 \in 0 .. N - 1 /\ N - (N - 1) = 1
    BY <1>1, <1>17
  <2>2. from[ord[1]] = rest(1)
    BY <1>15, <2>1
  <2> QED
    BY <1>4, <1>5, <1>9, <1>17, <2>2 DEF list
<1> QED
  BY <1>1, <1>16, <1>17

\* SkipList.get answers from the node NodeList's lookup stands on.
LEMMA GetFollowsOrder ==
  ASSUME TypeOK, NEW ord, InOrder(ord), NEW k \in Keys
  PROVE  /\ Get(k) # Nil <=> Found(Listing(ord), k)
         /\ Found(Listing(ord), k) =>
              /\ FindPos(Listing(ord), k) \in 1 .. Len(nodes)
              /\ Get(k) = ord[FindPos(Listing(ord), k)]
              /\ nodes[Get(k)].entry = Lookup(Listing(ord), k)
<1> DEFINE N == Len(nodes)
           list == Listing(ord)
           p == FindPos(list, k)
           n == Descent(MAX_LEVEL, UpTo(k))[1]
<1>1. N \in Nat /\ list \in Seq(Entry) /\ Len(list) = N
      /\ \A j \in 1 .. N : ord[j] \in 1 .. N /\ list[j] = nodes[ord[j]].entry
  BY NodeFields, ListingFacts
<1>2. n = LandsOn(ord, UpTo(k))
  <2>1. MAX_LEVEL \in level .. MAX_LEVEL /\ 1 \in 1 .. level
    BY NodeFields
  <2> QED
    BY <2>1, DescentLands
<1>3. n = IF N = 0 THEN Nil ELSE ord[p]
  BY <1>2 DEF LandsOn, FindPos
<1>4. Get(k) = IF n # Nil /\ nodes[n].entry.key = k THEN n ELSE Nil
  BY DEF Get
<1>5. Found(list, k) <=> list # << >> /\ list[p].key = k
  BY DEF Found
<1>6. Lookup(list, k) = list[p]
  BY DEF Lookup
<1> HIDE DEF n, list, N
<1>7. CASE N = 0
  <2>1. list = << >>
    BY <1>1, <1>7, EmptySeq
  <2> QED
    BY <1>3, <1>4, <1>5, <1>7, <2>1 DEF list
<1>8. CASE N > 0
  <2>1. list # << >>
    BY <1>1, <1>8
  <2>2. p \in 1 .. N
    BY <1>1, <2>1, FindPosFacts
  <2> HIDE DEF p
  <2>3. n = ord[p] /\ n \in 1 .. N /\ n # Nil /\ nodes[n].entry = list[p]
    BY <1>1, <1>3, <1>8, <2>2 DEF Nil
  <2> QED
    BY <1>4, <1>5, <1>6, <2>1, <2>2, <2>3 DEF p, list, N
<1> QED
  BY <1>1, <1>7, <1>8

\* What a put does to the pointers: the new node comes behind node p, or first
\* when there is none, on every level in use.
PutBehind(p, k, v) ==
  /\ nodes' \in Seq([entry : Entry, forward : [1 .. level -> 0 .. Len(nodes) + 1]])
  /\ Len(nodes') = Len(nodes) + 1
  /\ \A n \in 1 .. Len(nodes) :
       /\ nodes'[n].entry = nodes[n].entry
       /\ \A i \in 1 .. level :
            nodes'[n].forward[i] = IF n = p THEN Len(nodes) + 1 ELSE nodes[n].forward[i]
  /\ nodes'[Len(nodes) + 1].entry =
       [key |-> k, val |-> v, ts |-> Len(nodes) + 1, deleted |-> FALSE]
  /\ \A i \in 1 .. level :
       nodes'[Len(nodes) + 1].forward[i] = IF p = Nil THEN Nil ELSE nodes[p].forward[i]
  /\ heads' = [i \in 1 .. MAX_LEVEL |->
                 IF i <= level /\ p = Nil THEN Len(nodes) + 1 ELSE heads[i]]
  /\ size' = size + 1
  /\ level' = level

LEMMA PutEffect ==
  ASSUME TypeOK, NEW ord, InOrder(ord), NEW k \in Keys, NEW v \in Values, Put(k, v)
  PROVE  /\ LandsOn(ord, Below(k)) \in 0 .. Len(nodes)
         /\ PutBehind(LandsOn(ord, Below(k)), k, v)
<1> DEFINE N == Len(nodes)
           p == LandsOn(ord, Below(k))
           prev == Prev(k)
           fresh == [key |-> k, val |-> v, ts |-> N + 1, deleted |-> FALSE]
           ToNew(n) == [i \in DOMAIN nodes[n].forward |->
                          IF prev[i] = n THEN N + 1 ELSE nodes[n].forward[i]]
           Link(n) == [nodes[n] EXCEPT !.forward = ToNew(n)]
           linked == [n \in 1 .. N |-> Link(n)]
           forward == [i \in 1 .. level |-> IF prev[i] = Nil THEN Nil ELSE nodes[prev[i]].forward[i]]
           new == [entry |-> fresh, forward |-> forward]
           Node == [entry : Entry, forward : [1 .. level -> 0 .. N + 1]]
<1>1. /\ N \in Nat /\ DOMAIN nodes = 1 .. N
      /\ level \in Nat /\ level >= 1 /\ MAX_LEVEL \in Nat /\ level <= MAX_LEVEL
      /\ \A n \in 1 .. N :
           /\ nodes[n] \in [entry : Entry, forward : [1 .. level -> 0 .. N]]
           /\ nodes[n].entry \in Entry
           /\ nodes[n].forward \in [1 .. level -> 0 .. N]
  BY NodeFields
<1>2. \A i \in 1 .. level : prev[i] = p
  BY <1>1, DescentLands DEF Prev
<1>3. p \in 0 .. N
  <2>1. CASE N = 0
    BY <2>1 DEF LandsOn, Nil
  <2>2. CASE N > 0
    <3>1. Listing(ord) \in Seq(Entry) /\ Len(Listing(ord)) = N /\ Listing(ord) # << >>
      BY <1>1, <2>2, ListingFacts
    <3>2. WalkEnd(Listing(ord), Below(k)) \in 1 .. N
      BY <3>1, WalkEndFacts
    <3>3. \A j \in 1 .. N : ord[j] \in 1 .. N
      BY ListingFacts
    <3> QED
      BY <1>1, <2>2, <3>2, <3>3 DEF LandsOn
  <2> QED
    BY <1>1, <2>1, <2>2
<1>4. fresh \in Entry
  BY <1>1 DEF Entry
<1>5. /\ nodes' = Append(Linked(prev, N + 1), new)
      /\ heads' = [i \in 1 .. MAX_LEVEL |->
                     IF i <= level /\ prev[i] = Nil THEN N + 1 ELSE heads[i]]
      /\ size' = size + 1
      /\ level' = level
  BY DEF Put, Forward
<1>6. Linked(prev, N + 1) = linked
  BY <1>1 DEF Linked
<1> HIDE DEF N, p, prev, fresh
<1>7. ASSUME NEW n \in 1 .. N
      PROVE  /\ Link(n) \in Node
             /\ Link(n).entry = nodes[n].entry
             /\ \A i \in 1 .. level :
                  Link(n).forward[i] = IF n = p THEN N + 1 ELSE nodes[n].forward[i]
  <2>1. ToNew(n) \in [1 .. level -> 0 .. N + 1]
    BY <1>1
  <2>2. \A i \in 1 .. level : ToNew(n)[i] = IF n = p THEN N + 1 ELSE nodes[n].forward[i]
    BY <1>1, <1>2
  <2> HIDE DEF ToNew
  <2>3. Link(n) = [entry |-> nodes[n].entry, forward |-> ToNew(n)]
    BY <1>1
  <2> HIDE DEF Link
  <2> QED
    BY <1>1, <2>1, <2>2, <2>3
<1> HIDE DEF ToNew, Link
<1>8. linked \in [1 .. N -> Node]
  BY <1>7
<1>9. linked \in Seq(Node) /\ Len(linked) = N
  <2> HIDE DEF linked, Node
  <2> QED
    BY <1>1, <1>8, FunctionLen
<1>10. /\ \A i \in 1 .. level : forward[i] = IF p = Nil THEN Nil ELSE nodes[p].forward[i]
       /\ forward = [i \in 1 .. level |-> forward[i]]
  BY <1>1, <1>2
<1> HIDE DEF forward
<1>11. forward \in [1 .. level -> 0 .. N + 1]
  <2>1. ASSUME NEW i \in 1 .. level
        PROVE  forward[i] \in 0 .. N + 1
    <3>1. CASE p = Nil
      BY <1>1, <1>10, <3>1 DEF Nil
    <3>2. CASE p # Nil
      <4>1. p \in 1 .. N
        BY <1>1, <1>3, <3>2 DEF Nil
      <4>2. nodes[p].forward[i] \in 0 .. N
        BY <1>1, <4>1
      <4> QED
        BY <1>1, <1>10, <3>2, <4>2
    <3> QED
      BY <3>1, <3>2
  <2> QED
    BY <1>10, <2>1
<1>12. new \in Node /\ new.entry = fresh /\ new.forward = forward
  BY <1>4, <1>11
<1> HIDE DEF linked, new, Node
<1>13. nodes' \in Seq(Node) /\ Len(nodes') = N + 1 /\ nodes'[N + 1] = new
       /\ \A n \in 1 .. N : nodes'[n] = linked[n]
  BY <1>1, <1>5, <1>6, <1>9, <1>12, AppendProperties
<1>14. \A n \in 1 .. N : nodes'[n] = Link(n)
  BY <1>13 DEF linked
<1>15. heads' = [i \in 1 .. MAX_LEVEL |-> IF i <= level /\ p = Nil THEN N + 1 ELSE heads[i]]
  <2>1. \A i \in 1 .. MAX_LEVEL : i <= level => prev[i] = p
    BY <1>1, <1>2
  <2> QED
    BY <1>5, <2>1
<1>16. \A n \in 1 .. N :
         /\ nodes'[n].entry = nodes[n].entry
         /\ \A i \in 1 .. level :
              nodes'[n].forward[i] = IF n = p THEN N + 1 ELSE nodes[n].forward[i]
  BY <1>7, <1>14
<1>17. nodes'[N + 1].entry = fresh
       /\ \A i \in 1 .. level :
            nodes'[N + 1].forward[i] = IF p = Nil THEN Nil ELSE nodes[p].forward[i]
  BY <1>10, <1>12, <1>13
<1>18. PutBehind(p, k, v)
  <2> SUFFICES
        /\ nodes' \in Seq(Node)
        /\ Len(nodes') = N + 1
        /\ \A n \in 1 .. N :
             /\ nodes'[n].entry = nodes[n].entry
             /\ \A i \in 1 .. level :
                  nodes'[n].forward[i] = IF n = p THEN N + 1 ELSE nodes[n].forward[i]
        /\ nodes'[N + 1].entry = fresh
        /\ \A i \in 1 .. level :
             nodes'[N + 1].forward[i] = IF p = Nil THEN Nil ELSE nodes[p].forward[i]
        /\ heads' = [i \in 1 .. MAX_LEVEL |->
                       IF i <= level /\ p = Nil THEN N + 1 ELSE heads[i]]
        /\ size' = size + 1
        /\ level' = level
    BY DEF PutBehind, N, fresh, Node
  <2> QED
    BY <1>5, <1>13, <1>15, <1>16, <1>17
<1> QED
  BY <1>3, <1>18 DEF N, p

LEMMA PutKeepsType ==
  ASSUME TypeOK, NEW p \in 0 .. Len(nodes), NEW k, NEW v, PutBehind(p, k, v)
  PROVE  TypeOK'
<1>1. Len(nodes) \in Nat /\ Len(nodes') = Len(nodes) + 1 /\ level' = level
      /\ size' = size + 1 /\ size = Len(nodes)
  BY NodeFields DEF PutBehind, TypeOK
<1>2. nodes' \in Seq([entry : Entry, forward : [1 .. level' -> 0 .. Len(nodes')]])
  BY <1>1 DEF PutBehind
<1>3. heads' \in [1 .. MAX_LEVEL -> 0 .. Len(nodes')]
  <2>1. \A i \in 1 .. MAX_LEVEL : heads[i] \in 0 .. Len(nodes)
    BY DEF TypeOK
  <2>2. \A i \in 1 .. MAX_LEVEL :
          (IF i <= level /\ p = Nil THEN Len(nodes) + 1 ELSE heads[i]) \in 0 .. Len(nodes) + 1
    BY <1>1, <2>1
  <2> QED
    BY <1>1, <2>2 DEF PutBehind
<1> QED
  BY <1>1, <1>2, <1>3 DEF TypeOK

\* A put inserts its node into the order at one place for all levels, the place
\* where ListPut inserts the entry.
LEMMA PutKeepsOrder ==
  ASSUME TypeOK, NEW ord, InOrder(ord), NEW k \in Keys, NEW v \in Values, Put(k, v)
  PROVE  /\ TypeOK'
         /\ \E new :
              /\ InOrder(new)'
              /\ Listing(new)' =
                   ListPut(Listing(ord),
                           [key |-> k, val |-> v, ts |-> Len(nodes) + 1, deleted |-> FALSE])
<1> PICK N : N = Len(nodes)
  OBVIOUS
<1> PICK list : list = Listing(ord)
  OBVIOUS
<1> DEFINE e == [key |-> k, val |-> v, ts |-> N + 1, deleted |-> FALSE]
<1>1. /\ N \in Nat /\ list \in Seq(Entry) /\ Len(list) = N
      /\ \A j \in 1 .. N : ord[j] \in 1 .. N /\ list[j] = nodes[ord[j]].entry
      /\ level \in Nat /\ level >= 1
  BY NodeFields, ListingFacts
<1>2. PICK p : p = LandsOn(ord, Below(k))
  OBVIOUS
<1>3. p \in 0 .. N /\ PutBehind(p, k, v)
  BY <1>2, PutEffect
<1>4. TypeOK'
  BY <1>3, PutKeepsType
<1>5. e \in Entry /\ e.key = k
  BY <1>1 DEF Entry
<1> HIDE DEF e
<1>6. PICK w \in 0 .. N :
        /\ w = 0 <=> N = 0
        /\ p = IF w = 0 THEN Nil ELSE ord[w]
        /\ ListPut(list, e) \in Seq(Entry)
        /\ Len(ListPut(list, e)) = N + 1
        /\ \A i \in 1 .. N + 1 :
             ListPut(list, e)[i] =
               IF i <= w THEN list[i] ELSE IF i = w + 1 THEN e ELSE list[i - 1]
  <2>1. CASE N = 0
    <3>1. list = << >> /\ p = Nil
      BY <1>1, <1>2, <2>1, EmptySeq DEF LandsOn
    <3>2. ListPut(list, e) = << e >>
      BY <3>1 DEF ListPut
    <3>3. << e >> \in Seq(Entry) /\ Len(<< e >>) = 1 /\ << e >>[1] = e
      BY <1>5
    <3>4. \A i \in 1 .. N + 1 : i = 0 + 1 /\ i = 1 /\ ~ i <= 0
      BY <2>1
    <3>5. ListPut(list, e) \in Seq(Entry) /\ Len(ListPut(list, e)) = N + 1
          /\ ListPut(list, e)[1] = e
      BY <2>1, <3>2, <3>3
    <3>6. 0 \in 0 .. N
      BY <1>1
    <3> HIDE DEF e
    <3> WITNESS 0 \in 0 .. N
    <3> QED
      BY <2>1, <3>1, <3>4, <3>5
  <2>2. CASE N > 0
    <3>1. list # << >>
      BY <1>1, <2>2
    <3>2. PICK w \in 1 .. N : InsertedBehind(list, e, w)
      BY <1>1, <1>5, <3>1, ListPutAt
    <3>3. Stops(list, Below(k), 1, w)
      BY <1>1, <1>5, <3>2 DEF InsertedBehind, Stops
    <3>4. Stops(list, Below(k), 1, WalkEnd(list, Below(k)))
      BY <1>1, <3>1, WalkEndFacts DEF Stops
    <3>5. WalkEnd(list, Below(k)) = w
      BY <1>1, <2>2, <3>3, <3>4, StopUnique
    <3>6. p = ord[w]
      BY <1>2, <2>2, <3>5 DEF LandsOn
    <3>7. w \in 0 .. N /\ w # 0 /\ N # 0
      BY <1>1, <2>2
    <3> QED
      BY <1>1, <3>2, <3>6, <3>7 DEF InsertedBehind
  <2> QED
    BY <1>1, <2>1, <2>2
<1> DEFINE new == [j \in 1 .. N + 1 |->
                     IF j <= w THEN ord[j] ELSE IF j = w + 1 THEN N + 1 ELSE ord[j - 1]]
<1>7. /\ \A j \in 1 .. w : new[j] = ord[j] /\ j \in 1 .. N
      /\ new[w + 1] = N + 1
      /\ \A j \in w + 2 .. N + 1 : new[j] = ord[j - 1] /\ j - 1 \in 1 .. N
  BY <1>1, <1>6
<1>8. \A j \in 1 .. N + 1 : j \in 1 .. w \/ j = w + 1 \/ j \in w + 2 .. N + 1
  BY <1>1, <1>6
<1>9. new \in [1 .. N + 1 -> 1 .. N + 1]
  BY <1>1, <1>6
<1> HIDE DEF new
<1>onto. \A n \in 1 .. N : \E j \in 1 .. N : ord[j] = n
  BY DEF InOrder
<1>once. \A j, l \in 1 .. N : ord[j] = ord[l] => j = l
  BY DEF InOrder
<1>heads. \A i \in 1 .. MAX_LEVEL : heads[i] = IF i <= level /\ N > 0 THEN ord[1] ELSE Nil
  BY DEF InOrder
<1>links. \A j \in 1 .. N, i \in 1 .. level :
            nodes[ord[j]].forward[i] = IF j < N THEN ord[j + 1] ELSE Nil
  BY DEF InOrder
<1>11. \A n \in 1 .. N + 1 : \E j \in 1 .. N + 1 : new[j] = n
  <2> SUFFICES ASSUME NEW n \in 1 .. N + 1
               PROVE  \E j \in 1 .. N + 1 : new[j] = n
    OBVIOUS
  <2>1. CASE n = N + 1
    <3>1. w + 1 \in 1 .. N + 1
      BY <1>1, <1>6
    <3> QED
      BY <1>7, <2>1, <3>1
  <2>2. CASE n # N + 1
    <3>1. PICK j \in 1 .. N : ord[j] = n
      <4>1. n \in 1 .. N
        BY <1>1, <2>2
      <4> QED
        BY <1>onto, <4>1
    <3>2. CASE j <= w
      <4>1. j \in 1 .. w /\ j \in 1 .. N + 1
        BY <1>1, <1>6, <3>2
      <4> QED
        BY <1>7, <3>1, <4>1
    <3>3. CASE j > w
      <4>1. j + 1 \in w + 2 .. N + 1 /\ j + 1 \in 1 .. N + 1 /\ (j + 1) - 1 = j
        BY <1>1, <1>6, <3>3
      <4> QED
        BY <1>7, <3>1, <4>1
    <3> QED
      BY <1>1, <1>6, <3>2, <3>3
  <2> QED
    BY <2>1, <2>2
<1>12. \A j, l \in 1 .. N + 1 : new[j] = new[l] => j = l
  <2>1. \A j \in 1 .. N + 1 : j # w + 1 =>
          \E a \in 1 .. N : new[j] = ord[a] /\ new[j] # N + 1 /\ (a = IF j <= w THEN j ELSE j - 1)
    <3> SUFFICES ASSUME NEW j \in 1 .. N + 1, j # w + 1
                 PROVE  \E a \in 1 .. N :
                          new[j] = ord[a] /\ new[j] # N + 1 /\ (a = IF j <= w THEN j ELSE j - 1)
      OBVIOUS
    <3>1. CASE j <= w
      <4>1. j \in 1 .. w
        BY <1>1, <1>6, <3>1
      <4> QED
        BY <1>1, <1>7, <3>1, <4>1
    <3>2. CASE j > w
      <4>1. j \in w + 2 .. N + 1 /\ ~ j <= w
        BY <1>1, <1>6, <3>2
      <4>2. new[j] = ord[j - 1] /\ j - 1 \in 1 .. N
        BY <1>7, <4>1
      <4>3. ord[j - 1] # N + 1
        BY <1>1, <4>2
      <4> QED
        BY <4>1, <4>2, <4>3
    <3> QED
      BY <1>1, <1>6, <3>1, <3>2
  <2> SUFFICES ASSUME NEW j \in 1 .. N + 1, NEW l \in 1 .. N + 1, new[j] = new[l]
               PROVE  j = l
    OBVIOUS
  <2>2. CASE j = w + 1 \/ l = w + 1
    BY <1>7, <2>1, <2>2
  <2>3. CASE j # w + 1 /\ l # w + 1
    <3>1. PICK a \in 1 .. N : new[j] = ord[a] /\ (a = IF j <= w THEN j ELSE j - 1)
      BY <2>1, <2>3
    <3>2. PICK b \in 1 .. N : new[l] = ord[b] /\ (b = IF l <= w THEN l ELSE l - 1)
      BY <2>1, <2>3
    <3>3. a = b
      <4>1. ord[a] = ord[b]
        BY <3>1, <3>2
      <4> QED
        BY <1>once, <4>1
    <3> QED
      BY <1>1, <1>6, <2>3, <3>1, <3>2, <3>3
  <2> QED
    BY <2>2, <2>3
<1>13. Len(nodes') = N + 1 /\ level' = level
  BY <1>3 DEF PutBehind
<1>14. \A i \in 1 .. MAX_LEVEL : heads'[i] = IF i <= level THEN new[1] ELSE Nil
  <2> SUFFICES ASSUME NEW i \in 1 .. MAX_LEVEL
               PROVE  heads'[i] = IF i <= level THEN new[1] ELSE Nil
    OBVIOUS
  <2>1. heads'[i] = IF i <= level /\ p = Nil THEN N + 1 ELSE heads[i]
    BY <1>3 DEF PutBehind
  <2>2. heads[i] = IF i <= level /\ N > 0 THEN ord[1] ELSE Nil
    BY <1>heads
  <2>3. CASE N = 0
    <3>1. w = 0 /\ p = Nil
      BY <1>6, <2>3
    <3>2. new[1] = N + 1
      BY <1>7, <3>1
    <3> QED
      BY <2>1, <2>2, <2>3, <3>1, <3>2
  <2>4. CASE N > 0
    <3>1. w \in 1 .. N /\ 1 \in 1 .. w
      BY <1>1, <1>6, <2>4
    <3>2. p \in 1 .. N /\ new[1] = ord[1]
      BY <1>1, <1>6, <1>7, <3>1
    <3>3. p # Nil
      BY <3>2 DEF Nil
    <3> QED
      BY <2>1, <2>2, <2>4, <3>2, <3>3
  <2> QED
    BY <1>1, <2>3, <2>4
<1>15. (\A n \in 1 .. N : nodes'[n].entry = nodes[n].entry) /\ nodes'[N + 1].entry = e
  BY <1>3 DEF PutBehind, e
<1>old. \A n \in 1 .. N, i \in 1 .. level :
          nodes'[n].forward[i] = IF n = p THEN N + 1 ELSE nodes[n].forward[i]
  BY <1>3 DEF PutBehind
<1>new. \A i \in 1 .. level :
          nodes'[N + 1].forward[i] = IF p = Nil THEN Nil ELSE nodes[p].forward[i]
  BY <1>3 DEF PutBehind
<1>16. ASSUME NEW j \in 1 .. N + 1, NEW i \in 1 .. level
       PROVE  nodes'[new[j]].forward[i] = IF j < N + 1 THEN new[j + 1] ELSE Nil
  <2>1. CASE j \in 1 .. w
    <3>1. j \in 1 .. N /\ w \in 1 .. N /\ new[j] = ord[j] /\ ord[j] \in 1 .. N /\ p = ord[w]
          /\ j < N + 1
      BY <1>1, <1>6, <1>7, <2>1
    <3>2. CASE j = w
      <4>1. nodes'[ord[j]].forward[i] = N + 1
        BY <1>old, <3>1, <3>2
      <4> QED
        BY <1>7, <3>1, <3>2, <4>1
    <3>3. CASE j # w
      <4>1. ord[j] # p
        BY <1>once, <3>1, <3>3
      <4>2. j + 1 \in 1 .. w /\ j < N
        BY <1>1, <2>1, <3>1, <3>3
      <4>3. nodes'[ord[j]].forward[i] = ord[j + 1]
        BY <1>links, <1>old, <3>1, <4>1, <4>2
      <4> QED
        BY <1>7, <3>1, <4>2, <4>3
    <3> QED
      BY <3>2, <3>3
  <2>2. CASE j = w + 1
    <3>1. new[j] = N + 1
      BY <1>7, <2>2
    <3>2. CASE w = 0
      <4>1. p = Nil /\ ~ j < N + 1
        BY <1>1, <1>6, <2>2, <3>2
      <4> QED
        BY <1>new, <3>1, <4>1
    <3>3. CASE w # 0
      <4>1. w \in 1 .. N /\ p = ord[w] /\ p \in 1 .. N
        BY <1>1, <1>6, <3>3
      <4>2. p # Nil
        BY <4>1 DEF Nil
      <4>3. nodes'[N + 1].forward[i] = IF w < N THEN ord[w + 1] ELSE Nil
        BY <1>links, <1>new, <4>1, <4>2
      <4>4. CASE w < N
        <5>1. j + 1 \in w + 2 .. N + 1 /\ j < N + 1 /\ (j + 1) - 1 = w + 1
          BY <1>1, <2>2, <4>1, <4>4
        <5> QED
          BY <1>7, <3>1, <4>3, <4>4, <5>1
      <4>5. CASE ~ w < N
        <5>1. ~ j < N + 1
          BY <1>1, <2>2, <4>1, <4>5
        <5> QED
          BY <3>1, <4>3, <4>5, <5>1
      <4> QED
        BY <4>4, <4>5
    <3> QED
      BY <3>2, <3>3
  <2>3. CASE j \in w + 2 .. N + 1
    <3>1. new[j] = ord[j - 1] /\ j - 1 \in 1 .. N /\ ord[j - 1] \in 1 .. N
      BY <1>1, <1>7, <2>3
    <3>2. ord[j - 1] # p
      <4>1. CASE w = 0
        BY <1>6, <3>1, <4>1 DEF Nil
      <4>2. CASE w # 0
        <5>1. w \in 1 .. N /\ p = ord[w] /\ j - 1 # w
          BY <1>1, <1>6, <2>3, <4>2
        <5> QED
          BY <1>once, <3>1, <5>1
      <4> QED
        BY <4>1, <4>2
    <3>3. nodes'[new[j]].forward[i] = IF j - 1 < N THEN ord[(j - 1) + 1] ELSE Nil
      BY <1>links, <1>old, <3>1, <3>2
    <3>4. CASE j < N + 1
      <4>1. j - 1 < N /\ (j - 1) + 1 = j /\ j + 1 \in w + 2 .. N + 1 /\ (j + 1) - 1 = j
        BY <1>1, <1>6, <2>3, <3>4
      <4> QED
        BY <1>7, <3>3, <3>4, <4>1
    <3>5. CASE ~ j < N + 1
      <4>1. ~ j - 1 < N
        BY <1>1, <3>5
      <4> QED
        BY <3>3, <3>5, <4>1
    <3> QED
      BY <3>4, <3>5
  <2> QED
    BY <1>8, <2>1, <2>2, <2>3
<1>17. InOrder(new)'
  <2>1. N + 1 > 0
    BY <1>1
  <2> QED
    BY <1>9, <1>11, <1>12, <1>13, <1>14, <1>16, <2>1 DEF InOrder
<1>18. Listing(new)' = ListPut(list, e)
  <2>1. ASSUME NEW j \in 1 .. N + 1
        PROVE  nodes'[new[j]].entry = ListPut(list, e)[j]
    <3>1. CASE j \in 1 .. w
      <4>1. new[j] = ord[j] /\ j \in 1 .. N /\ ord[j] \in 1 .. N /\ j <= w
        BY <1>1, <1>7, <3>1
      <4>2. ListPut(list, e)[j] = list[j]
        BY <1>6, <4>1
      <4>3. nodes'[ord[j]].entry = nodes[ord[j]].entry
        BY <1>15, <4>1
      <4>4. list[j] = nodes[ord[j]].entry
        BY <1>1, <4>1
      <4> QED
        BY <4>1, <4>2, <4>3, <4>4
    <3>2. CASE j = w + 1
      <4>1. ~ j <= w
        BY <1>1, <3>2
      <4> QED
        BY <1>6, <1>7, <1>15, <3>2, <4>1
    <3>3. CASE j \in w + 2 .. N + 1
      <4>1. new[j] = ord[j - 1] /\ j - 1 \in 1 .. N /\ ord[j - 1] \in 1 .. N
            /\ ~ j <= w /\ j # w + 1
        BY <1>1, <1>6, <1>7, <3>3
      <4>2. ListPut(list, e)[j] = list[j - 1]
        BY <1>6, <4>1
      <4>3. nodes'[ord[j - 1]].entry = nodes[ord[j - 1]].entry
        BY <1>15, <4>1
      <4>4. list[j - 1] = nodes[ord[j - 1]].entry
        BY <1>1, <4>1
      <4> QED
        BY <4>1, <4>2, <4>3, <4>4
    <3> QED
      BY <1>8, <3>1, <3>2, <3>3
  <2>2. Listing(new)' = [j \in 1 .. N + 1 |-> nodes'[new[j]].entry]
    BY <1>13 DEF Listing
  <2>3. ListPut(list, e) \in [1 .. N + 1 -> Entry]
    BY <1>6, LenProperties
  <2> QED
    BY <2>1, <2>2, <2>3
<1> QED
  BY <1>4, <1>17, <1>18 DEF e

\* A delete marks the entry a lookup stands on, and moves no pointer.
LEMMA DeleteKeepsOrder ==
  ASSUME TypeOK, NEW ord, InOrder(ord), NEW k \in Keys, Delete(k)
  PROVE  /\ TypeOK' /\ InOrder(ord)'
         /\ Found(Listing(ord), k)
         /\ Listing(ord)' = [Listing(ord) EXCEPT ![FindPos(Listing(ord), k)].deleted = TRUE]
<1> PICK N : N = Len(nodes)
  OBVIOUS
<1> PICK list : list = Listing(ord)
  OBVIOUS
<1> DEFINE Node == [entry : Entry, forward : [1 .. level -> 0 .. N]]
<1>1. /\ N \in Nat /\ DOMAIN nodes = 1 .. N
      /\ \A n \in 1 .. N : nodes[n] \in Node /\ nodes[n].entry \in Entry
  BY NodeFields
<1>2. /\ list \in Seq(Entry) /\ Len(list) = N
      /\ \A j \in 1 .. N : ord[j] \in 1 .. N /\ list[j] = nodes[ord[j]].entry
  BY ListingFacts
<1>3. Found(list, k)
  BY GetFollowsOrder DEF Delete
<1>4. PICK p \in 1 .. N : p = FindPos(list, k) /\ Get(k) = ord[p]
  BY <1>3, GetFollowsOrder
<1>5. PICK g \in 1 .. N : g = ord[p]
  BY <1>2
<1>6. nodes' = [nodes EXCEPT ![g].entry.deleted = TRUE]
      /\ level' = level /\ heads' = heads /\ size' = size
  BY <1>4, <1>5 DEF Delete
<1> DEFINE marked == [nodes[g].entry EXCEPT !.deleted = TRUE]
<1>7. marked \in Entry
  BY <1>1 DEF Entry
<1>8. \A n \in 1 .. N : n # g => nodes'[n] = nodes[n]
  BY <1>1, <1>6
<1>9. nodes'[g] \in Node /\ nodes'[g].entry = marked /\ nodes'[g].forward = nodes[g].forward
  <2>1. nodes'[g] = [nodes[g] EXCEPT !.entry.deleted = TRUE]
    BY <1>1, <1>6
  <2>2. nodes[g] = [entry |-> nodes[g].entry, forward |-> nodes[g].forward]
        /\ nodes[g].forward \in [1 .. level -> 0 .. N]
    BY <1>1
  <2>3. nodes'[g] = [entry |-> marked, forward |-> nodes[g].forward]
    BY <2>1, <2>2
  <2> HIDE DEF marked
  <2> QED
    BY <1>7, <2>2, <2>3
<1> HIDE DEF marked, Node
<1>10. nodes' \in [1 .. N -> Node]
  <2>1. nodes' = [n \in 1 .. N |-> nodes'[n]]
    BY <1>1, <1>6
  <2>2. \A n \in 1 .. N : nodes'[n] \in Node
    BY <1>1, <1>8, <1>9
  <2> QED
    BY <2>1, <2>2
<1>11. nodes' \in Seq(Node) /\ Len(nodes') = N
  BY <1>1, <1>10, FunctionLen
<1>12. TypeOK'
  BY <1>6, <1>11 DEF TypeOK, Node
<1>13. \A n \in 1 .. N : nodes'[n].forward = nodes[n].forward
  BY <1>8, <1>9
<1>14. InOrder(ord)'
  <2>1. \A j \in 1 .. N : nodes'[ord[j]].forward = nodes[ord[j]].forward
    BY <1>2, <1>13
  <2>2. Len(nodes') = Len(nodes) /\ heads' = heads /\ level' = level
    BY <1>6, <1>11
  <2>3. \A j \in 1 .. Len(nodes), i \in 1 .. level :
          nodes'[ord[j]].forward[i] = IF j < Len(nodes) THEN ord[j + 1] ELSE Nil
    <3> SUFFICES ASSUME NEW j \in 1 .. Len(nodes), NEW i \in 1 .. level
                 PROVE  nodes'[ord[j]].forward[i] = IF j < Len(nodes) THEN ord[j + 1] ELSE Nil
      OBVIOUS
    <3>1. nodes[ord[j]].forward[i] = IF j < Len(nodes) THEN ord[j + 1] ELSE Nil
      BY DEF InOrder
    <3>2. nodes'[ord[j]].forward = nodes[ord[j]].forward
      BY <2>1
    <3> QED
      BY <3>1, <3>2
  <2>4. \A i \in 1 .. MAX_LEVEL :
          heads[i] = IF i <= level /\ Len(nodes) > 0 THEN ord[1] ELSE Nil
    BY DEF InOrder
  <2>5. /\ ord \in [1 .. Len(nodes) -> 1 .. Len(nodes)]
        /\ \A n \in 1 .. Len(nodes) : \E j \in 1 .. Len(nodes) : ord[j] = n
        /\ \A j, l \in 1 .. Len(nodes) : ord[j] = ord[l] => j = l
    BY DEF InOrder
  <2> QED
    BY <2>2, <2>3, <2>4, <2>5 DEF InOrder
<1>15. Listing(ord)' = [list EXCEPT ![p].deleted = TRUE]
  <2>1. Listing(ord)' = [j \in 1 .. N |-> nodes'[ord[j]].entry]
    BY <1>11 DEF Listing
  <2>2. list = [j \in 1 .. N |-> list[j]]
    BY <1>2, LenProperties
  <2>3. \A j \in 1 .. N : nodes'[ord[j]].entry = IF j = p THEN marked ELSE list[j]
    <3>1. \A j \in 1 .. N : ord[j] = g => j = p
      BY <1>5 DEF InOrder
    <3> QED
      BY <1>2, <1>5, <1>8, <1>9, <3>1
  <2>4. marked = [list[p] EXCEPT !.deleted = TRUE]
    BY <1>2, <1>5 DEF marked
  <2>5. [list EXCEPT ![p].deleted = TRUE] =
          [j \in 1 .. N |-> IF j = p THEN [list[p] EXCEPT !.deleted = TRUE] ELSE list[j]]
    BY <2>2
  <2> QED
    BY <2>1, <2>3, <2>4, <2>5
<1> QED
  BY <1>3, <1>4, <1>12, <1>14, <1>15

----------------------------------------------------------------------------
LEMMA InitInv == Init => Inv
<1> SUFFICES ASSUME Init
             PROVE  Inv
  OBVIOUS
<1>1. nodes = << >> /\ Len(nodes) = 0 /\ size = 0 /\ level \in 1 .. MAX_LEVEL
      /\ heads = [i \in 1 .. MAX_LEVEL |-> Nil]
  BY DEF Init
<1>2. TypeOK
  <2>1. nodes \in Seq([entry : Entry, forward : [1 .. level -> 0 .. Len(nodes)]])
    BY <1>1, EmptySeq
  <2>2. heads \in [1 .. MAX_LEVEL -> 0 .. Len(nodes)]
    BY <1>1 DEF Nil
  <2> QED
    BY <1>1, <2>1, <2>2 DEF TypeOK
<1>3. InOrder([j \in 1 .. 0 |-> j])
  BY <1>1 DEF InOrder
<1> QED
  BY <1>2, <1>3 DEF Inv

LEMMA NextInv == Inv /\ [Next]_vars => Inv'
<1> SUFFICES ASSUME Inv, [Next]_vars
             PROVE  Inv'
  OBVIOUS
<1> PICK ord : InOrder(ord)
  BY DEF Inv
<1>1. TypeOK
  BY DEF Inv
<1>2. ASSUME NEW k \in Keys, NEW v \in Values, Put(k, v)
      PROVE  Inv'
  <2>1. TypeOK' /\ \E new : InOrder(new)'
    BY <1>1, <1>2, PutKeepsOrder
  <2> QED
    BY <2>1 DEF Inv
<1>3. ASSUME NEW k \in Keys, Delete(k)
      PROVE  Inv'
  <2>1. TypeOK' /\ InOrder(ord)'
    BY <1>1, <1>3, DeleteKeepsOrder
  <2> QED
    BY <2>1 DEF Inv
<1>4. CASE UNCHANGED vars
  <2>1. TypeOK' /\ InOrder(ord)'
    BY <1>1, <1>4 DEF TypeOK, InOrder, vars
  <2> QED
    BY <2>1 DEF Inv
<1> QED
  BY <1>2, <1>3, <1>4 DEF Next

(***************************************************************************)
(* SkipList.put and delete keep the pointers well-formed: all levels in    *)
(* use link all the nodes, each once, in one and the same order.           *)
(***************************************************************************)
THEOREM Invariant == Spec => []Inv
  BY InitInv, NextInv, PTL DEF Spec

(***************************************************************************)
(* put and delete leave no pointer of a node or a head that leads nowhere, *)
(* whatever level the process drew.                                        *)
(***************************************************************************)
THEOREM TypeCorrect == Spec => []TypeOK
<1>1. Inv => TypeOK
  BY DEF Inv
<1> QED
  BY <1>1, Invariant, PTL

(***************************************************************************)
(* Every level put links lists the same nodes in the same order, and all   *)
(* of them.                                                                *)
(***************************************************************************)
THEOREM LevelsAlwaysAgree == Spec => []LevelsAgree
<1>1. Inv => LevelsAgree
  <2> SUFFICES ASSUME Inv
               PROVE  LevelsAgree
    OBVIOUS
  <2>1. PICK ord : InOrder(ord)
    BY DEF Inv
  <2>2. TypeOK /\ size = Len(nodes)
    BY DEF Inv, TypeOK
  <2>3. \A i \in 1 .. level : Chain(i) = Listing(ord)
    BY <2>1, <2>2, ChainFollowsOrder
  <2>4. 1 \in 1 .. level /\ Len(Listing(ord)) = size
    BY <2>1, <2>2, NodeFields, ListingFacts
  <2> QED
    BY <2>3, <2>4 DEF LevelsAgree
<1> QED
  BY <1>1, Invariant, PTL

(***************************************************************************)
(* SkipList.get, which descends through all MAX_LEVEL levels, answers from *)
(* the entry a walk along level 1 finds, and finds a key whenever it does. *)
(***************************************************************************)
THEOREM GetAlwaysFollowsList == Spec => []GetFollowsList
<1>1. Inv => GetFollowsList
  <2> SUFFICES ASSUME Inv
               PROVE  GetFollowsList
    OBVIOUS
  <2>1. PICK ord : InOrder(ord)
    BY DEF Inv
  <2>2. TypeOK
    BY DEF Inv
  <2>3. Chain(1) = Listing(ord)
    BY <2>1, <2>2, NodeFields, ChainFollowsOrder
  <2>4. \A k \in Keys :
          /\ Get(k) # Nil <=> Found(Chain(1), k)
          /\ Found(Chain(1), k) => nodes[Get(k)].entry = Lookup(Chain(1), k)
    BY <2>1, <2>2, <2>3, GetFollowsOrder
  <2> QED
    BY <2>4 DEF GetFollowsList
<1> QED
  BY <1>1, Invariant, PTL

----------------------------------------------------------------------------
\* What level 1 lists, as a formula of the state, to be used of the next one too.
BottomListsOrder ==
  TypeOK => \A ord : InOrder(ord) => Chain(1) = Listing(ord)

LEMMA BottomAlwaysListsOrder == BottomListsOrder
  BY NodeFields, ChainFollowsOrder DEF BottomListsOrder

\* The operators of the abstract module are those of StorageOps.
LEMMA SameOperators ==
  /\ \A list, e : Abstract!ListPut(list, e) = ListPut(list, e)
  /\ \A list, k : Abstract!Found(list, k) = Found(list, k)
  /\ \A list, k : Abstract!FindPos(list, k) = FindPos(list, k)
<1>1. \A k : Abstract!Below(k) = Below(k) /\ Abstract!UpTo(k) = UpTo(k)
  BY DEF Below, UpTo, Abstract!Below, Abstract!UpTo
<1>2. \A list, Pass : Abstract!WalkEnd(list, Pass) = WalkEnd(list, Pass)
  BY DEF WalkEnd, Abstract!WalkEnd
<1>3. \A list, n, e : Abstract!InsertAt(list, n, e) = InsertAt(list, n, e)
  BY DEF InsertAt, Abstract!InsertAt
<1>4. \A list, k : Abstract!FindPos(list, k) = FindPos(list, k)
  BY <1>1, <1>2 DEF FindPos, Abstract!FindPos
<1> QED
  BY <1>1, <1>2, <1>3, <1>4 DEF ListPut, Abstract!ListPut, Found, Abstract!Found

LEMMA PutImplements ==
  ASSUME Inv, BottomListsOrder, BottomListsOrder', NEW k \in Keys, NEW v \in Values, Put(k, v)
  PROVE  Abstract!Put(k, v)
<1> DEFINE e == [key |-> k, val |-> v, ts |-> Len(nodes) + 1, deleted |-> FALSE]
<1>1. PICK ord : InOrder(ord)
  BY DEF Inv
<1>2. TypeOK
  BY DEF Inv
<1>3. TypeOK' /\ \E new : InOrder(new)' /\ Listing(new)' = ListPut(Listing(ord), e)
  BY <1>1, <1>2, PutKeepsOrder
<1>4. PICK new : InOrder(new)' /\ Listing(new)' = ListPut(Listing(ord), e)
  BY <1>3
<1>5. Chain(1) = Listing(ord) /\ Len(Chain(1)) = Len(nodes)
  BY <1>1, <1>2, ListingFacts DEF BottomListsOrder
<1>6. Chain(1)' = Listing(new)'
  BY <1>3, <1>4 DEF BottomListsOrder
<1>7. Len(nodes) < MaxPuts
  BY DEF Put
<1> QED
  BY <1>4, <1>5, <1>6, <1>7, SameOperators DEF Abstract!Put

LEMMA DeleteImplements ==
  ASSUME Inv, BottomListsOrder, BottomListsOrder', NEW k \in Keys, Delete(k)
  PROVE  Abstract!Delete(k)
<1>1. PICK ord : InOrder(ord)
  BY DEF Inv
<1>2. TypeOK
  BY DEF Inv
<1>3. /\ TypeOK' /\ InOrder(ord)'
      /\ Found(Listing(ord), k)
      /\ Listing(ord)' = [Listing(ord) EXCEPT ![FindPos(Listing(ord), k)].deleted = TRUE]
  BY <1>1, <1>2, DeleteKeepsOrder
<1>4. Chain(1) = Listing(ord) /\ Chain(1)' = Listing(ord)'
  BY <1>1, <1>2, <1>3 DEF BottomListsOrder
<1> QED
  BY <1>3, <1>4, SameOperators DEF Abstract!Delete

LEMMA InitImplements == Init => Abstract!Init
<1> SUFFICES ASSUME Init
             PROVE  Chain(1) = << >>
  BY DEF Abstract!Init
<1>1. PICK ord : InOrder(ord)
  BY InitInv DEF Inv
<1>2. TypeOK
  BY InitInv DEF Inv
<1>3. Chain(1) = Listing(ord) /\ Listing(ord) \in Seq(Entry) /\ Len(Listing(ord)) = 0
  BY <1>1, <1>2, BottomAlwaysListsOrder, ListingFacts DEF BottomListsOrder, Init
<1> QED
  BY <1>3, EmptySeq

(***************************************************************************)
(* The nodes and pointers of class SkipList implement the plain list of    *)
(* NodeList: each put inserts where ListPut does, each delete marks what a *)
(* lookup stands on, and nothing else changes what level 1 lists.          *)
(***************************************************************************)
THEOREM Refinement == Spec => ImplementsNodeList
<1>1. BottomListsOrder
  BY BottomAlwaysListsOrder
<1>2. Inv /\ BottomListsOrder /\ BottomListsOrder' /\ [Next]_vars
        => [Abstract!Next]_(Chain(1))
  <2> SUFFICES ASSUME Inv, BottomListsOrder, BottomListsOrder', [Next]_vars
               PROVE  [Abstract!Next]_(Chain(1))
    OBVIOUS
  <2>1. ASSUME NEW k \in Keys, NEW v \in Values, Put(k, v)
        PROVE  Abstract!Next
    BY <2>1, PutImplements DEF Abstract!Next
  <2>2. ASSUME NEW k \in Keys, Delete(k)
        PROVE  Abstract!Next
    BY <2>2, DeleteImplements DEF Abstract!Next
  <2>3. CASE UNCHANGED vars
    BY <2>3 DEF vars, Chain
  <2> QED
    BY <2>1, <2>2, <2>3 DEF Next
<1> QED
  BY <1>1, <1>2, InitImplements, Invariant, PTL DEF Spec, ImplementsNodeList, Abstract!Spec
===============================================================================
