-------------------------- MODULE StorageOps_proofs --------------------------
(***************************************************************************)
(* Lemmas about the operators of StorageOps, cited by the proofs about     *)
(* MemTable and LSMTree.                                                   *)
(***************************************************************************)
EXTENDS StorageOps, SequenceTheorems, WellFoundedInduction, TLAPS

\* A walk along a list that is not empty ends, and where is determined.
LEMMA WalkEndFacts ==
  ASSUME NEW list \in Seq(Entry), list # << >>, NEW Pass
  PROVE  /\ WalkEnd(list, Pass) \in 1 .. Len(list)
         /\ \A j \in 2 .. WalkEnd(list, Pass) : list[j].key \in Pass
         /\ WalkEnd(list, Pass) < Len(list) => list[WalkEnd(list, Pass) + 1].key \notin Pass
<1> DEFINE Stop == {i \in 1 .. Len(list) : i < Len(list) => list[i + 1].key \notin Pass}
<1>1. Len(list) \in Nat \ {0}
  BY EmptySeq
<1>2. Stop \subseteq Nat /\ Len(list) \in Stop
  BY <1>1
<1>3. PICK i \in Stop : \A j \in Stop : ~ << j, i >> \in OpToRel(<, Nat)
  BY <1>2, NatLessThanWellFounded, WFMin
<1>4. \A j \in Stop : ~ j < i
  BY <1>2, <1>3 DEF OpToRel
<1>5. \A j \in 2 .. i : list[j].key \in Pass
  <2> SUFFICES ASSUME NEW j \in 2 .. i, list[j].key \notin Pass
               PROVE  FALSE
    OBVIOUS
  <2>1. j - 1 \in Stop
    BY <1>1, <1>2
  <2>2. i \in Nat /\ j \in Int /\ j - 1 < i
    BY <1>2
  <2> QED
    BY <2>1, <2>2, <1>4
<1> QED
  BY <1>1, <1>5 DEF WalkEnd

\* Inserting an element: the length, and who stands where.
LEMMA InsertAtFacts ==
  ASSUME NEW list \in Seq(Entry), NEW n \in 1 .. Len(list) + 1, NEW e \in Entry
  PROVE  /\ InsertAt(list, n, e) \in Seq(Entry)
         /\ Len(InsertAt(list, n, e)) = Len(list) + 1
         /\ \A i \in 1 .. Len(list) + 1 :
              InsertAt(list, n, e)[i] =
                IF i < n THEN list[i] ELSE IF i = n THEN e ELSE list[i - 1]
<1> DEFINE front == SubSeq(list, 1, n - 1)
           back  == SubSeq(list, n, Len(list))
           start == front \o << e >>
           all   == start \o back
<1>1. Len(list) \in Nat /\ \A i \in 1 .. Len(list) : list[i] \in Entry
  BY LenProperties, ElementOfSeq
<1>2. front \in Seq(Entry) /\ Len(front) = n - 1 /\ \A i \in 1 .. n - 1 : front[i] = list[i]
  BY <1>1, SubSeqProperties
<1>3. back \in Seq(Entry) /\ Len(back) = Len(list) - n + 1
      /\ \A i \in 1 .. Len(list) - n + 1 : back[i] = list[n + i - 1]
  BY <1>1, SubSeqProperties
<1>4. << e >> \in Seq(Entry) /\ Len(<< e >>) = 1 /\ << e >>[1] = e
  OBVIOUS
<1>5. InsertAt(list, n, e) = all
  BY DEF InsertAt
<1> HIDE DEF front, back
<1>6. start \in Seq(Entry) /\ Len(start) = n
      /\ \A i \in 1 .. n : start[i] = IF i < n THEN list[i] ELSE e
  <2>1. /\ start \in Seq(Entry)
        /\ Len(start) = Len(front) + 1
        /\ \A i \in 1 .. Len(front) + 1 :
             start[i] = IF i <= Len(front) THEN front[i] ELSE << e >>[i - Len(front)]
    BY <1>2, <1>4, ConcatProperties
  <2> QED
    BY <2>1, <1>1, <1>2, <1>4
<1> HIDE DEF start
<1>7. /\ all \in Seq(Entry)
      /\ Len(all) = Len(start) + Len(back)
      /\ \A i \in 1 .. Len(start) + Len(back) :
           all[i] = IF i <= Len(start) THEN start[i] ELSE back[i - Len(start)]
  BY <1>3, <1>6, ConcatProperties
<1> HIDE DEF all
<1>8. Len(all) = Len(list) + 1
  BY <1>1, <1>3, <1>6, <1>7
<1>9. ASSUME NEW i \in 1 .. Len(list) + 1
      PROVE  all[i] = IF i < n THEN list[i] ELSE IF i = n THEN e ELSE list[i - 1]
  <2>1. CASE i <= n
    BY <2>1, <1>1, <1>3, <1>6, <1>7
  <2>2. CASE i > n
    <3>1. all[i] = back[i - n]
      BY <2>2, <1>1, <1>3, <1>6, <1>7
    <3>2. i - n \in 1 .. Len(list) - n + 1 /\ n + (i - n) - 1 = i - 1
      BY <2>2, <1>1
    <3>3. back[i - n] = list[i - 1]
      BY <3>2, <1>3
    <3> QED
      BY <3>1, <3>3, <2>2, <1>1
  <2> QED
    BY <2>1, <2>2, <1>1
<1> QED
  BY <1>5, <1>7, <1>8, <1>9

LEMMA EntryFields ==
  ASSUME NEW list \in Seq(Entry)
  PROVE  /\ Len(list) \in Nat /\ DOMAIN list = 1 .. Len(list)
         /\ \A i \in 1 .. Len(list) :
              list[i].key \in Keys /\ list[i].key \in Int /\ list[i].ts \in Nat
<1>1. Len(list) \in Nat /\ DOMAIN list = 1 .. Len(list)
      /\ \A i \in 1 .. Len(list) : list[i] \in Entry
  BY LenProperties, ElementOfSeq
<1>2. \A e \in Entry : e.key \in Keys /\ e.key \in Int /\ e.ts \in Nat
  BY KeysAssumption DEF Entry
<1> QED
  BY <1>1, <1>2

\* The order of two nodes of a sorted tail.
LEMMA SortedPair ==
  ASSUME NEW list, SortedTail(list),
         NEW i \in 2 .. Len(list), NEW j \in 2 .. Len(list), i < j
  PROVE  \/ list[i].key < list[j].key
         \/ list[i].key = list[j].key /\ list[i].ts > list[j].ts
  BY DEF SortedTail

LEMMA FreshListSorted == SortedTail(<< >>)
  BY EmptySeq DEF SortedTail

\* Where SkipList.put inserts: behind the nodes the walk passes.
InsertedBehind(list, e, w) ==
  /\ \A j \in 2 .. w : list[j].key \in Below(e.key)
  /\ w < Len(list) => list[w + 1].key \notin Below(e.key)
  /\ ListPut(list, e) \in Seq(Entry)
  /\ Len(ListPut(list, e)) = Len(list) + 1
  /\ \A i \in 1 .. Len(list) + 1 :
       ListPut(list, e)[i] =
         IF i <= w THEN list[i] ELSE IF i = w + 1 THEN e ELSE list[i - 1]

LEMMA ListPutAt ==
  ASSUME NEW list \in Seq(Entry), NEW e \in Entry, list # << >>
  PROVE  \E w \in 1 .. Len(list) : InsertedBehind(list, e, w)
<1>1. PICK w \in 1 .. Len(list) :
        /\ w = WalkEnd(list, Below(e.key))
        /\ \A j \in 2 .. w : list[j].key \in Below(e.key)
        /\ w < Len(list) => list[w + 1].key \notin Below(e.key)
  BY WalkEndFacts
<1>2. Len(list) \in Nat
  BY LenProperties
<1>3. PICK pos \in 1 .. Len(list) + 1 : pos = w + 1
  BY <1>2
<1>4. ListPut(list, e) = InsertAt(list, pos, e)
  BY <1>1, <1>3 DEF ListPut
<1>5. InsertAt(list, pos, e) \in Seq(Entry)
  BY InsertAtFacts
<1>6. Len(InsertAt(list, pos, e)) = Len(list) + 1
  BY InsertAtFacts
<1>7. \A i \in 1 .. Len(list) + 1 :
        InsertAt(list, pos, e)[i] =
          IF i < pos THEN list[i] ELSE IF i = pos THEN e ELSE list[i - 1]
  BY InsertAtFacts
<1>8. \A i \in 1 .. Len(list) + 1 :
        ListPut(list, e)[i] =
          IF i <= w THEN list[i] ELSE IF i = w + 1 THEN e ELSE list[i - 1]
  BY <1>2, <1>3, <1>4, <1>7
<1> QED
  BY <1>1, <1>4, <1>5, <1>6, <1>8 DEF InsertedBehind

\* A node of the new list is the new one or one of the old, and none is lost.
LEMMA ListPutElements ==
  ASSUME NEW list \in Seq(Entry), NEW e \in Entry
  PROVE  /\ \A i \in 1 .. Len(ListPut(list, e)) :
              \/ ListPut(list, e)[i] = e
              \/ \E j \in 1 .. Len(list) : ListPut(list, e)[i] = list[j]
         /\ \E i \in 1 .. Len(ListPut(list, e)) : ListPut(list, e)[i] = e
         /\ \A j \in 1 .. Len(list) :
              \E i \in 1 .. Len(ListPut(list, e)) : ListPut(list, e)[i] = list[j]
         /\ ListPut(list, e) \in Seq(Entry)
         /\ Len(ListPut(list, e)) = Len(list) + 1
<1> DEFINE new == ListPut(list, e)
<1>1. Len(list) \in Nat
  BY EntryFields
<1>2. CASE list = << >>
  <2>1. new = << e >>
    BY <1>2 DEF ListPut
  <2> HIDE DEF new
  <2>2. new \in Seq(Entry) /\ Len(new) = 1 /\ new[1] = e
    BY <2>1
  <2>3. Len(list) = 0
    BY <1>2
  <2> QED
    BY <2>2, <2>3 DEF new
<1>3. CASE list # << >>
  <2> PICK w \in 1 .. Len(list) : InsertedBehind(list, e, w)
    BY <1>3, ListPutAt
  <2>1. /\ new \in Seq(Entry)
        /\ Len(new) = Len(list) + 1
        /\ \A i \in 1 .. Len(list) + 1 :
             new[i] = IF i <= w THEN list[i] ELSE IF i = w + 1 THEN e ELSE list[i - 1]
    BY DEF InsertedBehind
  <2> HIDE DEF new
  <2>2. \A i \in 1 .. Len(list) + 1 :
          \/ new[i] = e
          \/ \E j \in 1 .. Len(list) : new[i] = list[j]
    <3> SUFFICES ASSUME NEW i \in 1 .. Len(list) + 1, new[i] # e
                 PROVE  \E j \in 1 .. Len(list) : new[i] = list[j]
      OBVIOUS
    <3>1. CASE i <= w
      BY <3>1, <1>1, <2>1
    <3>2. CASE i > w + 1
      <4>1. i - 1 \in 1 .. Len(list) /\ new[i] = list[i - 1]
        BY <3>2, <1>1, <2>1
      <4> QED
        BY <4>1
    <3> QED
      BY <3>1, <3>2, <1>1, <2>1
  <2>3. new[w + 1] = e /\ w + 1 \in 1 .. Len(list) + 1
    BY <1>1, <2>1
  <2>4. \A j \in 1 .. Len(list) : \E i \in 1 .. Len(list) + 1 : new[i] = list[j]
    <3> SUFFICES ASSUME NEW j \in 1 .. Len(list)
                 PROVE  \E i \in 1 .. Len(list) + 1 : new[i] = list[j]
      OBVIOUS
    <3>1. CASE j <= w
      BY <3>1, <1>1, <2>1
    <3>2. CASE j > w
      <4>1. j + 1 \in 1 .. Len(list) + 1 /\ new[j + 1] = list[j]
        BY <3>2, <1>1, <2>1
      <4> QED
        BY <4>1
    <3> QED
      BY <3>1, <3>2, <1>1, <2>1
  <2> QED
    BY <2>1, <2>2, <2>3, <2>4 DEF new
<1> QED
  BY <1>2, <1>3

\* A put adds a node and its key, and nothing else changes.
LEMMA ListPutFacts ==
  ASSUME NEW list \in Seq(Entry), NEW e \in Entry
  PROVE  /\ ListPut(list, e) \in Seq(Entry)
         /\ Len(ListPut(list, e)) = Len(list) + 1
         /\ ListPut(list, e) # << >>
         /\ KeysOf(ListPut(list, e)) = KeysOf(list) \cup {e.key}
<1> DEFINE new == ListPut(list, e)
<1>1. Len(list) \in Nat /\ DOMAIN list = 1 .. Len(list)
  BY EntryFields
<1>2. /\ \A i \in 1 .. Len(new) : new[i] = e \/ \E j \in 1 .. Len(list) : new[i] = list[j]
      /\ \E i \in 1 .. Len(new) : new[i] = e
      /\ \A j \in 1 .. Len(list) : \E i \in 1 .. Len(new) : new[i] = list[j]
      /\ new \in Seq(Entry)
      /\ Len(new) = Len(list) + 1
  BY ListPutElements
<1> HIDE DEF new
<1>3. DOMAIN new = 1 .. Len(new)
  BY <1>2, EntryFields
<1>4. KeysOf(list) = {list[j].key : j \in 1 .. Len(list)}
  BY <1>1 DEF KeysOf
<1>5. KeysOf(new) = {new[i].key : i \in 1 .. Len(new)}
  BY <1>3 DEF KeysOf
<1>6. e.key \in KeysOf(new)
  BY <1>2, <1>5
<1>7. KeysOf(list) \subseteq KeysOf(new)
  BY <1>2, <1>4, <1>5
<1>8. KeysOf(new) \subseteq KeysOf(list) \cup {e.key}
  BY <1>2, <1>4, <1>5
<1>9. new # << >>
  BY <1>1, <1>2, EmptySeq
<1> QED
  BY <1>2, <1>6, <1>7, <1>8, <1>9 DEF new

\* A newer entry than all there are keeps the tail in order.
LEMMA ListPutKeepsTailSorted ==
  ASSUME NEW list \in Seq(Entry), NEW e \in Entry, SortedTail(list),
         \A i \in 1 .. Len(list) : list[i].ts < e.ts
  PROVE  SortedTail(ListPut(list, e))
<1> DEFINE new == ListPut(list, e)
<1>1. Len(list) \in Nat /\ e.key \in Int /\ e.ts \in Nat /\ e.key \in Keys
      /\ \A i \in 1 .. Len(list) : list[i].key \in Keys /\ list[i].key \in Int /\ list[i].ts \in Nat
  <2>1. e.key \in Keys /\ e.key \in Int /\ e.ts \in Nat
    BY KeysAssumption DEF Entry
  <2> QED
    BY <2>1, EntryFields
<1>2. CASE list = << >>
  BY <1>2 DEF ListPut, SortedTail
<1>3. CASE list # << >>
  <2> PICK w \in 1 .. Len(list) : InsertedBehind(list, e, w)
    BY <1>3, ListPutAt
  <2>1. /\ \A j \in 2 .. w : list[j].key \in Below(e.key)
        /\ w < Len(list) => list[w + 1].key \notin Below(e.key)
        /\ Len(new) = Len(list) + 1
        /\ \A i \in 1 .. Len(list) + 1 :
             new[i] = IF i <= w THEN list[i] ELSE IF i = w + 1 THEN e ELSE list[i - 1]
    BY DEF InsertedBehind
  <2> HIDE DEF new
  <2>2. \A j \in 2 .. w : list[j].key < e.key
    BY <2>1 DEF Below
  <2>3. \A j \in w + 1 .. Len(list) : e.key <= list[j].key
    <3> SUFFICES ASSUME NEW j \in w + 1 .. Len(list)
                 PROVE  e.key <= list[j].key
      OBVIOUS
    <3>1. w < Len(list) /\ w + 1 \in 2 .. Len(list) /\ j \in 2 .. Len(list)
      BY <1>1, <2>1
    <3>2. e.key <= list[w + 1].key
      BY <3>1, <1>1, <2>1 DEF Below
    <3>3. CASE j = w + 1
      BY <3>2, <3>3
    <3>4. CASE w + 1 < j
      <4>1. list[w + 1].key < list[j].key \/ list[w + 1].key = list[j].key
        BY <3>1, <3>4, SortedPair
      <4>2. list[w + 1].key \in Int /\ list[j].key \in Int
        BY <3>1, <1>1
      <4> QED
        BY <3>2, <4>1, <4>2, <1>1
    <3> QED
      BY <3>1, <3>3, <3>4, <1>1
  <2> SUFFICES ASSUME NEW i \in 2 .. Len(list) + 1, NEW j \in 2 .. Len(list) + 1, i < j
               PROVE  \/ new[i].key < new[j].key
                      \/ new[i].key = new[j].key /\ new[i].ts > new[j].ts
    BY <2>1 DEF SortedTail, new
  <2>6. CASE j <= w
    <3>1. j \in 2 .. Len(list) /\ i \in 2 .. Len(list)
          /\ new[j] = list[j] /\ new[i] = list[i]
      BY <2>6, <1>1, <2>1
    <3> QED
      BY <3>1, SortedPair
  <2>7. CASE j = w + 1
    <3>1. new[j] = e /\ new[i] = list[i] /\ i \in 2 .. w
      BY <2>7, <1>1, <2>1
    <3> QED
      BY <3>1, <2>2
  <2>8. CASE j > w + 1 /\ i = w + 1
    <3>1. j - 1 \in w + 1 .. Len(list) /\ j - 1 \in 1 .. Len(list)
          /\ new[j] = list[j - 1] /\ new[i] = e
      BY <2>8, <1>1, <2>1
    <3> QED
      BY <3>1, <1>1, <2>3
  <2>9. CASE j > w + 1 /\ i < w + 1
    <3>1. j - 1 \in 2 .. Len(list) /\ i \in 2 .. Len(list) /\ i < j - 1
          /\ new[j] = list[j - 1] /\ new[i] = list[i]
      BY <2>9, <1>1, <2>1
    <3> QED
      BY <3>1, SortedPair
  <2>10. CASE i > w + 1
    <3>1. j - 1 \in 2 .. Len(list) /\ i - 1 \in 2 .. Len(list) /\ i - 1 < j - 1
          /\ new[j] = list[j - 1] /\ new[i] = list[i - 1]
      BY <2>10, <1>1, <2>1
    <3> QED
      BY <3>1, SortedPair
  <2> QED
    BY <2>6, <2>7, <2>8, <2>9, <2>10, <1>1, <2>1
<1> QED
  BY <1>2, <1>3

\* Where SkipList.get stands when it looks at the key.
LEMMA FindPosFacts ==
  ASSUME NEW list \in Seq(Entry), list # << >>, NEW k \in Keys
  PROVE  /\ FindPos(list, k) \in 1 .. Len(list)
         /\ \A j \in 2 .. FindPos(list, k) : list[j].key <= k
         /\ \A j \in FindPos(list, k) + 1 .. Len(list) : SortedTail(list) => list[j].key > k
<1> DEFINE p == FindPos(list, k)
<1>1. /\ p \in 1 .. Len(list)
      /\ \A j \in 2 .. p : list[j].key \in UpTo(k)
      /\ p < Len(list) => list[p + 1].key \notin UpTo(k)
  BY WalkEndFacts DEF FindPos
<1> HIDE DEF p
<1>2. \A j \in 2 .. p : list[j].key <= k
  BY <1>1 DEF UpTo
<1>3. ASSUME NEW j \in p + 1 .. Len(list), SortedTail(list)
      PROVE  list[j].key > k
  <2>1. /\ Len(list) \in Nat /\ p < Len(list)
        /\ p + 1 \in 2 .. Len(list) /\ j \in 2 .. Len(list)
    BY <1>1, EntryFields
  <2>2. list[p + 1].key \in Keys /\ list[p + 1].key \in Int /\ list[j].key \in Int /\ k \in Int
    BY <2>1, EntryFields, KeysAssumption
  <2>3. list[p + 1].key > k
    BY <1>1, <2>1, <2>2 DEF UpTo
  <2>4. CASE j = p + 1
    BY <2>3, <2>4
  <2>5. CASE p + 1 < j
    <3>1. list[p + 1].key < list[j].key \/ list[p + 1].key = list[j].key
      BY <1>3, <2>1, <2>5, SortedPair
    <3> QED
      BY <2>2, <2>3, <3>1
  <2> QED
    BY <1>1, <2>1, <2>4, <2>5
<1> QED
  BY <1>1, <1>2, <1>3 DEF p

\* Of a sorted list, a lookup that finds a key finds the last node with it,
\* which is the one SSTable.create leaves in the index.
LEMMA ImageOfFound ==
  ASSUME NEW list \in Seq(Entry), SortedTail(list), NEW k \in Keys, Found(list, k)
  PROVE  k \in DOMAIN Image(list) /\ Image(list)[k] = Lookup(list, k)
<1> DEFINE p == FindPos(list, k)
<1>1. list # << >> /\ list[p].key = k
  BY DEF Found
<1>2. Len(list) \in Nat /\ DOMAIN list = 1 .. Len(list)
      /\ \A i \in 1 .. Len(list) : list[i].key \in Int
  BY EntryFields
<1>3. p \in 1 .. Len(list) /\ \A j \in p + 1 .. Len(list) : list[j].key > k
  BY <1>1, FindPosFacts
<1> HIDE DEF p
<1>4. k \in Int
  BY KeysAssumption
<1>5. \A j \in 1 .. Len(list) : list[j].key = k => j <= p
  <2> SUFFICES ASSUME NEW j \in 1 .. Len(list), list[j].key = k, p < j
               PROVE  FALSE
    BY <1>2, <1>3
  <2>1. j \in p + 1 .. Len(list)
    BY <1>2, <1>3
  <2> QED
    BY <2>1, <1>3, <1>4
<1>6. \A i \in 1 .. Len(list) :
        list[i].key = k /\ (\A j \in 1 .. Len(list) : list[j].key = k => j <= i) => i = p
  BY <1>1, <1>2, <1>3, <1>5
<1>7. LastAt(list, k) = p
  BY <1>1, <1>2, <1>3, <1>5, <1>6 DEF LastAt
<1>8. k \in KeysOf(list)
  BY <1>1, <1>2, <1>3 DEF KeysOf
<1> QED
  BY <1>7, <1>8 DEF Image, Lookup, p

\* A key of a sorted list that a lookup misses is the first node's alone, and
\* a smaller one stands behind it.
LEMMA HiddenIsFirst ==
  ASSUME NEW list \in Seq(Entry), SortedTail(list), NEW k \in KeysOf(list), ~ Found(list, k)
  PROVE  /\ list[1].key = k
         /\ \E j \in 2 .. Len(list) : list[j].key < k
         /\ \A j \in 2 .. Len(list) : list[j].key # k
<1> DEFINE p == FindPos(list, k)
<1>1. Len(list) \in Nat /\ DOMAIN list = 1 .. Len(list)
      /\ \A i \in 1 .. Len(list) : list[i].key \in Int /\ list[i].key \in Keys
  BY EntryFields
<1>2. PICK m \in 1 .. Len(list) : list[m].key = k
  BY <1>1 DEF KeysOf
<1>3. k \in Keys /\ k \in Int /\ list # << >>
  BY <1>1, <1>2, EmptySeq
<1>4. list[p].key # k
  BY <1>3 DEF Found
<1>5. /\ p \in 1 .. Len(list)
      /\ \A j \in 2 .. p : list[j].key <= k
      /\ \A j \in p + 1 .. Len(list) : list[j].key > k
  BY <1>3, FindPosFacts
<1> HIDE DEF p
<1>6. ASSUME NEW j \in 2 .. Len(list), list[j].key = k
      PROVE  FALSE
  <2>1. j <= p
    <3> SUFFICES ASSUME p < j
                 PROVE  FALSE
      BY <1>1, <1>5
    <3>1. j \in p + 1 .. Len(list)
      BY <1>1, <1>5
    <3> QED
      BY <3>1, <1>3, <1>5, <1>6
  <2>2. j < p /\ p \in 2 .. Len(list)
    BY <2>1, <1>1, <1>4, <1>5, <1>6
  <2>3. list[j].key < list[p].key \/ list[j].key = list[p].key
    BY <2>2, SortedPair
  <2>4. list[p].key <= k
    BY <2>2, <1>1, <1>5
  <2>5. list[p].key \in Int
    BY <1>1, <1>5
  <2> QED
    BY <2>3, <2>4, <2>5, <1>3, <1>4, <1>6
<1>7. m = 1
  BY <1>1, <1>2, <1>6
<1>8. p \in 2 .. Len(list) /\ list[p].key < k
  <2>1. p \in 2 .. Len(list)
    BY <1>1, <1>2, <1>4, <1>5, <1>7
  <2>2. list[p].key <= k /\ list[p].key \in Int
    BY <2>1, <1>1, <1>5
  <2> QED
    BY <2>1, <2>2, <1>3, <1>4
<1> QED
  BY <1>2, <1>6, <1>7, <1>8

\* The size that goes up and down is an integer, of which no more can be said.
LEMMA MemPutBytes ==
  ASSUME NEW m, m.list \in Seq(Entry), m.bytes \in Int, NEW e \in Entry
  PROVE  MemPut(m, e).bytes \in Int
<1>1. \A x \in Entry : EntrySize(x) \in Nat
  BY LengthAssumption DEF Entry, EntrySize
<1>2. e.key \in Keys
  BY DEF Entry
<1>3. ASSUME Found(m.list, e.key)
      PROVE  Lookup(m.list, e.key) \in Entry
  <2>1. m.list # << >>
    BY <1>3 DEF Found
  <2>2. FindPos(m.list, e.key) \in 1 .. Len(m.list)
    BY <1>2, <2>1, FindPosFacts
  <2> QED
    BY <2>2, ElementOfSeq DEF Lookup
<1> QED
  BY <1>1, <1>3 DEF MemPut

\* The running totals SizeOf goes through.
IsTotal(list, f) ==
  /\ f \in [0 .. Len(list) -> Nat]
  /\ f[0] = 0
  /\ \A n \in 1 .. Len(list) : f[n] = f[n - 1] + EntrySize(list[n])

\* The recursion of SizeOf has a solution: were there a first n up to which it
\* has none, the one up to n - 1 could be continued.
LEMMA SizeOfFacts ==
  ASSUME NEW list \in Seq(Entry)
  PROVE  \E f : IsTotal(list, f) /\ SizeOf(list) = f[Len(list)]
<1> DEFINE N == Len(list)
           Step(f, n) == \A m \in 1 .. n : f[m] = f[m - 1] + EntrySize(list[m])
           NoTotal == {n \in 0 .. N : \A f \in [0 .. n -> Nat] : f[0] = 0 => ~ Step(f, n)}
<1>1. N \in Nat /\ \A n \in 1 .. N : EntrySize(list[n]) \in Nat
  <2>1. N \in Nat
    BY EntryFields
  <2>2. \A x \in Entry : EntrySize(x) \in Nat
    BY LengthAssumption DEF Entry, EntrySize
  <2> QED
    BY <2>1, <2>2, ElementOfSeq
<1> HIDE DEF N
<1>2. NoTotal = {}
  <2> SUFFICES ASSUME NoTotal # {}
               PROVE  FALSE
    OBVIOUS
  <2>1. NoTotal \subseteq Nat
    BY <1>1
  <2> HIDE DEF NoTotal
  <2>2. PICK n \in NoTotal : \A l \in NoTotal : ~ << l, n >> \in OpToRel(<, Nat)
    BY <2>1, NatLessThanWellFounded, WFMin
  <2>3. \A l \in NoTotal : ~ l < n
    BY <2>1, <2>2 DEF OpToRel
  <2>4. n \in 0 .. N /\ \A f \in [0 .. n -> Nat] : f[0] = 0 => ~ Step(f, n)
    BY DEF NoTotal
  <2>5. n # 0
    <3> SUFFICES ASSUME n = 0
                 PROVE  FALSE
      OBVIOUS
    <3> DEFINE f == [m \in 0 .. 0 |-> 0]
    <3>1. f \in [0 .. n -> Nat] /\ f[0] = 0 /\ Step(f, n)
      OBVIOUS
    <3> QED
      BY <3>1, <2>4
  <2>6. n - 1 \in 0 .. N /\ n - 1 < n /\ n - 1 \notin NoTotal
    BY <1>1, <2>3, <2>4, <2>5
  <2>7. PICK f \in [0 .. n - 1 -> Nat] : f[0] = 0 /\ Step(f, n - 1)
    BY <2>6 DEF NoTotal
  <2> DEFINE g == [m \in 0 .. n |-> IF m = n THEN f[n - 1] + EntrySize(list[n]) ELSE f[m]]
  <2>8. g \in [0 .. n -> Nat] /\ g[0] = 0
    BY <1>1, <2>4, <2>5, <2>7
  <2>9. Step(g, n)
    <3> SUFFICES ASSUME NEW m \in 1 .. n
                 PROVE  g[m] = g[m - 1] + EntrySize(list[m])
      OBVIOUS
    <3>1. CASE m = n
      BY <3>1, <2>4, <2>5
    <3>2. CASE m < n
      BY <3>2, <2>4, <2>5, <2>7
    <3> QED
      BY <3>1, <3>2, <2>4
  <2> QED
    BY <2>4, <2>8, <2>9
<1>3. PICK f \in [0 .. N -> Nat] : f[0] = 0 /\ Step(f, N)
  <2> HIDE DEF Step, NoTotal
  <2>1. N \in 0 .. N
    BY <1>1
  <2>2. N \notin NoTotal
    BY <1>2
  <2> QED
    BY <2>1, <2>2 DEF NoTotal
<1> DEFINE Body(g) == [n \in 0 .. N |-> IF n = 0 THEN 0 ELSE g[n - 1] + EntrySize(list[n])]
           total == CHOOSE g : g = Body(g)
<1>4. f = Body(f)
  <2>1. \A n \in 0 .. N : f[n] = Body(f)[n]
    BY <1>1, <1>3
  <2> QED
    BY <2>1
<1>5. total = Body(total)
  BY <1>4
<1>6. SizeOf(list) = total[N]
  BY DEF SizeOf, N
<1> HIDE DEF total
<1>7. \A n \in 0 .. N : total[n] = IF n = 0 THEN 0 ELSE total[n - 1] + EntrySize(list[n])
  BY <1>5
<1>8. total = f
  <2> DEFINE Other == {n \in 0 .. N : total[n] # f[n]}
  <2>1. Other = {}
    <3> SUFFICES ASSUME Other # {}
                 PROVE  FALSE
      OBVIOUS
    <3>1. Other \subseteq Nat
      BY <1>1
    <3> HIDE DEF Other
    <3>2. PICK n \in Other : \A l \in Other : ~ << l, n >> \in OpToRel(<, Nat)
      BY <3>1, NatLessThanWellFounded, WFMin
    <3>3. \A l \in Other : ~ l < n
      BY <3>1, <3>2 DEF OpToRel
    <3>4. n \in 0 .. N /\ total[n] # f[n]
      BY DEF Other
    <3>5. n # 0 /\ n - 1 \in 0 .. N /\ n - 1 < n
      BY <1>1, <1>3, <1>7, <3>4
    <3>6. total[n - 1] = f[n - 1]
      BY <3>3, <3>5 DEF Other
    <3>7. n \in 1 .. N
      BY <1>1, <3>4, <3>5
    <3> QED
      BY <1>1, <1>3, <1>7, <3>4, <3>5, <3>6, <3>7
  <2>2. \A n \in 0 .. N : total[n] = f[n]
    BY <2>1
  <2>3. total = [n \in 0 .. N |-> total[n]]
    BY <1>5
  <2> QED
    BY <2>2, <2>3
<1> QED
  BY <1>3, <1>6, <1>8 DEF IsTotal, N

LEMMA SizeOfEmpty == SizeOf(<< >>) = 0
<1>1. << >> \in Seq(Entry) /\ Len(<< >>) = 0
  OBVIOUS
<1>2. PICK f : IsTotal(<< >>, f) /\ SizeOf(<< >>) = f[Len(<< >>)]
  BY <1>1, SizeOfFacts
<1> QED
  BY <1>1, <1>2 DEF IsTotal

\* A put adds the size of its entry, wherever it goes: up to there the running
\* totals stay, behind it each is moved by one and larger by that size.
LEMMA SizeOfPut ==
  ASSUME NEW list \in Seq(Entry), NEW e \in Entry
  PROVE  SizeOf(ListPut(list, e)) = SizeOf(list) + EntrySize(e)
<1> DEFINE new == ListPut(list, e)
           N == Len(list)
<1>1. N \in Nat /\ EntrySize(e) \in Nat /\ new \in Seq(Entry) /\ Len(new) = N + 1
  <2>1. EntrySize(e) \in Nat
    BY LengthAssumption DEF Entry, EntrySize
  <2> QED
    BY <2>1, EntryFields, ListPutFacts
<1>2. PICK f : IsTotal(list, f) /\ SizeOf(list) = f[N]
  BY SizeOfFacts
<1> HIDE DEF new
<1>3. PICK g : IsTotal(new, g) /\ SizeOf(new) = g[N + 1]
  BY <1>1, SizeOfFacts
<1>4. /\ f[0] = 0 /\ g[0] = 0
      /\ \A n \in 0 .. N : f[n] \in Nat
      /\ \A n \in 1 .. N : f[n] = f[n - 1] + EntrySize(list[n])
      /\ \A n \in 1 .. N + 1 : g[n] = g[n - 1] + EntrySize(new[n])
  BY <1>1, <1>2, <1>3 DEF IsTotal
<1>5. CASE list = << >>
  <2>1. new = << e >> /\ N = 0
    BY <1>5 DEF ListPut, new
  <2>2. g[1] = g[0] + EntrySize(new[1])
    BY <1>4, <2>1
  <2> QED
    BY <1>1, <1>2, <1>3, <1>4, <2>1, <2>2 DEF new
<1>6. CASE list # << >>
  <2> PICK w \in 1 .. N : InsertedBehind(list, e, w)
    BY <1>6, ListPutAt
  <2>1. \A i \in 1 .. N + 1 :
          new[i] = IF i <= w THEN list[i] ELSE IF i = w + 1 THEN e ELSE list[i - 1]
    BY DEF InsertedBehind, new
  <2> HIDE DEF N
  <2> DEFINE Moved(n) == IF n <= w THEN f[n] ELSE f[n - 1] + EntrySize(e)
             Wrong == {n \in 0 .. N + 1 : g[n] # Moved(n)}
  <2>2. Wrong = {}
    <3> SUFFICES ASSUME Wrong # {}
                 PROVE  FALSE
      OBVIOUS
    <3>1. Wrong \subseteq Nat
      BY <1>1
    <3> HIDE DEF Wrong
    <3>2. PICK n \in Wrong : \A l \in Wrong : ~ << l, n >> \in OpToRel(<, Nat)
      BY <3>1, NatLessThanWellFounded, WFMin
    <3>3. \A l \in Wrong : ~ l < n
      BY <3>1, <3>2 DEF OpToRel
    <3>4. n \in 0 .. N + 1 /\ g[n] # Moved(n)
      BY DEF Wrong
    <3>5. n # 0
      BY <1>1, <1>4, <3>4
    <3>6. n \in 1 .. N + 1 /\ n - 1 \in 0 .. N + 1 /\ n - 1 < n
      BY <1>1, <3>4, <3>5
    <3>7. g[n - 1] = Moved(n - 1)
      BY <3>3, <3>6 DEF Wrong
    <3>8. g[n] = Moved(n - 1) + EntrySize(new[n])
      BY <1>4, <3>6, <3>7
    <3>9. CASE n <= w
      <4>1. new[n] = list[n] /\ n \in 1 .. N /\ n - 1 <= w
        BY <1>1, <2>1, <3>6, <3>9
      <4> QED
        BY <1>4, <3>4, <3>8, <3>9, <4>1
    <3>10. CASE n = w + 1
      <4>1. new[n] = e /\ n - 1 <= w /\ ~ n <= w
        BY <1>1, <2>1, <3>6, <3>10
      <4> QED
        BY <1>4, <3>4, <3>8, <4>1
    <3>11. CASE n > w + 1
      <4>1. new[n] = list[n - 1] /\ ~ n <= w /\ ~ n - 1 <= w /\ n - 1 \in 1 .. N
        BY <1>1, <2>1, <3>6, <3>11
      <4>2. f[n - 1] = f[n - 2] + EntrySize(list[n - 1]) /\ f[n - 2] \in Nat /\ f[n - 1] \in Nat
        <5>1. n - 2 \in 0 .. N /\ (n - 1) - 1 = n - 2
          BY <1>1, <3>6, <4>1
        <5> QED
          BY <1>4, <4>1, <5>1
      <4>3. g[n] = f[n - 2] + EntrySize(e) + EntrySize(list[n - 1])
        <5>1. n \in Int /\ (n - 1) - 1 = n - 2
          BY <1>1, <3>6
        <5>2. g[n] = (f[n - 2] + EntrySize(e)) + EntrySize(new[n])
          BY <3>8, <4>1, <5>1
        <5> QED
          BY <4>1, <5>2
      <4>4. EntrySize(list[n - 1]) \in Nat
        <5>1. list[n - 1] \in Entry
          BY <4>1, ElementOfSeq DEF N
        <5> QED
          BY <5>1, LengthAssumption DEF Entry, EntrySize
      <4> QED
        BY <1>1, <3>4, <4>1, <4>2, <4>3, <4>4
    <3> QED
      BY <1>1, <3>6, <3>9, <3>10, <3>11
  <2>3. N + 1 \in 0 .. N + 1 /\ ~ N + 1 <= w
    BY <1>1
  <2>4. g[N + 1] = f[N] + EntrySize(e)
    BY <1>1, <2>2, <2>3
  <2> QED
    BY <1>2, <1>3, <2>4 DEF N, new
<1> QED
  BY <1>5, <1>6

\* A put counts its entry in full and takes off no less than nothing, so the
\* size kept never overtakes the size held.
LEMMA MemPutCountsNoMore ==
  ASSUME NEW m, m.list \in Seq(Entry), m.bytes \in Int, NEW e \in Entry,
         m.bytes <= SizeOf(m.list)
  PROVE  MemPut(m, e).bytes <= SizeOf(MemPut(m, e).list)
<1>1. \A x \in Entry : EntrySize(x) \in Nat
  BY LengthAssumption DEF Entry, EntrySize
<1>2. e.key \in Keys
  BY DEF Entry
<1> DEFINE off == IF Found(m.list, e.key) THEN EntrySize(Lookup(m.list, e.key)) ELSE 0
<1>3. off \in Nat
  <2> SUFFICES ASSUME Found(m.list, e.key)
               PROVE  Lookup(m.list, e.key) \in Entry
    BY <1>1
  <2>1. FindPos(m.list, e.key) \in 1 .. Len(m.list)
    BY <1>2, FindPosFacts DEF Found
  <2> QED
    BY <2>1, ElementOfSeq DEF Lookup
<1>4. MemPut(m, e).list = ListPut(m.list, e) /\ MemPut(m, e).bytes = m.bytes + EntrySize(e) - off
  BY DEF MemPut
<1> HIDE DEF off
<1>5. SizeOf(ListPut(m.list, e)) = SizeOf(m.list) + EntrySize(e)
  BY SizeOfPut
<1>6. SizeOf(m.list) \in Nat
  <2>1. PICK f : IsTotal(m.list, f) /\ SizeOf(m.list) = f[Len(m.list)]
    BY SizeOfFacts
  <2> QED
    BY <2>1, EntryFields DEF IsTotal
<1> QED
  BY <1>1, <1>3, <1>4, <1>5, <1>6

----------------------------------------------------------------------------
\* What an SSTable may serve.
Images == UNION {[K -> Entry] : K \in SUBSET Keys}

LEMMA ImageFields ==
  ASSUME NEW f \in Images
  PROVE  DOMAIN f \subseteq Keys /\ \A k \in DOMAIN f : f[k] \in Entry
BY DEF Images

LEMMA ListPutEntries ==
  ASSUME NEW list \in Seq(Entry), NEW e \in Entry
  PROVE  ToSet(ListPut(list, e)) = ToSet(list) \cup {e}
<1> DEFINE new == ListPut(list, e)
<1>1. /\ \A i \in 1 .. Len(new) : new[i] = e \/ \E j \in 1 .. Len(list) : new[i] = list[j]
      /\ \E i \in 1 .. Len(new) : new[i] = e
      /\ \A j \in 1 .. Len(list) : \E i \in 1 .. Len(new) : new[i] = list[j]
      /\ new \in Seq(Entry)
  BY ListPutElements
<1> HIDE DEF new
<1>2. DOMAIN new = 1 .. Len(new) /\ DOMAIN list = 1 .. Len(list)
  BY <1>1, EntryFields
<1>3. ToSet(list) = {list[j] : j \in 1 .. Len(list)}
  BY <1>2 DEF ToSet
<1>4. ToSet(new) = {new[i] : i \in 1 .. Len(new)}
  BY <1>2 DEF ToSet
<1>5. ToSet(new) \subseteq ToSet(list) \cup {e}
  BY <1>1, <1>3, <1>4
<1>6. ToSet(list) \cup {e} \subseteq ToSet(new)
  BY <1>1, <1>3, <1>4
<1> QED
  BY <1>5, <1>6 DEF new

\* What a lookup answers with is an entry of the list, put under its key.
LEMMA LookupFacts ==
  ASSUME NEW list \in Seq(Entry), NEW k \in Keys, Found(list, k)
  PROVE  Lookup(list, k) \in ToSet(list) /\ Lookup(list, k).key = k
<1>1. list # << >> /\ list[FindPos(list, k)].key = k
  BY DEF Found
<1>2. FindPos(list, k) \in 1 .. Len(list) /\ DOMAIN list = 1 .. Len(list)
  BY <1>1, FindPosFacts, EntryFields
<1> QED
  BY <1>1, <1>2 DEF Lookup, ToSet

\* The index of a list has a last record of each of its keys.
LEMMA LastAtFacts ==
  ASSUME NEW list \in Seq(Entry), NEW k \in KeysOf(list)
  PROVE  LastAt(list, k) \in DOMAIN list /\ list[LastAt(list, k)].key = k
<1> DEFINE Behind == {n \in Nat : \E i \in 1 .. Len(list) : list[i].key = k /\ n = Len(list) - i}
<1>1. Len(list) \in Nat /\ DOMAIN list = 1 .. Len(list)
  BY EntryFields
<1>2. PICK m \in 1 .. Len(list) : list[m].key = k
  BY <1>1 DEF KeysOf
<1>3. Behind \subseteq Nat /\ Len(list) - m \in Behind
  BY <1>1, <1>2
<1>4. PICK n \in Behind : \A l \in Behind : ~ << l, n >> \in OpToRel(<, Nat)
  BY <1>3, NatLessThanWellFounded, WFMin
<1>5. \A l \in Behind : ~ l < n
  BY <1>3, <1>4 DEF OpToRel
<1>6. PICK i \in 1 .. Len(list) : list[i].key = k /\ n = Len(list) - i
  BY <1>4
<1>7. ASSUME NEW j \in 1 .. Len(list), list[j].key = k
      PROVE  j <= i
  <2> HIDE DEF Behind
  <2>0. Len(list) \in Nat
    BY <1>1
  <2>1. j \in Nat /\ i \in Nat /\ Len(list) - j \in Nat
    BY <2>0
  <2>2. Len(list) - j \in Behind
    BY <2>1, <1>7 DEF Behind
  <2>3. ~ (Len(list) - j < Len(list) - i)
    BY <2>2, <1>5, <1>6
  <2> QED
    BY <2>0, <2>1, <2>3
<1> QED
  BY <1>1, <1>6, <1>7 DEF LastAt

\* A table serves exactly the keys of its list, each with an entry put under it.
LEMMA ImageFacts ==
  ASSUME NEW list \in Seq(Entry)
  PROVE  /\ Image(list) \in Images /\ DOMAIN Image(list) = KeysOf(list)
         /\ \A k \in KeysOf(list) : Image(list)[k] \in ToSet(list) /\ Image(list)[k].key = k
<1>1. DOMAIN Image(list) = KeysOf(list) /\ \A k \in KeysOf(list) : Image(list)[k] = list[LastAt(list, k)]
  BY DEF Image
<1>2. \A k \in KeysOf(list) : Image(list)[k] \in ToSet(list) /\ Image(list)[k].key = k
  BY <1>1, LastAtFacts DEF ToSet
<1>3. ToSet(list) \subseteq Entry /\ KeysOf(list) \subseteq Keys
  BY EntryFields, ElementOfSeq DEF ToSet, KeysOf
<1>4. Image(list) \in [KeysOf(list) -> Entry]
  BY <1>2, <1>3 DEF Image
<1> QED
  BY <1>1, <1>2, <1>3, <1>4 DEF Images

\* Two tables without deleted entries: every key of both is served, with an
\* entry of one of them.
LEMMA MergeFacts ==
  ASSUME NEW f \in Images, NEW g \in Images,
         \A k \in DOMAIN f : ~ f[k].deleted, \A k \in DOMAIN g : ~ g[k].deleted
  PROVE  /\ Merge(f, g) \in Images /\ DOMAIN Merge(f, g) = DOMAIN f \cup DOMAIN g
         /\ \A k \in DOMAIN Merge(f, g) :
              \/ k \in DOMAIN f /\ Merge(f, g)[k] = f[k]
              \/ k \in DOMAIN g /\ Merge(f, g)[k] = g[k]
<1> DEFINE Alive == {x \in DOMAIN f \cup DOMAIN g : ImageHas(f, x) \/ ImageHas(g, x)}
<1>1. Alive = DOMAIN f \cup DOMAIN g
  BY DEF ImageHas
<1>2. Merge(f, g) = [k \in Alive |-> IF ImageHas(g, k) THEN g[k] ELSE f[k]]
  BY DEF Merge
<1> HIDE DEF Alive
<1>3. DOMAIN Merge(f, g) = DOMAIN f \cup DOMAIN g
  BY <1>1, <1>2
<1>4. ASSUME NEW k \in DOMAIN Merge(f, g)
      PROVE  \/ k \in DOMAIN f /\ Merge(f, g)[k] = f[k]
             \/ k \in DOMAIN g /\ Merge(f, g)[k] = g[k]
  BY <1>1, <1>2, <1>3, <1>4 DEF ImageHas
<1>5. DOMAIN f \cup DOMAIN g \subseteq Keys
  BY ImageFields
<1>6. \A k \in DOMAIN Merge(f, g) : Merge(f, g)[k] \in Entry
  BY <1>4, ImageFields
<1>7. Merge(f, g) \in [DOMAIN f \cup DOMAIN g -> Entry]
  BY <1>1, <1>2, <1>3, <1>6
<1> QED
  BY <1>3, <1>4, <1>5, <1>7 DEF Images
===============================================================================
