------------------------------- MODULE SkipList -------------------------------
(***************************************************************************)
(* class SkipList with its nodes, head pointers and forward pointers, and  *)
(* the walks put and get really make, level by level.                      *)
(*                                                                         *)
(* _random_level hashes the strings "1", "2", ...: the outcome depends on  *)
(* the hash seed of the process and is the same at every call, so all      *)
(* nodes of a process have the same level, any of 1 .. MAX_LEVEL.          *)
(***************************************************************************)
EXTENDS StorageOps

CONSTANTS
  MAX_LEVEL,
  MaxPuts      \* bound of the model: nodes ever inserted

ASSUME LevelAssumption == MAX_LEVEL \in Nat \ {0}

Nil == 0       \* the pointer None; node n is nodes[n]

VARIABLES
  level,       \* what _random_level returns in this process
  heads,       \* _heads: the first node of each level
  nodes,       \* the nodes in the order they were made: [entry, forward]
  size         \* _size

vars == << level, heads, nodes, size >>

Init ==
  /\ level \in 1 .. MAX_LEVEL
  /\ heads = [i \in 1 .. MAX_LEVEL |-> Nil]
  /\ nodes = << >>
  /\ size = 0

\* The last node reached from node c on level i while the next key is in Pass.
Walk(i, c, Pass) ==
  LET walk[n \in 1 .. Len(nodes)] ==
        LET next == nodes[n].forward[i]
        IN  IF next # Nil /\ nodes[next].entry.key \in Pass THEN walk[next] ELSE n
  IN  IF c = Nil \/ i > Len(nodes[c].forward) THEN c ELSE walk[c]

\* descend[i]: where the walk stands when it is done with level i.
Descent(top, Pass) ==
  LET descend[i \in 1 .. top + 1] ==
        IF i = top + 1 THEN heads[1] ELSE Walk(i, descend[i + 1], Pass)
  IN  descend

\* Mutant: a put goes behind the entries with its key.
PrevAfterEqual(k) == Descent(level, UpTo(k))

\* The node to link the new one behind, on each level.
Prev(k) == Descent(level, Below(k))

\* Mutant: a node always has MAX_LEVEL pointers.
ForwardAllLevels(prev) ==
  [i \in 1 .. MAX_LEVEL |->
     IF i > level \/ prev[i] = Nil THEN Nil ELSE nodes[prev[i]].forward[i]]

\* The pointers of the new node.
Forward(prev) == [i \in 1 .. level |-> IF prev[i] = Nil THEN Nil ELSE nodes[prev[i]].forward[i]]

\* Mutant: only level 1 is linked to the new node.
LinkedBottom(prev, new) ==
  [n \in DOMAIN nodes |->
     [nodes[n] EXCEPT !.forward = [i \in DOMAIN @ |-> IF i = 1 /\ prev[i] = n THEN new ELSE @[i]]]]

\* The old nodes, linked to the new one.
Linked(prev, new) ==
  [n \in DOMAIN nodes |->
     [nodes[n] EXCEPT !.forward = [i \in DOMAIN @ |-> IF prev[i] = n THEN new ELSE @[i]]]]

Put(k, v) ==
  LET new  == Len(nodes) + 1
      prev == Prev(k)
  IN  /\ Len(nodes) < MaxPuts
      /\ nodes' = Append(Linked(prev, new),
                         [entry   |-> [key |-> k, val |-> v, ts |-> new, deleted |-> FALSE],
                          forward |-> Forward(prev)])
      /\ heads' = [i \in 1 .. MAX_LEVEL |->
                     IF i <= level /\ prev[i] = Nil THEN new ELSE heads[i]]
      /\ size' = size + 1
      /\ UNCHANGED level

\* Mutant: get stops in front of the key.
GetStrict(k) ==
  LET n == Descent(MAX_LEVEL, Below(k))[1]
  IN  IF n # Nil /\ nodes[n].entry.key = k THEN n ELSE Nil

\* get: the node it answers from, or Nil.
Get(k) ==
  LET n == Descent(MAX_LEVEL, UpTo(k))[1]
  IN  IF n # Nil /\ nodes[n].entry.key = k THEN n ELSE Nil

Delete(k) ==
  /\ Get(k) # Nil
  /\ nodes' = [nodes EXCEPT ![Get(k)].entry.deleted = TRUE]
  /\ UNCHANGED << level, heads, size >>

Next ==
  \/ \E k \in Keys, v \in Values : Put(k, v)
  \/ \E k \in Keys : Delete(k)

Spec == Init /\ [][Next]_vars

----------------------------------------------------------------------------
\* The entries met on level i, in order (iter_range over every key, on level 1).
Chain(i) ==
  LET from[n \in 0 .. Len(nodes)] ==
        IF n = Nil THEN << >> ELSE << nodes[n].entry >> \o from[nodes[n].forward[i]]
  IN  from[heads[i]]

(* Type invariant. *)
TypeOK ==
  /\ level \in 1 .. MAX_LEVEL
  /\ heads \in [1 .. MAX_LEVEL -> 0 .. Len(nodes)]
  /\ nodes \in Seq([entry : Entry, forward : [1 .. level -> 0 .. Len(nodes)]])
  /\ size = Len(nodes)

(***************************************************************************)
(* The levels never disagree: each one a node can be on links all the      *)
(* nodes in the same order, so what a lookup finds does not depend on the  *)
(* level the process happened to draw.                                     *)
(***************************************************************************)
LevelsAgree == \A i \in 1 .. level : Chain(i) = Chain(1) /\ Len(Chain(i)) = size

(***************************************************************************)
(* The descent of SkipList.get through all MAX_LEVEL levels answers from   *)
(* the node a plain walk along level 1 finds.                              *)
(***************************************************************************)
GetFollowsList ==
  \A k \in Keys :
    IF Get(k) # Nil
    THEN Found(Chain(1), k) /\ Lookup(Chain(1), k) = nodes[Get(k)].entry
    ELSE ~ Found(Chain(1), k)

(***************************************************************************)
(* The pointer structure implements the plain list: put and delete change  *)
(* level 1 exactly as NodeList says, whatever the level.                   *)
(***************************************************************************)
Abstract == INSTANCE NodeList WITH list <- Chain(1)
ImplementsNodeList == Abstract!Spec
===============================================================================
