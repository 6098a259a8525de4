------------------------------- MODULE NodeList -------------------------------
(***************************************************************************)
(* What class SkipList promises its callers: a list of nodes, changed by   *)
(* put and by delete, and searched by get.  The rest of the storage model  *)
(* uses skip lists through these operators only.                           *)
(***************************************************************************)
EXTENDS StorageOps

CONSTANT MaxPuts      \* bound of the model: nodes ever inserted

VARIABLE list

Init == list = << >>

Put(k, v) ==
  /\ Len(list) < MaxPuts
  /\ list' = ListPut(list, [key |-> k, val |-> v, ts |-> Len(list) + 1, deleted |-> FALSE])

\* delete marks the entry get returns; a key get cannot find is left alone.
Delete(k) ==
  /\ Found(list, k)
  /\ list' = [list EXCEPT ![FindPos(list, k)].deleted = TRUE]

Next ==
  \/ \E k \in Keys, v \in Values : Put(k, v)
  \/ \E k \in Keys : Delete(k)

Spec == Init /\ [][Next]_list
===============================================================================
