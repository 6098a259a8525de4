------------------------------ MODULE MCSkipList ------------------------------
(* Small instance of SkipList: three ordered keys, levels 1 to 4. *)
EXTENDS SkipList

CONSTANT v1

MCKeys == 1 .. 3
MCValues == {v1}
MCKeyLen == [k \in MCKeys |-> 1]
MCValLen == [v \in MCValues |-> 1]
===============================================================================
