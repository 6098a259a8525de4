------------------------------ MODULE MCMemTable ------------------------------
(* Small instance of MemTable: three ordered keys, values of length 0 and 2. *)
EXTENDS MemTable

CONSTANTS v2, none

MCKeys == 1 .. 3
MCValues == {v2, none}
MCKeyLen == [k \in MCKeys |-> 1]
MCValLen == [v \in MCValues |-> IF v = none THEN 0 ELSE 2]
===============================================================================
