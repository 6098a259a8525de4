------------------------------ MODULE MCLSMTree ------------------------------
(* Small instances of LSMTree: a value of one byte and b'', keys of one    *)
(* byte, so that a put fills a memtable of 2 bytes and a delete does not.  *)
EXTENDS LSMTree

CONSTANTS v1, none

MCKeyLen == [k \in Keys |-> 1]
MCValLen == [v \in Values |-> IF v = none THEN 0 ELSE 1]
===============================================================================
