----------------------------- MODULE MCDiscovery -----------------------------
(* Small instances of Discovery: two addresses, the first of which either of *)
(* two nodes may have.                                                       *)
EXTENDS Discovery

CONSTANTS a, b, ca, cb

MCHoldersOf == [c \in Clients |-> IF c = ca THEN {a, b} ELSE {b}]
MCIpOf   == [c \in Clients |-> c]
MCPortOf == [c \in Clients |-> IF c = ca THEN 1 ELSE 2]
MCIpLen  == [c \in Clients |-> 9]
MCMaxExtra == [c \in Clients |-> IF c = ca THEN 1 ELSE 0]
===============================================================================
