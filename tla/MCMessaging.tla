----------------------------- MODULE MCMessaging -----------------------------
(* Small instance of Messaging: two nodes, one of which knows the other by *)
(* its id, the other one by its address; two clients of the relay, which   *)
(* are connected at first; and one more address. The clients' ids begin    *)
(* with the byte of a message type. One application calls from two         *)
(* threads. Exchanging the clients together with their addresses changes   *)
(* nothing.                                                                *)
EXTENDS Messaging

CONSTANTS n1, n2, c1, c2, a1, a2, a3, a4, a5, t1, t2, t3

MCPlace == [p \in Programs |-> CASE p = n1 -> a1 [] p = n2 -> a2 [] p = c1 -> a3 [] p = c2 -> a4]
MCPeersFirst == [n \in Nodes |-> IF n = n1 THEN [id \in {n2} |-> a2]
                                 ELSE [id \in {a1} |-> a1]]
MCHandlersFirst == [n \in Nodes |-> IF n = n1 THEN Types ELSE {}]
MCThreads == [n \in Nodes |-> IF n = n1 THEN {t1, t2} ELSE {t3}]
MCIdLength == [id \in Programs \cup Addresses |-> 40]
MCFirstByte == [p \in Programs |-> IF p \in Clients THEN 52 ELSE 97]

MCSymmetry == {[x \in {c1, c2, a3, a4} |-> CASE x = c1 -> c2 [] x = c2 -> c1 [] x = a3 -> a4 [] x = a4 -> a3]}
===============================================================================
