------------------------------ MODULE Messaging ------------------------------
(***************************************************************************)
(* The nodes' network engines, the relay server and its clients, over one  *)
(* network. The relay's clients are programs that speak its protocol; no   *)
(* such program is in the repository, the NetworkEngine does not.          *)
(***************************************************************************)
EXTENDS Relay, NetworkEngine

CONSTANTS
  Names,     \* the ids applications use for peers: node ids, and addresses
  MaxCalls,  \* (bound) calls of applications, requests of clients and restarts of the relay
  MaxEvents  \* (bound) these and the changes of an address together

ASSUME NamesAssumption ==
  /\ Names \subseteq Programs \cup Addresses
  /\ PeersFirst \in [Nodes -> UNION {[ids -> Addresses] : ids \in SUBSET Names}]
  /\ \A n \in Nodes : \A a \in DOMAIN PeersFirst[n] \cap Addresses : PeersFirst[n][a] = a
  /\ HandlersFirst \in [Nodes -> SUBSET Types]

VARIABLE calls

vars == << networkVars, relayVars, engineVars, calls >>

Init == NetworkInit /\ RelayInit /\ EngineInit /\ calls = 0

----------------------------------------------------------------------------
Request(c, kind, id) ==
  /\ Transmit({[kind |-> kind, from |-> place[c], to |-> RelayAt, id |-> id]})
  /\ UNCHANGED engineVars

\* The NAT of a program maps it to a new address.
Rebind(p, a) ==
  /\ place[p] # Nowhere
  /\ MoveTo(p, a)
  /\ Forget({place[p], a})
  /\ UNCHANGED << known, direct, relayed, pending, punching, handlers, counterVars, decoded >>

Call(n) ==
  \/ \E id \in Names :
       \/ \E a \in IF id \in Addresses THEN {id} ELSE homes[id] : AddPeer(n, id, a)
       \/ ConnectToPeer(n, id)
  \/ \E type \in Types : RegisterHandler(n, type)
  \/ \E t \in Threads[n] : TakeSeq(n, t)
  \/ StopEngine(n)

\* A call that draws a number goes on; so does a hole punch.
Continue(n) ==
  \/ \E t \in Threads[n] :
       \/ LoadSeq(n, t)
       \/ \E type \in Types : Broadcast(n, t, type) \/ \E id \in Names : SendMessage(n, t, id, type)
  \/ Punch(n)
  \/ FinishPunch(n)

ClientCall(c) ==
  \/ Request(c, "connect", c)
  \/ Request(c, "disconnect", c)
  \/ \E id \in Clients : Request(c, "forward", id)

Next ==
  \/ /\ calls < MaxCalls /\ calls + moves < MaxEvents
     /\ calls' = calls + 1
     /\ \/ ((\E n \in Nodes : Call(n)) \/ (\E c \in Clients : ClientCall(c))) /\ UNCHANGED relayVars
        \/ RelayRestart /\ UNCHANGED engineVars
  \/ /\ \/ \E n \in Nodes : Continue(n)
        \/ /\ calls + moves < MaxEvents
           /\ \E a \in Addresses : (\E n \in Nodes : StartEngine(n, a)) \/ (\E p \in Programs : Rebind(p, a))
        \/ \E d \in net : \E n \in Nodes : ProcessMessage(n, d)
        \/ \E d \in net : Vanish(d) /\ UNCHANGED engineVars
     /\ UNCHANGED << relayVars, calls >>
  \/ (\E d \in net : RelayHandles(d)) /\ UNCHANGED << engineVars, calls >>

Spec == Init /\ [][Next]_vars

----------------------------------------------------------------------------
(* Type invariant. *)
TypeOK ==
  /\ place \in [Programs -> Addresses \cup {Nowhere}]
  /\ \A p, q \in Programs : p # q /\ place[p] # Nowhere => place[p] # place[q]
  /\ \A p \in Programs : place[p] \in homes[p] \cup {Nowhere} /\ homes[p] \subseteq Addresses
  /\ DOMAIN clients \subseteq Clients /\ DOMAIN reverse \subseteq Addresses
  /\ \A n \in Nodes :
       /\ DOMAIN known[n] \subseteq Names /\ direct[n] \subseteq Addresses
       /\ relayed[n] \subseteq Names \cup Addresses /\ pending[n] \subseteq Names
       /\ seq[n] \in 0 .. SeqMod - 1
       /\ \A t \in Threads[n] : {drawing[n][t].seq, drawing[n][t].next} \subseteq 0 .. SeqMod - 1
       /\ Cardinality(punching[n]) <= 1

(***************************************************************************)
(* What the relay forwards goes to an address its recipient has had, and   *)
(* names a program that has had the address it came from. (Not: has it     *)
(* now. The relay learns of a new address by a CONNECT only.)              *)
(***************************************************************************)
RelayedBetweenHomes ==
  \A d \in net : d.kind = "forwarded" => d.to \in homes[d.id] /\ d.via \in homes[d.sender]

(***************************************************************************)
(* When two nodes have punched each other's address, in any order and with *)
(* any overlap, and fewer punches were lost than one hole punch sends, at  *)
(* least one of them has the other as a direct peer. (Not both: the first  *)
(* one's punches may all be turned away before the second one sends any,   *)
(* and nothing answers a punch.)                                           *)
(***************************************************************************)
HolePunchSucceeds ==
  \A n, m \in Nodes :
    LET a == place[n] b == place[m] IN
      /\ n # m /\ lost < Punches
      /\ \A k \in 1 .. Punches : {<< a, b, k >>, << b, a, k >>} \subseteq punched
      /\ \A d \in net : d.kind = "punch" => {d.from, d.to} # {a, b}
    => b \in direct[n] \/ a \in direct[m]

(***************************************************************************)
(* A node that has been at one address only can send to its direct peers:  *)
(* the NAT of each one that is still where he was has an opening for it.   *)
(* (A peer that has left his address, with a new mapping of his NAT, stays *)
(* in _direct_peers; so do those of a node that has left its own.)         *)
(***************************************************************************)
DirectPeersLetIn ==
  \A n \in Nodes :
    homes[n] \cap left = {} => \A a \in direct[n] \ left : << a, place[n] >> \in opened

(***************************************************************************)
(* The receive loop takes the third byte of anything for a message type,   *)
(* also of what a relay forwards to an address that now is a node's. But a *)
(* handler that decodes gets a message only where the node that made it    *)
(* has sent it straight, to an address it has as a direct peer: nothing    *)
(* that goes through the relay, its errors included, is ever decoded.      *)
(***************************************************************************)
DecodedWentStraight ==
  \A n \in Nodes : \A m \in decoded[n] :
    m.by \in Nodes /\ m.no \in 1 .. made[m.by] /\ direct[m.by] \cap homes[n] # {}

Messages == (UNION {decoded[n] : n \in Nodes}) \cup {d.message : d \in {e \in net : e.kind \in {"frame", "idFirst"}}}

(***************************************************************************)
(* Until two threads of a node are in _next_seq at the same time, two of   *)
(* its messages have the same sequence number only when a whole round of   *)
(* the 16-bit counter lies between them. (Once they have been, two threads *)
(* may have got one number, or the counter fallen back to an earlier one.) *)
(***************************************************************************)
SameSeqFarApart ==
  \A x, y \in Messages :
    /\ x.by = y.by /\ ~ raced[x.by]
    /\ x.seq = y.seq /\ x.no < y.no
    => y.no - x.no >= SeqMod
===============================================================================
