------------------------------- MODULE Network -------------------------------
(***************************************************************************)
(* UDP between the programs of NanoCell, and the NATs in front of them: a  *)
(* datagram may be lost, duplicated and overtaken, and is let in only by   *)
(* an address that has sent something to where it comes from.  Nothing     *)
(* here is in the repository; it is what the code runs on.                 *)
(***************************************************************************)
EXTENDS Integers, FiniteSets

CONSTANTS
  Nodes,      \* node ids, each of one NetworkEngine
  Clients,    \* ids of the programs that use the relay server
  Addresses,  \* the public (ip, port) pairs they may have
  RelayAt,    \* the address of the relay server, which has no NAT
  LaunchPlace,  \* LaunchPlace[p]: the address program p has at first
  JoinedFirst,  \* the clients the relay has acknowledged by then
  Nowhere,    \* the address of a node that is stopped
  IdLength,   \* the length of each id; "ip:port", the name of an address, is one
  FirstByte,  \* the first byte of each id
  MaxLost,    \* (bound) punches lost
  MaxMoves    \* (bound) changes of an address

Programs == Nodes \cup Clients

ASSUME AddressAssumption == {RelayAt, Nowhere} \cap Addresses = {} /\ RelayAt # Nowhere
ASSUME ProgramAssumption == Nodes \cap Clients = {}
ASSUME LaunchAssumption ==
  /\ JoinedFirst \subseteq Clients
  /\ LaunchPlace \in [Programs -> Addresses]
  /\ \A p, q \in Programs : p # q => LaunchPlace[p] # LaunchPlace[q]
ASSUME IdAssumption ==
  IdLength \in [Programs \cup Addresses -> 1 .. 255] /\ FirstByte \in [Programs -> 0 .. 255]
ASSUME NetworkBounds == {MaxLost, MaxMoves} \subseteq Nat

VARIABLES
  net,     \* the datagrams in flight
  place,   \* place[p]: the address of program p
  homes,   \* (ghost) homes[p]: the addresses p has had
  left,    \* (ghost) the addresses that a program has left
  opened,  \* << a, b >>: a's NAT lets in what comes from b
  lost,    \* how many punches were lost
  moves    \* how many times an address has changed

networkVars == << net, place, homes, left, opened, lost, moves >>

Quiet == UNCHANGED << place, homes, left, lost, moves >>

NetworkInit ==
  /\ net = {} /\ left = {} /\ lost = 0 /\ moves = 0
  /\ place = LaunchPlace
  /\ homes = [p \in Programs |-> {place[p]}]
  /\ opened = {<< place[c], RelayAt >> : c \in JoinedFirst}

\* A program sends.
Transmit(datagrams) ==
  /\ net' = net \cup datagrams
  /\ opened' = opened \cup {<< d.from, d.to >> : d \in datagrams}
  /\ Quiet

\* d arrives, and stays when it is a duplicate; the relay answers.
Arrive(d, answers) ==
  /\ d \in net
  /\ net' \in {net \cup answers, (net \ {d}) \cup answers}
  /\ Quiet /\ UNCHANGED opened

Free(a) == \A p \in Programs : place[p] # a

LetIn(d) == << d.to, d.from >> \in opened

\* A punch is lost, turned away by a NAT, or nobody is there. Any other
\* datagram, and one nobody reacts to, may just stay in flight.
Vanish(d) ==
  /\ d \in net /\ d.kind = "punch"
  /\ net' = net \ {d}
  /\ \/ lost < MaxLost /\ lost' = lost + 1
     \/ (~ LetIn(d) \/ Free(d.to)) /\ UNCHANGED lost
  /\ UNCHANGED << place, homes, left, opened, moves >>

\* A program gets another address: the NAT maps it anew, or it is started. What
\* the old mapping let in is turned away, and the new one lets in nothing yet.
MoveTo(p, a) ==
  /\ moves < MaxMoves /\ moves' = moves + 1
  /\ Free(a)
  /\ place' = [place EXCEPT ![p] = a]
  /\ homes' = [homes EXCEPT ![p] = @ \cup {a}]
  /\ left' = left \cup ({place[p]} \ {Nowhere})
  /\ opened' = {o \in opened : o[1] \notin {place[p], a}}
  /\ UNCHANGED << net, lost >>
===============================================================================
