-------------------------- MODULE Messaging_proofs --------------------------
(***************************************************************************)
(* Proofs about Messaging, for any nodes, clients, addresses and bounds.   *)
(* The first part is about the relay's two maps alone.  The second one is  *)
(* about the network and everything on it: its inductive invariant says    *)
(* what may be in flight, and how that relates to where the programs have  *)
(* been, to what the NATs have opened and to the messages made.            *)
(***************************************************************************)
EXTENDS Messaging, FiniteSetTheorems, TLAPS

----------------------------------------------------------------------------
(* The relay's maps. *)

\* The reverse map holds nothing that no CONNECT has put there.
ReverseJoined == \A a \in DOMAIN reverse : << reverse[a], a >> \in joined

JoinedPairs == \A j \in joined : j = << j[1], j[2] >>

RelayInv == JoinedPairs /\ ReverseJoined /\ RoutesAgree

\* RoutesAgree without the sets: no other id at the address, no other address.
OnlyIdAt(id, a) == \A j \in joined : j[2] = a => j[1] = id
OnlyAddressOf(id, a) == \A j \in joined : j[1] = id => j[2] = a

Agree(id, a) ==
  OnlyIdAt(id, a) =>
    /\ id \in DOMAIN clients /\ clients[id] = a => a \in DOMAIN reverse /\ reverse[a] = id
    /\ a \in DOMAIN reverse /\ OnlyAddressOf(id, a) => id \in DOMAIN clients /\ clients[id] = a

LEMMA AgreeIsRoutesAgree == RoutesAgree <=> \A j \in joined : Agree(j[1], j[2])
<1> SUFFICES ASSUME NEW j \in joined
             PROVE  /\ IdsAt(j[2]) = {j[1]} <=> OnlyIdAt(j[1], j[2])
                    /\ AddressesOf(j[1]) = {j[2]} <=> OnlyAddressOf(j[1], j[2])
  BY DEF RoutesAgree, Agree
<1>1. IdsAt(j[2]) = {j[1]} <=> OnlyIdAt(j[1], j[2])
  BY DEF IdsAt, OnlyIdAt
<1>2. AddressesOf(j[1]) = {j[2]} <=> OnlyAddressOf(j[1], j[2])
  BY DEF AddressesOf, OnlyAddressOf
<1>. QED
  BY <1>1, <1>2

LEMMA ConnectKeepsRoutes ==
  ASSUME RelayInv, NEW d, HandleConnect(d)
  PROVE  RelayInv'
<1> DEFINE i == d.id
           a == d.from
<1>1. /\ DOMAIN clients' = DOMAIN clients \cup {i} /\ clients'[i] = a
      /\ \A x \in DOMAIN clients : x # i => clients'[x] = clients[x]
  BY DEF HandleConnect, With
<1>2. /\ DOMAIN reverse' = DOMAIN reverse \cup {a} /\ reverse'[a] = i
      /\ \A x \in DOMAIN reverse : x # a => reverse'[x] = reverse[x]
  BY DEF HandleConnect, With
<1>3. joined' = joined \cup {<< i, a >>}
  BY DEF HandleConnect
<1> HIDE DEF i, a
<1>4. JoinedPairs'
  BY <1>3 DEF RelayInv, JoinedPairs
<1>5. ReverseJoined'
  BY <1>2, <1>3 DEF RelayInv, ReverseJoined
<1>6. ASSUME NEW j \in joined', OnlyIdAt(j[1], j[2])'
      PROVE  Agree(j[1], j[2])'
  <2>0. \E k \in joined' : k[1] = i /\ k[2] = a
    <3>1. << i, a >> \in joined' /\ << i, a >>[1] = i /\ << i, a >>[2] = a
      BY <1>3
    <3>. QED
      BY <3>1, Zenon
  <2>1. CASE j[1] = i
    <3>1. OnlyAddressOf(i, j[2])' => j[2] = a
      BY <2>0 DEF OnlyAddressOf
    <3>2. clients'[i] = a /\ i \in DOMAIN clients' /\ reverse'[a] = i /\ a \in DOMAIN reverse'
      BY <1>1, <1>2
    <3>. QED
      BY <2>1, <3>1, <3>2 DEF Agree
  <2>2. CASE j[1] # i
    <3>1. j \in joined /\ Agree(j[1], j[2])
      BY <1>3, <2>2, AgreeIsRoutesAgree DEF RelayInv
    <3>2. j[2] # a
      BY <1>6, <2>0, <2>2 DEF OnlyIdAt
    <3>3. OnlyIdAt(j[1], j[2]) /\ (OnlyAddressOf(j[1], j[2])' => OnlyAddressOf(j[1], j[2]))
      BY <1>3, <1>6 DEF OnlyIdAt, OnlyAddressOf
    <3>. QED
      BY <1>1, <1>2, <2>2, <3>1, <3>2, <3>3 DEF Agree
  <2>. QED
    BY <2>1, <2>2
<1>7. RoutesAgree'
  <2>1. (\A j \in joined : Agree(j[1], j[2]))'
    BY <1>6 DEF Agree
  <2>. QED
    BY <2>1, AgreeIsRoutesAgree, PTL
<1>. QED
  BY <1>4, <1>5, <1>7 DEF RelayInv

LEMMA DisconnectKeepsRoutes ==
  ASSUME RelayInv, NEW d, HandleDisconnect(d)
  PROVE  RelayInv'
<1> DEFINE a == d.from
<1>1. /\ DOMAIN reverse' = DOMAIN reverse \ {a}
      /\ \A x \in DOMAIN reverse' : reverse'[x] = reverse[x]
  BY DEF HandleDisconnect, Without, Restrict
<1>2. /\ DOMAIN clients' = IF a \in DOMAIN reverse THEN DOMAIN clients \ {reverse[a]} ELSE DOMAIN clients
      /\ \A x \in DOMAIN clients' : clients'[x] = clients[x]
  BY DEF HandleDisconnect, Without, Restrict
<1>3. joined' = joined
  BY DEF HandleDisconnect
<1> HIDE DEF a
<1>4. JoinedPairs' /\ ReverseJoined'
  BY <1>1, <1>3 DEF RelayInv, JoinedPairs, ReverseJoined
<1>5. ASSUME NEW j \in joined', OnlyIdAt(j[1], j[2])'
      PROVE  Agree(j[1], j[2])'
  <2>1. j \in joined /\ Agree(j[1], j[2]) /\ OnlyIdAt(j[1], j[2])
    BY <1>3, <1>5, AgreeIsRoutesAgree DEF RelayInv, OnlyIdAt
  <2>2. OnlyAddressOf(j[1], j[2])' => OnlyAddressOf(j[1], j[2])
    BY <1>3 DEF OnlyAddressOf
  <2>3. ASSUME j[1] \in DOMAIN clients', clients'[j[1]] = j[2]
        PROVE  j[2] \in DOMAIN reverse' /\ reverse'[j[2]] = j[1]
    BY <1>1, <1>2, <2>1, <2>3 DEF Agree
  <2>4. ASSUME j[2] \in DOMAIN reverse', OnlyAddressOf(j[1], j[2])
        PROVE  j[1] \in DOMAIN clients' /\ clients'[j[1]] = j[2]
    <3>1. a \in DOMAIN reverse => << reverse[a], a >> \in joined
      BY DEF RelayInv, ReverseJoined
    <3>2. a \in DOMAIN reverse => reverse[a] # j[1]
      BY <1>1, <2>4, <3>1 DEF OnlyAddressOf
    <3>. QED
      BY <1>1, <1>2, <2>1, <2>4, <3>2 DEF Agree
  <2>. QED
    BY <2>2, <2>3, <2>4 DEF Agree
<1>6. RoutesAgree'
  <2>1. (\A j \in joined : Agree(j[1], j[2]))'
    BY <1>5 DEF Agree
  <2>. QED
    BY <2>1, AgreeIsRoutesAgree, PTL
<1>. QED
  BY <1>4, <1>6 DEF RelayInv

LEMMA RelayUnchanged ==
  ASSUME RelayInv, UNCHANGED relayVars
  PROVE  RelayInv'
  BY DEF relayVars, RelayInv, JoinedPairs, ReverseJoined, RoutesAgree, IdsAt, AddressesOf

\* The clients that have been acknowledged before are in both maps.
LEMMA LaunchRelay ==
  ASSUME Init
  PROVE  /\ DOMAIN clients = JoinedFirst /\ \A c \in JoinedFirst : clients[c] = LaunchPlace[c]
         /\ DOMAIN reverse = {LaunchPlace[c] : c \in JoinedFirst}
         /\ \A c \in JoinedFirst : reverse[LaunchPlace[c]] = c
<1>1. clients = [c \in JoinedFirst |-> LaunchPlace[c]]
  BY DEF Init, RelayInit, Restrict
<1>2. reverse = [a \in {LaunchPlace[c] : c \in JoinedFirst} |->
                   CHOOSE c \in JoinedFirst : a \in {LaunchPlace[d] : d \in JoinedFirst} => clients[c] = a]
  BY <1>1 DEF Init, RelayInit, AntiFunction, Inverse, Range
<1>3. ASSUME NEW c \in JoinedFirst
      PROVE  reverse[LaunchPlace[c]] = c
  <2>1. \A d \in JoinedFirst : clients[d] = LaunchPlace[c] => d = c
    BY <1>1, LaunchAssumption DEF Programs
  <2>. QED
    BY <1>1, <1>2, <2>1
<1>. QED
  BY <1>1, <1>2, <1>3

LEMMA LaunchRoutes ==
  ASSUME Init
  PROVE  RelayInv
<1>1. joined = {<< c, LaunchPlace[c] >> : c \in JoinedFirst}
  BY LaunchRelay DEF Init, RelayInit
<1>2. JoinedPairs /\ ReverseJoined
  BY <1>1, LaunchRelay DEF JoinedPairs, ReverseJoined
<1>3. ASSUME NEW j \in joined
      PROVE  Agree(j[1], j[2])
  BY <1>1, LaunchRelay DEF Agree
<1>. QED
  BY <1>2, <1>3, AgreeIsRoutesAgree DEF RelayInv

(***************************************************************************)
(* The relay's two maps agree on ids and addresses that are used one by    *)
(* the other only, whatever the network does to CONNECTs and DISCONNECTs.  *)
(***************************************************************************)
THEOREM RoutesAlwaysAgree == Spec => []RoutesAgree
<1>1. Init => RelayInv
  BY LaunchRoutes
<1>2. RelayInv /\ [Next]_vars => RelayInv'
  <2> SUFFICES ASSUME RelayInv, [Next]_vars
               PROVE  RelayInv'
    OBVIOUS
  <2>1. CASE UNCHANGED relayVars
    BY <2>1, RelayUnchanged
  <2>2. CASE \E d \in net : RelayHandles(d)
    BY <2>2, ConnectKeepsRoutes, DisconnectKeepsRoutes, RelayUnchanged
       DEF RelayHandles, HandleForward
  <2>3. CASE RelayRestart
    BY <2>3 DEF RelayRestart, RelayInv, JoinedPairs, ReverseJoined, RoutesAgree
  <2>. QED
    BY <2>1, <2>2, <2>3 DEF Next, vars, relayVars
<1>3. RelayInv => RoutesAgree
  BY DEF RelayInv
<1>. QED
  BY <1>1, <1>2, <1>3, PTL DEF Spec

----------------------------------------------------------------------------
(* What the engines, the relay and its clients send, and where they are.   *)

Made == [by : Nodes, type : Types, seq : 0 .. SeqMod - 1, no : Nat \ {0}]

Requests == [kind : {"connect", "disconnect", "forward"}, from : Addresses, to : {RelayAt}, id : Clients]
PunchDatagrams == [kind : {"punch"}, from : Addresses, to : Addresses, no : 1 .. Punches]
Frames == [kind : {"frame"}, from : Addresses, to : Addresses, message : Made]
IdsFirst == [kind : {"idFirst"}, from : Addresses, to : {RelayAt}, id : Names \cup Addresses, message : Made]
Relayed ==
  [kind : {"forwarded"}, from : {RelayAt}, to : Addresses, sender : Clients, id : Clients, via : Addresses]
Errors == [kind : {"error"}, from : {RelayAt}, to : Addresses, id : Clients]

Datagrams == Requests \cup PunchDatagrams \cup Frames \cup IdsFirst \cup Relayed \cup Errors

\* Nobody is at another's address; a client of the relay is always somewhere.
Placed ==
  /\ place \in [Programs -> Addresses \cup {Nowhere}]
  /\ \A p, q \in Programs : p # q /\ place[p] # Nowhere => place[p] # place[q]
  /\ homes \in [Programs -> SUBSET Addresses]
  /\ \A p \in Programs : place[p] \in homes[p] \cup {Nowhere}
  /\ \A c \in Clients : place[c] # Nowhere

\* Where a program has been and is not any more, it has left.
HomesLeft == \A p \in Programs : homes[p] # {} /\ homes[p] \ {place[p]} \subseteq left

Books == UNION {[ids -> Addresses] : ids \in SUBSET Names}

PeersTyped ==
  /\ known \in [Nodes -> Books]
  /\ \A n \in Nodes : \A a \in DOMAIN known[n] \cap Addresses : known[n][a] = a
  /\ direct \in [Nodes -> SUBSET Addresses]
  /\ relayed \in [Nodes -> SUBSET (Names \cup Addresses)]
  /\ pending \in [Nodes -> SUBSET Names]

PunchRecords == [id : Names, to : Addresses, left : 0 .. Punches]

\* One hole punch at a time, and none by an engine that is stopped.
PunchingTyped ==
  /\ punching \in [Nodes -> SUBSET PunchRecords]
  /\ \A n \in Nodes : \A p, q \in punching[n] : p = q
  /\ \A n \in Nodes : punching[n] # {} => Running(n)

\* A thread of n in _next_seq that no other thread disturbs holds the counter, and
\* the counter is the number of messages made, modulo 2^16.
Undisturbed(n) ==
  /\ seq[n] = made[n] % SeqMod
  /\ \A t \in Threads[n] : drawing[n][t].pc # "idle" =>
       /\ drawing[n][t].seq = seq[n]
       /\ drawing[n][t].pc = "store" => drawing[n][t].next = NextSeq(seq[n])
       /\ \A u \in Threads[n] \ {t} : drawing[n][u].pc = "idle"

Draws == [pc : {"idle", "load", "store"}, seq : 0 .. SeqMod - 1, next : 0 .. SeqMod - 1]

Counted ==
  /\ made \in [Nodes -> Nat] /\ seq \in [Nodes -> 0 .. SeqMod - 1] /\ raced \in [Nodes -> BOOLEAN]
  /\ DOMAIN drawing = Nodes /\ \A n \in Nodes : drawing[n] \in [Threads[n] -> Draws]
  /\ \A n \in Nodes : ~ raced[n] => Undisturbed(n)

MadeBefore(m) ==
  m \in Made /\ m.no <= made[m.by] /\ (~ raced[m.by] => m.seq = (m.no - 1) % SeqMod)

\* Somebody is, or has been, at address a.
Lived(a) == \E p \in Programs : a \in homes[p]

\* Of a datagram in flight: it was sent, and relayed, from where its sender had a home.
Sound(d) ==
  /\ d.kind = "connect" => d.from \in homes[d.id]
  /\ d.kind = "punch" => Lived(d.from) /\ (d.from \notin left => << d.from, d.to >> \in opened)
  /\ d.kind \in {"frame", "idFirst"} => MadeBefore(d.message)
  /\ d.kind = "frame" => d.to \in direct[d.message.by]
  /\ d.kind = "forwarded" => d.to \in homes[d.id] /\ d.via \in homes[d.sender]

InFlight == net \subseteq Datagrams /\ \A d \in net : Sound(d)

\* The relay knows of addresses their clients have had only.
RelayHomes ==
  /\ DOMAIN clients \subseteq Clients /\ DOMAIN reverse \subseteq Addresses
  /\ \A id \in DOMAIN clients : clients[id] \in homes[id]
  /\ \A a \in DOMAIN reverse : reverse[a] \in Clients /\ a \in homes[reverse[a]]

\* The direct peers were punched from where somebody was.
DirectLived == \A n \in Nodes : \A a \in direct[n] : Lived(a)

DecodedMade ==
  /\ decoded \in [Nodes -> SUBSET Made]
  /\ \A n \in Nodes : \A m \in decoded[n] : MadeBefore(m) /\ direct[m.by] \cap homes[n] # {}

PunchedOpened ==
  /\ punched \subseteq Addresses \X Addresses \X (1 .. Punches)
  /\ \A r \in punched : << r[1], r[2] >> \in opened

\* The punches that went from a to b and are not in flight any more.
PunchOf(a, b, k) == [kind |-> "punch", from |-> a, to |-> b, no |-> k]
Gone(a, b) == {k \in 1 .. Punches : << a, b, k >> \in punched /\ PunchOf(a, b, k) \notin net}

\* Where two nodes have punched each other and neither has let the other in, the
\* punches gone one way were lost on the way: those sent after the other side's
\* first one are not turned away.
LostOneWay(a, b) == Cardinality(Gone(a, b)) <= lost \/ Cardinality(Gone(b, a)) <= lost

HolesOpen ==
  /\ lost \in Nat
  /\ \A n, m \in Nodes :
       /\ n # m /\ Running(n) /\ Running(m)
       /\ place[n] \notin direct[m] /\ place[m] \notin direct[n]
       => LostOneWay(place[n], place[m])

Inv ==
  /\ Placed /\ HomesLeft /\ PeersTyped /\ PunchingTyped /\ Counted /\ InFlight /\ RelayHomes
  /\ DirectLived /\ DirectPeersLetIn /\ DecodedMade /\ PunchedOpened /\ HolesOpen

----------------------------------------------------------------------------
(* Arithmetic of the counter that wraps. *)

LEMMA DivMod ==
  ASSUME NEW x \in Nat, NEW N \in Nat \ {0}
  PROVE  x % N \in 0 .. N - 1 /\ x \div N \in Nat /\ x = N * (x \div N) + (x % N)
  BY SMT

LEMMA ModUnique ==
  ASSUME NEW N \in Nat \ {0}, NEW q \in Nat, NEW r \in 0 .. N - 1
  PROVE  (N * q + r) % N = r
  BY SMT

LEMMA ModSame ==
  ASSUME NEW N \in Nat \ {0}, NEW x \in Nat, NEW y \in Nat, x < y, x % N = y % N
  PROVE  y - x >= N
<1> DEFINE p == x \div N
           q == y \div N
           r == x % N
<1>1. p \in Nat /\ r \in 0 .. N - 1 /\ x = N * p + r
  BY DivMod
<1>2. q \in Nat /\ y = N * q + r
  BY DivMod
<1> HIDE DEF p, q, r
<1>3. q - p > 0
  <2>1. N * (p - q) < 0
    BY <1>1, <1>2
  <2>. QED
    BY <1>1, <1>2, <2>1
<1>4. y - x = N * (q - p)
  BY <1>1, <1>2
<1>. QED
  BY <1>1, <1>2, <1>3, <1>4

LEMMA ModNext ==
  ASSUME NEW N \in Nat \ {0}, NEW x \in Nat
  PROVE  ((x % N) + 1) % N = (x + 1) % N
<1> DEFINE q == x \div N
           r == x % N
<1>1. q \in Nat /\ r \in 0 .. N - 1 /\ x = N * q + r
  BY DivMod
<1> HIDE DEF q, r
<1>2. CASE r + 1 = N
  <2>1. x + 1 = N * (q + 1) + 0 /\ r + 1 = N * 1 + 0
    BY <1>1, <1>2
  <2>2. (x + 1) % N = 0 /\ (r + 1) % N = 0
    BY <1>1, <2>1, ModUnique
  <2>. QED
    BY <2>2 DEF r
<1>3. CASE r + 1 < N
  <2>1. x + 1 = N * q + (r + 1) /\ r + 1 = N * 0 + (r + 1)
    BY <1>1
  <2>2. (x + 1) % N = r + 1 /\ (r + 1) % N = r + 1
    BY <1>1, <1>3, <2>1, ModUnique
  <2>. QED
    BY <2>2 DEF r
<1>. QED
  BY <1>1, <1>2, <1>3

----------------------------------------------------------------------------
(* Which steps change what. *)

\* The steps of the applications, of their engines and of the network.
Sends ==
  \/ \E n \in Nodes : \E t \in Threads[n] : \E type \in Types : \E ids \in SUBSET (Names \cup Addresses) :
       SendTo(n, t, ids, type)
  \/ \E c \in Clients : \E id \in Clients :
       Request(c, "connect", c) \/ Request(c, "disconnect", c) \/ Request(c, "forward", id)
  \/ \E n \in Nodes : Punch(n)

Moves ==
  \/ \E n \in Nodes : StopEngine(n)
  \/ \E n \in Nodes : \E a \in Addresses : StartEngine(n, a)
  \/ \E p \in Programs : \E a \in Addresses : Rebind(p, a)

Arrives ==
  \/ \E d \in net : \E n \in Nodes : ProcessMessage(n, d)
  \/ \E d \in net : Vanish(d) /\ UNCHANGED engineVars
  \/ \E d \in net : RelayHandles(d) /\ UNCHANGED engineVars

Notes ==
  \/ \E n \in Nodes : \E id \in Names :
       \/ \E a \in IF id \in Addresses THEN {id} ELSE homes[id] : AddPeer(n, id, a)
       \/ ConnectToPeer(n, id)
  \/ \E n \in Nodes : \E type \in Types : RegisterHandler(n, type)
  \/ \E n \in Nodes : FinishPunch(n)
  \/ \E n \in Nodes : \E t \in Threads[n] : TakeSeq(n, t) \/ LoadSeq(n, t)

LEMMA NextCases ==
  ASSUME PeersTyped, [Next]_vars
  PROVE  \/ (Sends \/ Moves \/ Notes) /\ UNCHANGED relayVars
         \/ Arrives
         \/ RelayRestart /\ UNCHANGED engineVars
         \/ UNCHANGED << networkVars, relayVars, engineVars >>
<1>1. CASE UNCHANGED vars
  BY <1>1 DEF vars
<1>2. ASSUME NEW n \in Nodes, Call(n), UNCHANGED relayVars
      PROVE  (Sends \/ Moves \/ Notes) /\ UNCHANGED relayVars
  BY <1>2 DEF Call, Moves, Notes
<1>4. ASSUME NEW n \in Nodes, Continue(n), UNCHANGED relayVars
      PROVE  (Sends \/ Moves \/ Notes) /\ UNCHANGED relayVars
  <2>1. ASSUME NEW t \in Threads[n], NEW id \in Names, NEW type \in Types, SendMessage(n, t, id, type)
        PROVE  Sends
    BY <2>1 DEF SendMessage, Sends
  <2>2. ASSUME NEW t \in Threads[n], NEW type \in Types, Broadcast(n, t, type)
        PROVE  Sends
    <3>1. direct[n] \cup relayed[n] \in SUBSET (Names \cup Addresses)
      BY DEF PeersTyped
    <3>. QED
      BY <2>2, <3>1 DEF Broadcast, Sends
  <2>. QED
    BY <1>4, <2>1, <2>2 DEF Continue, Sends, Notes
<1>3. ASSUME NEW c \in Clients, ClientCall(c), UNCHANGED relayVars
      PROVE  Sends /\ UNCHANGED relayVars
  BY <1>3 DEF ClientCall, Sends
<1>. QED
  BY <1>1, <1>2, <1>3, <1>4 DEF Next, Moves, Arrives

LEMMA SendsEffect ==
  ASSUME Sends
  PROVE  /\ UNCHANGED << place, homes, left, known, direct, pending, decoded, handlers, lost, moves >>
         /\ opened \subseteq opened'
<1>1. ASSUME NEW S, Transmit(S)
      PROVE  UNCHANGED << place, homes, left, lost, moves >> /\ opened \subseteq opened'
  BY <1>1 DEF Transmit, Quiet
<1>2. ASSUME NEW n \in Nodes, NEW t, NEW ids, NEW type, SendTo(n, t, ids, type)
      PROVE  /\ UNCHANGED << place, homes, left, lost, moves >> /\ opened \subseteq opened'
             /\ UNCHANGED << known, direct, pending, decoded, handlers >>
  BY <1>1, <1>2 DEF SendTo
<1>3. ASSUME NEW c, NEW kind, NEW id, Request(c, kind, id)
      PROVE  /\ UNCHANGED << place, homes, left, lost, moves >> /\ opened \subseteq opened'
             /\ UNCHANGED << known, direct, pending, decoded, handlers >>
  BY <1>1, <1>3 DEF Request, engineVars
<1>4. ASSUME NEW n \in Nodes, Punch(n)
      PROVE  /\ UNCHANGED << place, homes, left, lost, moves >> /\ opened \subseteq opened'
             /\ UNCHANGED << known, direct, pending, decoded, handlers >>
  BY <1>1, <1>4 DEF Punch
<1>. QED
  BY <1>2, <1>3, <1>4 DEF Sends

LEMMA MovesEffect ==
  ASSUME Moves
  PROVE  /\ UNCHANGED << net, lost, known, direct, relayed, pending, counterVars, decoded >>
         /\ punched' \subseteq punched
  BY DEF Moves, StopEngine, StartEngine, Rebind, MoveTo, Forget

LEMMA ArrivesEffect ==
  ASSUME Arrives
  PROVE  UNCHANGED << place, homes, left, opened, known, relayed, pending, punching, counterVars, punched >>
  BY DEF Arrives, ProcessMessage, Vanish, RelayHandles, HandleConnect, HandleDisconnect, HandleForward,
         Arrive, Quiet, engineVars

LEMMA NotesEffect ==
  ASSUME Notes
  PROVE  UNCHANGED << networkVars, direct, relayed, seq, made, decoded, punched >>
  BY DEF Notes, AddPeer, ConnectToPeer, RegisterHandler, FinishPunch, TakeSeq, LoadSeq, counterVars, networkVars

LEMMA RestartEffect ==
  ASSUME RelayRestart, UNCHANGED engineVars
  PROVE  UNCHANGED << networkVars, engineVars >>
  BY DEF RelayRestart

LEMMA Stopped ==
  ASSUME Placed, NEW n \in Nodes, StopEngine(n)
  PROVE  /\ place' = [place EXCEPT ![n] = Nowhere] /\ homes' = homes
         /\ Placed'
<1> USE ProgramAssumption, AddressAssumption DEF Programs
<1>1. place' = [place EXCEPT ![n] = Nowhere] /\ homes' = homes
  BY DEF StopEngine
<1>. QED
  BY <1>1 DEF Placed

LEMMA Moved ==
  ASSUME Placed, NEW p \in Programs, NEW a \in Addresses, MoveTo(p, a)
  PROVE  /\ place' = [place EXCEPT ![p] = a]
         /\ homes' = [homes EXCEPT ![p] = @ \cup {a}]
         /\ \A q \in Programs : place[q] # a
         /\ Placed'
<1> USE ProgramAssumption, AddressAssumption DEF Programs
<1>1. /\ place' = [place EXCEPT ![p] = a] /\ homes' = [homes EXCEPT ![p] = @ \cup {a}]
      /\ \A q \in Programs : place[q] # a
  BY DEF MoveTo, Free
<1>. QED
  BY <1>1 DEF Placed

LEMMA PlacedKept ==
  ASSUME Placed, PeersTyped, [Next]_vars
  PROVE  Placed'
<1>1. CASE UNCHANGED << place, homes >>
  BY <1>1 DEF Placed
<1>2. CASE Moves
  BY <1>2, Stopped, Moved, ProgramAssumption DEF Moves, StartEngine, Rebind, Programs
<1>. QED
  BY <1>1, <1>2, NextCases, SendsEffect, ArrivesEffect, NotesEffect, RestartEffect DEF networkVars

LEMMA HomesGrow ==
  ASSUME Placed, PeersTyped, [Next]_vars, NEW p \in Programs
  PROVE  homes[p] \subseteq homes'[p]
<1>1. CASE UNCHANGED homes
  BY <1>1
<1>2. ASSUME NEW q \in Programs, NEW a \in Addresses, MoveTo(q, a)
      PROVE  homes[p] \subseteq homes'[p]
  BY <1>2 DEF Placed, MoveTo
<1>3. CASE Moves
  BY <1>2, <1>3, Stopped DEF Moves, StartEngine, Rebind, Programs
<1>. QED
  BY <1>1, <1>3, NextCases, SendsEffect, ArrivesEffect, NotesEffect, RestartEffect DEF networkVars

LEMMA HomesLeftKept ==
  ASSUME Placed, HomesLeft, PeersTyped, [Next]_vars
  PROVE  HomesLeft' /\ left \subseteq left'
<1>1. CASE UNCHANGED << place, homes, left >>
  BY <1>1 DEF HomesLeft
<1>2. ASSUME NEW n \in Nodes, StopEngine(n)
      PROVE  HomesLeft' /\ left \subseteq left'
  <2>1. /\ place' = [place EXCEPT ![n] = Nowhere] /\ homes' = homes
        /\ left' = left \cup {place[n]}
    BY <1>2 DEF StopEngine
  <2>. QED
    BY <2>1 DEF HomesLeft, Placed, Programs
<1>3. ASSUME NEW p \in Programs, NEW a \in Addresses, MoveTo(p, a)
      PROVE  HomesLeft' /\ left \subseteq left'
  <2>1. /\ place' = [place EXCEPT ![p] = a] /\ homes' = [homes EXCEPT ![p] = @ \cup {a}]
        /\ left' = left \cup ({place[p]} \ {Nowhere})
    BY <1>3 DEF MoveTo
  <2>2. ASSUME NEW q \in Programs
        PROVE  homes'[q] # {} /\ homes'[q] \ {place'[q]} \subseteq left'
    BY <2>1, AddressAssumption DEF HomesLeft, Placed
  <2>. QED
    BY <2>1, <2>2 DEF HomesLeft
<1>4. CASE Moves
  BY <1>2, <1>3, <1>4 DEF Moves, StartEngine, Rebind, Programs
<1>. QED
  BY <1>1, <1>4, NextCases, SendsEffect, ArrivesEffect, NotesEffect, RestartEffect DEF networkVars

LEMMA LivedKept ==
  ASSUME Placed, PeersTyped, [Next]_vars, NEW a, Lived(a)
  PROVE  Lived(a)'
  BY HomesGrow DEF Lived

\* An opening is closed with the address that it is at: by whom has it, who leaves
\* it then, and by nobody else, while he is there.
LEMMA OpeningKept ==
  ASSUME Placed, HomesLeft, PeersTyped, [Next]_vars,
         NEW a, NEW b, Lived(a), a \notin left', << a, b >> \in opened
  PROVE  << a, b >> \in opened'
<1>1. CASE opened \subseteq opened'
  BY <1>1
<1>2. ASSUME NEW p \in Programs, NEW c \in Addresses, MoveTo(p, c)
      PROVE  << a, b >> \in opened'
  <2>1. PICK q \in Programs : a \in homes[q]
    BY DEF Lived
  <2>2. a \notin left /\ a # Nowhere
    BY <2>1, HomesLeftKept, AddressAssumption DEF Placed
  <2>3. place[q] = a
    BY <2>1, <2>2 DEF HomesLeft
  <2>4. a # c
    BY <1>2, <2>3 DEF MoveTo, Free
  <2>5. a # place[p]
    BY <1>2, <2>2 DEF MoveTo
  <2>6. << a, b >>[1] \notin {place[p], c}
    BY <2>4, <2>5
  <2>. QED
    BY <1>2, <2>6, Zenon DEF MoveTo
<1>3. ASSUME NEW n \in Nodes, StopEngine(n)
      PROVE  << a, b >> \in opened'
  BY <1>3 DEF StopEngine
<1>4. CASE Moves
  BY <1>2, <1>3, <1>4 DEF Moves, StartEngine, Rebind, Programs
<1>. QED
  BY <1>1, <1>4, NextCases, SendsEffect, ArrivesEffect, NotesEffect, RestartEffect DEF networkVars

LEMMA DirectGrows ==
  ASSUME PeersTyped, [Next]_vars, NEW n \in Nodes
  PROVE  direct[n] \subseteq direct'[n]
<1>1. ASSUME NEW m \in Nodes, NEW d \in net, ProcessMessage(m, d)
      PROVE  direct[n] \subseteq direct'[n]
  BY <1>1 DEF ProcessMessage, PeersTyped
<1>2. CASE Arrives
  BY <1>1, <1>2 DEF Arrives, engineVars
<1>. QED
  BY <1>2, NextCases, SendsEffect, MovesEffect, NotesEffect DEF engineVars

(* The counter. *)

LEMMA NextSeqTyped ==
  ASSUME NEW s \in 0 .. SeqMod - 1
  PROVE  NextSeq(s) \in 0 .. SeqMod - 1
<1>1. s + 1 \in Nat /\ SeqMod \in Nat \ {0}
  BY EngineAssumption
<1>. QED
  BY <1>1, DivMod DEF NextSeq

LEMMA SendCounts ==
  ASSUME Counted, NEW n \in Nodes, NEW t \in Threads[n], NEW ids, NEW type, SendTo(n, t, ids, type)
  PROVE  Counted' /\ (\A m \in Nodes : made[m] <= made'[m]) /\ raced' = raced
<1> USE EngineAssumption
<1>1. /\ seq' = [seq EXCEPT ![n] = drawing[n][t].next] /\ made' = [made EXCEPT ![n] = @ + 1]
      /\ drawing' = [drawing EXCEPT ![n] = [drawing[n] EXCEPT ![t] = NotDrawing]]
      /\ drawing[n][t].pc = "store" /\ raced' = raced
  BY DEF SendTo
<1>2. /\ made[n] \in Nat /\ drawing[n][t] \in Draws /\ drawing[n][t].next \in 0 .. SeqMod - 1
      /\ drawing[n] \in [Threads[n] -> Draws]
  BY DEF Counted, Draws
<1>3. NotDrawing \in Draws /\ NotDrawing.pc = "idle"
  BY DEF NotDrawing, Draws
<1>4. [drawing[n] EXCEPT ![t] = NotDrawing] \in [Threads[n] -> Draws]
  BY <1>2, <1>3
<1>5. /\ drawing'[n] = [drawing[n] EXCEPT ![t] = NotDrawing] /\ DOMAIN drawing' = Nodes
      /\ \A m \in Nodes : m # n => drawing'[m] = drawing[m]
  BY <1>1 DEF Counted
<1>6. ASSUME ~ raced[n]
      PROVE  Undisturbed(n)'
  <2>1. Undisturbed(n)
    BY <1>6 DEF Counted
  <2>2. drawing[n][t].next = (seq[n] + 1) % SeqMod /\ seq[n] = made[n] % SeqMod
    BY <1>1, <2>1 DEF Undisturbed, NextSeq
  <2>3. drawing[n][t].next = (made[n] + 1) % SeqMod
    BY <1>2, <2>2, ModNext
  <2>4. seq'[n] = made'[n] % SeqMod
    BY <1>1, <2>3 DEF Counted
  <2>5. \A u \in Threads[n] : drawing'[n][u].pc = "idle"
    BY <1>1, <1>2, <1>3, <1>5, <2>1 DEF Undisturbed
  <2>. QED
    BY <2>4, <2>5 DEF Undisturbed
<1>7. ASSUME NEW m \in Nodes, m # n, ~ raced[m]
      PROVE  Undisturbed(m)'
  BY <1>1, <1>5, <1>7 DEF Counted, Undisturbed
<1>. QED
  BY <1>1, <1>2, <1>4, <1>5, <1>6, <1>7 DEF Counted

LEMMA TakeCounts ==
  ASSUME Counted, NEW n \in Nodes, NEW t \in Threads[n], TakeSeq(n, t)
  PROVE  Counted' /\ (\A m \in Nodes : raced[m] => raced'[m])
<1> DEFINE r == [pc |-> "load", seq |-> seq[n], next |-> 0]
<1>1. /\ drawing' = [drawing EXCEPT ![n] = [drawing[n] EXCEPT ![t] = r]]
      /\ raced' = [raced EXCEPT ![n] = @ \/ \E u \in Threads[n] : drawing[n][u].pc # "idle"]
      /\ UNCHANGED << seq, made >>
  BY DEF TakeSeq
<1>2. r \in Draws /\ r.pc = "load" /\ r.seq = seq[n]
  BY EngineAssumption DEF Counted, Draws
<1> HIDE DEF r
<1>3. drawing[n] \in [Threads[n] -> Draws]
  BY DEF Counted
<1>4. /\ drawing'[n] = [drawing[n] EXCEPT ![t] = r] /\ DOMAIN drawing' = Nodes
      /\ \A m \in Nodes : m # n => drawing'[m] = drawing[m]
  BY <1>1 DEF Counted
<1>5. [drawing[n] EXCEPT ![t] = r] \in [Threads[n] -> Draws]
  BY <1>2, <1>3
<1>6. /\ raced' \in [Nodes -> BOOLEAN]
      /\ \A m \in Nodes : raced[m] => raced'[m]
      /\ ~ raced'[n] => \A u \in Threads[n] : drawing[n][u].pc = "idle"
  BY <1>1 DEF Counted
<1>7. ASSUME NEW m \in Nodes, ~ raced'[m]
      PROVE  Undisturbed(m)'
  <2>1. Undisturbed(m)
    BY <1>6, <1>7 DEF Counted
  <2>2. CASE m = n
    <3>1. /\ drawing'[n][t] = r
          /\ \A u \in Threads[n] : u # t => drawing'[n][u].pc = "idle"
      BY <1>3, <1>4, <1>6, <1>7, <2>2
    <3>. QED
      BY <1>1, <1>2, <2>1, <2>2, <3>1 DEF Undisturbed
  <2>3. CASE m # n
    BY <1>1, <1>4, <2>1, <2>3 DEF Undisturbed
  <2>. QED
    BY <2>2, <2>3
<1>. QED
  BY <1>1, <1>4, <1>5, <1>6, <1>7 DEF Counted

LEMMA LoadCounts ==
  ASSUME Counted, NEW n \in Nodes, NEW t \in Threads[n], LoadSeq(n, t)
  PROVE  Counted' /\ raced' = raced
<1> DEFINE r == [drawing[n][t] EXCEPT !.pc = "store", !.next = NextSeq(seq[n])]
<1>1. drawing[n] \in [Threads[n] -> Draws] /\ drawing[n][t] \in Draws /\ DOMAIN drawing = Nodes
  BY DEF Counted
<1>2. /\ drawing' = [drawing EXCEPT ![n] = [drawing[n] EXCEPT ![t] = r]]
      /\ drawing[n][t].pc = "load" /\ UNCHANGED << seq, made, raced >>
  BY <1>1 DEF LoadSeq
<1>3. r \in Draws /\ r.pc = "store" /\ r.seq = drawing[n][t].seq /\ r.next = NextSeq(seq[n])
  BY <1>1, NextSeqTyped DEF Counted, Draws
<1> HIDE DEF r
<1>4. /\ drawing'[n] = [drawing[n] EXCEPT ![t] = r] /\ DOMAIN drawing' = Nodes
      /\ \A m \in Nodes : m # n => drawing'[m] = drawing[m]
  BY <1>1, <1>2
<1>5. [drawing[n] EXCEPT ![t] = r] \in [Threads[n] -> Draws]
  BY <1>1, <1>3
<1>6. ASSUME NEW m \in Nodes, ~ raced[m]
      PROVE  Undisturbed(m)'
  <2>1. Undisturbed(m)
    BY <1>6 DEF Counted
  <2>2. CASE m = n
    <3>1. /\ drawing'[n][t] = r
          /\ \A u \in Threads[n] : u # t => drawing'[n][u] = drawing[n][u]
      BY <1>1, <1>4
    <3>2. /\ drawing[n][t].seq = seq[n]
          /\ \A u \in Threads[n] : u # t => drawing[n][u].pc = "idle"
      BY <1>2, <2>1, <2>2 DEF Undisturbed
    <3>. QED
      BY <1>2, <1>3, <2>1, <2>2, <3>1, <3>2 DEF Undisturbed
  <2>3. CASE m # n
    BY <1>2, <1>4, <2>1, <2>3 DEF Undisturbed
  <2>. QED
    BY <2>2, <2>3
<1>. QED
  BY <1>2, <1>4, <1>5, <1>6 DEF Counted

LEMMA CountedKept ==
  ASSUME Counted, PeersTyped, [Next]_vars
  PROVE  Counted' /\ (\A n \in Nodes : made[n] <= made'[n] /\ (raced[n] => raced'[n]))
<1>1. CASE UNCHANGED counterVars
  BY <1>1 DEF Counted, Undisturbed, counterVars
<1>2. CASE \E n \in Nodes : \E t \in Threads[n] : \E type, ids : SendTo(n, t, ids, type)
  BY <1>2, SendCounts
<1>3. CASE Sends
  BY <1>1, <1>2, <1>3 DEF Sends, Request, Punch, engineVars
<1>4. CASE \E n \in Nodes : \E t \in Threads[n] : TakeSeq(n, t) \/ LoadSeq(n, t)
  <2>1. made' = made
    BY <1>4 DEF TakeSeq, LoadSeq
  <2>. QED
    BY <1>4, <2>1, TakeCounts, LoadCounts DEF Counted
<1>5. CASE Notes
  BY <1>1, <1>4, <1>5 DEF Notes, AddPeer, ConnectToPeer, RegisterHandler, FinishPunch
<1>. QED
  BY <1>1, <1>3, <1>5, NextCases, MovesEffect, ArrivesEffect, RestartEffect DEF engineVars

LEMMA NewMessageMade ==
  ASSUME Counted, NEW n \in Nodes, NEW t \in Threads[n], NEW type \in Types, NEW ids,
         SendTo(n, t, ids, type), NEW m, m = NewMessage(n, t, type)
  PROVE  MadeBefore(m)' /\ m.by = n
<1>1. made[n] \in Nat /\ drawing[n][t] \in Draws /\ (~ raced[n] => Undisturbed(n))
  BY DEF Counted
<1>2. made'[n] = made[n] + 1 /\ raced' = raced /\ drawing[n][t].pc = "store"
  BY DEF SendTo, Counted
<1>3. m = [by |-> n, type |-> type, seq |-> drawing[n][t].seq, no |-> made[n] + 1]
  BY DEF NewMessage
<1>4. m \in Made /\ m.by = n /\ m.seq = drawing[n][t].seq /\ m.no = made[n] + 1
  BY <1>1, <1>3 DEF Made, Draws
<1>5. (made[n] + 1) - 1 = made[n]
  BY <1>1
<1>6. ~ raced[n] => drawing[n][t].seq = made[n] % SeqMod
  BY <1>1, <1>2 DEF Undisturbed
<1>. QED
  BY <1>1, <1>2, <1>4, <1>5, <1>6 DEF MadeBefore

LEMMA MadeBeforeKept ==
  ASSUME Counted, PeersTyped, [Next]_vars, NEW m, MadeBefore(m)
  PROVE  MadeBefore(m)'
  BY CountedKept DEF MadeBefore, Made, Counted

(* The engines' peers and hole punches. *)

LEMMA PeerAdded ==
  ASSUME Placed, PeersTyped, NEW n \in Nodes, NEW id \in Names,
         NEW a \in (IF id \in Addresses THEN {id} ELSE homes[id]), AddPeer(n, id, a)
  PROVE  PeersTyped'
<1> DEFINE book == [i \in DOMAIN known[n] \cup {id} |-> IF i = id THEN a ELSE known[n][i]]
<1>1. a \in Addresses /\ (id \in Addresses => a = id)
  BY NamesAssumption DEF Placed
<1>2. PICK ids \in SUBSET Names : known[n] \in [ids -> Addresses]
  BY DEF PeersTyped, Books
<1>3. book \in [ids \cup {id} -> Addresses]
  BY <1>1, <1>2
<1>4. book \in Books
  <2>1. ids \cup {id} \in SUBSET Names
    OBVIOUS
  <2>. QED
    BY <1>3, <2>1 DEF Books
<1>5. known' = [known EXCEPT ![n] = book] /\ UNCHANGED << direct, relayed, pending >>
  BY DEF AddPeer
<1>6. \A i \in DOMAIN book \cap Addresses : book[i] = i
  BY <1>1 DEF PeersTyped
<1> HIDE DEF book
<1>. QED
  BY <1>4, <1>5, <1>6 DEF PeersTyped

LEMMA PeersTypedKept ==
  ASSUME Placed, PeersTyped, PunchingTyped, InFlight, [Next]_vars
  PROVE  PeersTyped'
<1>1. CASE UNCHANGED << known, direct, relayed, pending >>
  BY <1>1 DEF PeersTyped
<1>2. ASSUME NEW n \in Nodes, NEW t \in Threads[n], NEW ids \in SUBSET (Names \cup Addresses), NEW type,
             SendTo(n, t, ids, type)
      PROVE  PeersTyped'
  BY <1>2 DEF SendTo, PeersTyped
<1>3. CASE Sends
  BY <1>1, <1>2, <1>3 DEF Sends, Request, Punch, engineVars
<1>4. ASSUME NEW n \in Nodes, FinishPunch(n)
      PROVE  PeersTyped'
  BY <1>4 DEF FinishPunch, PeersTyped, PunchingTyped, PunchRecords
<1>5. CASE Notes
  BY <1>1, <1>4, <1>5, PeerAdded DEF Notes, ConnectToPeer, RegisterHandler, TakeSeq, LoadSeq
<1>6. ASSUME NEW n \in Nodes, NEW d \in net, ProcessMessage(n, d)
      PROVE  PeersTyped'
  <2>1. CASE d.kind = "punch"
    <3>1. d.from \in Addresses
      BY <2>1 DEF InFlight, Datagrams, Requests, PunchDatagrams, Frames, IdsFirst, Relayed, Errors
    <3>2. direct' = [direct EXCEPT ![n] = @ \cup {d.from}] /\ UNCHANGED << known, relayed, pending >>
      BY <1>6, <2>1 DEF ProcessMessage, PeersByPunch
    <3>. QED
      BY <3>1, <3>2 DEF PeersTyped
  <2>2. CASE d.kind # "punch"
    BY <1>1, <1>6, <2>2 DEF ProcessMessage
  <2>. QED
    BY <2>1, <2>2
<1>7. CASE Arrives
  BY <1>1, <1>6, <1>7 DEF Arrives, engineVars
<1>. QED
  BY <1>1, <1>3, <1>5, <1>7, NextCases, MovesEffect DEF engineVars

LEMMA PunchStarted ==
  ASSUME PeersTyped, PunchingTyped, NEW n \in Nodes, NEW id \in Names, ConnectToPeer(n, id)
  PROVE  PunchingTyped'
<1> DEFINE p == [id |-> id, to |-> known[n][id], left |-> Punches]
<1>1. known[n][id] \in Addresses
  BY DEF PeersTyped, Books, ConnectToPeer
<1>2. p \in PunchRecords
  BY <1>1, EngineAssumption DEF PunchRecords
<1>3. punching' = [punching EXCEPT ![n] = {p}] /\ place' = place /\ Running(n)
  BY DEF ConnectToPeer, networkVars
<1> HIDE DEF p
<1>. QED
  BY <1>2, <1>3 DEF PunchingTyped, PunchRecords, Running

LEMMA PunchEffect ==
  ASSUME PunchingTyped, NEW n \in Nodes, NEW p \in punching[n], p.left > 0,
         punching' = [punching EXCEPT ![n] = {[p EXCEPT !.left = @ - 1]}], place' = place
  PROVE  PunchingTyped'
<1> DEFINE q == [p EXCEPT !.left = @ - 1]
<1>1. p \in PunchRecords /\ Running(n)
  BY DEF PunchingTyped, PunchRecords
<1>2. q \in PunchRecords
  BY <1>1, EngineAssumption DEF PunchRecords
<1> HIDE DEF q
<1>3. punching' = [punching EXCEPT ![n] = {q}]
  BY DEF q
<1>. QED
  BY <1>1, <1>2, <1>3 DEF PunchingTyped, PunchRecords, Running

LEMMA PunchingTypedKept ==
  ASSUME Placed, PeersTyped, PunchingTyped, [Next]_vars
  PROVE  PunchingTyped'
<1>1. CASE UNCHANGED << punching, place >>
  BY <1>1 DEF PunchingTyped, Running
<1>2. ASSUME NEW n \in Nodes, Punch(n)
      PROVE  PunchingTyped'
  BY <1>2, PunchEffect DEF Punch, Transmit, Quiet
<1>3. CASE Sends
  BY <1>1, <1>2, <1>3, SendsEffect DEF Sends, SendTo, Request, engineVars
<1>4. ASSUME NEW n \in Nodes, FinishPunch(n)
      PROVE  PunchingTyped'
  <2>1. punching' = [punching EXCEPT ![n] = {}] /\ place' = place
    BY <1>4 DEF FinishPunch, networkVars
  <2>. QED
    BY <2>1 DEF PunchingTyped, Running
<1>5. CASE Notes
  BY <1>1, <1>4, <1>5, PunchStarted DEF Notes, AddPeer, RegisterHandler, TakeSeq, LoadSeq, networkVars
<1>6. ASSUME NEW n \in Nodes, StopEngine(n)
      PROVE  PunchingTyped'
  <2>1. punching' = [punching EXCEPT ![n] = {}] /\ place' = [place EXCEPT ![n] = Nowhere]
    BY <1>6 DEF StopEngine
  <2>. QED
    BY <2>1 DEF Placed, PunchingTyped, Running
<1>7. ASSUME NEW p \in Programs, NEW a \in Addresses, MoveTo(p, a), punching' = punching
      PROVE  PunchingTyped'
  <2>1. place' = [place EXCEPT ![p] = a] /\ a # Nowhere
    BY <1>7, Moved, AddressAssumption
  <2>2. \A n \in Nodes : Running(n) => Running(n)'
    BY <2>1 DEF Placed, Running, Programs
  <2>. QED
    BY <1>7, <2>2 DEF PunchingTyped
<1>8. CASE Moves
  BY <1>6, <1>7, <1>8 DEF Moves, StartEngine, Rebind, Programs
<1>. QED
  BY <1>1, <1>3, <1>5, <1>8, NextCases, ArrivesEffect, RestartEffect DEF networkVars, engineVars

(* What is in flight. *)

LEMMA Kinds ==
  ASSUME NEW d \in Datagrams
  PROVE  /\ d.kind \in {"connect", "disconnect", "forward", "punch", "frame", "idFirst", "forwarded", "error"}
         /\ d.kind \in {"connect", "disconnect", "forward"} => d \in Requests
         /\ d.kind = "punch" => d \in PunchDatagrams
         /\ d.kind = "frame" => d \in Frames
         /\ d.kind = "idFirst" => d \in IdsFirst
         /\ d.kind = "forwarded" => d \in Relayed
         /\ d.kind = "error" => d \in Errors
  BY DEF Datagrams, Requests, PunchDatagrams, Frames, IdsFirst, Relayed, Errors

\* Only the requests of its clients have one of the relay's opcodes.
LEMMA OpcodeKind ==
  ASSUME NEW d \in Datagrams, d.to = RelayAt
  PROVE  /\ Opcode(d) = 1 => d.kind = "connect"
         /\ Opcode(d) = 2 => d.kind = "disconnect"
         /\ Opcode(d) = 3 => d.kind = "forward"
<1>1. d.kind \in {"connect", "disconnect", "forward", "idFirst"}
  BY Kinds, AddressAssumption DEF PunchDatagrams, Frames, Relayed, Errors
<1>2. CASE d.kind = "idFirst"
  <2>1. IdLength[d.id] \in 1 .. 255
    BY <1>2, Kinds, IdAssumption, NamesAssumption DEF IdsFirst
  <2>2. IdLength[d.id] \div 256 = 0
    BY <2>1
  <2>. QED
    BY <1>2, <2>2 DEF Opcode
<1>. QED
  BY <1>1, <1>2 DEF Opcode

LEMMA SoundKept ==
  ASSUME Placed, HomesLeft, PeersTyped, Counted, [Next]_vars, NEW d \in Datagrams, Sound(d)
  PROVE  Sound(d)'
<1>1. d.kind = "connect" => d.from \in homes'[d.id]
  BY HomesGrow, Kinds DEF Sound, Requests, Programs
<1>2. d.kind = "punch" => Lived(d.from)' /\ (d.from \notin left' => << d.from, d.to >> \in opened')
  BY LivedKept, OpeningKept, HomesLeftKept DEF Sound
<1>3. d.kind \in {"frame", "idFirst"} => MadeBefore(d.message)'
  BY MadeBeforeKept DEF Sound
<1>5. d.kind = "frame" => d.to \in direct'[d.message.by]
  BY DirectGrows, Kinds DEF Sound, Frames, Made
<1>4. d.kind = "forwarded" => d.to \in homes'[d.id] /\ d.via \in homes'[d.sender]
  BY HomesGrow, Kinds DEF Sound, Relayed, Programs
<1>. QED
  BY <1>1, <1>2, <1>3, <1>4, <1>5 DEF Sound

LEMMA PackedSound ==
  ASSUME Placed, PeersTyped, Counted, NEW n \in Nodes, NEW t \in Threads[n], NEW type \in Types,
         NEW ids \in SUBSET (Names \cup Addresses), SendTo(n, t, ids, type), Running(n),
         NEW id \in ids, NEW m, m = NewMessage(n, t, type), NEW d, d = Packed(n, id, m)
  PROVE  d \in Datagrams /\ Sound(d)'
<1>1. MadeBefore(m)' /\ m.by = n
  BY NewMessageMade
<1>2. m \in Made
  BY <1>1 DEF MadeBefore
<1>3. place[n] \in Addresses
  BY DEF Running, Placed, Programs
<1>4. CASE GoesStraight(n, id)
  <2>1. d = [kind |-> "frame", from |-> place[n], to |-> known[n][id], message |-> m]
    BY <1>4 DEF Packed
  <2>2. known[n][id] \in Addresses
    BY <1>4 DEF GoesStraight, PeersTyped, Books
  <2>3. known[n][id] \in direct'[n]
    BY <1>4 DEF GoesStraight, PeersTyped, SendTo
  <2>. QED
    BY <1>1, <1>2, <1>3, <2>1, <2>2, <2>3 DEF Datagrams, Frames, Sound
<1>5. CASE ~ GoesStraight(n, id)
  <2>1. d = [kind |-> "idFirst", from |-> place[n], to |-> RelayAt, id |-> id, message |-> m]
    BY <1>5 DEF Packed
  <2>. QED
    BY <1>1, <1>2, <1>3, <2>1 DEF Datagrams, IdsFirst, Sound
<1>. QED
  BY <1>4, <1>5

LEMMA SentSound ==
  ASSUME Placed, PeersTyped, PunchingTyped, Counted, InFlight, Sends, NEW d \in net', d \notin net
  PROVE  d \in Datagrams /\ Sound(d)'
<1>1. ASSUME NEW n \in Nodes, NEW t \in Threads[n], NEW type \in Types,
             NEW ids \in SUBSET (Names \cup Addresses), SendTo(n, t, ids, type)
      PROVE  d \in Datagrams /\ Sound(d)'
  <2>1. PICK id \in ids : Running(n) /\ d = Packed(n, id, NewMessage(n, t, type))
    BY <1>1 DEF SendTo, Transmit
  <2>2. PICK m : m = NewMessage(n, t, type)
    OBVIOUS
  <2>. QED
    BY <1>1, <2>1, <2>2, PackedSound
<1>2. ASSUME NEW c \in Clients, NEW id \in Clients, NEW kind \in {"connect", "disconnect", "forward"},
             Request(c, kind, id), kind = "connect" => id = c
      PROVE  d \in Datagrams /\ Sound(d)'
  <2>1. d = [kind |-> kind, from |-> place[c], to |-> RelayAt, id |-> id] /\ homes' = homes
    BY <1>2 DEF Request, Transmit, Quiet
  <2>2. place[c] \in homes[c] /\ place[c] \in Addresses
    BY DEF Placed, Programs
  <2>. QED
    BY <1>2, <2>1, <2>2 DEF Datagrams, Requests, Sound
<1>3. ASSUME NEW n \in Nodes, Punch(n)
      PROVE  d \in Datagrams /\ Sound(d)'
  <2>1. PICK p \in punching[n] :
           /\ p.left > 0 /\ d = [kind |-> "punch", from |-> place[n], to |-> p.to, no |-> p.left]
           /\ << d.from, d.to >> \in opened' /\ homes' = homes
    BY <1>3 DEF Punch, Transmit, Quiet
  <2>2. p \in PunchRecords /\ place[n] \in Addresses /\ place[n] \in homes[n]
    BY DEF PunchingTyped, Placed, Running, Programs
  <2>3. p.to \in Addresses /\ p.left \in 1 .. Punches
    BY <2>1, <2>2, EngineAssumption DEF PunchRecords
  <2>. QED
    BY <2>1, <2>2, <2>3 DEF Datagrams, PunchDatagrams, Sound, Lived, Programs
<1>. QED
  BY <1>1, <1>2, <1>3 DEF Sends

LEMMA RelaySound ==
  ASSUME Placed, InFlight, RelayHomes, NEW e \in net, RelayHandles(e), NEW d \in net', d \notin net
  PROVE  d \in Datagrams /\ Sound(d)'
<1>1. Opcode(e) = 3 /\ HandleForward(e)
  BY DEF RelayHandles, HandleConnect, HandleDisconnect, Arrive
<1>2. e \in Requests
  BY <1>1, OpcodeKind, Kinds DEF InFlight, RelayHandles
<1>3. homes' = homes /\ \A c \in Clients : homes[c] \subseteq Addresses
  BY <1>1 DEF HandleForward, Arrive, Quiet, Placed, Programs
<1>4. e.from \in DOMAIN reverse
  BY <1>1 DEF HandleForward, Arrive
<1>5. CASE e.id \in DOMAIN clients
  <2>1. d = [kind |-> "forwarded", from |-> RelayAt, to |-> clients[e.id],
             sender |-> reverse[e.from], id |-> e.id, via |-> e.from]
    BY <1>1, <1>4, <1>5 DEF HandleForward, Arrive, Forwarded
  <2>2. e.id \in Clients /\ clients[e.id] \in homes[e.id] /\ reverse[e.from] \in Clients /\ e.from \in homes[reverse[e.from]]
    BY <1>4, <1>5 DEF RelayHomes
  <2>3. d \in Relayed
    BY <1>3, <2>1, <2>2 DEF Relayed
  <2>. QED
    BY <1>3, <2>1, <2>2, <2>3 DEF Datagrams, Sound
<1>6. CASE e.id \notin DOMAIN clients
  <2>1. d = [kind |-> "error", from |-> RelayAt, to |-> e.from, id |-> e.id]
    BY <1>1, <1>4, <1>6 DEF HandleForward, Arrive, NotConnected
  <2>. QED
    BY <1>2, <2>1 DEF Requests, Errors, Datagrams, Sound
<1>. QED
  BY <1>5, <1>6

LEMMA InFlightKept ==
  ASSUME Placed, HomesLeft, PeersTyped, PunchingTyped, Counted, InFlight, RelayHomes, [Next]_vars
  PROVE  InFlight'
<1>1. ASSUME NEW d \in net'
      PROVE  d \in Datagrams /\ Sound(d)'
  <2>1. CASE d \in net
    BY <2>1, SoundKept DEF InFlight
  <2>2. CASE d \notin net
    <3>1. CASE Sends
      BY <2>2, <3>1, SentSound
    <3>2. CASE \E e \in net : RelayHandles(e)
      BY <2>2, <3>2, RelaySound
    <3>. QED
      BY <2>2, <3>1, <3>2, NextCases, MovesEffect, NotesEffect, RestartEffect
         DEF Arrives, ProcessMessage, Vanish, Arrive, networkVars
  <2>. QED
    BY <2>1, <2>2
<1>2. net' \subseteq Datagrams
  BY <1>1
<1>. QED
  BY <1>1, <1>2 DEF InFlight

(* The relay, the direct peers and the handlers. *)

LEMMA RelayHomesKept ==
  ASSUME Placed, PeersTyped, InFlight, RelayHomes, [Next]_vars
  PROVE  RelayHomes'
<1>1. CASE UNCHANGED << clients, reverse >>
  BY <1>1, HomesGrow DEF RelayHomes, Programs
<1>2. ASSUME NEW d \in net, RelayHandles(d), UNCHANGED engineVars
      PROVE  RelayHomes'
  <2>1. CASE Opcode(d) = 1 /\ HandleConnect(d)
    <3>1. d.id \in Clients /\ d.from \in homes[d.id] /\ d.from \in Addresses /\ homes' = homes
      BY <1>2, <2>1, OpcodeKind, Kinds DEF InFlight, Sound, RelayHandles, Requests, HandleConnect, Arrive, Quiet
    <3>2. /\ DOMAIN clients' = DOMAIN clients \cup {d.id} /\ clients'[d.id] = d.from
          /\ \A x \in DOMAIN clients : x # d.id => clients'[x] = clients[x]
      BY <2>1 DEF HandleConnect, With
    <3>3. /\ DOMAIN reverse' = DOMAIN reverse \cup {d.from} /\ reverse'[d.from] = d.id
          /\ \A x \in DOMAIN reverse : x # d.from => reverse'[x] = reverse[x]
      BY <2>1 DEF HandleConnect, With
    <3>. QED
      BY <3>1, <3>2, <3>3 DEF RelayHomes
  <2>2. CASE HandleDisconnect(d)
    <3>1. /\ DOMAIN reverse' \subseteq DOMAIN reverse
          /\ \A x \in DOMAIN reverse' : reverse'[x] = reverse[x]
      BY <2>2 DEF HandleDisconnect, Without, Restrict
    <3>2. /\ DOMAIN clients' \subseteq DOMAIN clients
          /\ \A x \in DOMAIN clients' : clients'[x] = clients[x]
      BY <2>2 DEF HandleDisconnect, Without, Restrict
    <3>3. homes' = homes
      BY <2>2 DEF HandleDisconnect, Arrive, Quiet
    <3>. QED
      BY <3>1, <3>2, <3>3 DEF RelayHomes
  <2>. QED
    BY <1>1, <1>2, <2>1, <2>2 DEF RelayHandles, HandleForward, relayVars
<1>3. CASE RelayRestart
  <2>1. DOMAIN clients' = {} /\ DOMAIN reverse' = {}
    BY <1>3 DEF RelayRestart
  <2>. QED
    BY <2>1 DEF RelayHomes
<1>. QED
  BY <1>1, <1>2, <1>3, NextCases DEF Arrives, ProcessMessage, Vanish, engineVars, relayVars, Next, vars

LEMMA DirectLivedKept ==
  ASSUME Placed, PeersTyped, InFlight, DirectLived, [Next]_vars
  PROVE  DirectLived'
<1>1. ASSUME NEW n \in Nodes, NEW a \in direct[n]
      PROVE  Lived(a)'
  BY LivedKept DEF DirectLived
<1>2. ASSUME NEW n \in Nodes, NEW d \in net, ProcessMessage(n, d), d.kind = "punch"
      PROVE  DirectLived'
  <2>1. direct' = [direct EXCEPT ![n] = @ \cup {d.from}]
    BY <1>2 DEF ProcessMessage, PeersByPunch
  <2>2. Lived(d.from)'
    BY <1>2, LivedKept DEF InFlight, Sound
  <2>. QED
    BY <1>1, <2>1, <2>2 DEF DirectLived, PeersTyped
<1>3. CASE direct' = direct
  BY <1>1, <1>3 DEF DirectLived
<1>4. CASE Arrives
  BY <1>2, <1>3, <1>4 DEF Arrives, ProcessMessage, engineVars
<1>. QED
  BY <1>3, <1>4, NextCases, SendsEffect, MovesEffect, NotesEffect DEF engineVars

\* A node that has left no address of its own has not moved.
LEMMA StayedThere ==
  ASSUME Placed, HomesLeft, PeersTyped, [Next]_vars, NEW n \in Nodes, homes'[n] \cap left' = {}
  PROVE  homes[n] \cap left = {} /\ place'[n] = place[n]
<1>1. homes[n] \subseteq homes'[n] /\ left \subseteq left' /\ HomesLeft'
  BY HomesGrow, HomesLeftKept DEF Programs
<1>2. homes[n] \cap left = {}
  BY <1>1
<1>3. homes[n] # {} /\ homes[n] \subseteq {place[n]} /\ homes'[n] \subseteq {place'[n]}
  BY <1>1, <1>2 DEF HomesLeft, Programs
<1>. QED
  BY <1>1, <1>2, <1>3

LEMMA DirectPeersKept ==
  ASSUME Placed, HomesLeft, PeersTyped, InFlight, DirectLived, DirectPeersLetIn, [Next]_vars
  PROVE  DirectPeersLetIn'
<1>1. ASSUME NEW n \in Nodes, homes'[n] \cap left' = {}, NEW a \in direct[n], a \notin left'
      PROVE  << a, place'[n] >> \in opened'
  <2>1. homes[n] \cap left = {} /\ place'[n] = place[n] /\ a \notin left
    BY <1>1, StayedThere, HomesLeftKept
  <2>2. << a, place[n] >> \in opened /\ Lived(a)
    BY <2>1 DEF DirectPeersLetIn, DirectLived
  <2>. QED
    BY <1>1, <2>1, <2>2, OpeningKept
<1>2. ASSUME NEW n \in Nodes, NEW d \in net, ProcessMessage(n, d), d.kind = "punch"
      PROVE  DirectPeersLetIn'
  <2>1. /\ direct' = [direct EXCEPT ![n] = @ \cup {d.from}]
        /\ UNCHANGED << place, homes, left, opened >> /\ d.to = place[n]
    BY <1>2, ArrivesEffect DEF Arrives, ProcessMessage, PeersByPunch
  <2>2. d.from \notin left => << d.from, place[n] >> \in opened
    BY <1>2, <2>1 DEF InFlight, Sound
  <2>. QED
    BY <2>1, <2>2 DEF DirectPeersLetIn, PeersTyped
<1>3. CASE direct' = direct
  BY <1>1, <1>3 DEF DirectPeersLetIn
<1>4. CASE Arrives
  BY <1>2, <1>3, <1>4 DEF Arrives, ProcessMessage, engineVars
<1>. QED
  BY <1>3, <1>4, NextCases, SendsEffect, MovesEffect, NotesEffect DEF engineVars

\* What is let in at a node and begins with the magic number is a message.
LEMMA DecodedKind ==
  ASSUME NEW d \in Datagrams, d.to \in Addresses, d.kind # "punch", NEW m \in Decoded(d)
  PROVE  d.kind = "frame" /\ m = d.message
<1>1. d.kind \in {"frame", "forwarded", "error"}
  BY Kinds, AddressAssumption DEF Requests, IdsFirst
<1>2. FirstWord(d) = 20035
  BY DEF Decoded, MAGIC_NUMBER
<1>3. CASE d.kind = "forwarded"
  <2>1. IdLength[d.sender] \in 1 .. 255
    BY <1>3, Kinds, IdAssumption DEF Relayed, Programs
  <2>2. FirstWord(d) = IdLength[d.sender]
    BY <1>3 DEF FirstWord
  <2>. QED
    BY <1>2, <2>1, <2>2
<1>4. CASE d.kind = "error"
  <2>1. IdLength[d.id] \in 1 .. 255
    BY <1>4, Kinds, IdAssumption DEF Errors, Programs
  <2>2. FirstWord(d) = 20 * 256 + IdLength[d.id] \div 256
    BY <1>4 DEF FirstWord
  <2>3. IdLength[d.id] \div 256 = 0
    BY <2>1
  <2>. QED
    BY <1>2, <2>2, <2>3
<1>. QED
  BY <1>1, <1>3, <1>4 DEF Decoded, MessageIn

LEMMA DecodedKept ==
  ASSUME Placed, PeersTyped, Counted, InFlight, DecodedMade, [Next]_vars
  PROVE  DecodedMade'
<1>1. ASSUME NEW n \in Nodes, NEW m \in decoded[n]
      PROVE  m \in Made /\ MadeBefore(m)' /\ direct'[m.by] \cap homes'[n] # {}
  <2>1. m \in Made /\ MadeBefore(m) /\ direct[m.by] \cap homes[n] # {}
    BY DEF DecodedMade, MadeBefore
  <2>2. direct[m.by] \subseteq direct'[m.by] /\ homes[n] \subseteq homes'[n]
    BY <2>1, DirectGrows, HomesGrow DEF Made, Programs
  <2>. QED
    BY <2>1, <2>2, MadeBeforeKept
<1>2. CASE decoded' = decoded
  BY <1>1, <1>2 DEF DecodedMade
<1>3. ASSUME NEW n \in Nodes, NEW d \in net, ProcessMessage(n, d), decoded' # decoded
      PROVE  DecodedMade'
  <2>1. d.kind # "punch" /\ d.to = place[n] /\ d \in Datagrams /\ Sound(d)
    BY <1>3 DEF ProcessMessage, InFlight
  <2>2. decoded' = [decoded EXCEPT ![n] = @ \cup Decoded(d)]
    BY <1>3, <2>1 DEF ProcessMessage, DecodedMade
  <2>3. place[n] \in homes[n] /\ place[n] \in Addresses
    BY <2>1, Kinds, AddressAssumption DEF Requests, Frames, IdsFirst, Relayed, Errors, Placed, Programs
  <2>4. ASSUME NEW m \in Decoded(d)
        PROVE  m \in Made /\ MadeBefore(m)' /\ direct'[m.by] \cap homes'[n] # {}
    <3>1. d.kind = "frame" /\ m = d.message
      BY <2>1, <2>3, <2>4, DecodedKind
    <3>2. MadeBefore(m) /\ m \in Made /\ place[n] \in direct[m.by]
      BY <2>1, <3>1 DEF Sound, MadeBefore
    <3>3. direct[m.by] \subseteq direct'[m.by] /\ homes[n] \subseteq homes'[n]
      BY <3>2, DirectGrows, HomesGrow DEF Made, Programs
    <3>. QED
      BY <2>3, <3>2, <3>3, MadeBeforeKept
  <2>5. decoded' \in [Nodes -> SUBSET Made]
    BY <2>2, <2>4 DEF DecodedMade
  <2>6. ASSUME NEW k \in Nodes, NEW m \in decoded'[k]
        PROVE  m \in decoded[k] \/ (k = n /\ m \in Decoded(d))
    BY <2>2, <2>6 DEF DecodedMade
  <2>. QED
    BY <1>1, <2>4, <2>5, <2>6 DEF DecodedMade
<1>4. CASE Arrives
  BY <1>2, <1>3, <1>4 DEF Arrives, engineVars
<1>. QED
  BY <1>2, <1>4, NextCases, SendsEffect, MovesEffect, NotesEffect DEF engineVars

\* Who moves closes the openings at his two addresses, and the punches from there
\* count no longer.
LEMMA PunchedOpenedMoved ==
  ASSUME Placed, PunchedOpened, Moves
  PROVE  PunchedOpened'
<1>1. ASSUME NEW n \in Nodes, StopEngine(n)
      PROVE  PunchedOpened'
  BY <1>1 DEF StopEngine, Forget, PunchedOpened
<1>2. ASSUME NEW p \in Programs, NEW c \in Addresses, MoveTo(p, c), NEW A, Forget(A),
             {place[p], c} \subseteq A \cup {Nowhere}
      PROVE  PunchedOpened'
  <2>1. punched' \subseteq punched /\ \A r \in punched' : r[1] \notin A
    BY <1>2 DEF Forget
  <2>2. ASSUME NEW r \in punched'
        PROVE  << r[1], r[2] >> \in opened'
    <3>1. r \in punched /\ r[1] \in Addresses /\ << r[1], r[2] >> \in opened
      BY <2>1 DEF PunchedOpened
    <3>2. r[1] \notin {place[p], c}
      BY <1>2, <2>1, <3>1, AddressAssumption
    <3>3. << r[1], r[2] >>[1] = r[1]
      OBVIOUS
    <3>. QED
      BY <1>2, <3>1, <3>2, <3>3 DEF MoveTo
  <2>. QED
    BY <2>1, <2>2 DEF PunchedOpened
<1>3. ASSUME NEW n \in Nodes, NEW a \in Addresses, StartEngine(n, a)
      PROVE  PunchedOpened'
  BY <1>2, <1>3 DEF StartEngine, Running, Programs
<1>4. ASSUME NEW p \in Programs, NEW a \in Addresses, Rebind(p, a)
      PROVE  PunchedOpened'
  BY <1>2, <1>4 DEF Rebind
<1>. QED
  BY <1>1, <1>3, <1>4 DEF Moves

LEMMA PunchedOpenedKept ==
  ASSUME Placed, PeersTyped, PunchingTyped, PunchedOpened, [Next]_vars
  PROVE  PunchedOpened'
<1>1. CASE punched' = punched /\ opened \subseteq opened'
  BY <1>1 DEF PunchedOpened
<1>2. ASSUME NEW n \in Nodes, Punch(n)
      PROVE  PunchedOpened'
  <2>1. PICK p \in punching[n] :
           /\ p.left > 0 /\ punched' = punched \cup {<< place[n], p.to, p.left >>}
           /\ << place[n], p.to >> \in opened' /\ opened \subseteq opened'
    BY <1>2 DEF Punch, Transmit
  <2>2. p \in PunchRecords /\ place[n] \in Addresses
    BY DEF PunchingTyped, Placed, Running, Programs
  <2>3. p.to \in Addresses /\ p.left \in 1 .. Punches
    BY <2>1, <2>2, EngineAssumption DEF PunchRecords
  <2>. QED
    BY <2>1, <2>2, <2>3 DEF PunchedOpened
<1>3. CASE Sends
  BY <1>1, <1>2, <1>3, SendsEffect DEF Sends, SendTo, Request, engineVars
<1>. QED
  BY <1>1, <1>3, NextCases, PunchedOpenedMoved, ArrivesEffect, NotesEffect DEF engineVars, networkVars, RelayRestart

(* Hole punching. *)

LEMMA GoneCard ==
  ASSUME NEW S \in SUBSET (1 .. Punches)
  PROVE  IsFiniteSet(S) /\ Cardinality(S) \in Nat
<1>1. IsFiniteSet(1 .. Punches)
  BY FS_Interval, EngineAssumption
<1>2. IsFiniteSet(S)
  BY <1>1, FS_Subset
<1>. QED
  BY <1>2, FS_CardinalityType

LEMMA GoneMonotone ==
  ASSUME NEW S \in SUBSET (1 .. Punches), NEW T \in SUBSET S
  PROVE  Cardinality(T) <= Cardinality(S)
  BY GoneCard, FS_Subset

LEMMA GoneOneMore ==
  ASSUME NEW S \in SUBSET (1 .. Punches), NEW k \in 1 .. Punches, NEW T \in SUBSET (S \cup {k})
  PROVE  Cardinality(T) <= Cardinality(S) + 1
<1>1. S \cup {k} \in SUBSET (1 .. Punches)
  OBVIOUS
<1>2. Cardinality(S \cup {k}) <= Cardinality(S) + 1
  BY GoneCard, FS_AddElement
<1>3. Cardinality(T) <= Cardinality(S \cup {k})
  BY <1>1, GoneMonotone
<1>. QED
  BY <1>1, <1>2, <1>3, GoneCard

LEMMA NoneGone ==
  ASSUME NEW a, NEW b, lost \in Nat, Gone(a, b) = {}
  PROVE  LostOneWay(a, b) /\ LostOneWay(b, a)
  BY FS_EmptySet DEF LostOneWay

\* No more is gone than before: LostOneWay stays.
LEMMA LostKept ==
  ASSUME NEW a, NEW b, LostOneWay(a, b), lost \in Nat, lost' = lost,
         Gone(a, b)' \subseteq Gone(a, b), Gone(b, a)' \subseteq Gone(b, a)
  PROVE  LostOneWay(a, b)'
<1> DEFINE S == Gone(a, b)
           T == Gone(b, a)
<1>1. S \in SUBSET (1 .. Punches) /\ T \in SUBSET (1 .. Punches)
  BY DEF Gone
<1>2. S' \in SUBSET S /\ T' \in SUBSET T
  OBVIOUS
<1>3. Cardinality(S) <= lost \/ Cardinality(T) <= lost
  BY DEF LostOneWay
<1> HIDE DEF S, T
<1>4. Cardinality(S') <= Cardinality(S) /\ Cardinality(T') <= Cardinality(T)
  BY <1>1, <1>2, GoneMonotone
<1>5. S' \in SUBSET (1 .. Punches) /\ T' \in SUBSET (1 .. Punches)
  BY <1>1, <1>2
<1>6. /\ Cardinality(S) \in Nat /\ Cardinality(T) \in Nat
      /\ Cardinality(S') \in Nat /\ Cardinality(T') \in Nat
  BY <1>1, <1>5, GoneCard
<1>7. Cardinality(S') <= lost' \/ Cardinality(T') <= lost'
  BY <1>3, <1>4, <1>6
<1>. QED
  BY <1>7 DEF S, T, LostOneWay

\* One punch is lost: the count of the lost grows with the gone.
LEMMA LostCounted ==
  ASSUME NEW a, NEW b, LostOneWay(a, b), lost \in Nat, lost' = lost + 1, NEW k \in 1 .. Punches,
         Gone(a, b)' \subseteq Gone(a, b) \cup {k}, Gone(b, a)' \subseteq Gone(b, a) \cup {k}
  PROVE  LostOneWay(a, b)'
<1> DEFINE S == Gone(a, b)
           T == Gone(b, a)
<1>1. S \in SUBSET (1 .. Punches) /\ T \in SUBSET (1 .. Punches)
  BY DEF Gone
<1>2. S' \in SUBSET (S \cup {k}) /\ T' \in SUBSET (T \cup {k})
  OBVIOUS
<1>3. Cardinality(S) <= lost \/ Cardinality(T) <= lost
  BY DEF LostOneWay
<1> HIDE DEF S, T
<1>4. Cardinality(S') <= Cardinality(S) + 1 /\ Cardinality(T') <= Cardinality(T) + 1
  BY <1>1, <1>2, GoneOneMore
<1>5. S' \in SUBSET (1 .. Punches) /\ T' \in SUBSET (1 .. Punches)
  BY <1>1, <1>2
<1>6. /\ Cardinality(S) \in Nat /\ Cardinality(T) \in Nat
      /\ Cardinality(S') \in Nat /\ Cardinality(T') \in Nat
  BY <1>1, <1>5, GoneCard
<1>7. Cardinality(S') <= lost' \/ Cardinality(T') <= lost'
  BY <1>3, <1>4, <1>6
<1>. QED
  BY <1>7 DEF S, T, LostOneWay

\* Two engines at a and b that have not let each other in.
Apart(n, m, a, b) ==
  /\ n # m /\ Running(n) /\ Running(m) /\ place[n] = a /\ place[m] = b
  /\ a \notin direct[m] /\ b \notin direct[n]

LEMMA HolesAre ==
  HolesOpen <=> /\ lost \in Nat
                /\ \A n, m \in Nodes : \A a, b : Apart(n, m, a, b) => LostOneWay(a, b)
  BY DEF HolesOpen, Apart

LEMMA SendsKeepGone ==
  ASSUME Sends, NEW a, NEW b
  PROVE  Gone(a, b)' \subseteq Gone(a, b)
<1>1. net \subseteq net'
  BY DEF Sends, SendTo, Request, Punch, Transmit
<1>2. CASE punched' = punched
  BY <1>1, <1>2 DEF Gone
<1>3. ASSUME NEW n \in Nodes, Punch(n)
      PROVE  Gone(a, b)' \subseteq Gone(a, b)
  <2>1. PICK p \in punching[n] :
           /\ punched' = punched \cup {<< place[n], p.to, p.left >>}
           /\ PunchOf(place[n], p.to, p.left) \in net'
    BY <1>3 DEF Punch, Transmit, PunchOf
  <2>. QED
    BY <1>1, <2>1 DEF Gone
<1>. QED
  BY <1>2, <1>3 DEF Sends, SendTo, Request, engineVars

Received(d) == (\E i \in Nodes : ProcessMessage(i, d)) \/ (RelayHandles(d) /\ UNCHANGED engineVars)

\* What is taken off the network by anyone but the punched one is no punch.
LEMMA ArrivalsKeepGone ==
  ASSUME Placed, PeersTyped, InFlight, NEW n \in Nodes, NEW m \in Nodes, NEW a, NEW b, Apart(n, m, a, b)',
         NEW d \in net, Received(d)
  PROVE  Gone(a, b)' \subseteq Gone(a, b) /\ Gone(b, a)' \subseteq Gone(b, a)
<1>1. place' = place /\ punched' = punched
  BY ArrivesEffect DEF Arrives, Received
<1>2. ASSUME NEW k \in 1 .. Punches, NEW x, NEW y, (x = a /\ y = b) \/ (x = b /\ y = a),
             PunchOf(x, y, k) \in net
      PROVE  PunchOf(x, y, k) \in net'
  <2> DEFINE e == PunchOf(x, y, k)
  <2>1. e.kind = "punch" /\ e.from = x /\ e.to = y
    BY DEF PunchOf
  <2>2. e \in net /\ e.to \in Addresses
    BY <1>2, <2>1, Kinds DEF InFlight, PunchDatagrams
  <2> HIDE DEF e
  <2>3. ASSUME RelayHandles(d)
        PROVE  e \in net'
    BY <2>2, <2>3, AddressAssumption DEF RelayHandles, HandleConnect, HandleDisconnect, HandleForward, Arrive
  <2>4. ASSUME NEW i \in Nodes, ProcessMessage(i, d)
        PROVE  e \in net'
    <3>1. CASE d = e
      <4>1. place[i] = y /\ direct' = [direct EXCEPT ![i] = @ \cup {x}]
        BY <2>1, <2>4, <3>1 DEF ProcessMessage, PeersByPunch
      <4>2. x \in direct'[i]
        BY <4>1 DEF PeersTyped
      <4>3. i = n \/ i = m
        BY <1>1, <1>2, <4>1 DEF Apart, Running, Placed, Programs
      <4>4. place[n] = a /\ place[m] = b /\ a # b
        BY <1>1 DEF Apart, Running, Placed, Programs
      <4>. QED
        BY <1>2, <4>1, <4>2, <4>3, <4>4 DEF Apart
    <3>2. CASE d # e
      BY <2>2, <2>4, <3>2 DEF ProcessMessage, Arrive
    <3>. QED
      BY <3>1, <3>2
  <2>. QED
    BY <2>3, <2>4 DEF Received, e
<1>3. Gone(a, b)' \subseteq Gone(a, b)
  <2>1. ASSUME NEW k \in 1 .. Punches, PunchOf(a, b, k) \in net
        PROVE  PunchOf(a, b, k) \in net'
    BY <1>2, <2>1
  <2>. QED
    BY <1>1, <2>1 DEF Gone
<1>4. Gone(b, a)' \subseteq Gone(b, a)
  <2>1. ASSUME NEW k \in 1 .. Punches, PunchOf(b, a, k) \in net
        PROVE  PunchOf(b, a, k) \in net'
    BY <1>2, <2>1
  <2>. QED
    BY <1>1, <2>1 DEF Gone
<1>. QED
  BY <1>3, <1>4

LEMMA VanishKeepsHoles ==
  ASSUME Placed, PunchedOpened, HolesOpen, InFlight, NEW d \in net, Vanish(d), UNCHANGED engineVars,
         NEW n \in Nodes, NEW m \in Nodes, NEW a, NEW b, Apart(n, m, a, b)
  PROVE  LostOneWay(a, b)'
<1>1. /\ net' = net \ {d} /\ place' = place /\ punched' = punched
      /\ lost \in Nat /\ lost' \in {lost, lost + 1}
  BY DEF Vanish, engineVars, HolesOpen
<1>2. d.no \in 1 .. Punches /\ d = PunchOf(d.from, d.to, d.no)
  BY Kinds DEF Vanish, InFlight, PunchDatagrams, PunchOf
<1>3. LostOneWay(a, b)
  BY HolesAre
<1>4. CASE lost' = lost + 1
  <2>1. /\ Gone(a, b)' \subseteq Gone(a, b) \cup {d.no}
        /\ Gone(b, a)' \subseteq Gone(b, a) \cup {d.no}
    BY <1>1, <1>2 DEF Gone, PunchOf
  <2>. QED
    BY <1>1, <1>2, <1>3, <1>4, <2>1, LostCounted
<1>5. CASE lost' = lost
  <2>0. d.kind = "punch" /\ (~ LetIn(d) \/ Free(d.to))
    BY <1>1, <1>5 DEF Vanish
  <2>1. CASE {d.from, d.to} # {a, b}
    <3>1. Gone(a, b)' \subseteq Gone(a, b) /\ Gone(b, a)' \subseteq Gone(b, a)
      BY <1>1, <2>1 DEF Gone, PunchOf
    <3>. QED
      BY <1>1, <1>3, <1>5, <3>1, LostKept
  <2>2. ASSUME NEW x, NEW y, (x = a /\ y = b) \/ (x = b /\ y = a), d.from = x, d.to = y
        PROVE  LostOneWay(x, y)'
    <3>1. ~ Free(y)
      BY <2>2 DEF Free, Apart, Programs
    <3>2. << y, x >> \notin opened
      BY <2>0, <2>2, <3>1 DEF LetIn
    <3>3. ASSUME NEW k, << y, x, k >> \in punched
          PROVE  FALSE
      <4>1. << y, x, k >>[1] = y /\ << y, x, k >>[2] = x
        OBVIOUS
      <4>. QED
        BY <3>2, <3>3, <4>1 DEF PunchedOpened
    <3>4. Gone(y, x)' = {}
      BY <1>1, <3>3 DEF Gone
    <3>5. Cardinality(Gone(y, x)') = 0 /\ lost' \in Nat
      BY <1>1, <3>4, FS_EmptySet
    <3>. QED
      BY <3>5 DEF LostOneWay
  <2>3. LostOneWay(b, a)' => LostOneWay(a, b)'
    BY DEF LostOneWay
  <2>4. CASE {d.from, d.to} = {a, b}
    <3>1. (d.from = a /\ d.to = b) \/ (d.from = b /\ d.to = a)
      BY <2>4
    <3>. QED
      BY <2>2, <2>3, <3>1
  <2>. QED
    BY <2>1, <2>4
<1>. QED
  BY <1>1, <1>4, <1>5

\* Nothing has been punched from or to the address somebody moves to.
LEMMA MoveKeepsHoles ==
  ASSUME Placed, HolesOpen, NEW p \in Programs, NEW c \in Addresses, MoveTo(p, c),
         UNCHANGED direct, punched' \subseteq punched,
         \A r \in punched' : r[1] # c /\ r[2] # c,
         NEW n \in Nodes, NEW m \in Nodes, NEW a, NEW b, Apart(n, m, a, b)'
  PROVE  LostOneWay(a, b)'
<1>1. /\ place' = [place EXCEPT ![p] = c] /\ net' = net
      /\ lost' = lost /\ lost \in Nat
  BY DEF MoveTo, HolesOpen
<1>2. CASE n = p \/ m = p
  <2>1. a = c \/ b = c
    BY <1>1, <1>2 DEF Apart, Placed, Programs
  <2>2. ASSUME NEW k, << a, b, k >> \in punched' \/ << b, a, k >> \in punched'
        PROVE  FALSE
    <3>1. /\ << a, b, k >>[1] = a /\ << a, b, k >>[2] = b
          /\ << b, a, k >>[1] = b /\ << b, a, k >>[2] = a
      OBVIOUS
    <3>. QED
      BY <2>1, <2>2, <3>1
  <2>3. Gone(a, b)' = {}
    BY <2>2 DEF Gone
  <2>4. Cardinality(Gone(a, b)') = 0 /\ lost' \in Nat
    BY <1>1, <2>3, FS_EmptySet
  <2>. QED
    BY <2>4 DEF LostOneWay
<1>3. CASE n # p /\ m # p
  <2>1. place'[n] = place[n] /\ place'[m] = place[m]
    BY <1>1, <1>3 DEF Placed, Programs
  <2>2. Apart(n, m, a, b)
    BY <2>1 DEF Apart, Running
  <2>3. LostOneWay(a, b)
    BY <2>2, HolesAre
  <2>4. Gone(a, b)' \subseteq Gone(a, b) /\ Gone(b, a)' \subseteq Gone(b, a)
    BY <1>1 DEF Gone
  <2>. QED
    BY <1>1, <2>3, <2>4, LostKept
<1>. QED
  BY <1>2, <1>3

LEMMA HolesOpenKept ==
  ASSUME Placed, PeersTyped, InFlight, PunchedOpened, HolesOpen, [Next]_vars
  PROVE  HolesOpen'
<1>1. lost' \in Nat
  BY NextCases, SendsEffect, MovesEffect, NotesEffect, RestartEffect
     DEF HolesOpen, Arrives, ProcessMessage, Vanish, RelayHandles, HandleConnect, HandleDisconnect, HandleForward,
         Arrive, Quiet, networkVars
<1>2. ASSUME NEW n \in Nodes, NEW m \in Nodes, NEW a, NEW b, Apart(n, m, a, b)'
      PROVE  LostOneWay(a, b)'
  <2>1. lost \in Nat
    BY DEF HolesOpen
  <2>2. ASSUME UNCHANGED << place, lost >>, \A i \in Nodes : direct[i] \subseteq direct'[i],
               Gone(a, b)' \subseteq Gone(a, b), Gone(b, a)' \subseteq Gone(b, a)
        PROVE  LostOneWay(a, b)'
    <3>1. Apart(n, m, a, b)
      BY <1>2, <2>2 DEF Apart, Running
    <3>. QED
      BY <2>1, <2>2, <3>1, HolesAre, LostKept
  <2>3. CASE UNCHANGED << networkVars, direct, punched >>
    BY <2>2, <2>3 DEF networkVars, Gone
  <2>4. CASE Sends
    BY <2>2, <2>4, SendsEffect, SendsKeepGone
  <2>5. CASE Arrives
    <3>1. \A i \in Nodes : direct[i] \subseteq direct'[i]
      BY <2>5 DEF Arrives, ProcessMessage, PeersTyped, engineVars
    <3>2. CASE \E d \in net : Vanish(d) /\ UNCHANGED engineVars
      <4>1. place' = place /\ direct' = direct
        BY <3>2 DEF Vanish, engineVars
      <4>2. Apart(n, m, a, b)
        BY <1>2, <4>1 DEF Apart, Running
      <4>. QED
        BY <3>2, <4>2, VanishKeepsHoles
    <3>3. ASSUME NEW d \in net, Received(d)
          PROVE  LostOneWay(a, b)'
      <4>1. UNCHANGED << place, lost >>
        BY <3>3 DEF Received, ProcessMessage, RelayHandles, HandleConnect, HandleDisconnect, HandleForward, Arrive, Quiet
      <4>2. Gone(a, b)' \subseteq Gone(a, b) /\ Gone(b, a)' \subseteq Gone(b, a)
        BY <1>2, <3>3, ArrivalsKeepGone
      <4>. QED
        BY <2>2, <3>1, <4>1, <4>2
    <3>. QED
      BY <2>5, <3>2, <3>3 DEF Arrives, Received
  <2>6. ASSUME NEW i \in Nodes, StopEngine(i)
        PROVE  LostOneWay(a, b)'
    <3>1. /\ place' = [place EXCEPT ![i] = Nowhere] /\ punched' \subseteq punched
          /\ UNCHANGED << net, lost, direct >>
      BY <2>6 DEF StopEngine, Forget
    <3>2. n # i /\ m # i
      BY <1>2, <3>1 DEF Apart, Running, Placed, Programs
    <3>3. Apart(n, m, a, b)
      BY <1>2, <3>1, <3>2 DEF Apart, Running, Placed, Programs
    <3>4. Gone(a, b)' \subseteq Gone(a, b) /\ Gone(b, a)' \subseteq Gone(b, a)
      BY <3>1 DEF Gone
    <3>. QED
      BY <2>1, <3>1, <3>3, <3>4, HolesAre, LostKept
  <2>7. ASSUME NEW p \in Programs, NEW c \in Addresses, MoveTo(p, c), UNCHANGED direct,
               \E A : c \in A /\ Forget(A)
        PROVE  LostOneWay(a, b)'
    <3>1. punched' \subseteq punched /\ \A r \in punched' : r[1] # c /\ r[2] # c
      BY <2>7 DEF Forget
    <3>. QED
      BY <1>2, <2>7, <3>1, MoveKeepsHoles
  <2>8. CASE Moves
    BY <2>6, <2>7, <2>8 DEF Moves, StartEngine, Rebind, Programs
  <2>. QED
    BY <2>3, <2>4, <2>5, <2>8, NextCases, NotesEffect, RestartEffect DEF engineVars
<1>. QED
  <2>1. (/\ lost \in Nat
         /\ \A n, m \in Nodes : \A a, b : Apart(n, m, a, b) => LostOneWay(a, b))'
    BY <1>1, <1>2
  <2>. QED
    BY <2>1, HolesAre, PTL

----------------------------------------------------------------------------
(* The invariant and what follows from it. *)

LEMMA InitInv == Init => Inv
<1> SUFFICES ASSUME Init
             PROVE  Inv
  OBVIOUS
<1> USE DEF Init, NetworkInit, RelayInit, EngineInit
<1>1. Placed
  BY LaunchAssumption, AddressAssumption, ProgramAssumption DEF Placed, Programs
<1>2. PeersTyped
  BY NamesAssumption DEF PeersTyped, Books
<1>3. PunchingTyped
  BY DEF PunchingTyped
<1>4. Counted
  <2>1. 0 % SeqMod = 0 /\ 0 \in 0 .. SeqMod - 1
    BY EngineAssumption
  <2>2. NotDrawing \in Draws
    BY <2>1 DEF NotDrawing, Draws
  <2>. QED
    BY <2>1, <2>2 DEF Counted, Undisturbed, NotDrawing
<1>5. InFlight /\ DirectLived /\ DirectPeersLetIn /\ DecodedMade /\ PunchedOpened /\ HomesLeft
  BY DEF InFlight, DirectLived, DirectPeersLetIn, DecodedMade, PunchedOpened, HomesLeft
<1>7. RelayHomes
  BY LaunchRelay, LaunchAssumption DEF RelayHomes, Programs
<1>6. HolesOpen
  <2>1. \A a, b : Gone(a, b) = {}
    BY DEF Gone
  <2>2. lost \in Nat
    OBVIOUS
  <2>3. \A a, b : LostOneWay(a, b)
    BY <2>1, <2>2, NoneGone
  <2>. QED
    BY <2>2, <2>3 DEF HolesOpen
<1>. QED
  BY <1>1, <1>2, <1>3, <1>4, <1>5, <1>6, <1>7 DEF Inv

(***************************************************************************)
(* What Inv says of the network and of the programs on it holds in every   *)
(* state that the engines, the relay, its clients and the network reach,   *)
(* however many datagrams are lost, doubled or late and whoever moves.     *)
(***************************************************************************)
THEOREM Invariant == Spec => []Inv
<1>1. Inv /\ [Next]_vars => Inv'
  <2> SUFFICES ASSUME Inv, [Next]_vars
               PROVE  Inv'
    OBVIOUS
  <2>1. Placed' /\ HomesLeft' /\ Counted'
    BY PlacedKept, HomesLeftKept, CountedKept DEF Inv
  <2>2. PeersTyped' /\ PunchingTyped'
    BY PeersTypedKept, PunchingTypedKept DEF Inv
  <2>3. InFlight' /\ RelayHomes'
    BY InFlightKept, RelayHomesKept DEF Inv
  <2>4. DirectLived' /\ DirectPeersLetIn' /\ DecodedMade'
    BY DirectLivedKept, DirectPeersKept, DecodedKept DEF Inv
  <2>5. PunchedOpened' /\ HolesOpen'
    BY PunchedOpenedKept, HolesOpenKept DEF Inv
  <2>. QED
    BY <2>1, <2>2, <2>3, <2>4, <2>5 DEF Inv
<1>. QED
  BY InitInv, <1>1, PTL DEF Spec

(***************************************************************************)
(* The type invariant. It needs most of Inv: that an address in            *)
(* _direct_peers or in the relay's maps is one at all follows from what is *)
(* in flight.                                                              *)
(***************************************************************************)
THEOREM TypeCorrect == Spec => []TypeOK
<1>1. Inv => TypeOK
  <2> SUFFICES ASSUME Inv
               PROVE  TypeOK
    OBVIOUS
  <2>1. ASSUME NEW n \in Nodes
        PROVE  Cardinality(punching[n]) <= 1
    <3>1. CASE punching[n] = {}
      BY <3>1, FS_EmptySet
    <3>2. CASE punching[n] # {}
      <4>1. PICK p \in punching[n] : TRUE
        BY <3>2
      <4>2. punching[n] = {p}
        BY <4>1 DEF Inv, PunchingTyped
      <4>3. Cardinality({p}) = 1
        BY FS_Singleton
      <4>. QED
        BY <4>2, <4>3
    <3>. QED
      BY <3>1, <3>2
  <2>2. \A n \in Nodes : DOMAIN known[n] \subseteq Names
    BY DEF Inv, PeersTyped, Books
  <2>3. ASSUME NEW n \in Nodes, NEW t \in Threads[n]
        PROVE  {drawing[n][t].seq, drawing[n][t].next} \subseteq 0 .. SeqMod - 1
    BY DEF Inv, Counted, Draws
  <2>. QED
    BY <2>1, <2>2, <2>3 DEF TypeOK, Inv, Placed, PeersTyped, Counted, RelayHomes
<1>. QED
  BY Invariant, <1>1, PTL

(***************************************************************************)
(* Whatever CONNECTs, DISCONNECTs and moves overtake each other, the relay *)
(* forwards to an address its recipient has had, and under the id of a     *)
(* client that has had the address it came from.                           *)
(***************************************************************************)
THEOREM AlwaysRelayedBetweenHomes == Spec => []RelayedBetweenHomes
<1>1. Inv => RelayedBetweenHomes
  BY DEF Inv, InFlight, Sound, RelayedBetweenHomes
<1>. QED
  BY Invariant, <1>1, PTL

(***************************************************************************)
(* A punch that _process_message takes for a direct peer has opened the    *)
(* way back, and the opening lasts while neither side leaves its address:  *)
(* a node that never has can send to each direct peer that is still where  *)
(* he was. (Of a node or a peer that has moved it says nothing.)           *)
(***************************************************************************)
THEOREM DirectPeersAlwaysLetIn == Spec => []DirectPeersLetIn
<1>1. Inv => DirectPeersLetIn
  BY DEF Inv
<1>. QED
  BY Invariant, <1>1, PTL

(***************************************************************************)
(* A handler that decodes what _process_message hands it gets only         *)
(* messages that went straight, from a node that has one of the handler's  *)
(* addresses as a direct peer. All else with a third byte that is a type   *)
(* fails the magic number, for ids of any length that the relay can send.  *)
(***************************************************************************)
THEOREM DecodedAlwaysWentStraight == Spec => []DecodedWentStraight
<1>1. Inv => DecodedWentStraight
  <2> SUFFICES ASSUME Inv, NEW n \in Nodes, NEW m \in decoded[n]
               PROVE  m.by \in Nodes /\ m.no \in 1 .. made[m.by] /\ direct[m.by] \cap homes[n] # {}
    BY DEF DecodedWentStraight
  <2>1. MadeBefore(m) /\ direct[m.by] \cap homes[n] # {}
    BY DEF Inv, DecodedMade
  <2>2. m.by \in Nodes /\ m.no \in Nat \ {0} /\ m.no <= made[m.by]
    BY <2>1 DEF MadeBefore, Made
  <2>3. made[m.by] \in Nat
    BY <2>2 DEF Inv, Counted
  <2>. QED
    BY <2>1, <2>2, <2>3
<1>. QED
  BY Invariant, <1>1, PTL

(***************************************************************************)
(* Of the messages in flight and decoded, two by one node with the same    *)
(* _seq_counter are a whole round of the counter apart, for a counter of   *)
(* any width and any number of threads, until two of the node's threads    *)
(* have been in _next_seq at the same time.                                *)
(***************************************************************************)
THEOREM SameSeqAlwaysFarApart == Spec => []SameSeqFarApart
<1>1. Inv => SameSeqFarApart
  <2> SUFFICES ASSUME Inv, NEW x \in Messages, NEW y \in Messages,
                      x.by = y.by, ~ raced[x.by], x.seq = y.seq, x.no < y.no
               PROVE  y.no - x.no >= SeqMod
    BY DEF SameSeqFarApart
  <2>1. ASSUME NEW m \in Messages
        PROVE  MadeBefore(m)
    <3> DEFINE sent == {d \in net : d.kind \in {"frame", "idFirst"}}
    <3>0. m \in UNION {decoded[n] : n \in Nodes} \/ m \in {d.message : d \in sent}
      BY DEF Messages
    <3>1. CASE m \in UNION {decoded[n] : n \in Nodes}
      BY <3>1 DEF Inv, DecodedMade
    <3>2. CASE m \in {d.message : d \in sent}
      BY <3>2 DEF Inv, InFlight, Sound
    <3>. QED
      BY <3>0, <3>1, <3>2
  <2>2. /\ x.no \in Nat \ {0} /\ x.seq = (x.no - 1) % SeqMod
        /\ y.no \in Nat \ {0} /\ y.seq = (y.no - 1) % SeqMod
    BY <2>1 DEF MadeBefore, Made
  <2>3. x.no - 1 \in Nat /\ y.no - 1 \in Nat /\ x.no - 1 < y.no - 1
    BY <2>2
  <2>4. (x.no - 1) % SeqMod = (y.no - 1) % SeqMod /\ SeqMod \in Nat \ {0}
    BY <2>2, EngineAssumption
  <2>5. (y.no - 1) - (x.no - 1) >= SeqMod
    BY <2>3, <2>4, ModSame
  <2>. QED
    BY <2>2, <2>4, <2>5
<1>. QED
  BY Invariant, <1>1, PTL

(***************************************************************************)
(* Two nodes that have sent each other all the punches of                  *)
(* initiate_hole_punch, of which fewer were lost than one hole punch       *)
(* sends, do not both miss the other: for any number of punches, of nodes  *)
(* and of hole punches that overlap or are repeated.                       *)
(***************************************************************************)
THEOREM HolePunchAlwaysSucceeds == Spec => []HolePunchSucceeds
<1>1. Inv => HolePunchSucceeds
  <2> SUFFICES ASSUME Inv, NEW n \in Nodes, NEW m \in Nodes, NEW a, NEW b, a = place[n], b = place[m],
                      n # m, lost < Punches,
                      \A k \in 1 .. Punches : {<< a, b, k >>, << b, a, k >>} \subseteq punched,
                      \A d \in net : d.kind = "punch" => {d.from, d.to} # {a, b},
                      b \notin direct[n], a \notin direct[m]
               PROVE  FALSE
    BY DEF HolePunchSucceeds
  <2>1. Gone(a, b) = 1 .. Punches /\ Gone(b, a) = 1 .. Punches
    <3>1. \A k : PunchOf(a, b, k) \notin net /\ PunchOf(b, a, k) \notin net
      BY DEF PunchOf
    <3>. QED
      BY <3>1 DEF Gone
  <2>2. Running(n) /\ Running(m)
    <3>1. 1 \in 1 .. Punches
      BY EngineAssumption
    <3>2. << a, b, 1 >> \in punched
      BY <3>1
    <3>3. a \in Addresses /\ b \in Addresses
      BY <3>2 DEF Inv, PunchedOpened
    <3>. QED
      BY <3>3, AddressAssumption DEF Running
  <2>3. LostOneWay(a, b)
    BY <2>2 DEF Inv, HolesOpen
  <2>4. Cardinality(1 .. Punches) = Punches
    BY FS_Interval, EngineAssumption
  <2>5. lost \in Nat /\ Punches \in Nat
    BY EngineAssumption DEF Inv, HolesOpen
  <2>. QED
    BY <2>1, <2>3, <2>4, <2>5 DEF LostOneWay
<1>. QED
  BY Invariant, <1>1, PTL
===============================================================================
