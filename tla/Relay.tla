-------------------------------- MODULE Relay --------------------------------
(***************************************************************************)
(* RelayServer of nanocell/server/bootstrap.py. Its two maps are changed by *)
(* CONNECT and DISCONNECT and meant to be each other's inverse; a client   *)
(* that returns from another address, or gets an address somebody else     *)
(* had, makes them differ. PING, and the acknowledgment of CONNECT, change *)
(* nothing that is modelled and are left out.                              *)
(***************************************************************************)
EXTENDS Network, Functions

VARIABLES
  clients,  \* _clients: id -> address
  reverse,  \* _reverse_map: address -> id
  joined    \* (ghost) << id, address >> for each CONNECT handled

relayVars == << clients, reverse, joined >>

RelayInit ==
  /\ clients = Restrict(LaunchPlace, JoinedFirst)
  /\ reverse = AntiFunction(clients)
  /\ joined = {<< c, clients[c] >> : c \in JoinedFirst}

With(f, x, y) == [z \in DOMAIN f \cup {x} |-> IF z = x THEN y ELSE f[z]]

Without(f, x) == Restrict(f, DOMAIN f \ {x})

\* The first byte, which the relay dispatches on. A NetworkEngine sends no
\* opcode: its datagrams begin with the two bytes of an id's length.
Opcode(d) ==
  CASE d.kind = "connect"    -> 1
    [] d.kind = "disconnect" -> 2
    [] d.kind = "forward"    -> 3
    [] OTHER                 -> IdLength[d.id] \div 256

HandleConnect(d) ==
  /\ clients' = With(clients, d.id, d.from)
  /\ reverse' = With(reverse, d.from, d.id)
  /\ joined' = joined \cup {<< d.id, d.from >>}
  /\ Arrive(d, {})

\* Mutant: the id stays in _clients.
HandleDisconnectHalf(d) ==
  /\ reverse' = Without(reverse, d.from)
  /\ Arrive(d, {}) /\ UNCHANGED << clients, joined >>

\* Takes the id away from whatever address it has by now.
HandleDisconnect(d) ==
  /\ reverse' = Without(reverse, d.from)
  /\ clients' = IF d.from \in DOMAIN reverse THEN Without(clients, reverse[d.from]) ELSE clients
  /\ Arrive(d, {}) /\ UNCHANGED joined

\* Mutant: names the recipient as the sender.
ForwardedAs(d) ==
  [kind |-> "forwarded", from |-> RelayAt, to |-> clients[d.id],
   sender |-> d.id, id |-> d.id, via |-> d.from]

\* What the recipient gets: the sender's id, and the message behind the
\* recipient's id. (ghost) via: where it came from.
Forwarded(d) ==
  [kind |-> "forwarded", from |-> RelayAt, to |-> clients[d.id],
   sender |-> reverse[d.from], id |-> d.id, via |-> d.from]

NotConnected(d) == [kind |-> "error", from |-> RelayAt, to |-> d.from, id |-> d.id]

HandleForward(d) ==
  /\ Arrive(d, IF d.from \notin DOMAIN reverse THEN {}
               ELSE IF d.id \in DOMAIN clients THEN {Forwarded(d)} ELSE {NotConnected(d)})
  /\ UNCHANGED relayVars

RelayHandles(d) ==
  /\ d.to = RelayAt
  /\ \/ Opcode(d) = 1 /\ HandleConnect(d)
     \/ Opcode(d) = 2 /\ HandleDisconnect(d)
     \/ Opcode(d) = 3 /\ HandleForward(d)
     \/ Opcode(d) \notin 1 .. 3 /\ Arrive(d, {}) /\ UNCHANGED relayVars

\* Both maps are in memory only, and nobody is told that they are gone.
RelayRestart ==
  /\ reverse # << >>
  /\ clients' = << >> /\ reverse' = << >> /\ joined' = {}
  /\ UNCHANGED networkVars

----------------------------------------------------------------------------
AddressesOf(id) == {j[2] : j \in {k \in joined : k[1] = id}}
IdsAt(a) == {j[1] : j \in {k \in joined : k[2] = a}}

(***************************************************************************)
(* While an address is used by one id only, a client that is listed there  *)
(* can also send: it is in the reverse map. And while besides that the id  *)
(* has used no other address, one that can send can be reached, at the     *)
(* address it sends from. Without the first condition a takeover of the    *)
(* address, without the second a late DISCONNECT from the old address,     *)
(* breaks the correspondence.                                              *)
(***************************************************************************)
RoutesAgree ==
  \A j \in joined : LET id == j[1] a == j[2] IN
    IdsAt(a) = {id} =>
      /\ id \in DOMAIN clients /\ clients[id] = a => a \in DOMAIN reverse /\ reverse[a] = id
      /\ a \in DOMAIN reverse /\ AddressesOf(id) = {a} =>
           id \in DOMAIN clients /\ clients[id] = a
===============================================================================
