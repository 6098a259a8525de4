------------------------------ MODULE Discovery ------------------------------
(***************************************************************************)
(* Peer discovery: BootstrapServer (nanocell/server/bootstrap.py) and the  *)
(* BootstrapClients that register with it and look peers up                *)
(* (nanocell/core/network.py), over UDP.  Datagrams are lost, duplicated   *)
(* and reordered by the network.                                           *)
(*                                                                         *)
(* A client sends one request, waits up to five seconds for ANY datagram   *)
(* on its socket and takes it for the answer: neither requests nor answers *)
(* carry a number.  The fields no and by are ghosts that remember to which *)
(* call a datagram belongs and which node sent a ping; no guard and no     *)
(* result of the code depends on them.                                     *)
(***************************************************************************)
EXTENDS Integers, Sequences, FiniteSets

CONSTANTS
  Clients,     \* the addresses that clients have, one program at a time at each
  Ids,         \* the node ids
  HoldersOf,   \* HoldersOf[c]: the node_ids of the programs that may have address c
  IpOf,        \* IpOf[c]: the ip of address c
  PortOf,      \* PortOf[c]: the public_port it announces
  IpLen,       \* IpLen[c]: the length of the public_ip it announces
  StaleAfter,  \* cleanup_stale_peers(timeout)
  MaxCalls,    \* bound of the model: no request is sent after that many datagrams
  MaxExtra,    \* MaxExtra[c], bound of the model: timeouts, pings and duplicates at c
  MaxTime      \* bound of the model: the server's clock

ASSUME ClientAssumption ==
  /\ HoldersOf \in [Clients -> SUBSET Ids \ {{}}]
  /\ DOMAIN IpOf = Clients
  /\ PortOf \in [Clients -> Nat] /\ IpLen \in [Clients -> Nat]
ASSUME BoundAssumption ==
  {StaleAfter, MaxCalls, MaxTime} \subseteq Nat /\ MaxExtra \in [Clients -> Nat]

VARIABLES
  peers,    \* _peers: id -> [addr, port, seen, before], before the ids that stand
            \* before it in the dict
  now,      \* the server's clock
  net,      \* the datagrams in flight
  node,     \* node[c]: the node_id of the client that has address c
  inbox,    \* inbox[c]: the datagrams in the receive buffer of c's socket
  call,     \* call[c]: the call c is in, or made last: [pc, no, target]
  answer,   \* answer[c]: what that call returned
  calls,    \* requests and pings sent so far
  extra,    \* (ghost) extra[c]: answers beyond one per call that c may get
  heard,    \* (ghost) heard[i]: when the server last had a REGISTER of node i, or a
            \* ping of it from the address it was registered with
  listed    \* (ghost) the pairs <<id, address>> the server has ever registered

vars == << peers, now, net, node, inbox, call, answer, calls, extra, heard, listed >>

ghostVars == << heard, listed >>

NoAnswer == [kind |-> "nothing"]

Init ==
  /\ peers = << >>
  /\ now = 0
  /\ net = {}
  /\ inbox = [c \in Clients |-> << >>]
  /\ node \in [Clients -> Ids] /\ \A c \in Clients : node[c] \in HoldersOf[c]
  /\ call = [c \in Clients |-> [pc |-> "idle", no |-> 0, target |-> node[c]]]
  /\ answer = [c \in Clients |-> NoAnswer]
  /\ calls = 0
  /\ extra = [c \in Clients |-> 0]
  /\ heard = [i \in Ids |-> 0]
  /\ listed = {}

----------------------------------------------------------------------------
(* BootstrapClient: register, lookup. *)

\* The 16-bit numbers behind the node id of a REGISTER datagram, in order: the
\* length of the ip (the ip follows it), then the port.
RegisterFields(c) == << IpLen[c], PortOf[c] >>

Send(c, request) ==
  /\ calls' = calls + 1
  /\ net' = net \cup {request}
  /\ UNCHANGED << peers, now, node, inbox, ghostVars >>

\* Mutant: register does not wait for the ack.
RegisterNoWait(c) ==
  /\ call[c].pc = "idle"
  /\ calls < MaxCalls
  /\ Send(c, [kind |-> "register", client |-> c, no |-> calls + 1,
              id |-> node[c], fields |-> RegisterFields(c)])
  /\ UNCHANGED << call, answer, extra >>

Register(c) ==
  /\ call[c].pc = "idle"
  /\ calls < MaxCalls
  /\ Send(c, [kind |-> "register", client |-> c, no |-> calls + 1,
              id |-> node[c], fields |-> RegisterFields(c)])
  /\ call' = [call EXCEPT ![c] = [pc |-> "register", no |-> calls + 1, target |-> node[c]]]
  /\ answer' = [answer EXCEPT ![c] = NoAnswer]
  /\ UNCHANGED extra

LookUp(c, target) ==
  /\ call[c].pc = "idle"
  /\ calls < MaxCalls
  /\ Send(c, [kind |-> "lookup", client |-> c, no |-> calls + 1, id |-> target])
  /\ call' = [call EXCEPT ![c] = [pc |-> "lookup", no |-> calls + 1, target |-> target]]
  /\ answer' = [answer EXCEPT ![c] = NoAnswer]
  /\ UNCHANGED extra

\* Mutant: the answer stays in the buffer.
TakeAnswerPeek(c) ==
  /\ call[c].pc # "idle"
  /\ inbox[c] # << >>
  /\ answer' = [answer EXCEPT ![c] = Head(inbox[c])]
  /\ call' = [call EXCEPT ![c].pc = "idle"]
  /\ UNCHANGED << peers, now, net, node, inbox, calls, extra, ghostVars >>

\* The first datagram in the buffer ends the wait, whatever it answers: a
\* lookup fails unless it is a LOOKUP_RESPONSE, a register unless an ack.
TakeAnswer(c) ==
  /\ call[c].pc # "idle"
  /\ inbox[c] # << >>
  /\ inbox' = [inbox EXCEPT ![c] = Tail(@)]
  /\ answer' = [answer EXCEPT ![c] =
       LET reply == Head(inbox[c])
           wanted == IF call[c].pc = "lookup" THEN "found" ELSE "ack"
       IN  IF reply.kind = wanted THEN reply ELSE [kind |-> "failed", no |-> reply.no]]
  /\ call' = [call EXCEPT ![c].pc = "idle"]
  /\ UNCHANGED << peers, now, net, node, calls, extra, ghostVars >>

\* socket.timeout: the answer, if it ever comes, stays in the buffer.
TimeOut(c) ==
  /\ call[c].pc # "idle"
  /\ inbox[c] = << >>
  /\ extra[c] < MaxExtra[c]
  /\ extra' = [extra EXCEPT ![c] = @ + 1]
  /\ call' = [call EXCEPT ![c].pc = "idle"]
  /\ UNCHANGED << peers, now, net, node, inbox, answer, calls, ghostVars >>

\* A keepalive.  The server answers PING; no code of the repository sends it.
Ping(c) ==
  /\ extra[c] < MaxExtra[c]
  /\ extra' = [extra EXCEPT ![c] = @ + 1]
  /\ Send(c, [kind |-> "ping", client |-> c, no |-> calls + 1, by |-> node[c]])
  /\ UNCHANGED << call, answer >>

\* close, and the address goes to a client with another node_id, which opens a
\* socket with an empty buffer.
TakeOver(c, id) ==
  /\ call[c].pc = "idle"
  /\ id # node[c]
  /\ node' = [node EXCEPT ![c] = id]
  /\ inbox' = [inbox EXCEPT ![c] = << >>]
  /\ call' = [call EXCEPT ![c] = [pc |-> "idle", no |-> 0, target |-> id]]
  /\ answer' = [answer EXCEPT ![c] = NoAnswer]
  /\ UNCHANGED << peers, now, net, calls, extra, ghostVars >>

----------------------------------------------------------------------------
(* BootstrapServer: one datagram at a time. *)

PeerIds == DOMAIN peers

\* Mutant: the first peer answers every lookup.
PeerOfFirst(id) == peers[CHOOSE i \in PeerIds : peers[i].before = {}]

PeerOf(id) == peers[id]

Reply(m, kind) == [kind |-> kind, client |-> m.client, no |-> m.no]

\* An answer with the public ip of address addr and a port, and nothing else.
PeerReply(m, kind, addr, port) ==
  [kind |-> kind, client |-> m.client, no |-> m.no, ip |-> IpOf[addr], port |-> port]

\* m leaves the network, or is delivered once more later.
Consume(m, new) ==
  \/ net' = (net \ {m}) \cup new /\ UNCHANGED extra
  \/ /\ extra[m.client] < MaxExtra[m.client]
     /\ extra' = [extra EXCEPT ![m.client] = @ + 1]
     /\ net' = net \cup new

serverUnchanged == << now, node, inbox, call, answer, calls >>

\* The server reads the port right behind the node id.
ReadPort(m) == m.fields[1]

\* Mutant: peers are filed under their address.
RecordedByAddress(id, peer) ==
  [i \in PeerIds \cup {peer.addr} |-> IF i = peer.addr THEN peer ELSE peers[i]]

Recorded(id, peer) == [i \in PeerIds \cup {id} |-> IF i = id THEN peer ELSE peers[i]]

\* A known id keeps its place in the dict.
HandleRegister(m) ==
  /\ m.kind = "register"
  /\ peers' = Recorded(m.id,
       [addr |-> m.client, port |-> ReadPort(m), seen |-> now,
        before |-> IF m.id \in PeerIds THEN peers[m.id].before ELSE PeerIds])
  /\ Consume(m, {PeerReply(m, "ack", m.client, ReadPort(m))})
  /\ heard' = [heard EXCEPT ![m.id] = now]
  /\ listed' = listed \cup {<< m.id, m.client >>}
  /\ UNCHANGED serverUnchanged

HandleLookUp(m) ==
  /\ m.kind = "lookup"
  /\ Consume(m, {IF m.id \in PeerIds
                 THEN PeerReply(m, "found", PeerOf(m.id).addr, PeerOf(m.id).port)
                 ELSE Reply(m, "not_found")})
  /\ UNCHANGED << peers, ghostVars, serverUnchanged >>

\* Mutant: a ping refreshes nobody.
FirstAtNone(addr) == {}

\* Only the first peer with the sender's address is refreshed, be it the
\* sender or a node that had the address before.
FirstAt(addr) ==
  {i \in PeerIds : peers[i].addr = addr /\ \A j \in peers[i].before : peers[j].addr # addr}

HandlePing(m) ==
  /\ m.kind = "ping"
  /\ peers' = [i \in PeerIds |->
                 IF i \in FirstAt(m.client) THEN [peers[i] EXCEPT !.seen = now] ELSE peers[i]]
  /\ Consume(m, {Reply(m, "pong")})
  /\ heard' = [i \in Ids |-> IF i = m.by /\ i \in PeerIds /\ peers[i].addr = m.client
                             THEN now ELSE heard[i]]
  /\ UNCHANGED << listed, serverUnchanged >>

CleanupStalePeers ==
  LET kept == {i \in PeerIds : now - peers[i].seen <= StaleAfter}
  IN  /\ peers' = [i \in kept |-> [peers[i] EXCEPT !.before = @ \cap kept]]
      /\ UNCHANGED << net, extra, ghostVars, serverUnchanged >>

\* Peers are kept in memory only.
ServerRestart ==
  /\ peers' = << >>
  /\ UNCHANGED << net, extra, ghostVars, serverUnchanged >>

----------------------------------------------------------------------------
(* The network and the clock. *)

Replies == {m \in net : m.kind \notin {"register", "lookup", "ping"}}

Deliver(m) ==
  /\ Consume(m, {})
  /\ inbox' = [inbox EXCEPT ![m.client] = Append(@, m)]
  /\ UNCHANGED << peers, now, node, call, answer, calls, ghostVars >>

Lose(m) ==
  /\ net' = net \ {m}
  /\ UNCHANGED << peers, now, node, inbox, call, answer, calls, extra, ghostVars >>

Tick ==
  /\ now < MaxTime
  /\ now' = now + 1
  /\ UNCHANGED << peers, net, node, inbox, call, answer, calls, extra, ghostVars >>

----------------------------------------------------------------------------
ClientStep(c) ==
  \/ Register(c)
  \/ \E id \in Ids : LookUp(c, id)
  \/ TakeAnswer(c)
  \/ TimeOut(c)
  \/ Ping(c)
  \/ \E id \in HoldersOf[c] : TakeOver(c, id)

ServerStep ==
  \/ \E m \in net : HandleRegister(m) \/ HandleLookUp(m) \/ HandlePing(m)
  \/ CleanupStalePeers
  \/ ServerRestart

NetworkStep ==
  \/ \E m \in net : Lose(m)
  \/ \E m \in Replies : Deliver(m)

Next ==
  \/ \E c \in Clients : ClientStep(c)
  \/ ServerStep
  \/ NetworkStep
  \/ Tick

Spec == Init /\ [][Next]_vars

----------------------------------------------------------------------------
RegisterRequests ==
  [kind : {"register"}, client : Clients, no : Nat, id : Ids, fields : Nat \X Nat]
LookUpRequests == [kind : {"lookup"}, client : Clients, no : Nat, id : Ids]
Pings == [kind : {"ping"}, client : Clients, no : Nat, by : Ids]
Ips == {IpOf[c] : c \in Clients}
Answers ==
  [kind : {"ack", "found"}, client : Clients, no : Nat, ip : Ips, port : Nat]
  \cup [kind : {"not_found", "pong"}, client : Clients, no : Nat]

\* The ids in _peers stand in one order.
PeersOK ==
  /\ PeerIds \subseteq Ids
  /\ \A i \in PeerIds :
       /\ peers[i] \in [addr : Clients, port : Nat, seen : 0 .. now, before : SUBSET PeerIds]
       /\ \A j \in PeerIds : j \in peers[i].before => i \notin peers[j].before
       /\ \A j \in PeerIds \ {i} : j \in peers[i].before \/ i \in peers[j].before

NetOK ==
  /\ net \subseteq RegisterRequests \cup LookUpRequests \cup Pings \cup Answers
  /\ \A m \in net : m.no \in 1 .. calls

ClientsOK ==
  /\ inbox \in [Clients -> Seq(Answers)]
  /\ \A c \in Clients : \A i \in 1 .. Len(inbox[c]) :
       inbox[c][i].client = c /\ inbox[c][i].no \in 1 .. calls
  /\ call \in [Clients -> [pc : {"idle", "register", "lookup"}, no : 0 .. calls, target : Ids]]
  /\ answer \in [Clients -> Answers \cup {NoAnswer} \cup [kind : {"failed"}, no : Nat]]

(* Type invariant. *)
TypeOK ==
  /\ PeersOK
  /\ NetOK
  /\ ClientsOK
  /\ now \in Nat /\ calls \in Nat
  /\ node \in [Clients -> Ids]
  /\ extra \in [Clients -> Nat]
  /\ heard \in [Ids -> 0 .. now] /\ listed \subseteq Ids \X Clients

(***************************************************************************)
(* A client gets behind by one datagram at most with each timeout, each    *)
(* keepalive and each duplicate: besides these, what is on its way to or   *)
(* from it and in its buffer is one datagram while it waits in a call, and *)
(* none between calls.                                                     *)
(***************************************************************************)
BehindByExtras ==
  \A c \in Clients :
    Cardinality({m \in net : m.client = c}) + Len(inbox[c])
      <= extra[c] + (IF call[c].pc = "idle" THEN 0 ELSE 1)

(***************************************************************************)
(* register and lookup of a client that was never out of step (no timeout, *)
(* no keepalive, nothing duplicated, at its address) return the answer to  *)
(* their own request.                                                      *)
(***************************************************************************)
AnswersOwnCall ==
  \A c \in Clients : extra[c] = 0 /\ answer[c] # NoAnswer => answer[c].no = call[c].no

(***************************************************************************)
(* A lookup of such a client that finds a peer returns an ip the node it   *)
(* looked up has registered from, never that of another node, whatever     *)
(* addresses change hands.  (The port is another matter: RegisteredPort.)  *)
(***************************************************************************)
FoundPeerIsTarget ==
  \A c \in Clients : extra[c] = 0 /\ answer[c].kind = "found" =>
    \E d \in Clients : << call[c].target, d >> \in listed /\ answer[c].ip = IpOf[d]

(***************************************************************************)
(* cleanup_stale_peers is to "Remove peers that haven't sent keepalive":   *)
(* those it removes have not registered, nor pinged from the address they  *)
(* are registered with, for longer than the timeout.  This fails for peers *)
(* whose address another node has registered from as well: their ping may  *)
(* refresh that one.                                                       *)
(***************************************************************************)
RemovedPeersWereSilent ==
  [][CleanupStalePeers =>
       \A i \in PeerIds \ DOMAIN peers' :
         \/ now - heard[i] > StaleAfter
         \/ \E j \in Ids \ {i} : << j, peers[i].addr >> \in listed]_vars

(***************************************************************************)
(* A registered peer has the public_port it registered with: register      *)
(* takes public_port, and Peer.public_port is what lookup returns.         *)
(***************************************************************************)
RegisteredPort == \A i \in PeerIds : peers[i].port = PortOf[peers[i].addr]
===============================================================================
