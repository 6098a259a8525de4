---------------------------- MODULE NetworkEngine ----------------------------
(***************************************************************************)
(* NetworkEngine and HolePuncher of nanocell/core/network.py, with the     *)
(* messages of nanocell/core/protocol.py that an application sends through *)
(* them. An application calls from threads of its own, and from handlers,  *)
(* which run in the thread of the receive loop.                            *)
(*                                                                         *)
(* A peer id is any string. What _process_message puts in _direct_peers is *)
(* the string "ip:port" of the sender, which an address stands for here.   *)
(***************************************************************************)
EXTENDS Network

CONSTANTS
  RelayUsers,   \* the nodes that have a relay_server
  PeersFirst,     \* PeersFirst[n]: the peers n's application adds before anything else
  HandlersFirst,  \* HandlersFirst[n]: the types it registers handlers for at first
  Types,        \* the message types the applications use
  Threads,      \* Threads[n]: the threads that n's application calls from
  SeqMod,       \* 2^16
  Punches       \* 5: datagrams of a hole punch

ASSUME EngineAssumption ==
  {SeqMod, Punches} \subseteq Nat \ {0} /\ RelayUsers \subseteq Nodes

VARIABLES
  known,     \* known[n]: HolePuncher._peers, id -> address
  direct,    \* _direct_peers
  relayed,   \* _relay_peers
  pending,   \* _pending_connections
  punching,  \* punching[n]: the hole punch under way, or {}
  handlers,  \* the types in _message_handlers
  seq,       \* _seq_counter of the application's Protocol
  drawing,   \* drawing[n][t]: how far thread t is with _next_seq, and its locals
  made,      \* (ghost) how many messages the application has made
  raced,     \* (ghost) raced[n]: two threads of n have been in _next_seq at a time
  decoded,   \* (ghost) decoded[n]: the messages n's handlers got out of datagrams
  punched    \* (ghost) << a, b, k >>: the k-th punch went from a to b, and since
             \* then neither address has changed hands

counterVars == << seq, drawing, made, raced >>

engineVars ==
  << known, direct, relayed, pending, punching, handlers, counterVars, decoded, punched >>

NotDrawing == [pc |-> "idle", seq |-> 0, next |-> 0]

EngineInit ==
  /\ known = PeersFirst
  /\ direct = [n \in Nodes |-> {}] /\ relayed = [n \in Nodes |-> {}]
  /\ pending = [n \in Nodes |-> {}] /\ punching = [n \in Nodes |-> {}]
  /\ handlers = HandlersFirst
  /\ seq = [n \in Nodes |-> 0] /\ made = [n \in Nodes |-> 0]
  /\ drawing = [n \in Nodes |-> [t \in Threads[n] |-> NotDrawing]]
  /\ raced = [n \in Nodes |-> FALSE]
  /\ decoded = [n \in Nodes |-> {}]
  /\ punched = {}

Running(n) == place[n] # Nowhere

----------------------------------------------------------------------------
(* Messages: Protocol. *)

\* Mutant: the counter does not wrap.
NextSeqOn(s) == s + 1

\* Mutant: the counter wraps one too early.
NextSeqSkip(s) == IF s + 1 = SeqMod - 1 THEN 0 ELSE s + 1

NextSeq(s) == (s + 1) % SeqMod

\* Messages are made by more threads than one, and _next_seq takes no lock: a
\* thread reads the counter for the message,
TakeSeq(n, t) ==
  /\ drawing[n][t].pc = "idle"
  /\ drawing' = [drawing EXCEPT ![n][t] = [pc |-> "load", seq |-> seq[n], next |-> 0]]
  /\ raced' = [raced EXCEPT ![n] = @ \/ \E u \in Threads[n] : drawing[n][u].pc # "idle"]
  /\ UNCHANGED << networkVars, known, direct, relayed, pending, punching, handlers, seq, made, decoded, punched >>

\* reads it once more to add one, and stores the sum (SendTo).
LoadSeq(n, t) ==
  /\ drawing[n][t].pc = "load"
  /\ drawing' = [drawing EXCEPT ![n][t].pc = "store", ![n][t].next = NextSeq(seq[n])]
  /\ UNCHANGED << networkVars, known, direct, relayed, pending, punching, handlers, seq, made, raced, decoded, punched >>

NewMessage(n, t, type) ==
  [by |-> n, type |-> type, seq |-> drawing[n][t].seq, no |-> made[n] + 1]

\* The byte at offset 2, which is the type of a message only.
TypeByte(d) ==
  CASE d.kind = "frame"     -> d.message.type
    [] d.kind = "forwarded" -> FirstByte[d.sender]
    [] d.kind = "error"     -> IdLength[d.id] % 256

MAGIC_NUMBER == 20035

\* The first two bytes: what the relay forwards begins with the length of the
\* sender's id, its error with the opcode 20 and the length of the id asked for.
FirstWord(d) ==
  CASE d.kind = "frame"     -> MAGIC_NUMBER
    [] d.kind = "forwarded" -> IdLength[d.sender]
    [] d.kind = "error"     -> 20 * 256 + IdLength[d.id] \div 256

\* The fields at their places, whatever the datagram is.
MessageIn(d) ==
  IF d.kind = "frame" THEN d.message
  ELSE [by |-> IF d.kind = "forwarded" THEN d.sender ELSE d.id, type |-> TypeByte(d), seq |-> 0, no |-> 0]

\* Mutant: from_bytes does not look at the magic number.
DecodedAny(d) == {MessageIn(d)}

\* What Message.from_bytes makes of a datagram, or nothing: it raises.
Decoded(d) == IF FirstWord(d) = MAGIC_NUMBER THEN {MessageIn(d)} ELSE {}

----------------------------------------------------------------------------
(* What the application calls. *)

AddPeer(n, id, a) ==
  /\ known' = [known EXCEPT ![n] =
       [i \in DOMAIN known[n] \cup {id} |-> IF i = id THEN a ELSE known[n][i]]]
  /\ UNCHANGED << networkVars, direct, relayed, pending, punching, handlers, counterVars, decoded, punched >>

RegisterHandler(n, type) ==
  /\ type \notin handlers[n]
  /\ handlers' = [handlers EXCEPT ![n] = @ \cup {type}]
  /\ UNCHANGED << networkVars, known, direct, relayed, pending, punching, counterVars, decoded, punched >>

GoesStraight(n, id) == id \in direct[n] /\ id \in DOMAIN known[n]

\* send_message: straight to the peer, or, with the id in front of it, to the relay.
Packed(n, id, message) ==
  IF GoesStraight(n, id)
  THEN [kind |-> "frame", from |-> place[n], to |-> known[n][id], message |-> message]
  ELSE [kind |-> "idFirst", from |-> place[n], to |-> RelayAt, id |-> id, message |-> message]

\* The number drawn is stored, and the message sent: to nobody, when the socket
\* is closed or there is no way to a peer.
SendTo(n, t, ids, type) ==
  LET sent == {id \in ids : Running(n) /\ (GoesStraight(n, id) \/ n \in RelayUsers)}
  IN  /\ drawing[n][t].pc = "store"
      /\ seq' = [seq EXCEPT ![n] = drawing[n][t].next]
      /\ drawing' = [drawing EXCEPT ![n][t] = NotDrawing]
      /\ made' = [made EXCEPT ![n] = @ + 1]
      /\ Transmit({Packed(n, id, NewMessage(n, t, type)) : id \in sent})
      /\ relayed' = [relayed EXCEPT ![n] = @ \cup {id \in sent : ~ GoesStraight(n, id)}]
      /\ UNCHANGED << known, direct, pending, punching, handlers, raced, decoded, punched >>

SendMessage(n, t, id, type) == SendTo(n, t, {id}, type)

\* A peer in both sets gets, and is counted, two copies; here they are one datagram.
Broadcast(n, t, type) == SendTo(n, t, direct[n] \cup relayed[n], type)

\* A known peer is punched. For another one the engine asks the bootstrap
\* server, without an opcode, so nothing comes of it.
ConnectToPeer(n, id) ==
  /\ Running(n)
  /\ id \in DOMAIN known[n]
  /\ punching[n] = {}
  /\ punching' = [punching EXCEPT ![n] = {[id |-> id, to |-> known[n][id], left |-> Punches]}]
  /\ UNCHANGED << networkVars, known, direct, relayed, pending, handlers, counterVars, decoded, punched >>

\* One turn of initiate_hole_punch's loop. The socket is closed when the
\* engine has been stopped, and then sending raises: StopEngine.
Punch(n) ==
  \E p \in punching[n] :
    /\ p.left > 0
    /\ Transmit({[kind |-> "punch", from |-> place[n], to |-> p.to, no |-> p.left]})
    /\ punching' = [punching EXCEPT ![n] = {[p EXCEPT !.left = @ - 1]}]
    /\ punched' = punched \cup {<< place[n], p.to, p.left >>}
    /\ UNCHANGED << known, direct, relayed, pending, handlers, counterVars, decoded >>

\* Mutant: who was punched counts as connected.
PunchedIsDirect(n) ==
  \E p \in punching[n] :
    /\ p.left = 0
    /\ direct' = [direct EXCEPT ![n] = @ \cup {p.to}]
    /\ punching' = [punching EXCEPT ![n] = {}]
    /\ UNCHANGED << networkVars, known, relayed, pending, handlers, counterVars, decoded, punched >>

FinishPunch(n) ==
  \E p \in punching[n] :
    /\ p.left = 0
    /\ pending' = [pending EXCEPT ![n] = @ \cup {p.id}]
    /\ punching' = [punching EXCEPT ![n] = {}]
    /\ UNCHANGED << networkVars, known, direct, relayed, handlers, counterVars, decoded, punched >>

\* The punches to and from addresses that change hands count no longer.
Forget(A) == punched' = {r \in punched : A \cap {r[1], r[2]} = {}}

StopEngine(n) ==
  /\ Running(n)
  /\ place' = [place EXCEPT ![n] = Nowhere]
  /\ punching' = [punching EXCEPT ![n] = {}]
  /\ Forget({place[n]})
  /\ left' = left \cup {place[n]}
  /\ UNCHANGED << net, homes, opened, lost, moves, known, direct, relayed, pending, handlers, counterVars, decoded >>

\* The registration is a datagram without an opcode, too.
StartEngine(n, a) ==
  /\ ~ Running(n)
  /\ MoveTo(n, a)
  /\ Forget({a})
  /\ UNCHANGED << known, direct, relayed, pending, punching, handlers, counterVars, decoded >>

----------------------------------------------------------------------------
(* _process_message, in the receive loop. *)

\* Mutant: a punch counts only from a peer that is pending.
PeersByPunchPending(n, d) ==
  IF \E id \in pending[n] : known[n][id] = d.from THEN {d.from} ELSE {}

\* The direct peers a datagram adds: a punch adds its sender, under the name of
\* his address and without an answer.
PeersByPunch(n, d) == {d.from}

ProcessMessage(n, d) ==
  /\ d.to = place[n] /\ LetIn(d)
  /\ Arrive(d, {})
  /\ IF d.kind = "punch"
     THEN direct' = [direct EXCEPT ![n] = @ \cup PeersByPunch(n, d)] /\ UNCHANGED decoded
     ELSE /\ decoded' = [decoded EXCEPT ![n] =
               @ \cup (IF TypeByte(d) \in handlers[n] THEN Decoded(d) ELSE {})]
          /\ UNCHANGED direct
  /\ UNCHANGED << known, relayed, pending, punching, handlers, counterVars, punched >>
===============================================================================
