--------------------------- MODULE Discovery_proofs ---------------------------
(***************************************************************************)
(* Proofs about Discovery, for any number of clients, ids, calls, losses   *)
(* and duplicates.                                                         *)
(***************************************************************************)
EXTENDS Discovery, FiniteSetTheorems, TLAPS

Datagrams == RegisterRequests \cup LookUpRequests \cup Pings \cup Answers

\* The part of TypeOK about the clock, the programs and the ghosts.
RestOK ==
  /\ now \in Nat
  /\ node \in [Clients -> Ids]
  /\ heard \in [Ids -> 0 .. now] /\ listed \subseteq Ids \X Clients

LEMMA RequestKinds ==
  ASSUME NEW m \in Datagrams
  PROVE  /\ m.client \in Clients /\ m.no \in Nat
         /\ m.kind = "register" => m \in RegisterRequests
         /\ m.kind = "lookup" => m \in LookUpRequests
         /\ m.kind = "ping" => m \in Pings
         /\ m.kind \notin {"register", "lookup", "ping"} => m \in Answers
<1>1. CASE m \in RegisterRequests
  BY <1>1 DEF RegisterRequests
<1>2. CASE m \in LookUpRequests
  BY <1>2 DEF LookUpRequests
<1>3. CASE m \in Pings
  BY <1>3 DEF Pings
<1>4. CASE m \in Answers
  BY <1>4 DEF Answers
<1> QED
  BY <1>1, <1>2, <1>3, <1>4 DEF Datagrams

\* A datagram that is handled or delivered goes, or stays once more; a client
\* whose count of extras stays 0 sees it go.
LEMMA ConsumeFacts ==
  ASSUME extra \in [Clients -> Nat], NEW m, m.client \in Clients, NEW new, Consume(m, new)
  PROVE  /\ net' \subseteq net \cup new
         /\ extra' \in [Clients -> Nat]
         /\ \A c \in Clients : extra'[c] = 0 => extra[c] = 0
         /\ extra'[m.client] = 0 => net' = (net \ {m}) \cup new
         /\ \A c \in Clients \ {m.client} : extra'[c] = extra[c]
<1>1. CASE net' = (net \ {m}) \cup new /\ UNCHANGED extra
  BY <1>1
<1>2. CASE /\ extra' = [extra EXCEPT ![m.client] = @ + 1]
           /\ net' = net \cup new
  <2>1. extra'[m.client] = extra[m.client] + 1 /\ extra[m.client] \in Nat
    BY <1>2
  <2>2. \A c \in Clients \ {m.client} : extra'[c] = extra[c]
    BY <1>2
  <2>3. extra' \in [Clients -> Nat]
    BY <1>2
  <2>4. extra'[m.client] # 0
    BY <2>1
  <2> QED
    BY <1>2, <2>1, <2>2, <2>3, <2>4
<1> QED
  BY <1>1, <1>2 DEF Consume

----------------------------------------------------------------------------
(* Type correctness. *)

LEMMA InitType == Init => TypeOK
<1> SUFFICES ASSUME Init
             PROVE  TypeOK
  OBVIOUS
<1>1. PeersOK
  <2>1. PeerIds = {}
    BY DEF Init, PeerIds
  <2> QED
    BY <2>1 DEF PeersOK
<1>2. NetOK
  BY DEF Init, NetOK
<1>3. ClientsOK
  <2>1. inbox \in [Clients -> Seq(Answers)] /\ \A c \in Clients : Len(inbox[c]) = 0
    BY DEF Init
  <2>2. call \in [Clients -> [pc : {"idle", "register", "lookup"}, no : 0 .. calls, target : Ids]]
    BY DEF Init
  <2>3. answer \in [Clients -> Answers \cup {NoAnswer} \cup [kind : {"failed"}, no : Nat]]
    BY DEF Init
  <2> QED
    BY <2>1, <2>2, <2>3 DEF ClientsOK
<1>4. calls \in Nat /\ extra \in [Clients -> Nat] /\ RestOK
  BY DEF Init, RestOK
<1> QED
  BY <1>1, <1>2, <1>3, <1>4 DEF TypeOK, RestOK

\* PeersOK speaks of the peers and the clock only, ClientsOK not of them.
LEMMA PeersStay == TypeOK /\ peers' = peers /\ now' = now => PeersOK'
BY DEF TypeOK, PeersOK, PeerIds

LEMMA ClientsStay ==
  ASSUME TypeOK, UNCHANGED << inbox, call, answer >>, calls' = calls \/ calls' = calls + 1
  PROVE  ClientsOK'
<1>1. calls \in Nat /\ ClientsOK
  BY DEF TypeOK
<1>2. \A n \in 0 .. calls : n \in 0 .. calls'
  BY <1>1
<1>3. \A c \in Clients : \A i \in 1 .. Len(inbox[c]) :
        inbox[c][i].client = c /\ inbox[c][i].no \in 1 .. calls'
  BY <1>1 DEF ClientsOK
<1>4. call \in [Clients -> [pc : {"idle", "register", "lookup"}, no : 0 .. calls', target : Ids]]
  BY <1>1, <1>2 DEF ClientsOK
<1> QED
  BY <1>1, <1>3, <1>4 DEF ClientsOK

\* Sending a request adds a datagram and counts it.
LEMMA SendType ==
  ASSUME TypeOK, NEW c \in Clients, NEW m \in Datagrams, m.no = calls + 1, Send(c, m)
  PROVE  NetOK' /\ PeersOK' /\ calls' = calls + 1 /\ calls' \in Nat /\ RestOK'
<1>1. calls \in Nat /\ NetOK /\ calls' = calls + 1 /\ net' = net \cup {m}
  BY DEF TypeOK, Send
<1>2. NetOK'
  <2>1. net' \subseteq RegisterRequests \cup LookUpRequests \cup Pings \cup Answers
    BY <1>1 DEF NetOK, Datagrams
  <2>2. \A n \in net' : n.no \in 1 .. calls'
    BY <1>1 DEF NetOK
  <2> QED
    BY <2>1, <2>2 DEF NetOK
<1>3. PeersOK'
  BY PeersStay DEF Send
<1>4. RestOK'
  BY DEF TypeOK, RestOK, Send, ghostVars
<1> QED
  BY <1>1, <1>2, <1>3, <1>4

\* A call of register or lookup that begins.
LEMMA CallType ==
  ASSUME TypeOK, NEW c \in Clients, NEW pc \in {"register", "lookup"}, NEW id \in Ids,
         calls' = calls + 1, inbox' = inbox,
         call' = [call EXCEPT ![c] = [pc |-> pc, no |-> calls + 1, target |-> id]],
         answer' = [answer EXCEPT ![c] = NoAnswer]
  PROVE  ClientsOK'
<1>1. calls \in Nat /\ ClientsOK
  BY DEF TypeOK
<1>2. \A n \in 0 .. calls : n \in 0 .. calls'
  BY <1>1
<1>3. \A d \in Clients : \A i \in 1 .. Len(inbox[d]) :
        inbox[d][i].client = d /\ inbox[d][i].no \in 1 .. calls'
  BY <1>1 DEF ClientsOK
<1>4. call' \in [Clients -> [pc : {"idle", "register", "lookup"}, no : 0 .. calls', target : Ids]]
  <2>1. call \in [Clients -> [pc : {"idle", "register", "lookup"}, no : 0 .. calls', target : Ids]]
    BY <1>1, <1>2 DEF ClientsOK
  <2>2. [pc |-> pc, no |-> calls + 1, target |-> id]
          \in [pc : {"idle", "register", "lookup"}, no : 0 .. calls', target : Ids]
    BY <1>1
  <2> QED
    BY <2>1, <2>2
<1>5. answer' \in [Clients -> Answers \cup {NoAnswer} \cup [kind : {"failed"}, no : Nat]]
  BY <1>1 DEF ClientsOK
<1> QED
  BY <1>1, <1>3, <1>4, <1>5 DEF ClientsOK

LEMMA RegisterType == ASSUME TypeOK, NEW c \in Clients, Register(c)  PROVE  TypeOK'
<1> DEFINE m == [kind |-> "register", client |-> c, no |-> calls + 1,
                 id |-> node[c], fields |-> RegisterFields(c)]
<1>1. calls \in Nat /\ node[c] \in Ids /\ RegisterFields(c) \in Nat \X Nat
  BY ClientAssumption DEF TypeOK, RegisterFields
<1>2. m \in Datagrams /\ m.no = calls + 1
  BY <1>1 DEF Datagrams, RegisterRequests
<1>3. Send(c, m)
  BY DEF Register
<1> HIDE DEF m
<1>4. NetOK' /\ PeersOK' /\ calls' = calls + 1 /\ calls' \in Nat /\ RestOK'
  BY <1>2, <1>3, SendType
<1>5. ClientsOK'
  BY <1>1, <1>3, <1>4, CallType DEF Register, Send
<1>6. extra' \in [Clients -> Nat]
  BY DEF Register, TypeOK
<1> QED
  BY <1>4, <1>5, <1>6 DEF TypeOK, RestOK

LEMMA LookUpType ==
  ASSUME TypeOK, NEW c \in Clients, NEW id \in Ids, LookUp(c, id)
  PROVE  TypeOK'
<1> DEFINE m == [kind |-> "lookup", client |-> c, no |-> calls + 1, id |-> id]
<1>1. calls \in Nat
  BY DEF TypeOK
<1>2. m \in Datagrams /\ m.no = calls + 1
  BY <1>1 DEF Datagrams, LookUpRequests
<1>3. Send(c, m)
  BY DEF LookUp
<1> HIDE DEF m
<1>4. NetOK' /\ PeersOK' /\ calls' = calls + 1 /\ calls' \in Nat /\ RestOK'
  BY <1>2, <1>3, SendType
<1>5. ClientsOK'
  BY <1>1, <1>3, <1>4, CallType DEF LookUp, Send
<1>6. extra' \in [Clients -> Nat]
  BY DEF LookUp, TypeOK
<1> QED
  BY <1>4, <1>5, <1>6 DEF TypeOK, RestOK

LEMMA PingType == ASSUME TypeOK, NEW c \in Clients, Ping(c)  PROVE  TypeOK'
<1> DEFINE m == [kind |-> "ping", client |-> c, no |-> calls + 1, by |-> node[c]]
<1>1. calls \in Nat /\ node[c] \in Ids
  BY DEF TypeOK
<1>2. m \in Datagrams /\ m.no = calls + 1
  BY <1>1 DEF Datagrams, Pings
<1>3. Send(c, m)
  BY DEF Ping
<1> HIDE DEF m
<1>4. NetOK' /\ PeersOK' /\ calls' = calls + 1 /\ calls' \in Nat /\ RestOK'
  BY <1>2, <1>3, SendType
<1>5. ClientsOK'
  BY <1>3, <1>4, ClientsStay DEF Ping, Send
<1>6. extra' \in [Clients -> Nat]
  BY DEF Ping, TypeOK
<1> QED
  BY <1>4, <1>5, <1>6 DEF TypeOK, RestOK

\* The buffer without its first datagram.
LEMMA TailFacts ==
  ASSUME NEW S, NEW s \in Seq(S), s # << >>
  PROVE  /\ Tail(s) \in Seq(S) /\ Len(Tail(s)) = Len(s) - 1 /\ Head(s) = s[1]
         /\ 1 \in 1 .. Len(s) /\ s[1] \in S
         /\ \A i \in 1 .. Len(Tail(s)) : i + 1 \in 1 .. Len(s) /\ Tail(s)[i] = s[i + 1]
OBVIOUS

LEMMA TailOfOne ==
  ASSUME NEW S, NEW s \in Seq(S), s # << >>, Len(s) <= 1
  PROVE  Tail(s) = << >>
<1>1. Len(s) \in Nat /\ (Len(s) = 0 => s = << >>)
  OBVIOUS
<1>2. Len(s) = 1
  BY <1>1
<1>3. Tail(s) \in Seq(S) /\ Len(Tail(s)) = Len(s) - 1
  BY TailFacts
<1>4. Len(Tail(s)) = 0
  BY <1>2, <1>3
<1> QED
  BY <1>3, <1>4

\* A call that ends.
LEMMA EndCallType ==
  ASSUME ClientsOK, NEW c \in Clients, call' = [call EXCEPT ![c].pc = "idle"]
  PROVE  /\ call' \in [Clients -> [pc : {"idle", "register", "lookup"}, no : 0 .. calls, target : Ids]]
         /\ \A d \in Clients : call'[d].no = call[d].no /\ call'[d].target = call[d].target
         /\ \A d \in Clients \ {c} : call'[d] = call[d]
         /\ call'[c].pc = "idle"
<1> DEFINE S == [pc : {"idle", "register", "lookup"}, no : 0 .. calls, target : Ids]
<1>1. call \in [Clients -> S] /\ call[c] \in S
  BY DEF ClientsOK
<1> DEFINE r == [call[c] EXCEPT !.pc = "idle"]
<1>2. r \in S /\ r.pc = "idle" /\ r.no = call[c].no /\ r.target = call[c].target
  BY <1>1
<1>3. call' = [call EXCEPT ![c] = r]
  OBVIOUS
<1> HIDE DEF r, S
<1>4. call' \in [Clients -> S] /\ call'[c] = r /\ \A d \in Clients \ {c} : call'[d] = call[d]
  BY <1>1, <1>2, <1>3
<1> QED
  BY <1>2, <1>4 DEF S

LEMMA TakeAnswerType == ASSUME TypeOK, NEW c \in Clients, TakeAnswer(c)  PROVE  TypeOK'
<1>1. ClientsOK /\ inbox[c] \in Seq(Answers) /\ inbox[c] # << >>
  BY DEF TypeOK, ClientsOK, TakeAnswer
<1>2. inbox' = [inbox EXCEPT ![c] = Tail(inbox[c])] /\ calls' = calls
  BY DEF TakeAnswer
<1>3. inbox' \in [Clients -> Seq(Answers)]
  BY <1>1, <1>2, TailFacts DEF ClientsOK
<1>4. ASSUME NEW d \in Clients, NEW i \in 1 .. Len(inbox'[d])
      PROVE  inbox'[d][i].client = d /\ inbox'[d][i].no \in 1 .. calls
  <2>1. CASE d = c
    <3>1. inbox'[d] = Tail(inbox[c])
      BY <1>1, <1>2, <2>1 DEF ClientsOK
    <3>2. i + 1 \in 1 .. Len(inbox[c]) /\ inbox'[d][i] = inbox[c][i + 1]
      BY <1>1, <3>1, TailFacts
    <3> QED
      BY <1>1, <2>1, <3>2 DEF ClientsOK
  <2>2. CASE d # c
    <3>1. inbox'[d] = inbox[d]
      BY <1>1, <1>2, <2>2 DEF ClientsOK
    <3> QED
      BY <1>1, <3>1 DEF ClientsOK
  <2> QED
    BY <2>1, <2>2
<1>5. call' \in [Clients -> [pc : {"idle", "register", "lookup"}, no : 0 .. calls', target : Ids]]
  BY <1>1, <1>2, EndCallType DEF TakeAnswer
<1>6. answer' \in [Clients -> Answers \cup {NoAnswer} \cup [kind : {"failed"}, no : Nat]]
  <2>1. Head(inbox[c]) \in Answers
    BY <1>1, TailFacts
  <2>2. Head(inbox[c]).no \in Nat
    BY <2>1 DEF Answers
  <2>3. [kind |-> "failed", no |-> Head(inbox[c]).no] \in [kind : {"failed"}, no : Nat]
    BY <2>2
  <2>4. answer'[c] \in Answers \cup [kind : {"failed"}, no : Nat]
    BY <1>1, <2>1, <2>3 DEF TakeAnswer, ClientsOK
  <2>5. \A d \in Clients \ {c} : answer'[d] = answer[d]
    BY <1>1 DEF TakeAnswer, ClientsOK
  <2>6. answer' = [d \in Clients |-> answer'[d]]
    BY <1>1 DEF TakeAnswer, ClientsOK
  <2> QED
    BY <1>1, <2>4, <2>5, <2>6 DEF ClientsOK
<1>7. ClientsOK'
  BY <1>2, <1>3, <1>4, <1>5, <1>6 DEF ClientsOK
<1>8. PeersOK'
  BY PeersStay DEF TakeAnswer
<1> QED
  BY <1>7, <1>8 DEF TakeAnswer, TypeOK, NetOK, ghostVars

LEMMA TimeOutType == ASSUME TypeOK, NEW c \in Clients, TimeOut(c)  PROVE  TypeOK'
<1>1. ClientsOK'
  <2>1. call' \in [Clients -> [pc : {"idle", "register", "lookup"}, no : 0 .. calls', target : Ids]]
    BY EndCallType DEF TimeOut, TypeOK
  <2> QED
    BY <2>1 DEF TimeOut, TypeOK, ClientsOK
<1>2. PeersOK'
  BY PeersStay DEF TimeOut
<1>3. extra' \in [Clients -> Nat]
  BY DEF TimeOut, TypeOK
<1> QED
  BY <1>1, <1>2, <1>3 DEF TimeOut, TypeOK, NetOK, ghostVars

\* The address goes to another program: an empty buffer, and no call yet.
LEMMA TakeOverType ==
  ASSUME TypeOK, NEW c \in Clients, NEW id \in HoldersOf[c], TakeOver(c, id)
  PROVE  TypeOK'
<1>1. id \in Ids /\ calls \in Nat /\ ClientsOK
  BY ClientAssumption DEF TypeOK
<1>2. calls' = calls /\ node' \in [Clients -> Ids]
  BY <1>1 DEF TakeOver, TypeOK
<1>3. inbox' \in [Clients -> Seq(Answers)]
  BY <1>1 DEF TakeOver, ClientsOK
<1>4. \A d \in Clients : \A i \in 1 .. Len(inbox'[d]) :
        inbox'[d][i].client = d /\ inbox'[d][i].no \in 1 .. calls
  <2>1. inbox'[c] = << >> /\ \A d \in Clients \ {c} : inbox'[d] = inbox[d]
    BY <1>1 DEF TakeOver, ClientsOK
  <2>2. Len(inbox'[c]) = 0
    BY <2>1
  <2>3. ASSUME NEW d \in Clients, NEW i \in 1 .. Len(inbox'[d])
        PROVE  inbox'[d][i].client = d /\ inbox'[d][i].no \in 1 .. calls
    <3>1. d # c
      BY <2>2, <2>3
    <3>2. inbox'[d] = inbox[d]
      BY <2>1, <3>1
    <3> QED
      BY <1>1, <2>3, <3>2 DEF ClientsOK
  <2> QED
    BY <2>3
<1>5. call' \in [Clients -> [pc : {"idle", "register", "lookup"}, no : 0 .. calls, target : Ids]]
  <2>1. [pc |-> "idle", no |-> 0, target |-> id]
          \in [pc : {"idle", "register", "lookup"}, no : 0 .. calls, target : Ids]
    BY <1>1
  <2> QED
    BY <1>1, <2>1 DEF TakeOver, ClientsOK
<1>6. answer' \in [Clients -> Answers \cup {NoAnswer} \cup [kind : {"failed"}, no : Nat]]
  BY <1>1 DEF TakeOver, ClientsOK
<1>7. ClientsOK'
  BY <1>2, <1>3, <1>4, <1>5, <1>6 DEF ClientsOK
<1>8. PeersOK'
  BY PeersStay DEF TakeOver
<1> QED
  BY <1>2, <1>7, <1>8 DEF TakeOver, TypeOK, NetOK, ghostVars

\* What the server sends back to m is an answer to m.
LEMMA ReplyType ==
  ASSUME NEW m \in Datagrams, NEW kind \in {"not_found", "pong"}
  PROVE  /\ Reply(m, kind) \in Answers
         /\ Reply(m, kind).client = m.client
         /\ Reply(m, kind).no = m.no
         /\ Reply(m, kind).kind = kind
BY RequestKinds DEF Reply, Answers

LEMMA PeerReplyType ==
  ASSUME NEW m \in Datagrams, NEW kind \in {"ack", "found"},
         NEW addr \in Clients, NEW port \in Nat
  PROVE  /\ PeerReply(m, kind, addr, port) \in Answers
         /\ PeerReply(m, kind, addr, port).client = m.client
         /\ PeerReply(m, kind, addr, port).no = m.no
         /\ PeerReply(m, kind, addr, port).kind = kind
         /\ PeerReply(m, kind, addr, port).ip = IpOf[addr]
BY RequestKinds DEF PeerReply, Answers, Ips

\* The steps of the server and of delivery, but for what they do to peers.
LEMMA ConsumeType ==
  ASSUME TypeOK, NEW m \in net, NEW new, new \subseteq Answers,
         \A n \in new : n.no = m.no, Consume(m, new), calls' = calls
  PROVE  NetOK' /\ extra' \in [Clients -> Nat]
<1>1. m \in Datagrams /\ m.no \in 1 .. calls
  BY DEF TypeOK, NetOK, Datagrams
<1>2. m.client \in Clients
  BY <1>1, RequestKinds
<1>3. net' \subseteq net \cup new /\ extra' \in [Clients -> Nat]
  BY <1>2, ConsumeFacts DEF TypeOK
<1>4. net' \subseteq RegisterRequests \cup LookUpRequests \cup Pings \cup Answers
  BY <1>3 DEF TypeOK, NetOK
<1>5. \A n \in net' : n.no \in 1 .. calls'
  BY <1>1, <1>3 DEF TypeOK, NetOK
<1> QED
  BY <1>3, <1>4, <1>5 DEF NetOK

\* Clients and the clock while the server works.
LEMMA ServerUnchangedType ==
  ASSUME TypeOK, UNCHANGED serverUnchanged
  PROVE  /\ ClientsOK' /\ now' = now /\ calls' = calls /\ calls' \in Nat
         /\ UNCHANGED ghostVars => RestOK'
BY ClientsStay DEF serverUnchanged, TypeOK, RestOK, ghostVars

LEMMA HandleRegisterType ==
  ASSUME TypeOK, NEW m \in net, HandleRegister(m)
  PROVE  TypeOK'
<1>1. m \in RegisterRequests /\ m \in Datagrams
  BY RequestKinds DEF TypeOK, NetOK, Datagrams, HandleRegister
<1>2. m.client \in Clients /\ m.id \in Ids /\ ReadPort(m) \in Nat
  BY <1>1 DEF RegisterRequests, ReadPort
<1>3. ClientsOK' /\ now' = now /\ calls' = calls /\ calls' \in Nat
  BY ServerUnchangedType DEF HandleRegister
<1> DEFINE new == PeerReply(m, "ack", m.client, ReadPort(m))
<1>4. {new} \subseteq Answers /\ \A n \in {new} : n.no = m.no
  BY <1>1, <1>2, PeerReplyType
<1>5. Consume(m, {new})
  BY DEF HandleRegister
<1> HIDE DEF new
<1>6. NetOK' /\ extra' \in [Clients -> Nat]
  BY <1>3, <1>4, <1>5, ConsumeType
<1>7. RestOK'
  <2>1. now \in 0 .. now
    BY DEF TypeOK
  <2>2. heard' \in [Ids -> 0 .. now'] /\ listed' \subseteq Ids \X Clients
    BY <1>2, <1>3, <2>1 DEF HandleRegister, TypeOK
  <2> QED
    BY <2>2 DEF HandleRegister, TypeOK, RestOK, serverUnchanged
<1> DEFINE before == IF m.id \in PeerIds THEN peers[m.id].before ELSE PeerIds
           peer == [addr |-> m.client, port |-> ReadPort(m), seen |-> now, before |-> before]
<1>8. /\ peers' = [i \in PeerIds \cup {m.id} |-> IF i = m.id THEN peer ELSE peers[i]]
  BY DEF HandleRegister, Recorded
<1>9. PeersOK'
  <2>1. PeersOK /\ now \in Nat
    BY DEF TypeOK
  <2>2. PeerIds' = PeerIds \cup {m.id}
    BY <1>8 DEF PeerIds
  <2>3. before \in SUBSET PeerIds
    BY <2>1 DEF PeersOK
  <2>4. peer \in [addr : Clients, port : Nat, seen : 0 .. now, before : SUBSET PeerIds']
    BY <1>2, <2>1, <2>2, <2>3
  <2>5. peer.before = before
    OBVIOUS
  <2> HIDE DEF peer
  <2>6. peers'[m.id] = peer /\ \A i \in PeerIds \ {m.id} : peers'[i] = peers[i]
    BY <1>8
  <2>7. \A i \in PeerIds' : peers'[i] \in [addr : Clients, port : Nat, seen : 0 .. now, before : SUBSET PeerIds']
    BY <2>1, <2>2, <2>4, <2>6 DEF PeersOK
  <2>8. CASE m.id \in PeerIds
    <3>1. PeerIds' = PeerIds /\ \A i \in PeerIds : peers'[i].before = peers[i].before
      BY <2>2, <2>5, <2>6, <2>8
    <3> QED
      BY <1>3, <2>1, <2>2, <2>7, <3>1 DEF PeersOK
  <2>9. CASE m.id \notin PeerIds
    <3>1. peers'[m.id].before = PeerIds /\ \A i \in PeerIds : peers'[i].before = peers[i].before
      BY <2>5, <2>6, <2>9
    <3>2. \A i \in PeerIds : peers[i].before \subseteq PeerIds
      BY <2>1 DEF PeersOK
    <3>3. \A i, j \in PeerIds' : j \in peers'[i].before => i \notin peers'[j].before
      BY <2>1, <2>2, <2>9, <3>1, <3>2 DEF PeersOK
    <3>4. \A i, j \in PeerIds' : i # j => j \in peers'[i].before \/ i \in peers'[j].before
      BY <2>1, <2>2, <2>9, <3>1 DEF PeersOK
    <3> QED
      BY <1>2, <1>3, <2>1, <2>2, <2>7, <3>3, <3>4 DEF PeersOK
  <2> QED
    BY <2>8, <2>9
<1> QED
  BY <1>3, <1>6, <1>7, <1>9 DEF TypeOK, RestOK

LEMMA HandleLookUpType ==
  ASSUME TypeOK, NEW m \in net, HandleLookUp(m)
  PROVE  TypeOK'
<1>1. m \in Datagrams /\ m.client \in Clients
  BY RequestKinds DEF TypeOK, NetOK, Datagrams
<1>2. ClientsOK' /\ now' = now /\ calls' = calls /\ calls' \in Nat /\ RestOK'
  BY ServerUnchangedType DEF HandleLookUp
<1> DEFINE new == IF m.id \in PeerIds
                  THEN PeerReply(m, "found", PeerOf(m.id).addr, PeerOf(m.id).port)
                  ELSE Reply(m, "not_found")
<1>3. new \in Answers /\ new.no = m.no
  <2>1. m.id \in PeerIds => PeerOf(m.id).addr \in Clients /\ PeerOf(m.id).port \in Nat
    BY DEF TypeOK, PeersOK, PeerOf
  <2> QED
    BY <1>1, <2>1, ReplyType, PeerReplyType
<1>4. Consume(m, {new})
  BY DEF HandleLookUp
<1> HIDE DEF new
<1>5. NetOK' /\ extra' \in [Clients -> Nat]
  BY <1>2, <1>3, <1>4, ConsumeType
<1>6. PeersOK'
  BY <1>2, PeersStay DEF HandleLookUp
<1> QED
  BY <1>2, <1>5, <1>6 DEF TypeOK, RestOK

LEMMA HandlePingType ==
  ASSUME TypeOK, NEW m \in net, HandlePing(m)
  PROVE  TypeOK'
<1>1. m \in Datagrams /\ m.client \in Clients
  BY RequestKinds DEF TypeOK, NetOK, Datagrams
<1>2. ClientsOK' /\ now' = now /\ calls' = calls /\ calls' \in Nat
  BY ServerUnchangedType DEF HandlePing
<1> DEFINE new == Reply(m, "pong")
<1>3. new \in Answers /\ new.no = m.no
  BY <1>1, ReplyType
<1>4. Consume(m, {new})
  BY DEF HandlePing
<1> HIDE DEF new
<1>5. NetOK' /\ extra' \in [Clients -> Nat]
  BY <1>2, <1>3, <1>4, ConsumeType
<1>6. RestOK'
  <2>1. now \in 0 .. now
    BY DEF TypeOK
  <2>2. heard' \in [Ids -> 0 .. now']
    BY <1>1, <1>2, <2>1 DEF HandlePing, TypeOK
  <2> QED
    BY <2>2 DEF HandlePing, TypeOK, RestOK, serverUnchanged
<1>7. PeersOK'
  <2>1. PeersOK /\ now \in 0 .. now
    BY DEF TypeOK
  <2>2. PeerIds' = PeerIds
    BY DEF HandlePing, PeerIds
  <2>3. ASSUME NEW i \in PeerIds
        PROVE  /\ peers'[i].before = peers[i].before
               /\ peers'[i] \in [addr : Clients, port : Nat, seen : 0 .. now, before : SUBSET PeerIds]
    <3>1. peers[i] \in [addr : Clients, port : Nat, seen : 0 .. now, before : SUBSET PeerIds]
      BY <2>1 DEF PeersOK
    <3>2. \/ peers'[i] = [peers[i] EXCEPT !.seen = now]
          \/ peers'[i] = peers[i]
      BY DEF HandlePing
    <3> QED
      BY <2>1, <3>1, <3>2
  <2> QED
    BY <1>2, <2>1, <2>2, <2>3 DEF PeersOK
<1> QED
  BY <1>2, <1>5, <1>6, <1>7 DEF TypeOK, RestOK

LEMMA CleanupType ==
  ASSUME TypeOK, CleanupStalePeers
  PROVE  TypeOK'
<1>1. ClientsOK' /\ now' = now /\ calls' = calls /\ calls' \in Nat /\ RestOK'
  BY ServerUnchangedType DEF CleanupStalePeers
<1> DEFINE kept == {i \in PeerIds : now - peers[i].seen <= StaleAfter}
<1>2. peers' = [i \in kept |-> [peers[i] EXCEPT !.before = @ \cap kept]]
  BY DEF CleanupStalePeers
<1>3. PeerIds' = kept /\ kept \subseteq PeerIds
  BY <1>2 DEF PeerIds
<1>4. PeersOK
  BY DEF TypeOK
<1> HIDE DEF kept
<1>5. ASSUME NEW i \in kept
      PROVE  /\ peers'[i].before = peers[i].before \cap kept
             /\ peers'[i] \in [addr : Clients, port : Nat, seen : 0 .. now, before : SUBSET kept]
  <2>1. peers[i] \in [addr : Clients, port : Nat, seen : 0 .. now, before : SUBSET PeerIds]
    BY <1>3, <1>4 DEF PeersOK
  <2>2. peers'[i] = [peers[i] EXCEPT !.before = @ \cap kept]
    BY <1>2
  <2> QED
    BY <2>1, <2>2
<1>6. PeersOK'
  BY <1>1, <1>3, <1>4, <1>5 DEF PeersOK
<1>7. NetOK'
  BY <1>1 DEF CleanupStalePeers, TypeOK, NetOK
<1> QED
  BY <1>1, <1>6, <1>7 DEF TypeOK, RestOK, CleanupStalePeers

LEMMA ServerRestartType ==
  ASSUME TypeOK, ServerRestart
  PROVE  TypeOK'
<1>1. ClientsOK' /\ now' = now /\ calls' = calls /\ calls' \in Nat /\ RestOK'
  BY ServerUnchangedType DEF ServerRestart
<1>2. PeerIds' = {}
  BY DEF ServerRestart, PeerIds
<1>3. PeersOK'
  BY <1>2 DEF PeersOK
<1>4. NetOK'
  BY <1>1 DEF ServerRestart, TypeOK, NetOK
<1> QED
  BY <1>1, <1>3, <1>4 DEF TypeOK, RestOK, ServerRestart

\* The buffer with one datagram more.
LEMMA AppendFacts ==
  ASSUME NEW S, NEW s \in Seq(S), NEW x \in S
  PROVE  /\ Append(s, x) \in Seq(S) /\ Len(Append(s, x)) = Len(s) + 1
         /\ \A i \in 1 .. Len(Append(s, x)) :
              \/ i \in 1 .. Len(s) /\ Append(s, x)[i] = s[i]
              \/ i = Len(s) + 1 /\ Append(s, x)[i] = x
OBVIOUS

LEMMA DeliverType ==
  ASSUME TypeOK, NEW m \in Replies, Deliver(m)
  PROVE  TypeOK'
<1>1. m \in net /\ m \in Answers /\ m.client \in Clients /\ m.no \in 1 .. calls
  BY RequestKinds DEF TypeOK, NetOK, Datagrams, Replies
<1>2. calls' = calls /\ now' = now /\ call' = call /\ answer' = answer
  BY DEF Deliver
<1>3. NetOK' /\ extra' \in [Clients -> Nat]
  BY <1>1, <1>2, ConsumeType DEF Deliver
<1>4. ClientsOK
  BY DEF TypeOK
<1>5. inbox' = [inbox EXCEPT ![m.client] = Append(inbox[m.client], m)]
  BY DEF Deliver
<1>6. inbox[m.client] \in Seq(Answers)
  BY <1>1, <1>4 DEF ClientsOK
<1>7. inbox' \in [Clients -> Seq(Answers)]
  BY <1>1, <1>4, <1>5, <1>6, AppendFacts DEF ClientsOK
<1>8. ASSUME NEW d \in Clients, NEW i \in 1 .. Len(inbox'[d])
      PROVE  inbox'[d][i].client = d /\ inbox'[d][i].no \in 1 .. calls
  <2>1. CASE d = m.client
    <3>1. inbox'[d] = Append(inbox[d], m)
      BY <1>4, <1>5, <2>1 DEF ClientsOK
    <3>2. \/ i \in 1 .. Len(inbox[d]) /\ inbox'[d][i] = inbox[d][i]
          \/ inbox'[d][i] = m
      BY <1>1, <1>6, <2>1, <3>1, AppendFacts
    <3> QED
      BY <1>1, <1>4, <2>1, <3>2 DEF ClientsOK
  <2>2. CASE d # m.client
    <3>1. inbox'[d] = inbox[d]
      BY <1>4, <1>5, <2>2 DEF ClientsOK
    <3> QED
      BY <1>4, <3>1 DEF ClientsOK
  <2> QED
    BY <2>1, <2>2
<1>9. ClientsOK'
  BY <1>2, <1>4, <1>7, <1>8 DEF ClientsOK
<1>10. PeersOK'
  BY <1>2, PeersStay DEF Deliver
<1> QED
  BY <1>3, <1>9, <1>10 DEF TypeOK, Deliver, ghostVars

LEMMA LoseType ==
  ASSUME TypeOK, NEW m \in net, Lose(m)
  PROVE  TypeOK'
<1>1. PeersOK' /\ ClientsOK'
  BY PeersStay, ClientsStay DEF Lose
<1>2. NetOK'
  BY DEF Lose, TypeOK, NetOK
<1> QED
  BY <1>1, <1>2 DEF TypeOK, Lose, ghostVars

LEMMA TickType ==
  ASSUME TypeOK, Tick
  PROVE  TypeOK'
<1>1. now \in Nat /\ now' = now + 1 /\ peers' = peers
  BY DEF TypeOK, Tick
<1>2. \A n \in 0 .. now : n \in 0 .. now'
  BY <1>1
<1>3. PeersOK'
  <2>1. PeerIds' = PeerIds
    BY <1>1 DEF PeerIds
  <2>2. \A i \in PeerIds :
          peers[i] \in [addr : Clients, port : Nat, seen : 0 .. now', before : SUBSET PeerIds]
    BY <1>2 DEF TypeOK, PeersOK
  <2> QED
    BY <1>1, <2>1, <2>2 DEF TypeOK, PeersOK
<1>4. NetOK' /\ ClientsOK'
  BY ClientsStay DEF Tick, TypeOK, NetOK
<1>5. heard' \in [Ids -> 0 .. now']
  BY <1>2 DEF TypeOK, Tick, ghostVars
<1> QED
  BY <1>1, <1>3, <1>4, <1>5 DEF TypeOK, Tick, ghostVars

LEMMA NextType == TypeOK /\ [Next]_vars => TypeOK'
<1> SUFFICES ASSUME TypeOK, [Next]_vars
             PROVE  TypeOK'
  OBVIOUS
<1>1. ASSUME NEW c \in Clients, ClientStep(c)
      PROVE  TypeOK'
  BY <1>1, RegisterType, LookUpType, TakeAnswerType, TimeOutType, PingType, TakeOverType
     DEF ClientStep
<1>2. CASE ServerStep
  BY <1>2, HandleRegisterType, HandleLookUpType, HandlePingType, CleanupType, ServerRestartType
     DEF ServerStep
<1>3. CASE NetworkStep
  BY <1>3, LoseType, DeliverType DEF NetworkStep
<1>4. CASE Tick
  BY <1>4, TickType
<1>5. CASE UNCHANGED vars
  BY <1>5 DEF vars, ghostVars, TypeOK, PeersOK, PeerIds, NetOK, ClientsOK
<1> QED
  BY <1>1, <1>2, <1>3, <1>4, <1>5 DEF Next

(***************************************************************************)
(* Clients, server and network keep the state of its type; in particular   *)
(* registering, pinging and cleaning up keep the peers in one order.       *)
(***************************************************************************)
THEOREM TypeCorrect == Spec => []TypeOK
  BY InitType, NextType, PTL DEF Spec

----------------------------------------------------------------------------
(* How far a client can get behind. *)

InNet(c) == {m \in net : m.client = c}

Backlog(c) == extra[c] + (IF call[c].pc = "idle" THEN 0 ELSE 1)

(***************************************************************************)
(* The strengthening of BehindByExtras: what is on its way to or from c is *)
(* finite.                                                                 *)
(***************************************************************************)
BehindAt(c) ==
  /\ IsFiniteSet(InNet(c))
  /\ Cardinality(InNet(c)) + Len(inbox[c]) <= Backlog(c)

Behind == \A c \in Clients : BehindAt(c)

LEMMA InitBehind == Init => Behind
<1> SUFFICES ASSUME Init, NEW c \in Clients
             PROVE  BehindAt(c)
  BY DEF Behind
<1>1. InNet(c) = {} /\ inbox[c] = << >> /\ extra[c] = 0 /\ call[c].pc = "idle"
  BY DEF Init, InNet
<1>2. IsFiniteSet({}) /\ Cardinality({}) = 0
  BY FS_EmptySet
<1>3. Len(<< >>) = 0
  OBVIOUS
<1> QED
  BY <1>1, <1>2, <1>3 DEF BehindAt, Backlog

LEMMA BehindTypes ==
  ASSUME TypeOK, Behind, NEW c \in Clients
  PROVE  /\ extra[c] \in Nat /\ Len(inbox[c]) \in Nat /\ inbox[c] \in Seq(Answers)
         /\ IsFiniteSet(InNet(c)) /\ Cardinality(InNet(c)) \in Nat
         /\ Cardinality(InNet(c)) + Len(inbox[c]) <= Backlog(c)
         /\ ClientsOK
<1>1. extra[c] \in Nat /\ inbox[c] \in Seq(Answers) /\ ClientsOK
  BY DEF TypeOK, ClientsOK
<1>2. IsFiniteSet(InNet(c)) /\ Cardinality(InNet(c)) + Len(inbox[c]) <= Backlog(c)
  BY DEF Behind, BehindAt
<1>3. Cardinality(InNet(c)) \in Nat
  BY <1>2, FS_CardinalityType
<1> QED
  BY <1>1, <1>2, <1>3

\* Losing datagrams, and nothing else, leaves a client no further behind.
LEMMA FewerBehind ==
  ASSUME TypeOK, Behind, NEW c \in Clients, \A m \in net' : m.client = c => m \in net,
         inbox'[c] = inbox[c], Backlog(c)' = Backlog(c)
  PROVE  BehindAt(c)'
<1>1. InNet(c)' \in SUBSET InNet(c)
  BY DEF InNet
<1>2. IsFiniteSet(InNet(c)') /\ Cardinality(InNet(c)') <= Cardinality(InNet(c))
  BY <1>1, BehindTypes, FS_Subset
<1>3. Cardinality(InNet(c)') \in Nat
  BY <1>2, FS_CardinalityType
<1>4. Backlog(c) \in Nat
  BY BehindTypes DEF Backlog
<1> QED
  BY <1>2, <1>3, <1>4, BehindTypes DEF BehindAt

\* A datagram more on the way, for which the client has one more to its credit.
LEMMA OneMoreBehind ==
  ASSUME TypeOK, Behind, NEW c \in Clients, NEW m, net' \subseteq net \cup {m},
         inbox'[c] = inbox[c], Backlog(c)' = Backlog(c) + 1
  PROVE  BehindAt(c)'
<1>1. InNet(c)' \in SUBSET (InNet(c) \cup {m})
  BY DEF InNet
<1>2. /\ IsFiniteSet(InNet(c) \cup {m})
      /\ Cardinality(InNet(c) \cup {m}) <= Cardinality(InNet(c)) + 1
      /\ Cardinality(InNet(c) \cup {m}) \in Nat
  <2>1. IsFiniteSet(InNet(c)) /\ Cardinality(InNet(c)) \in Nat
    BY BehindTypes
  <2>2. /\ IsFiniteSet(InNet(c) \cup {m})
        /\ Cardinality(InNet(c) \cup {m}) = IF m \in InNet(c) THEN Cardinality(InNet(c))
                                                                ELSE Cardinality(InNet(c)) + 1
    BY <2>1, FS_AddElement
  <2> QED
    BY <2>1, <2>2
<1>3. IsFiniteSet(InNet(c)') /\ Cardinality(InNet(c)') <= Cardinality(InNet(c) \cup {m})
  BY <1>1, <1>2, FS_Subset
<1>4. Cardinality(InNet(c)') \in Nat
  BY <1>3, FS_CardinalityType
<1>5. Backlog(c) \in Nat
  BY BehindTypes DEF Backlog
<1> QED
  BY <1>2, <1>3, <1>4, <1>5, BehindTypes DEF BehindAt

\* A request or a ping begins with the credit of its call or its extra.
LEMMA SendBehind ==
  ASSUME TypeOK, Behind, NEW c \in Clients, NEW m, m.client = c, Send(c, m),
         Backlog(c)' = Backlog(c) + 1,
         \A d \in Clients \ {c} : Backlog(d)' = Backlog(d)
  PROVE  Behind'
<1>1. net' = net \cup {m} /\ inbox' = inbox
  BY DEF Send
<1>2. BehindAt(c)'
  BY <1>1, OneMoreBehind
<1>3. \A d \in Clients \ {c} : BehindAt(d)'
  BY <1>1, FewerBehind
<1> QED
  BY <1>2, <1>3 DEF Behind

LEMMA ClientBehind ==
  ASSUME TypeOK, Behind, NEW c \in Clients, ClientStep(c)
  PROVE  Behind'
<1>1. ClientsOK /\ extra \in [Clients -> Nat]
  BY DEF TypeOK
<1>2. CASE Register(c)
  <2> DEFINE m == [kind |-> "register", client |-> c, no |-> calls + 1,
                   id |-> node[c], fields |-> RegisterFields(c)]
  <2>1. Send(c, m) /\ m.client = c
    BY <1>2 DEF Register
  <2>2. Backlog(c)' = Backlog(c) + 1
    BY <1>1, <1>2 DEF Register, Backlog, ClientsOK
  <2>3. \A d \in Clients \ {c} : Backlog(d)' = Backlog(d)
    BY <1>1, <1>2 DEF Register, Backlog, ClientsOK
  <2> HIDE DEF m
  <2> QED
    BY <2>1, <2>2, <2>3, SendBehind
<1>3. ASSUME NEW id \in Ids, LookUp(c, id)
      PROVE  Behind'
  <2> DEFINE m == [kind |-> "lookup", client |-> c, no |-> calls + 1, id |-> id]
  <2>1. Send(c, m) /\ m.client = c
    BY <1>3 DEF LookUp
  <2>2. Backlog(c)' = Backlog(c) + 1
    BY <1>1, <1>3 DEF LookUp, Backlog, ClientsOK
  <2>3. \A d \in Clients \ {c} : Backlog(d)' = Backlog(d)
    BY <1>1, <1>3 DEF LookUp, Backlog, ClientsOK
  <2> HIDE DEF m
  <2> QED
    BY <2>1, <2>2, <2>3, SendBehind
<1>4. CASE Ping(c)
  <2> DEFINE m == [kind |-> "ping", client |-> c, no |-> calls + 1, by |-> node[c]]
  <2>1. Send(c, m) /\ m.client = c
    BY <1>4 DEF Ping
  <2>2. Backlog(c)' = Backlog(c) + 1
    BY <1>1, <1>4 DEF Ping, Backlog
  <2>3. \A d \in Clients \ {c} : Backlog(d)' = Backlog(d)
    BY <1>1, <1>4 DEF Ping, Backlog
  <2> HIDE DEF m
  <2> QED
    BY <2>1, <2>2, <2>3, SendBehind
<1>5. ASSUME net' = net, \A d \in Clients \ {c} : inbox'[d] = inbox[d] /\ Backlog(d)' = Backlog(d),
             Len(inbox'[c]) \in Nat, Len(inbox[c]) \in Nat,
             Len(inbox'[c]) - Backlog(c)' <= Len(inbox[c]) - Backlog(c),
             Backlog(c)' \in Nat
      PROVE  Behind'
  <2>1. \A d \in Clients \ {c} : BehindAt(d)'
    BY <1>5, FewerBehind
  <2>2. InNet(c)' = InNet(c)
    BY <1>5 DEF InNet
  <2>3. Backlog(c) \in Nat
    BY BehindTypes DEF Backlog
  <2>4. BehindAt(c)'
    BY <1>5, <2>2, <2>3, BehindTypes DEF BehindAt
  <2> QED
    BY <2>1, <2>4 DEF Behind
<1>6. CASE TakeAnswer(c)
  <2>1. Len(inbox'[c]) = Len(inbox[c]) - 1 /\ Len(inbox'[c]) \in Nat /\ Len(inbox[c]) \in Nat
    <3>1. inbox[c] \in Seq(Answers) /\ inbox[c] # << >> /\ inbox'[c] = Tail(inbox[c])
      BY <1>1, <1>6 DEF TakeAnswer, ClientsOK
    <3> QED
      BY <3>1
  <2>2. call'[c].pc = "idle" /\ \A d \in Clients \ {c} : call'[d] = call[d]
    BY <1>1, <1>6, EndCallType DEF TakeAnswer
  <2>3. call[c].pc # "idle" /\ extra' = extra
    BY <1>6 DEF TakeAnswer
  <2>4. Backlog(c)' = Backlog(c) - 1 /\ Backlog(c)' \in Nat
    BY <1>1, <2>2, <2>3 DEF Backlog
  <2>5. \A d \in Clients \ {c} : inbox'[d] = inbox[d] /\ Backlog(d)' = Backlog(d)
    BY <1>1, <1>6, <2>2, <2>3 DEF TakeAnswer, Backlog, ClientsOK
  <2>6. Backlog(c) \in Nat
    BY <1>1 DEF Backlog
  <2>7. net' = net
    BY <1>6 DEF TakeAnswer
  <2> QED
    BY <1>5, <2>1, <2>4, <2>5, <2>6, <2>7
<1>7. CASE TimeOut(c)
  <2>1. call'[c].pc = "idle" /\ \A d \in Clients \ {c} : call'[d] = call[d]
    BY <1>1, <1>7, EndCallType DEF TimeOut
  <2>2. /\ call[c].pc # "idle" /\ extra'[c] = extra[c] + 1 /\ inbox' = inbox /\ net' = net
        /\ \A d \in Clients \ {c} : extra'[d] = extra[d]
    BY <1>1, <1>7 DEF TimeOut
  <2>3. Backlog(c)' = Backlog(c) /\ Backlog(c) \in Nat
    BY <1>1, <2>1, <2>2 DEF Backlog
  <2>4. \A d \in Clients \ {c} : Backlog(d)' = Backlog(d)
    BY <2>1, <2>2 DEF Backlog
  <2>5. Len(inbox[c]) \in Nat
    BY BehindTypes
  <2> QED
    BY <1>5, <2>2, <2>3, <2>4, <2>5
<1>8. ASSUME NEW id \in HoldersOf[c], TakeOver(c, id)
      PROVE  Behind'
  <2>1. inbox'[c] = << >> /\ call'[c].pc = "idle" /\ extra' = extra /\ net' = net
    BY <1>1, <1>8 DEF TakeOver, ClientsOK
  <2>2. Len(inbox'[c]) = 0 /\ Len(inbox[c]) \in Nat
    BY <2>1, BehindTypes
  <2>3. Backlog(c)' = Backlog(c) /\ Backlog(c) \in Nat
    BY <1>1, <1>8, <2>1 DEF TakeOver, Backlog
  <2>4. \A d \in Clients \ {c} : inbox'[d] = inbox[d] /\ Backlog(d)' = Backlog(d)
    BY <1>1, <1>8 DEF TakeOver, Backlog, ClientsOK
  <2> QED
    BY <1>5, <2>1, <2>2, <2>3, <2>4
<1> QED
  BY <1>2, <1>3, <1>4, <1>6, <1>7, <1>8 DEF ClientStep

\* What is handled gives way to its answer, or stays at the price of an extra.
LEMMA AnswerBehind ==
  ASSUME TypeOK, Behind, NEW m \in net, NEW n, n.client = m.client,
         Consume(m, {n}), UNCHANGED serverUnchanged
  PROVE  Behind'
<1> DEFINE c == m.client
<1>1. c \in Clients /\ extra \in [Clients -> Nat]
  BY RequestKinds DEF TypeOK, NetOK, Datagrams
<1>2. inbox' = inbox /\ call' = call
  BY DEF serverUnchanged
<1>3. \A d \in Clients \ {c} : BehindAt(d)'
  <2>1. net' \subseteq net \cup {n} /\ \A d \in Clients \ {c} : extra'[d] = extra[d]
    BY <1>1, ConsumeFacts
  <2>2. \A d \in Clients \ {c} : Backlog(d)' = Backlog(d)
    BY <1>2, <2>1 DEF Backlog
  <2> QED
    BY <1>2, <2>1, <2>2, FewerBehind
<1>4. CASE net' = (net \ {m}) \cup {n} /\ UNCHANGED extra
  <2>1. InNet(c)' = (InNet(c) \ {m}) \cup {n} /\ m \in InNet(c)
    BY <1>4 DEF InNet
  <2>2. /\ IsFiniteSet(InNet(c) \ {m})
        /\ Cardinality(InNet(c) \ {m}) = Cardinality(InNet(c)) - 1
    BY <1>1, <2>1, BehindTypes, FS_RemoveElement
  <2>3. Cardinality(InNet(c) \ {m}) \in Nat
    BY <2>2, FS_CardinalityType
  <2>4. IsFiniteSet(InNet(c)') /\ Cardinality(InNet(c)') <= Cardinality(InNet(c) \ {m}) + 1
    <3> DEFINE rest == InNet(c) \ {m}
    <3>1. IsFiniteSet(rest) /\ Cardinality(rest) \in Nat
      BY <2>2, <2>3
    <3>2. InNet(c)' = rest \cup {n}
      BY <2>1
    <3> HIDE DEF rest
    <3>3. /\ IsFiniteSet(rest \cup {n})
          /\ Cardinality(rest \cup {n}) = IF n \in rest THEN Cardinality(rest)
                                                          ELSE Cardinality(rest) + 1
      BY <3>1, FS_AddElement
    <3>4. IsFiniteSet(InNet(c)') /\ Cardinality(InNet(c)') <= Cardinality(rest) + 1
      BY <3>1, <3>2, <3>3
    <3> QED
      BY <3>4 DEF rest
  <2>5. Backlog(c)' = Backlog(c) /\ Backlog(c) \in Nat
    BY <1>1, <1>2, <1>4 DEF Backlog
  <2>6. Cardinality(InNet(c)') \in Nat
    BY <2>4, FS_CardinalityType
  <2>7. BehindAt(c)'
    BY <1>1, <1>2, <2>2, <2>3, <2>4, <2>5, <2>6, BehindTypes DEF BehindAt
  <2> QED
    BY <1>3, <2>7 DEF Behind
<1>5. CASE extra' = [extra EXCEPT ![c] = @ + 1] /\ net' = net \cup {n}
  <2>1. Backlog(c)' = Backlog(c) + 1
    BY <1>1, <1>2, <1>5 DEF Backlog
  <2>2. BehindAt(c)'
    BY <1>1, <1>2, <1>5, <2>1, OneMoreBehind
  <2> QED
    BY <1>3, <2>2 DEF Behind
<1> QED
  BY <1>4, <1>5 DEF Consume

LEMMA ServerBehind == ASSUME TypeOK, Behind, ServerStep  PROVE  Behind'
<1>1. ASSUME NEW m \in net, HandleRegister(m)
      PROVE  Behind'
  <2> DEFINE n == PeerReply(m, "ack", m.client, ReadPort(m))
  <2>1. n.client = m.client
    BY DEF PeerReply
  <2>2. Consume(m, {n}) /\ UNCHANGED serverUnchanged
    BY <1>1 DEF HandleRegister
  <2> HIDE DEF n
  <2> QED
    BY <2>1, <2>2, AnswerBehind
<1>2. ASSUME NEW m \in net, HandleLookUp(m)
      PROVE  Behind'
  <2> DEFINE n == IF m.id \in PeerIds
                  THEN PeerReply(m, "found", PeerOf(m.id).addr, PeerOf(m.id).port)
                  ELSE Reply(m, "not_found")
  <2>1. n.client = m.client
    BY DEF Reply, PeerReply
  <2>2. Consume(m, {n}) /\ UNCHANGED serverUnchanged
    BY <1>2 DEF HandleLookUp
  <2> HIDE DEF n
  <2> QED
    BY <2>1, <2>2, AnswerBehind
<1>3. ASSUME NEW m \in net, HandlePing(m)
      PROVE  Behind'
  <2> DEFINE n == Reply(m, "pong")
  <2>1. n.client = m.client
    BY DEF Reply
  <2>2. Consume(m, {n}) /\ UNCHANGED serverUnchanged
    BY <1>3 DEF HandlePing
  <2> HIDE DEF n
  <2> QED
    BY <2>1, <2>2, AnswerBehind
<1>4. CASE CleanupStalePeers \/ ServerRestart
  <2>1. net' = net /\ inbox' = inbox /\ \A c \in Clients : Backlog(c)' = Backlog(c)
    BY <1>4 DEF CleanupStalePeers, ServerRestart, serverUnchanged, Backlog
  <2> QED
    BY <2>1, FewerBehind DEF Behind
<1> QED
  BY <1>1, <1>2, <1>3, <1>4 DEF ServerStep

LEMMA DeliverBehind == ASSUME TypeOK, Behind, NEW m \in Replies, Deliver(m)  PROVE  Behind'
<1> DEFINE c == m.client
<1>1. /\ m \in net /\ m \in Answers /\ c \in Clients /\ ClientsOK
      /\ extra \in [Clients -> Nat]
  BY RequestKinds DEF TypeOK, NetOK, Datagrams, Replies
<1>2. /\ call' = call /\ Consume(m, {})
      /\ \A d \in Clients \ {c} : inbox'[d] = inbox[d]
  BY <1>1 DEF Deliver, ClientsOK
<1>3. \A d \in Clients \ {c} : BehindAt(d)'
  <2>1. net' \subseteq net /\ \A d \in Clients \ {c} : extra'[d] = extra[d]
    BY <1>1, <1>2, ConsumeFacts
  <2>2. \A d \in Clients \ {c} : Backlog(d)' = Backlog(d)
    BY <1>2, <2>1 DEF Backlog
  <2> QED
    BY <1>2, <2>1, <2>2, FewerBehind
<1>4. Len(inbox'[c]) = Len(inbox[c]) + 1 /\ Len(inbox[c]) \in Nat
  <2>1. inbox'[c] = Append(inbox[c], m) /\ inbox[c] \in Seq(Answers)
    BY <1>1 DEF Deliver, ClientsOK
  <2> QED
    BY <1>1, <2>1, AppendFacts
<1>5. CASE net' = (net \ {m}) \cup {} /\ UNCHANGED extra
  <2>1. InNet(c)' = InNet(c) \ {m} /\ m \in InNet(c)
    BY <1>1, <1>5 DEF InNet
  <2>2. /\ IsFiniteSet(InNet(c) \ {m})
        /\ Cardinality(InNet(c) \ {m}) = Cardinality(InNet(c)) - 1
    BY <1>1, <2>1, BehindTypes, FS_RemoveElement
  <2>3. Backlog(c)' = Backlog(c) /\ Backlog(c) \in Nat
    BY <1>1, <1>2, <1>5 DEF Backlog
  <2>4. BehindAt(c)'
    BY <1>1, <1>4, <2>1, <2>2, <2>3, BehindTypes DEF BehindAt
  <2> QED
    BY <1>3, <2>4 DEF Behind
<1>6. CASE extra' = [extra EXCEPT ![c] = @ + 1] /\ net' = net \cup {}
  <2>1. Backlog(c)' = Backlog(c) + 1 /\ Backlog(c) \in Nat
    BY <1>1, <1>2, <1>6 DEF Backlog
  <2>2. InNet(c)' = InNet(c)
    BY <1>6 DEF InNet
  <2>3. BehindAt(c)'
    BY <1>1, <1>4, <2>1, <2>2, BehindTypes DEF BehindAt
  <2> QED
    BY <1>3, <2>3 DEF Behind
<1> QED
  BY <1>2, <1>5, <1>6 DEF Consume

LEMMA NextBehind == TypeOK /\ Behind /\ [Next]_vars => Behind'
<1> SUFFICES ASSUME TypeOK, Behind, [Next]_vars
             PROVE  Behind'
  OBVIOUS
<1>1. ASSUME net' \subseteq net, UNCHANGED << inbox, call, extra >>
      PROVE  Behind'
  <2>1. \A c \in Clients : Backlog(c)' = Backlog(c)
    BY <1>1 DEF Backlog
  <2> QED
    BY <1>1, <2>1, FewerBehind DEF Behind
<1>2. CASE (\E m \in net : Lose(m)) \/ Tick \/ UNCHANGED vars
  BY <1>1, <1>2 DEF Lose, Tick, vars
<1> QED
  BY <1>2, ClientBehind, ServerBehind, DeliverBehind DEF Next, NetworkStep

(***************************************************************************)
(* Each timeout, keepalive and duplicate gets a client behind by one       *)
(* datagram at most, whatever is lost or overtaken and whoever has its     *)
(* address: register, lookup and the server's handlers add no other.       *)
(***************************************************************************)
THEOREM AlwaysBehindByExtras == Spec => []BehindByExtras
<1>1. Behind => BehindByExtras
  BY DEF Behind, BehindAt, Backlog, InNet, BehindByExtras
<1> QED
  BY <1>1, InitBehind, NextBehind, TypeCorrect, PTL DEF Spec

----------------------------------------------------------------------------
(* Clients in step. *)

(***************************************************************************)
(* The strengthening of AnswersOwnCall, for a client that was never out of *)
(* step: one datagram at most is on its way to or from it or in its        *)
(* buffer, and that belongs to the call it waits in.                       *)
(***************************************************************************)
InStepAt(c) ==
  /\ \A m, n \in net : m.client = c /\ n.client = c => m = n
  /\ \A m \in net : m.client = c =>
       inbox[c] = << >> /\ call[c].pc # "idle" /\ m.no = call[c].no
  /\ Len(inbox[c]) <= 1
  /\ inbox[c] # << >> => call[c].pc # "idle" /\ inbox[c][1].no = call[c].no
  /\ answer[c] # NoAnswer => answer[c].no = call[c].no

InStep == \A c \in Clients : extra[c] = 0 => InStepAt(c)

LEMMA InitInStep == Init => InStep
BY DEF Init, InStep, InStepAt

\* A step that leaves the calls, the buffers and all the datagrams of a client
\* alone, or takes some of them away, leaves it in step.
LEMMA UntouchedInStep ==
  ASSUME NEW c, InStepAt(c),
         \A m \in net' : m.client = c => m \in net,
         inbox'[c] = inbox[c], call'[c] = call[c], answer'[c] = answer[c]
  PROVE  InStepAt(c)'
BY DEF InStepAt

\* A client that begins a call has nothing under way.
LEMMA CallInStep ==
  ASSUME TypeOK, NEW c \in Clients, InStepAt(c), call[c].pc = "idle",
         NEW m, m.client = c, m.no = calls + 1, net' = net \cup {m}, inbox' = inbox,
         NEW pc \in {"register", "lookup"}, NEW id,
         call'[c] = [pc |-> pc, no |-> calls + 1, target |-> id], answer'[c] = NoAnswer
  PROVE  InStepAt(c)'
<1>1. call'[c].pc # "idle" /\ call'[c].no = calls + 1
  OBVIOUS
<1>2. \A n \in net : n.client # c
  BY DEF InStepAt
<1>3. inbox'[c] = << >>
  <2>1. inbox[c] = << >>
    BY DEF InStepAt
  <2> QED
    BY <2>1
<1>4. \A n \in net' : n.client = c => n = m
  BY <1>2
<1>5. Len(inbox'[c]) <= 1
  BY <1>3
<1> QED
  BY <1>1, <1>3, <1>4, <1>5 DEF InStepAt

LEMMA RegisterInStep == ASSUME TypeOK, InStep, NEW c \in Clients, Register(c)  PROVE  InStep'
<1> DEFINE m == [kind |-> "register", client |-> c, no |-> calls + 1,
                 id |-> node[c], fields |-> RegisterFields(c)]
<1>1. m.client = c /\ m.no = calls + 1
  OBVIOUS
<1>2. net' = net \cup {m} /\ inbox' = inbox /\ extra' = extra
  BY DEF Register, Send
<1> HIDE DEF m
<1>3. call[c].pc = "idle" /\ ClientsOK
  BY DEF Register, TypeOK
<1>4. /\ call'[c] = [pc |-> "register", no |-> calls + 1, target |-> node[c]]
      /\ answer'[c] = NoAnswer
      /\ \A d \in Clients \ {c} : call'[d] = call[d] /\ answer'[d] = answer[d]
  BY <1>3 DEF Register, ClientsOK
<1>5. ASSUME NEW d \in Clients, extra'[d] = 0
      PROVE  InStepAt(d)'
  <2>1. InStepAt(d)
    BY <1>2, <1>5 DEF InStep
  <2>2. CASE d = c
    BY <1>1, <1>2, <1>3, <1>4, <2>1, <2>2, CallInStep
  <2>3. CASE d # c
    BY <1>1, <1>2, <1>4, <2>1, <2>3, UntouchedInStep
  <2> QED
    BY <2>2, <2>3
<1> QED
  BY <1>5 DEF InStep

LEMMA LookUpInStep ==
  ASSUME TypeOK, InStep, NEW c \in Clients, NEW id \in Ids, LookUp(c, id)
  PROVE  InStep'
<1> DEFINE m == [kind |-> "lookup", client |-> c, no |-> calls + 1, id |-> id]
<1>1. m.client = c /\ m.no = calls + 1
  OBVIOUS
<1>2. net' = net \cup {m} /\ inbox' = inbox /\ extra' = extra
  BY DEF LookUp, Send
<1> HIDE DEF m
<1>3. call[c].pc = "idle" /\ ClientsOK
  BY DEF LookUp, TypeOK
<1>4. /\ call'[c] = [pc |-> "lookup", no |-> calls + 1, target |-> id]
      /\ answer'[c] = NoAnswer
      /\ \A d \in Clients \ {c} : call'[d] = call[d] /\ answer'[d] = answer[d]
  BY <1>3 DEF LookUp, ClientsOK
<1>5. ASSUME NEW d \in Clients, extra'[d] = 0
      PROVE  InStepAt(d)'
  <2>1. InStepAt(d)
    BY <1>2, <1>5 DEF InStep
  <2>2. CASE d = c
    BY <1>1, <1>2, <1>3, <1>4, <2>1, <2>2, CallInStep
  <2>3. CASE d # c
    BY <1>1, <1>2, <1>4, <2>1, <2>3, UntouchedInStep
  <2> QED
    BY <2>2, <2>3
<1> QED
  BY <1>5 DEF InStep

\* A client that pings is out of step by its own doing.
LEMMA PingInStep == ASSUME TypeOK, InStep, NEW c \in Clients, Ping(c)  PROVE  InStep'
<1> DEFINE m == [kind |-> "ping", client |-> c, no |-> calls + 1, by |-> node[c]]
<1>1. m.client = c
  OBVIOUS
<1>2. net' = net \cup {m} /\ inbox' = inbox /\ call' = call /\ answer' = answer
  BY DEF Ping, Send
<1> HIDE DEF m
<1>3. extra'[c] = extra[c] + 1 /\ extra[c] \in Nat /\ \A d \in Clients \ {c} : extra'[d] = extra[d]
  BY DEF Ping, TypeOK
<1>4. ASSUME NEW d \in Clients, extra'[d] = 0
      PROVE  InStepAt(d)'
  <2>1. d # c
    BY <1>3, <1>4
  <2>2. InStepAt(d)
    BY <1>3, <1>4, <2>1 DEF InStep
  <2> QED
    BY <1>1, <1>2, <2>1, <2>2, UntouchedInStep
<1> QED
  BY <1>4 DEF InStep

LEMMA TimeOutInStep == ASSUME TypeOK, InStep, NEW c \in Clients, TimeOut(c)  PROVE  InStep'
<1>1. extra'[c] = extra[c] + 1 /\ extra[c] \in Nat /\ \A d \in Clients \ {c} : extra'[d] = extra[d]
  BY DEF TimeOut, TypeOK
<1>2. net' = net /\ inbox' = inbox /\ answer' = answer
  BY DEF TimeOut
<1>3. \A d \in Clients \ {c} : call'[d] = call[d]
  BY EndCallType DEF TimeOut, TypeOK
<1>4. ASSUME NEW d \in Clients, extra'[d] = 0
      PROVE  InStepAt(d)'
  <2>1. d # c
    BY <1>1, <1>4
  <2>2. InStepAt(d)
    BY <1>1, <1>4, <2>1 DEF InStep
  <2> QED
    BY <1>2, <1>3, <2>1, <2>2, UntouchedInStep
<1> QED
  BY <1>4 DEF InStep

\* The next program at an address starts with nothing in its buffer.
LEMMA TakeOverInStep ==
  ASSUME TypeOK, InStep, NEW c \in Clients, NEW id, TakeOver(c, id)
  PROVE  InStep'
<1>1. call[c].pc = "idle" /\ net' = net /\ extra' = extra /\ ClientsOK
  BY DEF TakeOver, TypeOK
<1>2. /\ inbox'[c] = << >> /\ answer'[c] = NoAnswer
      /\ \A d \in Clients \ {c} :
           inbox'[d] = inbox[d] /\ call'[d] = call[d] /\ answer'[d] = answer[d]
  BY <1>1 DEF TakeOver, ClientsOK
<1>3. ASSUME NEW d \in Clients, extra'[d] = 0
      PROVE  InStepAt(d)'
  <2>1. InStepAt(d)
    BY <1>1, <1>3 DEF InStep
  <2>2. CASE d = c
    <3>1. \A m \in net : m.client # c
      BY <1>1, <2>1, <2>2 DEF InStepAt
    <3>2. Len(inbox'[c]) = 0
      BY <1>2
    <3> QED
      BY <1>1, <1>2, <2>2, <3>1, <3>2 DEF InStepAt
  <2>3. CASE d # c
    BY <1>1, <1>2, <2>1, <2>3, UntouchedInStep
  <2> QED
    BY <2>2, <2>3
<1> QED
  BY <1>3 DEF InStep

\* The step in which the one datagram of a client is taken for the answer.
LEMMA TakeAnswerInStep == ASSUME TypeOK, InStep, NEW c \in Clients, TakeAnswer(c)  PROVE  InStep'
<1>1. ClientsOK /\ inbox[c] \in Seq(Answers) /\ inbox[c] # << >>
  BY DEF TypeOK, ClientsOK, TakeAnswer
<1>2. net' = net /\ extra' = extra
  BY DEF TakeAnswer
<1>3. /\ call'[c].pc = "idle" /\ call'[c].no = call[c].no
      /\ \A d \in Clients \ {c} : call'[d] = call[d]
  BY <1>1, EndCallType DEF TakeAnswer
<1>4. inbox'[c] = Tail(inbox[c]) /\ \A d \in Clients \ {c} : inbox'[d] = inbox[d]
  BY <1>1 DEF TakeAnswer, ClientsOK
<1>5. \A d \in Clients \ {c} : answer'[d] = answer[d]
  BY <1>1 DEF TakeAnswer, ClientsOK
<1>6. answer'[c].no = inbox[c][1].no
  <2>1. Head(inbox[c]) = inbox[c][1]
    BY <1>1, TailFacts
  <2> QED
    BY <1>1, <2>1 DEF TakeAnswer, ClientsOK
<1>7. ASSUME NEW d \in Clients, extra'[d] = 0
      PROVE  InStepAt(d)'
  <2>1. InStepAt(d)
    BY <1>2, <1>7 DEF InStep
  <2>2. CASE d = c
    <3>1. \A m \in net' : m.client # c
      BY <1>1, <1>2, <2>1, <2>2 DEF InStepAt
    <3>2. Len(inbox'[c]) = 0 /\ inbox'[c] = << >>
      <4>1. Len(inbox[c]) <= 1
        BY <2>1, <2>2 DEF InStepAt
      <4>2. Tail(inbox[c]) = << >>
        BY <1>1, <4>1, TailOfOne
      <4>3. inbox'[c] = << >>
        BY <1>4, <4>2
      <4> QED
        BY <4>3
    <3>3. answer'[c].no = call'[c].no
      BY <1>1, <1>3, <1>6, <2>1, <2>2 DEF InStepAt
    <3> QED
      BY <2>2, <3>1, <3>2, <3>3 DEF InStepAt
  <2>3. CASE d # c
    BY <1>2, <1>3, <1>4, <1>5, <2>1, <2>3, UntouchedInStep
  <2> QED
    BY <2>2, <2>3
<1> QED
  BY <1>7 DEF InStep

\* The server trades the one datagram of a client for an answer to it.
LEMMA AnswerInStep ==
  ASSUME TypeOK, InStep, NEW m \in net, NEW n, n.client = m.client, n.no = m.no,
         Consume(m, {n}), UNCHANGED serverUnchanged
  PROVE  InStep'
<1>1. m.client \in Clients /\ extra \in [Clients -> Nat]
  BY RequestKinds DEF TypeOK, NetOK, Datagrams
<1>2. /\ net' \subseteq net \cup {n}
      /\ \A c \in Clients : extra'[c] = 0 => extra[c] = 0
      /\ extra'[m.client] = 0 => net' = (net \ {m}) \cup {n}
  BY <1>1, ConsumeFacts
<1>3. inbox' = inbox /\ call' = call /\ answer' = answer
  BY DEF serverUnchanged
<1>4. ASSUME NEW d \in Clients, extra'[d] = 0
      PROVE  InStepAt(d)'
  <2>1. InStepAt(d)
    BY <1>2, <1>4 DEF InStep
  <2>2. CASE d = m.client
    <3>1. net' = (net \ {m}) \cup {n}
      BY <1>2, <1>4, <2>2
    <3>2. \A x \in net : x.client = d => x = m
      BY <2>1, <2>2 DEF InStepAt
    <3>3. \A x \in net' : x.client = d => x = n
      BY <3>1, <3>2
    <3>4. inbox[d] = << >> /\ call[d].pc # "idle" /\ n.no = call[d].no
      BY <2>1, <2>2 DEF InStepAt
    <3>5. Len(inbox[d]) <= 1 /\ (answer[d] # NoAnswer => answer[d].no = call[d].no)
      BY <2>1 DEF InStepAt
    <3> QED
      BY <1>3, <3>3, <3>4, <3>5 DEF InStepAt
  <2>3. CASE d # m.client
    BY <1>2, <1>3, <2>1, <2>3, UntouchedInStep
  <2> QED
    BY <2>2, <2>3
<1> QED
  BY <1>4 DEF InStep

LEMMA ServerInStep == ASSUME TypeOK, InStep, ServerStep  PROVE  InStep'
<1>1. ASSUME NEW m \in net, HandleRegister(m)
      PROVE  InStep'
  <2> DEFINE n == PeerReply(m, "ack", m.client, ReadPort(m))
  <2>1. n.client = m.client /\ n.no = m.no
    BY DEF Reply, PeerReply
  <2>2. Consume(m, {n}) /\ UNCHANGED serverUnchanged
    BY <1>1 DEF HandleRegister
  <2> HIDE DEF n
  <2> QED
    BY <2>1, <2>2, AnswerInStep
<1>2. ASSUME NEW m \in net, HandleLookUp(m)
      PROVE  InStep'
  <2> DEFINE n == IF m.id \in PeerIds
                  THEN PeerReply(m, "found", PeerOf(m.id).addr, PeerOf(m.id).port)
                  ELSE Reply(m, "not_found")
  <2>1. n.client = m.client /\ n.no = m.no
    BY DEF Reply, PeerReply
  <2>2. Consume(m, {n}) /\ UNCHANGED serverUnchanged
    BY <1>2 DEF HandleLookUp
  <2> HIDE DEF n
  <2> QED
    BY <2>1, <2>2, AnswerInStep
<1>3. ASSUME NEW m \in net, HandlePing(m)
      PROVE  InStep'
  <2> DEFINE n == Reply(m, "pong")
  <2>1. n.client = m.client /\ n.no = m.no
    BY DEF Reply, PeerReply
  <2>2. Consume(m, {n}) /\ UNCHANGED serverUnchanged
    BY <1>3 DEF HandlePing
  <2> HIDE DEF n
  <2> QED
    BY <2>1, <2>2, AnswerInStep
<1>4. CASE CleanupStalePeers \/ ServerRestart
  BY <1>4 DEF CleanupStalePeers, ServerRestart, serverUnchanged, InStep, InStepAt
<1> QED
  BY <1>1, <1>2, <1>3, <1>4 DEF ServerStep

LEMMA DeliverInStep == ASSUME TypeOK, InStep, NEW m \in Replies, Deliver(m)  PROVE  InStep'
<1>1. /\ m \in net /\ m \in Answers /\ m.client \in Clients
      /\ ClientsOK /\ extra \in [Clients -> Nat]
  BY RequestKinds DEF TypeOK, NetOK, Datagrams, Replies
<1>2. /\ net' \subseteq net
      /\ \A c \in Clients : extra'[c] = 0 => extra[c] = 0
      /\ extra'[m.client] = 0 => net' = net \ {m}
  BY <1>1, ConsumeFacts DEF Deliver
<1>3. call' = call /\ answer' = answer
  BY DEF Deliver
<1>4. /\ inbox'[m.client] = Append(inbox[m.client], m)
      /\ \A d \in Clients \ {m.client} : inbox'[d] = inbox[d]
  BY <1>1 DEF Deliver, ClientsOK
<1>5. ASSUME NEW d \in Clients, extra'[d] = 0
      PROVE  InStepAt(d)'
  <2>1. InStepAt(d)
    BY <1>2, <1>5 DEF InStep
  <2>2. CASE d = m.client
    <3>1. net' = net \ {m}
      BY <1>2, <1>5, <2>2
    <3>2. \A x \in net' : x.client # d
      BY <1>1, <2>1, <2>2, <3>1 DEF InStepAt
    <3>3. inbox[d] = << >> /\ call[d].pc # "idle" /\ m.no = call[d].no
      BY <1>1, <2>1, <2>2 DEF InStepAt
    <3>4. inbox'[d] = << m >>
      BY <1>4, <2>2, <3>3
    <3>5. Len(inbox'[d]) = 1 /\ inbox'[d][1] = m
      BY <3>4
    <3>6. answer[d] # NoAnswer => answer[d].no = call[d].no
      BY <2>1 DEF InStepAt
    <3> QED
      BY <1>3, <3>2, <3>3, <3>5, <3>6 DEF InStepAt
  <2>3. CASE d # m.client
    BY <1>2, <1>3, <1>4, <2>1, <2>3, UntouchedInStep
  <2> QED
    BY <2>2, <2>3
<1> QED
  BY <1>5 DEF InStep

LEMMA NextInStep == TypeOK /\ InStep /\ [Next]_vars => InStep'
<1> SUFFICES ASSUME TypeOK, InStep, [Next]_vars
             PROVE  InStep'
  OBVIOUS
<1>1. ASSUME NEW c \in Clients, ClientStep(c)
      PROVE  InStep'
  BY <1>1, RegisterInStep, LookUpInStep, TakeAnswerInStep, TimeOutInStep, PingInStep,
     TakeOverInStep DEF ClientStep
<1>2. CASE ServerStep
  BY <1>2, ServerInStep
<1>3. ASSUME NEW m \in net, Lose(m)
      PROVE  InStep'
  BY <1>3 DEF Lose, InStep, InStepAt
<1>4. ASSUME NEW m \in Replies, Deliver(m)
      PROVE  InStep'
  BY <1>4, DeliverInStep
<1>5. CASE Tick
  BY <1>5 DEF Tick, InStep, InStepAt
<1>6. CASE UNCHANGED vars
  BY <1>6 DEF vars, InStep, InStepAt
<1> QED
  BY <1>1, <1>2, <1>3, <1>4, <1>5, <1>6 DEF Next, NetworkStep

(***************************************************************************)
(* A client without timeouts, keepalives and duplicates is in step with    *)
(* the server, whatever the other clients do: register, lookup and the     *)
(* server's handlers keep InStep.                                          *)
(***************************************************************************)
THEOREM AlwaysInStep == Spec => []InStep
<1>1. Init => InStep
  BY InitInStep
<1> QED
  BY <1>1, NextInStep, TypeCorrect, PTL DEF Spec

(***************************************************************************)
(* A client whose calls never timed out, that never pinged and whose       *)
(* datagrams were never duplicated gets the answer to its own call,        *)
(* although nothing in the datagrams says which call they answer.          *)
(***************************************************************************)
THEOREM AlwaysAnswersOwnCall == Spec => []AnswersOwnCall
<1>1. InStep => AnswersOwnCall
  BY DEF InStep, InStepAt, AnswersOwnCall
<1> QED
  BY <1>1, AlwaysInStep, PTL

----------------------------------------------------------------------------
(* What a datagram carries. *)

\* An ip that node id has registered from, according to the pairs seen.
HasRegisteredFrom(id, ip, seen) == \E d \in Clients : << id, d >> \in seen /\ ip = IpOf[d]

(***************************************************************************)
(* A lookup of the call its sender is in, or made last, names the target   *)
(* of that call, and an answer to it carries an ip which that target has   *)
(* registered from.                                                        *)
(***************************************************************************)
Faithful(m, calling, seen) ==
  /\ m.kind = "lookup" /\ m.no = calling[m.client].no => m.id = calling[m.client].target
  /\ m.kind = "found" /\ m.no = calling[m.client].no =>
       HasRegisteredFrom(calling[m.client].target, m.ip, seen)

PeersListed == \A i \in PeerIds : << i, peers[i].addr >> \in listed
NetFaithful == \A m \in net : Faithful(m, call, listed)
InboxFaithful ==
  \A c \in Clients : \A i \in 1 .. Len(inbox[c]) : Faithful(inbox[c][i], call, listed)
AnswerFaithful ==
  \A c \in Clients : answer[c].kind = "found" /\ answer[c].no = call[c].no =>
    HasRegisteredFrom(call[c].target, answer[c].ip, listed)

Match == PeersListed /\ NetFaithful /\ InboxFaithful /\ AnswerFaithful

LEMMA InitMatch == Init => Match
<1> SUFFICES ASSUME Init
             PROVE  Match
  OBVIOUS
<1>1. PeersListed
  <2>1. PeerIds = {}
    BY DEF Init, PeerIds
  <2> QED
    BY <2>1 DEF PeersListed
<1>2. \A c \in Clients : Len(inbox[c]) = 0 /\ answer[c].kind = "nothing"
  BY DEF Init, NoAnswer
<1> QED
  BY <1>1, <1>2 DEF Init, Match, NetFaithful, InboxFaithful, AnswerFaithful

\* A datagram keeps its promise while its client stays in the same call, and
\* loses all meaning for the client when that begins another one.
LEMMA FaithfulStays ==
  ASSUME NEW m, Faithful(m, call, listed),
         \/ /\ call'[m.client].no = call[m.client].no
            /\ call'[m.client].target = call[m.client].target
         \/ call'[m.client].no # m.no
  PROVE  Faithful(m, call', listed)
BY DEF Faithful

\* A client that sends: either it begins a call, or it stays in the one it is in.
LEMMA SendMatch ==
  ASSUME TypeOK, Match, NEW c \in Clients, NEW m, net' = net \cup {m}, Faithful(m, call', listed),
         UNCHANGED << peers, inbox, listed >>,
         \A d \in Clients \ {c} : call'[d] = call[d] /\ answer'[d] = answer[d],
         \/ call'[c] = call[c] /\ answer'[c] = answer[c]
         \/ call'[c].no = calls + 1 /\ answer'[c] = NoAnswer
  PROVE  Match'
<1>1. NetOK /\ ClientsOK /\ calls \in Nat
  BY DEF TypeOK
<1>2. ASSUME NEW n, n.client \in Clients, n.no \in 1 .. calls, Faithful(n, call, listed)
      PROVE  Faithful(n, call', listed)
  <2>1. CASE call'[n.client] = call[n.client]
    BY <1>2, <2>1, FaithfulStays
  <2>2. CASE n.client = c /\ call'[c].no = calls + 1
    <3>1. call'[n.client].no # n.no
      BY <1>1, <1>2, <2>2
    <3> QED
      BY <1>2, <3>1, FaithfulStays
  <2> QED
    BY <1>2, <2>1, <2>2
<1>3. NetFaithful'
  <2>1. \A n \in net : n.client \in Clients /\ n.no \in 1 .. calls
    BY <1>1, RequestKinds DEF NetOK, Datagrams
  <2> QED
    BY <1>2, <2>1 DEF Match, NetFaithful
<1>4. InboxFaithful'
  <2>1. ASSUME NEW d \in Clients, NEW i \in 1 .. Len(inbox[d])
        PROVE  Faithful(inbox[d][i], call', listed)
    <3>1. Faithful(inbox[d][i], call, listed) /\ inbox[d][i].client = d /\ inbox[d][i].no \in 1 .. calls
      BY <1>1 DEF ClientsOK, Match, InboxFaithful
    <3> QED
      BY <1>2, <3>1
  <2> QED
    BY <2>1 DEF InboxFaithful
<1>5. AnswerFaithful'
  BY DEF Match, AnswerFaithful, NoAnswer
<1>6. PeersListed'
  BY DEF Match, PeersListed, PeerIds
<1> QED
  BY <1>3, <1>4, <1>5, <1>6 DEF Match

LEMMA ClientSendsMatch ==
  ASSUME TypeOK, Match, NEW c \in Clients,
         Register(c) \/ (\E id \in Ids : LookUp(c, id)) \/ Ping(c)
  PROVE  Match'
<1>1. ClientsOK
  BY DEF TypeOK
<1>2. CASE Register(c)
  <2> DEFINE m == [kind |-> "register", client |-> c, no |-> calls + 1,
                   id |-> node[c], fields |-> RegisterFields(c)]
  <2>1. net' = net \cup {m} /\ UNCHANGED << peers, inbox, listed >>
    BY <1>2 DEF Register, Send, ghostVars
  <2>2. Faithful(m, call', listed)
    BY DEF Faithful
  <2>3. /\ call'[c].no = calls + 1 /\ answer'[c] = NoAnswer
        /\ \A d \in Clients \ {c} : call'[d] = call[d] /\ answer'[d] = answer[d]
    BY <1>1, <1>2 DEF Register, ClientsOK
  <2> HIDE DEF m
  <2> QED
    BY <2>1, <2>2, <2>3, SendMatch
<1>3. ASSUME NEW id \in Ids, LookUp(c, id)
      PROVE  Match'
  <2> DEFINE m == [kind |-> "lookup", client |-> c, no |-> calls + 1, id |-> id]
  <2>1. net' = net \cup {m} /\ UNCHANGED << peers, inbox, listed >>
    BY <1>3 DEF LookUp, Send, ghostVars
  <2>2. /\ call'[c].no = calls + 1 /\ call'[c].target = id /\ answer'[c] = NoAnswer
        /\ \A d \in Clients \ {c} : call'[d] = call[d] /\ answer'[d] = answer[d]
    BY <1>1, <1>3 DEF LookUp, ClientsOK
  <2>3. Faithful(m, call', listed)
    BY <2>2 DEF Faithful
  <2> HIDE DEF m
  <2> QED
    BY <2>1, <2>2, <2>3, SendMatch
<1>4. CASE Ping(c)
  <2> DEFINE m == [kind |-> "ping", client |-> c, no |-> calls + 1, by |-> node[c]]
  <2>1. net' = net \cup {m} /\ UNCHANGED << peers, inbox, call, answer, listed >>
    BY <1>4 DEF Ping, Send, ghostVars
  <2>2. Faithful(m, call', listed)
    BY DEF Faithful
  <2> HIDE DEF m
  <2> QED
    BY <2>1, <2>2, SendMatch
<1> QED
  BY <1>2, <1>3, <1>4

\* A step that leaves every client in its call, or lets the call end.
LEMMA SameCallsMatch ==
  ASSUME \A c \in Clients : call'[c].no = call[c].no /\ call'[c].target = call[c].target,
         NEW m, m.client \in Clients, Faithful(m, call, listed)
  PROVE  Faithful(m, call', listed)
BY FaithfulStays

LEMMA EndCallMatch ==
  ASSUME TypeOK, NEW c \in Clients, call' = [call EXCEPT ![c].pc = "idle"]
  PROVE  \A d \in Clients : call'[d].no = call[d].no /\ call'[d].target = call[d].target
BY EndCallType DEF TypeOK, ClientsOK

LEMMA TimeOutMatch == ASSUME TypeOK, Match, NEW c \in Clients, TimeOut(c)  PROVE  Match'
<1>1. \A d \in Clients : call'[d].no = call[d].no /\ call'[d].target = call[d].target
  BY EndCallMatch DEF TimeOut
<1>2. net' = net /\ inbox' = inbox /\ answer' = answer /\ peers' = peers /\ listed' = listed
  BY DEF TimeOut, ghostVars
<1>3. NetFaithful'
  <2>1. \A m \in net : m.client \in Clients
    BY RequestKinds DEF TypeOK, NetOK, Datagrams
  <2> QED
    BY <1>1, <1>2, <2>1, SameCallsMatch DEF Match, NetFaithful
<1>4. InboxFaithful'
  <2>1. \A d \in Clients : \A i \in 1 .. Len(inbox[d]) :
          inbox[d][i].client \in Clients /\ Faithful(inbox[d][i], call, listed)
    BY DEF TypeOK, ClientsOK, Match, InboxFaithful
  <2>2. \A d \in Clients : \A i \in 1 .. Len(inbox[d]) : Faithful(inbox[d][i], call', listed)
    BY <1>1, <2>1, SameCallsMatch
  <2> QED
    BY <1>2, <2>2 DEF InboxFaithful
<1>5. AnswerFaithful'
  BY <1>1, <1>2 DEF Match, AnswerFaithful
<1>6. PeersListed'
  BY <1>2 DEF Match, PeersListed, PeerIds
<1> QED
  BY <1>3, <1>4, <1>5, <1>6 DEF Match

LEMMA TakeAnswerMatch == ASSUME TypeOK, Match, NEW c \in Clients, TakeAnswer(c)  PROVE  Match'
<1>1. \A d \in Clients : call'[d].no = call[d].no /\ call'[d].target = call[d].target
  BY EndCallMatch DEF TakeAnswer
<1>2. /\ net' = net /\ peers' = peers /\ listed' = listed
      /\ inbox[c] # << >> /\ ClientsOK /\ inbox[c] \in Seq(Answers)
  BY DEF TakeAnswer, TypeOK, ClientsOK, ghostVars
<1>3. NetFaithful'
  <2>1. \A m \in net : m.client \in Clients
    BY RequestKinds DEF TypeOK, NetOK, Datagrams
  <2> QED
    BY <1>1, <1>2, <2>1, SameCallsMatch DEF Match, NetFaithful
<1>4. \A d \in Clients : \A i \in 1 .. Len(inbox[d]) :
        inbox[d][i].client = d /\ Faithful(inbox[d][i], call, listed)
  BY <1>2 DEF ClientsOK, Match, InboxFaithful
<1>5. InboxFaithful'
  <2>1. ASSUME NEW d \in Clients, NEW i \in 1 .. Len(inbox'[d])
        PROVE  \E j \in 1 .. Len(inbox[d]) : inbox'[d][i] = inbox[d][j]
    <3>1. CASE d = c
      <4>1. inbox'[c] = Tail(inbox[c])
        BY <1>2 DEF TakeAnswer, ClientsOK
      <4> QED
        BY <1>2, <2>1, <3>1, <4>1, TailFacts
    <3>2. CASE d # c
      BY <1>2, <2>1, <3>2 DEF TakeAnswer, ClientsOK
    <3> QED
      BY <3>1, <3>2
  <2>2. ASSUME NEW d \in Clients, NEW i \in 1 .. Len(inbox'[d])
        PROVE  Faithful(inbox'[d][i], call', listed)
    <3>1. PICK j \in 1 .. Len(inbox[d]) : inbox'[d][i] = inbox[d][j]
      BY <2>1
    <3>2. Faithful(inbox[d][j], call', listed)
      BY <1>1, <1>4, SameCallsMatch
    <3> QED
      BY <3>1, <3>2
  <2> QED
    BY <1>2, <2>2 DEF InboxFaithful
<1>6. AnswerFaithful'
  <2> SUFFICES ASSUME NEW d \in Clients, answer'[d].kind = "found", answer'[d].no = call'[d].no
               PROVE  HasRegisteredFrom(call'[d].target, answer'[d].ip, listed)
    BY <1>2 DEF AnswerFaithful
  <2>1. CASE d = c
    <3>1. Head(inbox[c]) = inbox[c][1] /\ 1 \in 1 .. Len(inbox[c])
      BY <1>2, TailFacts
    <3>2. \/ answer'[c] = inbox[c][1]
          \/ answer'[c] = [kind |-> "failed", no |-> inbox[c][1].no]
      BY <1>2, <3>1 DEF TakeAnswer, ClientsOK
    <3>3. answer'[c] = inbox[c][1]
      BY <2>1, <3>2
    <3>4. inbox[c][1].client = c /\ Faithful(inbox[c][1], call, listed)
      BY <1>4, <3>1
    <3> QED
      BY <1>1, <2>1, <3>3, <3>4 DEF Faithful
  <2>2. CASE d # c
    BY <1>1, <1>2, <2>2 DEF TakeAnswer, ClientsOK, Match, AnswerFaithful
  <2> QED
    BY <2>1, <2>2
<1>7. PeersListed'
  BY <1>2 DEF Match, PeersListed, PeerIds
<1> QED
  BY <1>3, <1>5, <1>6, <1>7 DEF Match

LEMMA TakeOverMatch ==
  ASSUME TypeOK, Match, NEW c \in Clients, NEW id, TakeOver(c, id)
  PROVE  Match'
<1>1. net' = net /\ peers' = peers /\ listed' = listed /\ NetOK /\ ClientsOK /\ calls \in Nat
  BY DEF TakeOver, TypeOK, ghostVars
<1>2. /\ call'[c].no = 0 /\ answer'[c] = NoAnswer /\ inbox'[c] = << >>
      /\ \A d \in Clients \ {c} :
           call'[d] = call[d] /\ answer'[d] = answer[d] /\ inbox'[d] = inbox[d]
  BY <1>1 DEF TakeOver, ClientsOK
<1>3. ASSUME NEW n, n.client \in Clients, n.no \in 1 .. calls, Faithful(n, call, listed)
      PROVE  Faithful(n, call', listed)
  <2>1. CASE n.client # c
    BY <1>2, <1>3, <2>1, FaithfulStays
  <2>2. CASE n.client = c
    BY <1>1, <1>2, <1>3, <2>2, FaithfulStays
  <2> QED
    BY <2>1, <2>2
<1>4. NetFaithful'
  <2>1. \A n \in net : n.client \in Clients /\ n.no \in 1 .. calls
    BY <1>1, RequestKinds DEF NetOK, Datagrams
  <2> QED
    BY <1>1, <1>3, <2>1 DEF Match, NetFaithful
<1>5. InboxFaithful'
  <2>1. ASSUME NEW d \in Clients \ {c}, NEW i \in 1 .. Len(inbox[d])
        PROVE  Faithful(inbox[d][i], call', listed)
    <3>1. /\ Faithful(inbox[d][i], call, listed) /\ inbox[d][i].client = d
          /\ inbox[d][i].no \in 1 .. calls
      BY <1>1 DEF ClientsOK, Match, InboxFaithful
    <3> QED
      BY <1>3, <3>1
  <2>2. Len(inbox'[c]) = 0
    BY <1>2
  <2> QED
    BY <1>1, <1>2, <2>1, <2>2 DEF InboxFaithful
<1>6. AnswerFaithful'
  BY <1>1, <1>2 DEF Match, AnswerFaithful, NoAnswer
<1>7. PeersListed'
  BY <1>1 DEF Match, PeersListed, PeerIds
<1> QED
  BY <1>4, <1>5, <1>6, <1>7 DEF Match

\* What the server has registered, it has registered ever after.
LEMMA FaithfulToMore ==
  ASSUME NEW m, NEW calling, NEW seen, NEW more, seen \subseteq more, Faithful(m, calling, seen)
  PROVE  Faithful(m, calling, more)
BY DEF Faithful, HasRegisteredFrom

\* A step of the server: it may add an answer that is faithful, and must list
\* the peers it files.
LEMMA ServerAnswersMatch ==
  ASSUME TypeOK, Match, NEW m \in net, NEW n, Faithful(n, call, listed), Consume(m, {n}),
         UNCHANGED serverUnchanged, listed \subseteq listed', PeersListed'
  PROVE  Match'
<1>1. m.client \in Clients /\ extra \in [Clients -> Nat]
  BY RequestKinds DEF TypeOK, NetOK, Datagrams
<1>2. net' \subseteq net \cup {n}
  BY <1>1, ConsumeFacts
<1>3. inbox' = inbox /\ call' = call /\ answer' = answer
  BY DEF serverUnchanged
<1>4. NetFaithful'
  <2>1. \A x \in net' : Faithful(x, call, listed)
    BY <1>2 DEF Match, NetFaithful
  <2>2. \A x \in net' : Faithful(x, call', listed')
    BY <1>3, <2>1, FaithfulToMore
  <2> QED
    BY <2>2 DEF NetFaithful
<1>5. InboxFaithful'
  <2>1. \A d \in Clients : \A i \in 1 .. Len(inbox'[d]) : Faithful(inbox'[d][i], call', listed')
    BY <1>3, FaithfulToMore DEF Match, InboxFaithful
  <2> QED
    BY <2>1 DEF InboxFaithful
<1>6. AnswerFaithful'
  BY <1>3 DEF Match, AnswerFaithful, HasRegisteredFrom
<1> QED
  BY <1>4, <1>5, <1>6 DEF Match

LEMMA ServerMatch == ASSUME TypeOK, Match, ServerStep  PROVE  Match'
<1>1. ASSUME NEW m \in net, HandleRegister(m)
      PROVE  Match'
  <2> DEFINE n == PeerReply(m, "ack", m.client, ReadPort(m))
  <2>1. Faithful(n, call, listed)
    BY DEF PeerReply, Faithful
  <2>2. Consume(m, {n}) /\ UNCHANGED serverUnchanged /\ listed \subseteq listed'
    BY <1>1 DEF HandleRegister
  <2>3. PeersListed'
    <3>1. listed' = listed \cup {<< m.id, m.client >>}
      BY <1>1 DEF HandleRegister
    <3>2. /\ PeerIds' = PeerIds \cup {m.id}
          /\ peers'[m.id].addr = m.client
          /\ \A i \in PeerIds \ {m.id} : peers'[i] = peers[i]
      BY <1>1 DEF HandleRegister, Recorded, PeerIds
    <3> QED
      BY <3>1, <3>2 DEF Match, PeersListed
  <2> HIDE DEF n
  <2> QED
    BY <2>1, <2>2, <2>3, ServerAnswersMatch
<1>2. ASSUME NEW m \in net, HandleLookUp(m)
      PROVE  Match'
  <2> DEFINE n == IF m.id \in PeerIds
                  THEN PeerReply(m, "found", PeerOf(m.id).addr, PeerOf(m.id).port)
                  ELSE Reply(m, "not_found")
  <2>1. Faithful(n, call, listed)
    <3>1. m.kind = "lookup" /\ Faithful(m, call, listed)
      BY <1>2 DEF HandleLookUp, Match, NetFaithful
    <3>2. CASE m.id \in PeerIds
      <4>1. << m.id, PeerOf(m.id).addr >> \in listed /\ PeerOf(m.id).addr \in Clients
        BY <3>2 DEF PeerOf, Match, PeersListed, TypeOK, PeersOK
      <4>2. HasRegisteredFrom(m.id, IpOf[PeerOf(m.id).addr], listed)
        BY <4>1 DEF HasRegisteredFrom
      <4>3. n = PeerReply(m, "found", PeerOf(m.id).addr, PeerOf(m.id).port)
        BY <3>2
      <4>4. n.no = m.no /\ n.client = m.client /\ n.kind = "found" /\ n.ip = IpOf[PeerOf(m.id).addr]
        BY <4>3 DEF PeerReply
      <4> HIDE DEF n
      <4> QED
        BY <3>1, <4>2, <4>4 DEF Faithful
    <3>3. CASE m.id \notin PeerIds
      BY <3>3 DEF Reply, Faithful
    <3> QED
      BY <3>2, <3>3
  <2>2. Consume(m, {n}) /\ UNCHANGED serverUnchanged /\ listed' = listed
    BY <1>2 DEF HandleLookUp, ghostVars
  <2>3. PeersListed'
    BY <1>2, <2>2 DEF HandleLookUp, Match, PeersListed, PeerIds
  <2> HIDE DEF n
  <2> QED
    BY <2>1, <2>2, <2>3, ServerAnswersMatch
<1>3. ASSUME NEW m \in net, HandlePing(m)
      PROVE  Match'
  <2> DEFINE n == Reply(m, "pong")
  <2>1. Faithful(n, call, listed)
    BY DEF Reply, Faithful
  <2>2. Consume(m, {n}) /\ UNCHANGED serverUnchanged /\ listed' = listed
    BY <1>3 DEF HandlePing
  <2>3. PeersListed'
    <3>1. PeerIds' = PeerIds
      BY <1>3 DEF HandlePing, PeerIds
    <3>2. \A i \in PeerIds : peers'[i].addr = peers[i].addr
      <4>1. \A i \in PeerIds :
              peers[i] \in [addr : Clients, port : Nat, seen : 0 .. now, before : SUBSET PeerIds]
        BY DEF TypeOK, PeersOK
      <4> QED
        BY <1>3, <4>1 DEF HandlePing
    <3> QED
      BY <2>2, <3>1, <3>2 DEF Match, PeersListed
  <2> HIDE DEF n
  <2> QED
    BY <2>1, <2>2, <2>3, ServerAnswersMatch
<1>4. ASSUME UNCHANGED << net, inbox, call, answer, listed >>, PeersListed'
      PROVE  Match'
  BY <1>4 DEF Match, NetFaithful, InboxFaithful, AnswerFaithful
<1>5. CASE CleanupStalePeers
  <2>1. PeersListed'
    <3>1. PeerIds' \subseteq PeerIds /\ \A i \in PeerIds' : peers'[i].addr = peers[i].addr
      <4>1. \A i \in PeerIds :
              peers[i] \in [addr : Clients, port : Nat, seen : 0 .. now, before : SUBSET PeerIds]
        BY DEF TypeOK, PeersOK
      <4> QED
        BY <1>5, <4>1 DEF CleanupStalePeers, PeerIds
    <3> QED
      BY <1>5, <3>1 DEF Match, PeersListed, CleanupStalePeers, ghostVars
  <2> QED
    BY <1>4, <1>5, <2>1 DEF CleanupStalePeers, serverUnchanged, ghostVars
<1>6. CASE ServerRestart
  <2>1. PeersListed'
    <3>1. PeerIds' = {}
      BY <1>6 DEF ServerRestart, PeerIds
    <3> QED
      BY <3>1 DEF PeersListed
  <2> QED
    BY <1>4, <1>6, <2>1 DEF ServerRestart, serverUnchanged, ghostVars
<1> QED
  BY <1>1, <1>2, <1>3, <1>5, <1>6 DEF ServerStep

LEMMA DeliverMatch == ASSUME TypeOK, Match, NEW m \in Replies, Deliver(m)  PROVE  Match'
<1>1. /\ m \in net /\ m \in Answers /\ m.client \in Clients
      /\ ClientsOK /\ extra \in [Clients -> Nat]
  BY RequestKinds DEF TypeOK, NetOK, Datagrams, Replies
<1>2. /\ net' \subseteq net /\ listed' = listed
      /\ call' = call /\ answer' = answer /\ peers' = peers
  BY <1>1, ConsumeFacts DEF Deliver, ghostVars
<1>3. Faithful(m, call, listed)
  BY <1>1 DEF Match, NetFaithful
<1>4. ASSUME NEW d \in Clients, NEW i \in 1 .. Len(inbox'[d])
      PROVE  Faithful(inbox'[d][i], call, listed)
  <2>1. CASE d = m.client
    <3>1. inbox'[d] = Append(inbox[d], m) /\ inbox[d] \in Seq(Answers)
      BY <1>1, <2>1 DEF Deliver, ClientsOK
    <3>2. \/ i \in 1 .. Len(inbox[d]) /\ inbox'[d][i] = inbox[d][i]
          \/ inbox'[d][i] = m
      BY <1>1, <1>4, <3>1, AppendFacts
    <3> QED
      BY <1>3, <3>2 DEF Match, InboxFaithful
  <2>2. CASE d # m.client
    BY <1>1, <1>4, <2>2 DEF Deliver, ClientsOK, Match, InboxFaithful
  <2> QED
    BY <2>1, <2>2
<1>5. InboxFaithful'
  BY <1>2, <1>4 DEF InboxFaithful
<1>6. PeersListed' /\ NetFaithful' /\ AnswerFaithful'
  BY <1>2 DEF Match, PeersListed, PeerIds, NetFaithful, AnswerFaithful
<1> QED
  BY <1>5, <1>6 DEF Match

LEMMA NextMatch == TypeOK /\ Match /\ [Next]_vars => Match'
<1> SUFFICES ASSUME TypeOK, Match, [Next]_vars
             PROVE  Match'
  OBVIOUS
<1>1. ASSUME NEW c \in Clients, ClientStep(c)
      PROVE  Match'
  BY <1>1, ClientSendsMatch, TakeAnswerMatch, TimeOutMatch, TakeOverMatch DEF ClientStep
<1>2. CASE ServerStep
  BY <1>2, ServerMatch
<1>3. ASSUME NEW m \in net, Lose(m)
      PROVE  Match'
  BY <1>3 DEF Lose, ghostVars, Match, PeersListed, PeerIds, NetFaithful, InboxFaithful, AnswerFaithful
<1>4. ASSUME NEW m \in Replies, Deliver(m)
      PROVE  Match'
  BY <1>4, DeliverMatch
<1>5. CASE Tick
  BY <1>5 DEF Tick, ghostVars, Match, PeersListed, PeerIds, NetFaithful, InboxFaithful, AnswerFaithful
<1>6. CASE UNCHANGED vars
  BY <1>6 DEF vars, ghostVars, Match, PeersListed, PeerIds, NetFaithful, InboxFaithful, AnswerFaithful
<1> QED
  BY <1>1, <1>2, <1>3, <1>4, <1>5, <1>6 DEF Next, NetworkStep

(***************************************************************************)
(* A lookup that found a peer, by a client whose calls never timed out,    *)
(* that never pinged and whose datagrams were never duplicated, returns an *)
(* ip which the node looked up has registered from, whatever the server    *)
(* forgets, whenever it restarts and whichever addresses change hands.     *)
(***************************************************************************)
THEOREM AlwaysFoundPeerIsTarget == Spec => []FoundPeerIsTarget
<1>1. Init => Match
  BY InitMatch
<1>2. Spec => []Match
  BY <1>1, NextMatch, TypeCorrect, PTL DEF Spec
<1>3. AnswersOwnCall /\ Match => FoundPeerIsTarget
  BY DEF AnswersOwnCall, Match, AnswerFaithful, HasRegisteredFrom, FoundPeerIsTarget, NoAnswer
<1> QED
  BY <1>2, <1>3, AlwaysAnswersOwnCall, PTL

----------------------------------------------------------------------------
(* Signs of life. *)

AnotherListed(i) == \E j \in Ids \ {i} : << j, peers[i].addr >> \in listed

\* A peer is seen no earlier than its node last gave a sign of life, unless its
\* ping refreshed another one that is filed under the same address.
SeenWhenHeard == \A i \in PeerIds : heard[i] <= peers[i].seen \/ AnotherListed(i)

LEMMA PeerTypes ==
  ASSUME TypeOK
  PROVE  /\ now \in Nat /\ heard \in [Ids -> 0 .. now] /\ PeerIds \subseteq Ids
         /\ \A i \in PeerIds :
              /\ peers[i] \in [addr : Clients, port : Nat, seen : 0 .. now, before : SUBSET PeerIds]
              /\ i \notin peers[i].before
  BY DEF TypeOK, PeersOK

LEMMA SeenStays ==
  ASSUME SeenWhenHeard, UNCHANGED ghostVars, PeerIds' \subseteq PeerIds,
         \A i \in PeerIds' : peers'[i].addr = peers[i].addr /\ peers'[i].seen = peers[i].seen
  PROVE  SeenWhenHeard'
  BY DEF SeenWhenHeard, AnotherListed, ghostVars

LEMMA RegisterSeen ==
  ASSUME TypeOK, SeenWhenHeard, NEW m \in net, HandleRegister(m)
  PROVE  SeenWhenHeard'
<1>1. m \in RegisterRequests
  BY RequestKinds DEF TypeOK, NetOK, HandleRegister, Datagrams
<1>2. /\ PeerIds' = PeerIds \cup {m.id}
      /\ peers'[m.id].seen = now
      /\ \A i \in PeerIds : i # m.id => peers'[i] = peers[i]
  BY DEF HandleRegister, Recorded, PeerIds
<1>3. heard' = [heard EXCEPT ![m.id] = now] /\ listed \subseteq listed' /\ m.id \in Ids
  BY <1>1 DEF HandleRegister, RegisterRequests
<1>4. ASSUME NEW i \in PeerIds, i # m.id
      PROVE  heard'[i] <= peers'[i].seen \/ AnotherListed(i)'
  <2>1. heard'[i] = heard[i]
    BY <1>3, <1>4, PeerTypes
  <2>. QED
    BY <1>2, <1>3, <1>4, <2>1 DEF SeenWhenHeard, AnotherListed
<1>5. heard'[m.id] <= peers'[m.id].seen
  BY <1>2, <1>3, PeerTypes
<1>. QED
  BY <1>2, <1>4, <1>5 DEF SeenWhenHeard

\* The ping of a peer refreshes it, or the first of those filed under its address.
LEMMA PingSeen ==
  ASSUME TypeOK, PeersListed, SeenWhenHeard, NEW m \in net, HandlePing(m)
  PROVE  SeenWhenHeard'
<1>1. PeerIds' = PeerIds /\ listed' = listed
  BY DEF HandlePing, PeerIds
<1>2. ASSUME NEW i \in PeerIds
      PROVE  heard'[i] <= peers'[i].seen \/ AnotherListed(i)'
  <2>1. /\ peers[i] \in [addr : Clients, port : Nat, seen : 0 .. now, before : SUBSET PeerIds]
        /\ i \in Ids /\ i \notin peers[i].before
    BY PeerTypes
  <2>2. peers'[i] = IF i \in FirstAt(m.client) THEN [peers[i] EXCEPT !.seen = now] ELSE peers[i]
    BY DEF HandlePing, PeerIds
  <2>3. peers'[i].addr = peers[i].addr
    BY <2>1, <2>2
  <2>4. heard'[i] = IF i = m.by /\ i \in PeerIds /\ peers[i].addr = m.client
                    THEN now ELSE heard[i]
    BY <2>1 DEF HandlePing
  <2>5. CASE i \in FirstAt(m.client)
    <3>1. peers'[i].seen = now
      BY <2>1, <2>2, <2>5
    <3>2. heard'[i] \in 0 .. now /\ now \in Nat
      BY <2>1, <2>4, PeerTypes
    <3>. QED
      BY <3>1, <3>2
  <2>6. CASE i \notin FirstAt(m.client) /\ peers[i].addr = m.client
    <3>1. PICK j \in peers[i].before : peers[j].addr = m.client
      BY <2>6 DEF FirstAt
    <3>2. j \in PeerIds /\ j \in Ids /\ j # i
      BY <2>1, <3>1, PeerTypes
    <3>3. << j, peers'[i].addr >> \in listed'
      BY <1>1, <2>3, <2>6, <3>1, <3>2 DEF PeersListed
    <3>. QED
      BY <3>2, <3>3 DEF AnotherListed
  <2>7. CASE i \notin FirstAt(m.client) /\ peers[i].addr # m.client
    BY <1>1, <2>2, <2>3, <2>4, <2>7 DEF SeenWhenHeard, AnotherListed
  <2>. QED
    BY <2>5, <2>6, <2>7
<1>. QED
  BY <1>1, <1>2 DEF SeenWhenHeard

LEMMA NextSeen == TypeOK /\ Match /\ SeenWhenHeard /\ [Next]_vars => SeenWhenHeard'
<1> SUFFICES ASSUME TypeOK, Match, SeenWhenHeard, [Next]_vars
             PROVE  SeenWhenHeard'
  OBVIOUS
<1>1. CASE UNCHANGED << peers, ghostVars >>
  BY <1>1, SeenStays DEF PeerIds
<1>2. CASE CleanupStalePeers
  <2>1. PeerIds' \subseteq PeerIds /\ UNCHANGED ghostVars
    BY <1>2 DEF CleanupStalePeers, PeerIds
  <2>2. ASSUME NEW i \in PeerIds'
        PROVE  peers'[i].addr = peers[i].addr /\ peers'[i].seen = peers[i].seen
    <3>1. peers'[i] = [peers[i] EXCEPT !.before = @ \cap PeerIds']
      BY <1>2 DEF CleanupStalePeers, PeerIds
    <3>2. peers[i] \in [addr : Clients, port : Nat, seen : 0 .. now, before : SUBSET PeerIds]
      BY <2>1, PeerTypes
    <3>. QED
      BY <3>1, <3>2
  <2>. QED
    BY <2>1, <2>2, SeenStays
<1>3. CASE ServerRestart
  <2>1. PeerIds' = {}
    BY <1>3 DEF ServerRestart, PeerIds
  <2>. QED
    BY <2>1 DEF SeenWhenHeard
<1>4. CASE ServerStep
  BY <1>1, <1>2, <1>3, <1>4, RegisterSeen, PingSeen DEF ServerStep, HandleLookUp, Match
<1>. QED
  BY <1>1, <1>4 DEF Next, ClientStep, Register, LookUp, Send, TakeAnswer, TimeOut, Ping, TakeOver,
                    NetworkStep, Lose, Deliver, Tick, vars, ghostVars

(***************************************************************************)
(* Whom cleanup_stale_peers removes has been silent for longer than the    *)
(* timeout: it has neither registered nor pinged from its address, or that *)
(* address was another node's as well, whose entry its ping refreshed.     *)
(***************************************************************************)
THEOREM RemovedPeersAlwaysSilent == Spec => RemovedPeersWereSilent
<1>1. Init => SeenWhenHeard
  BY DEF Init, SeenWhenHeard, PeerIds
<1>2. Spec => [](TypeOK /\ Match /\ SeenWhenHeard)
  BY <1>1, InitType, InitMatch, NextType, NextMatch, NextSeen, PTL DEF Spec
<1>3. ASSUME TypeOK, SeenWhenHeard, CleanupStalePeers, NEW i \in PeerIds \ DOMAIN peers'
      PROVE  now - heard[i] > StaleAfter \/ AnotherListed(i)
  <2>1. peers[i].seen \in 0 .. now /\ heard[i] \in 0 .. now /\ now \in Nat /\ StaleAfter \in Nat
    BY <1>3, PeerTypes, BoundAssumption
  <2>2. ~ (now - peers[i].seen <= StaleAfter)
    BY <1>3 DEF CleanupStalePeers, PeerIds
  <2>3. heard[i] <= peers[i].seen \/ AnotherListed(i)
    BY <1>3 DEF SeenWhenHeard
  <2>. QED
    BY <2>1, <2>2, <2>3
<1>4. TypeOK /\ SeenWhenHeard /\ [Next]_vars =>
        [CleanupStalePeers =>
           \A i \in PeerIds \ DOMAIN peers' :
             \/ now - heard[i] > StaleAfter
             \/ \E j \in Ids \ {i} : << j, peers[i].addr >> \in listed]_vars
  BY <1>3 DEF AnotherListed
<1>. QED
  BY <1>2, <1>4, PTL DEF Spec, RemovedPeersWereSilent
===============================================================================
