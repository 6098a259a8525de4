# A TLA+ model of NanoCell (openverse-poetry/DC4P)

NanoCell is a small peer-to-peer messaging system in Python: a storage engine
with threads, a bootstrap server that peers register with, a relay server, a
network engine on every node, and role-based administration. This directory
holds TLA+ modules translated from its source, TLC configurations that check
them on small instances, and proofs that TLAPS checks for every instance.

    tlc -workers 2 -config MCLSMTree.cfg MCLSMTree
    tlapm MemTable_proofs.tla

`PROJECT.json` lists the components, the runs, what each definition is
translated from, the hazards of the code, and the disagreements between code
and documentation that the runs show.

## 1. Inventory

| Component | State | Operations | Talks to |
|---|---|---|---|
| Skip list (`core/storage.py` `SkipList`) | nodes, `_heads`, `_size` | put, get, delete, iter_range | MemTable calls it under its own lock |
| MemTable | `_skiplist`, `_current_size` | put, delete, get, is_full, flush_to_sst | LSMTree; writes an SSTable |
| SSTable | file, `_index`, handle | create, load, get, close | LSMTree; the disk |
| LSM tree (`LSMTree`) | `_memtable`, `_imm_memtable`, `_sstables`, `_running`, `_lock` | put, delete, get, close, the flush thread, the compaction thread, opening | callers, two kinds of background threads, the disk |
| Bootstrap server (`server/bootstrap.py`) | `_peers` | REGISTER, LOOKUP, PING, cleanup_stale_peers | clients, over UDP |
| Bootstrap client (`core/network.py`) | its socket and what is in its buffer | register, lookup | the server, over UDP |
| Roles (`admin/roles.py` `AccessControl`) | `_users`, `_roles`, `_owner_id` | register_user, appoint_admin, revoke_admin, ban, unban, create_custom_role | the admin command line, `AuthManager` |
| Sessions (`AuthManager`) | `_sessions` | authenticate, create, validate, destroy | AccessControl, the clock |
| Command line (`admin/cli.py` `AdminCLI`) | the owner's id | appoint, revoke, ban, unban, role create | AccessControl, with the owner as actor |
| Relay server (`server/bootstrap.py`) | `_clients`, `_reverse_map` | CONNECT, DISCONNECT, FORWARD, PING | its clients, over UDP |
| Network engine, hole puncher (`core/network.py`) | `_peers`, `_direct_peers`, `_relay_peers`, `_pending_connections`, handlers | add_peer, register_handler, send_message, broadcast, connect_to_peer, start, stop, the receive loop | both servers, other nodes, the application |
| Protocol (`core/protocol.py`) | `_seq_counter` | the constructors, from_bytes | the application |
| Crypto, launchers, configuration | none | library calls, argument parsing | - |

What is hard in it:

- **Threads around one lock that not everybody takes.** `LSMTree.get` takes no
  lock and reads `_memtable`, `_imm_memtable` (twice) and a live list that
  flush and compaction change below it. `close` closes tables without the
  lock, and sleeps while it has it.
- **Order.** Which of several entries of one key is served depends on where
  the walk through the skip list starts, on a stable sort, on an index in which
  the later record wins, and on the position of a table in `_sstables`.
- **Failure.** A flush or a compaction that fails, a crash between writing and
  unlinking or between two unlinks, opening the directory again.
- **Datagrams.** A client takes whatever comes first for the answer to its
  call; late and duplicated answers shift all later ones. An address serves one
  node after the other, and the server finds who pings by the address.
- **NATs.** A datagram is let in only by who has sent one before; hole punches
  of two sides cross, are turned away and lost. Addresses change under the
  relay's maps and under the sets of direct peers, and what a NAT let in before
  it lets in no longer.
- **A counter without a lock.** Handlers send from the receive thread while the
  application sends from its own, and both draw sequence numbers.
- **Sequences of legal calls** that end in an administration without an owner,
  or with nobody who can act, or leave half of a command behind; bans and
  sessions that overlap.

What makes each component correct: the skip list's levels agree and a lookup
answers from the list; a flush changes no answer; a key stays findable on its
way from memtable to table to merged table; tables that are listed can be
read; threads and calls end; an answer is the answer to the call, and a client
gets behind by no more than its timeouts and duplicates; cleanup removes silent
peers only; the relay's two maps agree and what it forwards goes to and names
the right programs; of two nodes that punch each other one gets through; what a
handler decodes was sent to it as a message; nobody takes control away from the
owner; a ban takes hold within a session's length; whoever is locked out stays
out.

## 2. Modules

| Module | Models | Abstract specification |
|---|---|---|
| `StorageOps` | pure operators: list after a put, walk of a lookup, size accounting, a table's image, a merge, the tail of a file | - |
| `NodeList` | what `SkipList` promises | is one |
| `SkipList` | nodes, heads and forward pointers, the walks level by level | implements `NodeList` |
| `MemTable` | `MemTable` through its public operations | - |
| `LSMTree` | `LSMTree` with all its threads | - |
| `Discovery` | `BootstrapServer`, `BootstrapClient`, the network | - |
| `AccessControl` | `AccessControl` | - |
| `AdminConsole` | `AdminCLI` and `AuthManager` over `AccessControl` | - |
| `Network` | UDP and the NATs: datagrams, addresses, who lets in what | - |
| `Relay` | `RelayServer`, over `Network` | - |
| `NetworkEngine` | `NetworkEngine`, `HolePuncher`, `Protocol`, over `Network` | - |
| `Messaging` | composes `Relay` and `NetworkEngine` with applications and relay clients | - |
| `xxx_proofs` | lemmas and theorems about `xxx` | - |
| `MCxxx` | small instances of `xxx` for TLC | - |

### Storage

A skip list is the sequence of its nodes in level-0 order. `SkipList` models
the pointers, and they are proved to implement that sequence
(`ImplementsNodeList`), so everything above works on sequences. In one process
every node has the same level: `_random_level` hashes the strings "1", "2",
"3", so its outcome is fixed by the hash seed; the model draws it once.

The list is **not** sorted: put starts on the first node, whatever its key, and
can only insert behind it. Behind the first node keys never decrease and the
newest entry of a key comes first (`TailSorted`). All the order the engine has
rests on this.

An SSTable's *image* is the function from the keys in its index to the entries
at their offsets. `SSTable.create` sorts stably and lets the last record of a
key win, so the image takes of every key the entry that stands last in the
list. `FlushPreservesLookups` says that this is the entry `get` finds, although
it is not always the newest one put.

`LSMTree` has a variable for each field, and one for each thread's program
counter. `put` holds `_lock` from its first step to its last and is one step.
`close` and `_compact` hold it over several, which `lock` records. The flush
thread takes four: write the file, reset the memtable, list the table and drop
the memtable; or fail and give up. The compaction thread pops two tables one
after the other, merges and appends, closes the two one after the other and
unlinks the two one after the other; merging, writing and unlinking may raise,
and a crash may come between any two of these steps. `get` makes a
step for each read of a shared field, except that fetching a memtable and
searching it are one. Reading a closed table raises, in a reader as in
`_compact`, where it ends the thread.

`Restart` is a crash or exit at any moment followed by a new `LSMTree` on the
same directory. What it lists depends on `LoadFindsIndex`: `create` ends a file
with the index offset in 8 bytes, `load` reads 8 bytes that start 20 before the
end, and the number found there points nowhere. (A file can be contrived in
which those bytes happen to be an offset that decodes; the model leaves it
out.) An exit after `close` is a restart too.

Left out: keys from `b'\xff' * 64` on (iter_range would stop in front of them),
clocks that repeat a microsecond (two tables of one name) or go back, a second
call of `close`, and the encoding of records. `LSMTree.put` takes no `deleted`
argument: `delete` puts `b''`, an entry like any other, and the flag is set
only by `MemTable.delete` and `SkipList.delete`, which `MemTable` and
`SkipList` model.

### Discovery

Clients call `register` and `lookup`; a call sends one datagram and waits for
one. The network loses, reorders and duplicates in both directions; what is
delivered waits in the socket's buffer, also when no call does. The ghost field
`no` of a datagram tells to which call it belongs; no guard reads it. A reply
with a peer holds what the code packs, the ip of the address the peer was
registered from (`IpOf`) and the port the server has read; a reply of another
kind makes the call fail. An address serves one program at a time, but after a
`close` the next one may have another node id (`TakeOver`, with an empty
buffer), and one node may register from several addresses: the server hears all
of them, in any order. `PING` is in the server and not in any client of the
repository; the model sends it now and then, as somebody must for the handler
to matter. It refreshes the first peer with the sender's address, and the dict
keeps the order of first registration: `before` holds, for each peer, the ids
that stand in front of it. `cleanup_stale_peers` and a restart of the server
happen at any time. The ghost `heard` is when the server last had a sign of
life of a node: a registration, or a ping from the address it is registered
with. The ghost `listed` holds who has ever registered from where, and `extra`
counts the timeouts, pings and duplicates at an address.

### Access control

`AdminCLI` calls `set_owner` once, before anything else: that is `Init`. An
operation that refuses changes nothing and is not a step. A permission set is
the set of its bit numbers, and `Higher` compares two of them as the numbers
the code compares. The ghost `delegated` turns true when the owner gives
somebody a role with `APPOINT_ADMIN`, or changes his own role.

### Console and sessions

`AdminConsole` EXTENDS `AccessControl` and adds `AuthManager._sessions` and the
clock. All of it runs in one thread. A command is one step, but for `appoint`
of a user there is not: it registers him, and then appoints him or is refused;
`command` holds what is between the two calls, and only the clock moves there.
A command that changes nothing (`kick`, `users`, `admins`, `stats`, and every
refused one) is no step. `Operate` is what a program around `AccessControl`
lets others than the owner do, and custom roles with other permissions than
`role create` gives. A session token is used by one session at a time;
`validate_session` is a step when it deletes. The ghost `bannedSince` is when
each ban began.

`validate_session` does not look at the user, so a ban does not end a session.
What is true is that a session admits a banned user for no longer than a
session's length after the ban (`BanTakesHold`), because `create_session`
refuses him. Roles are named in advance; a clock that goes back is left out.

That every step of the console does to users and roles what some operation of
`AccessControl` does, or nothing, is how `AdminConsole` is written, and a lemma
(`ConsoleStepsAllowed`) by which the action properties carry over. It is not
counted as a result.

### Messaging

`Network` is what the code runs on and nothing in the repository: a set of
datagrams in flight, the address every program has now (`place`), and for every
NAT what it lets in (`opened`). A datagram may stay after it has arrived, which
is a duplicate, and arrives in any order. Only a punch can be lost for good
(`Vanish`, counted by `lost`); any other datagram may stay in flight for ever,
which to its recipient is the same. A NAT may map its program anew, and a program
that is started gets a free address: what was open at its old address and at
the new one is then closed, so that neither the program nor whoever comes to an
address after it is let in by old openings. The ghost `homes` holds the
addresses a program has had, the ghost `left` those somebody has left. The
relay may have acknowledged some of its clients before the model begins
(`JoinedFirst`): their NATs are then open to it and it has them in its maps.

`Relay` keeps `_clients` and `_reverse_map` as two functions, changed as the
handlers change them. `Opcode` is the first byte of a datagram: a
`NetworkEngine` sends none, so what it relays begins with the high byte of an
id's length, which is 0, and the relay ignores it. The relay's clients in the
model are therefore other programs that speak its protocol. The ghost `joined`
holds which id has connected from which address; a restart empties it with the
maps, and counts as one of the calls. PING and its PONG, and CONNECT_ACK, change
no state and are left out.

`NetworkEngine` has a field for each of the engine's. The applications call it
from their threads (`Threads`), the receive loop runs beside them. A message
takes its thread three steps: `TakeSeq` reads `_seq_counter` for the message,
`LoadSeq` reads it again and adds one, and the send stores the sum and hands
the message to the socket. `_next_seq` takes no lock, so between these steps
another thread of the node may do any of its own; the ghost `raced` says whether
two ever were in it together. (Storing and sending are one step; a message that is handed over later is one
that stays in flight longer. Which way it goes is decided at the store.)
A hole punch takes
`Punches` steps with anything in between, then `FinishPunch`; the code returns
from it without a callback and nothing leaves `pending` any more. A punch that
arrives makes its *sender's address* a direct peer: the code files it under
`"ip:port"`, which the address stands for. So a message goes straight only when
an application has added a peer under such a name (`GoesStraight`), and a
message to a node id always takes the relay. `connect_to_peer` for an unknown
peer, and `start`, send the bootstrap server a datagram without an opcode; it
changes nothing there and is left out. `ProcessMessage` takes the third byte of
everything that is not a punch for a type, also of what the relay forwards
(where it is the first byte of an id) and of its error replies (where it is the
length of one). `FirstWord` is the number in the first two bytes of what
arrives, `Decoded` compares it with `MAGIC_NUMBER` as `Message.from_bytes` does,
and `decoded` (ghost) holds what handlers that call it get. `made` (ghost) is how
many messages each application has made, and `punched` which punches were sent
between addresses that have not changed hands since.

Left out: NAT entries that time out, or that stay when a program is stopped and
comes back to the same port, symmetric NATs, ids that are empty or have
256 bytes and more, the second copy `broadcast` sends to a peer in both sets, a
second receive loop after a quick stop and start, and the data of a message.

## 3. Runs

| Run | Checks | Bounds |
|---|---|---|
| `skiplist` | type; all levels link the same nodes in the same order; the descent finds what a plain walk finds; refinement of `NodeList` | 3 keys, 4 nodes, each level of 1..4 |
| `memtable` | type; tail sorted; flush preserves lookups; only the first key can be hidden; a full memtable holds what it claims | 3 keys, values of length 0 and 2, 5 entries between flushes |
| `update` | **violated**: a key that is found is answered with the entry put last under it | 3 entries |
| `lsm` | type; no key lost; a get that runs alone before close finds every key; listed tables usable; one flush at a time; flushes in time order; each file that is unlinked is merged | 2 keys, 4 puts, memtable full at 2 bytes, compaction above 2 tables, 1 failing write or unlink, 1 restart |
| `lsm_live` | a value returned was put under that key; flush ends; get returns; close returns; compaction catches up | 2 keys, 1 reader, 3 puts that each fill a memtable |
| `order` | **violated**: later tables hold no older values | 1 key, 6 puts |
| `reload` | **violated**: opening lists every completely written table | 2 puts, 1 restart |
| `close` | **violated**: close leaves no entry in the memtable only | 3 puts |
| `discovery` | type; a client is behind by no more than its timeouts, keepalives and duplicates; the answers of one in step are its own; a found peer is the target; cleanup removes silent peers | 2 addresses, one held by 2 nodes in turn, 3 requests and pings, at that address 1 timeout, keepalive or duplicate, clock 0..1, timeout 0 |
| `port` | **violated**: a peer has the port it registered | 2 addresses, 1 request |
| `access` | types; owner keeps control; owners come from owners; a ban takes hold; a lock-out is for good | owner, 2 users, 1 custom role of 2 kinds, 1 token, a session of 1 tick, clock 0..2 |
| `messaging` | type; the relay's maps agree; it forwards between programs that had the addresses; crossing punches connect one side; direct peers let in; what a handler decodes was sent straight; equal sequence numbers lie a round apart until threads race | 2 nodes, one with 2 threads, 2 relay clients already connected, 5 addresses, 2 punches for a hole, 1 lost, 3 calls or restarts of the relay, 2 changes of address (4 together), counter modulo 2 |

Why the bounds are enough. Three keys are the fewest for which a key can stand
before, on and behind another; five entries give repeats of the first key with
smaller and larger ones around. `CompactAbove` is 4 in the code and 2 here, so
that three one-entry tables reach a compaction; the code never uses the number
otherwise. Four puts let a memtable fill while a flush is under way, during a
compaction and after a restart. Three requests give two calls at one address
and one at the other, which is what a mixed-up answer takes, and two nodes
registered from one address and a ping of either, which is what a refresh of the
wrong peer takes; one of the addresses can get out of step and one cannot. Three
users are an owner, an appointee and a victim, enough for a lock-out, which an
owner who has demoted himself and an appointee bring about. A session of one tick on a clock of three
values can be created before a ban, outlive it, expire, and meet a second ban.
Three calls let both nodes punch and one of them send, two threads draw numbers
together and one of them once more, or one client, connected at first, move,
connect again and disconnect; five addresses leave one to move to and let
a program take over one that another has left. One node knows the other by its
id, which goes through the relay, and is known to it by its address, which goes
straight. With two punches per side all orders of sending, arriving, being
turned away and one loss occur. The counter wraps after two messages. The ids
of the clients begin with the byte of the type that is used, so that forwarded
data does reach a handler.

`CHECK_DEADLOCK FALSE` stands where the system really stops: when close is
done, no puts are left and the compaction thread has ended; and in `messaging`,
when the calls are used up and everything has been received.

What the violations show:

- `update`: "Insert or update entry" (`storage.py:64`) is not what put does. Behind
  the first node it inserts in front of the entries of its key, and `get` walks
  on to the last of them, so a key that is put again is answered with its
  oldest entry there. (The trace puts one key three times: the third entry goes
  in front of the second, and the second is the answer.) That a flush answers
  the same is `FlushPreservesLookups`.
- `order`: "newest first" (`storage.py:347`) is false after a compaction,
  because the merged table goes to the end. `FlushedTablesInOrder` is what
  remains true of tables no compaction has made.
- `reload`: "Load existing SSTables" (`storage.py:316`): none is loaded.
- `close`: "Flush remaining data" (`storage.py:432`) is skipped while another
  flush is under way.
- `port`: the server takes the length of the announced ip for the port.

Known to be false of this code, and not stated as a property because no
document claims it: that a get finds a key while its memtable is being flushed
(`flush_to_sst` empties it before the table is listed), or while compaction has
its tables; that a failed flush loses nothing; that `_current_size` measures
what a memtable holds, or is never negative (`NeverFullEarly` is the half that
is true); that a message the engine hands to the relay reaches anybody; that a
node id ever is a direct peer; that a hole punch connects both sides; that
`check_connection` tells whether a peer is connected; that `_clients` and
`_reverse_map` are inverse to each other when addresses change hands; that a
direct peer who has left his address, or whose node has, can still be reached;
that two threads never get one sequence number; that a registration is the
newest one of its node; that a get after close, or during compaction, does not
raise; that a session ends when its user is banned; that an appointment that is
refused leaves no trace.

One more disagreement has a document against it: `cleanup_stale_peers` is to
"Remove peers that haven't sent keepalive" (`bootstrap.py:154`), but a peer
that pings is removed when another node has registered from its address before
it, as the ping refreshes that one only (`bootstrap.py:139-143`).
`RemovedPeersWereSilent` excepts just these addresses; without the exception
TLC finds the case.

### Fairness

Only `lsm_live` uses any. The flush thread, the compaction thread, a call of
close that has begun and each call of get are threads that run, and Python's
scheduler runs every thread that can run: weak fairness on each. Lock
acquisition gets the same weak fairness: a thread that waits gets the lock when
it stays free. Nobody has to call put or close; that callers stop for a moment
comes from `MaxPuts`, and without it `threading.RLock` promises no
waiting thread anything. Compaction sleeps ten seconds between rounds; a round
is a step.

## 4. Proofs

`StorageOps_proofs` and `MemTable_proofs` prove, for every set of integer keys,
every set of values, all lengths and any number of puts:

- `TypeCorrect`: the state of `MemTable` keeps its type.
- `TailAlwaysSorted`: `TailSorted` is an invariant.
- `FlushAlwaysPreservesLookups` and `OnlyFirstKeyEverHidden`.
- `NeverEarlyFull`: a memtable never claims more bytes than it holds.

The inductive invariant is `Inv == TypeOK /\ TailSorted /\ OlderThanClock /\
NeverFullEarly`. The third conjunct (no entry is newer than the clock) is what makes the next entry
newer than all others of its key, and so keeps "newest first within a key" when
put inserts in front of them. The lemmas follow the walk: where it ends
(`WalkEndFacts`), what an insertion there does to the order
(`ListPutKeepsTailSorted`), that the node a lookup ends on is the last one with
its key (`FindPosFacts`), hence the one the index keeps (`ImageOfFound`), and
that a key it does not find can only be the first node's (`HiddenIsFirst`).
`NeverFullEarly` compares the counter with a sum over the list. The sum after a
put is the one before it plus the new entry (`SizeOfPut`): its running totals
stay as they are up to the place of insertion, and behind it they are moved by
one place and raised by one entry. What put takes off the counter is never
negative (`MemPutCountsNoMore`).

`SkipList_proofs` proves, for every set of keys, every `MAX_LEVEL`, every level
the process may draw and any number of puts and deletes: `TypeCorrect`,
`LevelsAlwaysAgree`, `GetAlwaysFollowsList`, and `Refinement`, which is
`Spec => ImplementsNodeList`. `Inv` is the type invariant and the existence of one
order of all the nodes (`InOrder`) that the heads in use begin and the pointers
of every level follow. The argument:

- `WalkStops`, `StopUnique`: in a list, a walk from a place ends at exactly one
  place. `WalkAlong`: the walk of the code along any level ends on the node
  there.
- `DescentLands`: the levels above the drawn one leave the descent on the first
  node, the topmost level in use takes it to the end of the walk, and those
  below leave it there. So `put` has the same predecessor on every level, and
  `get` ends where a plain walk does (`GetFollowsOrder`).
- `ChainFollowsOrder`: what a level lists is the entries in that order.
- `PutKeepsOrder`: put inserts the new node at one place of the order on all
  levels, and it is the place of `ListPut`; `DeleteKeepsOrder`: delete changes
  one entry and no pointer.
- `PutImplements`, `DeleteImplements`, `InitImplements`: the refinement, step by
  step.

The walks, the descent, what a level lists and the sum of a memtable are
recursive functions. That such a function exists and what it computes is proved
by a least (or last) counterexample, a set of numbers having a minimum
(`WFMin`); the library's induction theorems take an operator as a parameter,
which no installed prover instantiates.

`Discovery_proofs` proves, for any number of clients, node ids, calls, losses,
duplicates and timeouts, and whatever the clock and the restarts do:

- `TypeCorrect`: the state keeps its type. The part that takes work is that
  `before` stays a total order of the peers when ids are added, added again,
  and removed by a cleanup.
- `AlwaysBehindByExtras`: what is on its way to or from a client and in its
  buffer is bounded by its timeouts, keepalives and duplicates. The invariant is
  the property with `TypeOK` and the finiteness of what is in flight; each step
  that adds a datagram is shown to add one to the bound as well.
- `AlwaysAnswersOwnCall`. It is not inductive, and follows from `InStep`, which
  says of every client that was never out of step that its datagram on the
  network and the one in its buffer exclude each other, that there is one of
  them at most, that it belongs to the call the client waits in, and that the
  last answer belongs to the last call. A program that takes an address over
  starts in step, as nothing is left for the one before it.
- `AlwaysFoundPeerIsTarget`, from `InStep` and `Match`: every peer is filed under
  an id that has registered from its address (`PeersListed`), a lookup on the
  network names the target of the call it belongs to, and so a *found* on its
  way, in a buffer or returned carries an ip that this target has registered
  from. `Match` holds of all clients: a datagram of an earlier call says nothing
  about the present one, and only `InStep` excludes that the client takes it for
  its answer.
- `RemovedPeersAlwaysSilent`, an action property, from `Match` and
  `SeenWhenHeard`: the server has recorded every sign of life of a peer, or
  another node has registered from its address. A ping refreshes the first peer
  of its address; if that is not the sender, two ids have been listed there.

`AccessControl_proofs` proves, for any users, any owner and any custom roles
made of named permissions:

- `TypeCorrect`: in particular the role of every user exists.
- `OwnerAlwaysKeepsControl`, by the invariant
  `Inv == TypeOK /\ RolesKept /\ OnlyOwnerAppoints /\ OwnerKeepsControl`. It
  needs that no operation changes a predefined role (`RolesKept`) and that
  until the owner delegates nobody else may appoint (`OnlyOwnerAppoints`).
- `OwnersOnlyComeFromOwners`, an action property: the number 0xFFFF is higher
  than that of every set of named permissions (`RolesKept` again), so
  `appoint_admin` lets an unbanned owner only make one.
- `LockoutAlwaysForGood`, an action property: whoever is unbanned and an owner,
  or may ban or appoint, after a step was there before it, or somebody else was
  (`NobodyPromoted`). The operations that do not ask for a permission are what
  it is about: `revoke_admin` and `create_custom_role` ask for the owner's id,
  `register_user` for nothing, and none of them gives one of the two rights,
  since the role `user` has neither and a role somebody has is not redefined.

`AdminConsole_proofs` proves, for any users, tokens, session length and
custom roles:

- `OwnerKeepsConsole` and `LockoutOfConsoleForGood`: the theorems about
  `AccessControl` carried over, by the lemma `ConsoleStepsAllowed` (one case per
  action; the half-done `appoint` needs `CommandOK`, that its target and its role
  are ones there are).
- `BanAlwaysTakesHold` and `ConsoleTypeCorrect`. `BanTakesHold` is not
  inductive: it needs that no session expires later than a session's length
  from now, that a session belongs to a known user, that every ban has a
  beginning that is not in the future, and above all that a session of a banned
  user was created before the ban, so that it expires within a session's length
  of it.

`LSMTree_proofs` proves all the safety properties of the storage engine, for
any readers, keys, values, puts, failed writes and restarts, and any sizes of
memtable and list of tables: `TypeCorrect`, `ImmAlwaysOwnedByFlush`,
`ListedTablesAlwaysUsable`, `NoKeyEverLost`, `QuietGetAlwaysFinds`,
`FlushedTablesAlwaysInOrder`, `ReadsOnlyEverWritten`, and the action property
`UnlinkedFilesAlwaysMerged`. Most of them are not inductive. `Inv` adds:

- `Shape` and `FlushStages`: at each program counter, what the flush and the
  compaction thread hold. A flush thread that has its table written but not
  listed has one table; compaction that merges has two, and while it unlinks the ones still to go.
- `Files`: every table that is listed, written or popped has a file of its own
  with its image in it, under a name already used, and a listed one is open
  until close has come to the handles. Without it nothing says that closing and
  unlinking one thread's tables leaves the other tables alone; `QuietGetFinds`
  needs it as a closed table raises.
- `MergedListed`: from the first close to the second unlink, one listed table
  covers all keys of the tables compaction has still to drop. `NoKeyLost` counts
  what compaction has popped, so it would not survive an unlink without this.
  With `Files` it gives `UnlinkedFilesAlwaysMerged`, which looks at the files on
  disk, for each of the two unlinks by itself.
- `FromHistory`: every entry held anywhere was put, stands in its image under
  its own key, and is not marked deleted. `QuietGetFinds` needs it (a
  tombstone found is no value), and `ReadsOnlyWritten` needs it of every table.
- `Order`: memtables and unmerged tables stand in order of time, the table the
  flush thread holds between the listed ones and the memtable.
- `ReadersOK`: the tables a reader has in its iterator are ones that were
  listed, whose images hold entries that were put.

`FlushesNeverEarly`, which no run states, says of the engine what
`NeverFullEarly` says of a memtable: put starts a flush only with
`max_memtable_size` bytes of entries. It adds `MemCounts` to `Inv`.

The proof takes a lemma for what each step does to the tables held (listed,
written, popped), and one per step and conjunct it can disturb. What the engine
needs of a list, an image, a merge and a lookup are lemmas of
`StorageOps_proofs` (`ImageFacts`, `MergeFacts`, `LookupFacts`,
`ListPutEntries`).

`Messaging_proofs` proves all properties of the run `messaging`, for any nodes,
clients, addresses, types, calls and losses, any width of the counter and any
number of punches. `RoutesAlwaysAgree` stands by itself: its invariant adds to
`RoutesAgree` that whatever is in one of the relay's maps was joined, so that an
address used by one id only can have no entry of another one. The others follow
from one inductive invariant about the network and those on it:

- `Placed`: no two programs are at one address, and each is at one it has had.
- `InFlight`: a datagram is of one of six shapes, with what was true of its
  sending: a CONNECT comes from where its client has been, a punch has opened
  the way back, a message was made by the node it names, under the number its
  counter had then, a message sent straight goes to a direct peer of its node,
  and what is forwarded goes between homes. Homes, direct peers and counters only
  grow, and an opening lasts until somebody leaves the address it belongs to
  (`OpeningKept`), so that stays true however late it arrives; of punches from an
  address that has been left it says nothing.
  That only the clients' requests have an opcode (`OpcodeKind`) is where the
  assumption on the length of ids goes in.
- `HomesLeft`, `DirectLived`: where a program has been and is not any more has
  been left, and a direct peer was at an address somebody has had. With
  `InFlight` this is why `DirectPeersAlwaysLetIn` holds of a node that has left no
  address, and of its peers at addresses that nobody has left (`StayedThere`).
- `RelayHomes`, `DecodedMade`: the same of what the relay and the handlers keep.
  `DecodedKind` is the arithmetic of the first two bytes: no length of an id, and
  no error opcode with one, is the magic number.
- `Counted`, with `Undisturbed`: until two threads of a node race, the counter is
  the number of messages made, modulo its width, a thread inside `_next_seq` holds
  the present number and what follows it, and the other threads are outside.
  `SameSeqAlwaysFarApart` is then arithmetic (`ModNext`, `ModSame`).
- `PunchedOpened` and `HolesOpen`, for `HolePunchAlwaysSucceeds`: of two engines
  that have not let each other in, the punches gone in *one* direction are no
  more than those lost. A punch can be turned away only before the other side
  has sent its first one, and then the other direction has none gone; after
  that each punch that goes, either way, is received or lost. Which direction
  it is differs from run to run, so the disjunction is the invariant. That an
  address that changes hands is forgotten in `punched` keeps it true when
  somebody moves or stops.

The assumptions are the ASSUMEs of the modules: keys are integers (any strict
order of byte strings embeds), lengths are naturals, the tombstone's value has
length 0; a skip list has one level at least (`LevelAssumption`); each client has one node id; an id has 1 to 255 bytes; programs start
at different addresses; the peers an application starts with are at addresses
(`NamesAssumption`).

Every safety property that a passing run checks, invariant, action property or
refinement, is so proved for every value of the constants. Only model-checked is
what concerns liveness (`FlushEnds`, `GetReturns`, `CloseReturns`,
`CompactionCatchesUp` of `lsm_live`): it rests on fairness, hence on ENABLED, which
is beyond TLAPS. The five properties the code violates are TLC's
counterexamples.

## 5. Not modelled

An abstract store, a map that puts and deletes change, is not stated: a
quiescent `LSMTree` would refine one only without compaction and for keys that
are not hidden. `FlushPreservesLookups`, `QuietGetFinds` and
`FlushedTablesInOrder` say the parts of it that are true.

Not modelled either: `core/crypto.py` (library calls without state, called by no other
component), the payloads of `core/protocol.py` and its `EncryptedMessage`
(which nothing uses), the launchers, and the configuration files, which no
code reads: their limits, `max_sessions` among them, bound nothing.
