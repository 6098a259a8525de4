---------------------------- MODULE LSMTree_proofs ----------------------------
(***************************************************************************)
(* Proofs about the storage engine.  The inductive invariant says, beyond  *)
(* the shape of the state:                                                 *)
(*   - which tables the threads hold: listed, written but not yet listed   *)
(*     (Out), or popped by compaction (Old), each with a file of its own;  *)
(*   - that a merged table is listed before the tables it was made from    *)
(*     go away, which makes NoKeyLost inductive;                           *)
(*   - that everything held was put since the database was opened, under   *)
(*     its key, and with the flag deleted unset;                           *)
(*   - in which order of time memtables and unmerged tables stand.         *)
(* It holds for any number of readers, keys, values, puts, failures and    *)
(* restarts.                                                               *)
(***************************************************************************)
EXTENDS LSMTree, StorageOps_proofs

Memory == [list : Seq(Entry), bytes : Int]
Table  == [name : Nat, merged : BOOLEAN, image : Images]

Listed == ToSet(tables)
Out    == ToSet(flusher.out)
Old    == ToSet(compactor.old)
Held   == Listed \cup Out \cup Old

MemShape ==
  /\ mem \in Memory
  /\ imm \in Memory \cup {NoMem}
  /\ clock \in Nat
  /\ history \subseteq Entry

TableShape ==
  /\ tables \in Seq(Table)
  /\ made \in Nat
  /\ DOMAIN disk \subseteq 1 .. made
  /\ \A n \in DOMAIN disk : disk[n] \in Images
  /\ closed \subseteq 1 .. made

FlusherShape ==
  /\ flusher \in [pc : {"idle", "write", "reset", "publish", "giveup"}, out : Seq(Table)]
  /\ flusher.pc \in {"idle", "write", "giveup"} => flusher.out = << >>
  /\ flusher.pc \in {"reset", "publish"} => Len(flusher.out) = 1

CompactorPCs ==
  {"sleep", "pop", "merge", "close1", "close2", "unlink", "stopped", "dead"}

CompactorShape ==
  /\ compactor \in [pc : CompactorPCs, old : Seq(Table)]
  /\ compactor.pc \in {"sleep", "stopped", "dead"} => compactor.old = << >>
  /\ compactor.pc = "pop" => Len(compactor.old) = 1 /\ tables # << >>
  /\ compactor.pc \in {"merge", "close1", "close2"} => Len(compactor.old) = 2
  /\ compactor.pc = "unlink" => Len(compactor.old) \in {1, 2}

ControlShape ==
  /\ lock \in {"free", "compact", "close"}
  /\ closer \in [pc : {"open", "lock", "sleep", "handles", "done"}, idx : Nat]
  /\ running \in BOOLEAN
  /\ failures \in Nat
  /\ restarts \in Nat

Shape == MemShape /\ TableShape /\ FlusherShape /\ CompactorShape /\ ControlShape

\* Each table held is on disk under a name no other one has (those compaction
\* has merged, as long as they are there), and those listed are open unless
\* close has come to them.
OnFile(t)     == t.name \in DOMAIN disk /\ disk[t.name] = t.image
OneEach(ts)   == \A i, j \in DOMAIN ts : ts[i].name = ts[j].name => i = j
Apart(S, T)   == \A s \in S, t \in T : s.name # t.name
Files ==
  /\ \A t \in Listed \cup Out : OnFile(t)
  /\ \A t \in Old : t.name \in 1 .. made /\ (t.name \in DOMAIN disk => OnFile(t))
  /\ OneEach(tables)
  /\ Apart(Listed, Out) /\ Apart(Listed, Old) /\ Apart(Out, Old)
  /\ \A t \in Out : t.name \notin closed
  /\ closer.pc \notin {"handles", "done"} => \A t \in Listed : t.name \notin closed

\* What compaction is about to drop is in the merged table, and that is listed.
Covers(t) == \A u \in Old : DOMAIN u.image \subseteq DOMAIN t.image
Dropping == {"close1", "close2", "unlink"}
MergedListed == compactor.pc \in Dropping => \E t \in Listed : Covers(t)

\* The flush thread empties the memtable only when the table has its keys,
\* and gives up only after a failure.
FlushStages ==
  /\ flusher.pc = "reset" => ImmKeys \subseteq TableKeys(flusher.out)
  /\ flusher.pc = "publish" => imm = FreshMem
  /\ flusher.pc = "giveup" => failures > 0

\* Whatever is held was put since the database was opened.
OfHistory(image) == \A k \in DOMAIN image : image[k] \in history /\ image[k].key = k
FromHistory ==
  /\ \A e \in history : ~ e.deleted /\ e.ts <= clock
  /\ ToSet(mem.list) \subseteq history
  /\ imm # NoMem => ToSet(imm.list) \subseteq history
  /\ \A t \in Held : OfHistory(t.image)

\* Time runs from unmerged tables over the memtable being flushed to the
\* memtable; the table the flush thread holds stands where its memtable does.
Earlier(S, T) == \A s \in S, t \in T : s < t
ImmTimes == IF imm = NoMem THEN {} ELSE ListTimes(imm.list)
OutTimes == UNION {Times(t.image) : t \in Out}
TablesInOrder(ts) ==
  \A i, j \in DOMAIN ts : i < j /\ ~ ts[i].merged /\ ~ ts[j].merged =>
    Earlier(Times(ts[i].image), Times(ts[j].image))
Order ==
  /\ TablesInOrder(tables)
  /\ \A a \in Listed : ~ a.merged =>
       Earlier(Times(a.image), OutTimes \cup ImmTimes \cup ListTimes(mem.list))
  /\ Earlier(OutTimes \cup ImmTimes, ListTimes(mem.list))
  /\ SortedTail(mem.list)

\* A reader looks for a key, in a table that was listed when it came to it.
NoKey == CHOOSE k \in Keys : TRUE
Answers == [kind : {"none", "error"}] \cup [kind : {"value"}, entry : Entry]
Reading == [pc : {"idle", "check", "imm", "scan", "next", "read"}, key : Keys \cup {NoKey},
            idx : Int, at : Seq(Table), res : Answers]
ReadersOK ==
  /\ reader \in [Readers -> Reading]
  /\ \A r \in Readers :
       /\ reader[r].pc # "idle" => reader[r].key \in Keys
       /\ reader[r].pc = "read" => Len(reader[r].at) = 1 /\ OfHistory(reader[r].at[1].image)

Inv ==
  /\ Shape /\ ImmOwnedByFlush /\ Files /\ MergedListed /\ FlushStages /\ NoKeyLost
  /\ FromHistory /\ Order /\ ReadersOK /\ ReadsOnlyWritten

----------------------------------------------------------------------------
(* Sequences and the sets of what is in them. *)

LEMMA InSequence ==
  ASSUME NEW S, NEW s \in Seq(S)
  PROVE  /\ Len(s) \in Nat /\ DOMAIN s = 1 .. Len(s)
         /\ ToSet(s) = {s[i] : i \in 1 .. Len(s)}
         /\ ToSet(s) \subseteq S
BY LenProperties, ElementOfSeq DEF ToSet

LEMMA OfEmpty == ToSet(<< >>) = {}
BY DEF ToSet

LEMMA OfSingle ==
  ASSUME NEW S, NEW s \in Seq(S), Len(s) = 1
  PROVE  s[1] \in S /\ s = << s[1] >> /\ ToSet(s) = {s[1]}
<1>1. s[1] \in S
  BY ElementOfSeq
<1>2. << s[1] >> \in Seq(S) /\ Len(<< s[1] >>) = 1
  BY <1>1
<1>3. s = << s[1] >>
  BY <1>2, SeqEqual
<1>4. ToSet(s) = {s[i] : i \in 1 .. 1}
  BY InSequence
<1> QED
  BY <1>1, <1>3, <1>4

LEMMA OfAppend ==
  ASSUME NEW S, NEW s \in Seq(S), NEW x \in S
  PROVE  /\ Append(s, x) \in Seq(S)
         /\ Len(Append(s, x)) = Len(s) + 1
         /\ \A i \in 1 .. Len(s) : Append(s, x)[i] = s[i]
         /\ Append(s, x)[Len(s) + 1] = x
         /\ ToSet(Append(s, x)) = ToSet(s) \cup {x}
<1> DEFINE new == Append(s, x)
<1>1. Len(s) \in Nat /\ ToSet(s) = {s[i] : i \in 1 .. Len(s)}
  BY InSequence
<1>2. /\ new \in Seq(S) /\ Len(new) = Len(s) + 1
      /\ \A i \in 1 .. Len(s) : new[i] = s[i]
      /\ new[Len(s) + 1] = x
  BY AppendProperties
<1> HIDE DEF new
<1>3. ToSet(new) = {new[i] : i \in 1 .. Len(s) + 1}
  BY <1>2, InSequence
<1>4. ToSet(new) \subseteq ToSet(s) \cup {x}
  BY <1>1, <1>2, <1>3
<1>5. ToSet(s) \cup {x} \subseteq ToSet(new)
  BY <1>1, <1>2, <1>3
<1> QED
  BY <1>2, <1>4, <1>5 DEF new

LEMMA OfTail ==
  ASSUME NEW S, NEW s \in Seq(S), s # << >>
  PROVE  /\ Head(s) \in S /\ Head(s) = s[1]
         /\ Tail(s) \in Seq(S)
         /\ Len(s) \in Nat \ {0} /\ Len(Tail(s)) = Len(s) - 1
         /\ \A i \in 1 .. Len(Tail(s)) : Tail(s)[i] = s[i + 1]
         /\ ToSet(s) = {Head(s)} \cup ToSet(Tail(s))
<1> DEFINE rest == Tail(s)
<1>1. /\ Len(s) \in Nat \ {0}
      /\ Head(s) \in S /\ Head(s) = s[1]
      /\ rest \in Seq(S) /\ Len(rest) = Len(s) - 1
      /\ \A i \in 1 .. Len(rest) : rest[i] = s[i + 1]
  BY EmptySeq, HeadTailProperties
<1> HIDE DEF rest
<1>2. ToSet(s) = {s[i] : i \in 1 .. Len(s)} /\ ToSet(rest) = {rest[i] : i \in 1 .. Len(rest)}
  BY <1>1, InSequence
<1>3. ToSet(rest) \subseteq ToSet(s) /\ s[1] \in ToSet(s)
  BY <1>1, <1>2
<1>4. \A i \in 2 .. Len(s) : i - 1 \in 1 .. Len(rest) /\ rest[i - 1] = s[i]
  BY <1>1
<1>5. ToSet(s) \subseteq {s[1]} \cup ToSet(rest)
  <2> SUFFICES ASSUME NEW i \in 1 .. Len(s), i # 1
               PROVE  s[i] \in ToSet(rest)
    BY <1>2
  <2> QED
    BY <1>1, <1>2, <1>4
<1> QED
  BY <1>1, <1>3, <1>5 DEF rest

\* Putting the one table of the flush thread behind a list.
LEMMA OfConcat ==
  ASSUME NEW S, NEW s \in Seq(S), NEW t \in Seq(S), Len(t) = 1
  PROVE  s \o t = Append(s, t[1])
<1>1. t[1] \in S /\ t = << t[1] >>
  BY OfSingle
<1>2. Append(s, t[1]) = s \o << t[1] >>
  BY <1>1, AppendIsConcat
<1> QED
  BY <1>1, <1>2

LEMMA KeysAndNames ==
  ASSUME NEW ts
  PROVE  /\ TableKeys(ts) = UNION {DOMAIN t.image : t \in ToSet(ts)}
         /\ NamesOf(ts) = {t.name : t \in ToSet(ts)}
<1>1. TableKeys(ts) = UNION {DOMAIN t.image : t \in ToSet(ts)}
  BY DEF TableKeys, ToSet
<1>2. NamesOf(ts) = {t.name : t \in ToSet(ts)}
  BY DEF NamesOf, ToSet
<1> QED
  BY <1>1, <1>2

\* A list of tables with names of their own, and in order of time, stays one
\* when its head goes or a table comes behind it.
LEMMA OneEachTail ==
  ASSUME NEW ts \in Seq(Table), ts # << >>, OneEach(ts)
  PROVE  OneEach(Tail(ts)) /\ \A t \in ToSet(Tail(ts)) : t.name # Head(ts).name
<1> DEFINE rest == Tail(ts)
<1>1. /\ Len(ts) \in Nat \ {0} /\ Head(ts) = ts[1]
      /\ rest \in Seq(Table) /\ Len(rest) = Len(ts) - 1
      /\ \A i \in 1 .. Len(rest) : rest[i] = ts[i + 1]
  BY OfTail
<1> HIDE DEF rest
<1>2. DOMAIN ts = 1 .. Len(ts) /\ DOMAIN rest = 1 .. Len(rest)
      /\ ToSet(rest) = {rest[i] : i \in 1 .. Len(rest)}
  BY <1>1, InSequence
<1>3. \A i \in 1 .. Len(rest) : i + 1 \in DOMAIN ts /\ rest[i] = ts[i + 1]
  BY <1>1, <1>2
<1>4. OneEach(rest)
  <2> SUFFICES ASSUME NEW i \in 1 .. Len(rest), NEW j \in 1 .. Len(rest), rest[i].name = rest[j].name
               PROVE  i = j
    BY <1>2 DEF OneEach
  <2>1. i + 1 = j + 1
    BY <1>3 DEF OneEach
  <2> QED
    BY <2>1
<1>5. ASSUME NEW i \in 1 .. Len(rest)
      PROVE  rest[i].name # ts[1].name
  <2>1. i + 1 \in 1 .. Len(ts) /\ 1 \in 1 .. Len(ts) /\ i + 1 # 1
    BY <1>1
  <2> QED
    BY <2>1, <1>1, <1>2 DEF OneEach
<1> QED
  BY <1>1, <1>2, <1>4, <1>5 DEF rest

LEMMA OneEachAppend ==
  ASSUME NEW ts \in Seq(Table), NEW t \in Table, OneEach(ts),
         \A u \in ToSet(ts) : u.name # t.name
  PROVE  OneEach(Append(ts, t))
<1> DEFINE new == Append(ts, t)
<1>1. /\ new \in Seq(Table) /\ Len(new) = Len(ts) + 1
      /\ \A i \in 1 .. Len(ts) : new[i] = ts[i]
      /\ new[Len(ts) + 1] = t
  BY OfAppend
<1> HIDE DEF new
<1>2. /\ Len(ts) \in Nat /\ DOMAIN ts = 1 .. Len(ts) /\ DOMAIN new = 1 .. Len(ts) + 1
      /\ ToSet(ts) = {ts[i] : i \in 1 .. Len(ts)}
  BY <1>1, InSequence
<1>3. OneEach(new)
  BY <1>1, <1>2 DEF OneEach
<1> QED
  BY <1>3 DEF new

LEMMA TablesInOrderTail ==
  ASSUME NEW ts \in Seq(Table), ts # << >>, TablesInOrder(ts)
  PROVE  TablesInOrder(Tail(ts))
<1> DEFINE rest == Tail(ts)
<1>1. /\ Len(ts) \in Nat \ {0}
      /\ rest \in Seq(Table) /\ Len(rest) = Len(ts) - 1
      /\ \A i \in 1 .. Len(rest) : rest[i] = ts[i + 1]
  BY OfTail
<1> HIDE DEF rest
<1>2. DOMAIN ts = 1 .. Len(ts) /\ DOMAIN rest = 1 .. Len(rest)
  BY <1>1, InSequence
<1>3. \A i \in 1 .. Len(rest) : i + 1 \in DOMAIN ts /\ rest[i] = ts[i + 1]
  BY <1>1, <1>2
<1>4. TablesInOrder(rest)
  <2> SUFFICES ASSUME NEW i \in 1 .. Len(rest), NEW j \in 1 .. Len(rest), i < j,
                      ~ rest[i].merged, ~ rest[j].merged
               PROVE  Earlier(Times(rest[i].image), Times(rest[j].image))
    BY <1>2 DEF TablesInOrder
  <2>1. i + 1 < j + 1
    OBVIOUS
  <2> QED
    BY <2>1, <1>3 DEF TablesInOrder
<1> QED
  BY <1>4 DEF rest

LEMMA TablesInOrderAppend ==
  ASSUME NEW ts \in Seq(Table), NEW t \in Table, TablesInOrder(ts),
         ~ t.merged => \A a \in ToSet(ts) : ~ a.merged => Earlier(Times(a.image), Times(t.image))
  PROVE  TablesInOrder(Append(ts, t))
<1> DEFINE new == Append(ts, t)
<1>1. /\ new \in Seq(Table) /\ Len(new) = Len(ts) + 1
      /\ \A i \in 1 .. Len(ts) : new[i] = ts[i]
      /\ new[Len(ts) + 1] = t
  BY OfAppend
<1> HIDE DEF new
<1>2. /\ Len(ts) \in Nat /\ DOMAIN ts = 1 .. Len(ts) /\ DOMAIN new = 1 .. Len(ts) + 1
      /\ ToSet(ts) = {ts[i] : i \in 1 .. Len(ts)}
  BY <1>1, InSequence
<1>3. ASSUME NEW i \in 1 .. Len(ts) + 1, NEW j \in 1 .. Len(ts) + 1, i < j,
             ~ new[i].merged, ~ new[j].merged
      PROVE  Earlier(Times(new[i].image), Times(new[j].image))
  <2>1. i \in 1 .. Len(ts) /\ new[i] = ts[i]
    BY <1>1, <1>2, <1>3
  <2>2. CASE j \in 1 .. Len(ts)
    BY <2>1, <2>2, <1>1, <1>2, <1>3 DEF TablesInOrder
  <2>3. CASE j = Len(ts) + 1
    BY <2>1, <2>3, <1>1, <1>2, <1>3
  <2> QED
    BY <2>2, <2>3, <1>2
<1>4. TablesInOrder(new)
  BY <1>2, <1>3 DEF TablesInOrder
<1> QED
  BY <1>4 DEF new

----------------------------------------------------------------------------
(* What the steps do. *)

LEMMA NoMemIsNone == NoMem \notin Memory /\ FreshMem \in Memory /\ FreshMem.list = << >>
                     /\ FreshMem # NoMem
<1>1. NoMem \notin Memory
  BY NoMemAssumption DEF Memory
<1>2. FreshMem \in Memory /\ FreshMem.list = << >>
  BY EmptySeq DEF FreshMem, Memory
<1> QED
  BY <1>1, <1>2

\* No file is ever found to have an index.
LEMMA NothingLoaded == Loaded = << >>
BY DEF Loaded, LoadFindsIndex, LoadSeek, OffsetWidth

LEMMA TornImage == << >> \in Images
<1>1. << >> \in [1 .. 0 -> Entry]
  BY LenProperties, EmptySeq
<1>2. 1 .. 0 = {}
  OBVIOUS
<1> QED
  BY <1>1, <1>2 DEF Images

\* The memtable a flush starts with, and the two ways _flush_memtable goes.
Flushing(m) ==
  /\ imm = NoMem
  /\ imm' = m
  /\ mem' = FreshMem
  /\ flusher' = [pc |-> "write", out |-> << >>]

Keeping(m) == mem' = m /\ UNCHANGED << imm, flusher >>

LEMMA FlushMemtableCases ==
  ASSUME NEW m, FlushMemtable(m)
  PROVE  Keeping(m) \/ Flushing(m)
BY DEF FlushMemtable, Keeping, Flushing, flushVars

\* A put makes one entry, newer than all there are, and a memtable with it.
NewEntry(e, k) ==
  e \in Entry /\ e.key = k /\ e.ts = clock + 1 /\ ~ e.deleted

Entered(m, e) ==
  /\ m \in Memory
  /\ m.list # << >>
  /\ ToSet(m.list) = ToSet(mem.list) \cup {e}
  /\ KeysOf(m.list) = KeysOf(mem.list) \cup {e.key}
  /\ SortedTail(mem.list) /\ (\A f \in ToSet(mem.list) : f.ts < e.ts) => SortedTail(m.list)

LEMMA PutEffect ==
  ASSUME MemShape, NEW k \in Keys, NEW v \in Values, PutEntry(k, v)
  PROVE  /\ \E e, m : /\ NewEntry(e, k) /\ Entered(m, e)
                      /\ history' = history \cup {e}
                      /\ Keeping(m) \/ Flushing(m)
         /\ clock' = clock + 1
         /\ lock = "free"
         /\ UNCHANGED << lock, compactor, reader, tables, disk, closed, made, closer, running,
                         failures, restarts >>
<1> DEFINE e == [key |-> k, val |-> v, ts |-> clock + 1, deleted |-> FALSE]
           m == MemPut(mem, e)
<1>1. NewEntry(e, k)
  BY DEF NewEntry, Entry, MemShape
<1>2. mem.list \in Seq(Entry) /\ mem.bytes \in Int
  BY DEF MemShape, Memory
<1>3. history' = history \cup {e} /\ (Keeping(m) \/ Flushing(m))
  BY FlushMemtableCases DEF PutEntry, Keeping, flushVars
<1>4. /\ clock' = clock + 1
      /\ lock = "free"
      /\ UNCHANGED << lock, compactor, reader, tables, disk, closed, made, closer, running,
                      failures, restarts >>
  BY DEF PutEntry, tableVars, controlVars
<1>5. m.bytes \in Int /\ m = [list |-> ListPut(mem.list, e), bytes |-> m.bytes]
  BY <1>1, <1>2, MemPutBytes DEF NewEntry, MemPut
<1> HIDE DEF e, m
<1>6. e \in Entry
  BY <1>1 DEF NewEntry
<1>7. Entered(m, e)
  <2>1. m.list = ListPut(mem.list, e)
    BY <1>5
  <2>2. m.list \in Seq(Entry) /\ m.list # << >> /\ KeysOf(m.list) = KeysOf(mem.list) \cup {e.key}
    BY <1>2, <1>6, <2>1, ListPutFacts
  <2>3. m \in Memory
    BY <1>5, <2>1, <2>2 DEF Memory
  <2>4. ToSet(m.list) = ToSet(mem.list) \cup {e}
    BY <1>2, <1>6, <2>1, ListPutEntries
  <2>5. ASSUME SortedTail(mem.list), \A f \in ToSet(mem.list) : f.ts < e.ts
        PROVE  SortedTail(m.list)
    <3>1. \A i \in 1 .. Len(mem.list) : mem.list[i].ts < e.ts
      BY <1>2, <2>5, InSequence
    <3> QED
      BY <1>2, <1>6, <2>1, <2>5, <3>1, ListPutKeepsTailSorted
  <2> QED
    BY <2>2, <2>3, <2>4, <2>5 DEF Entered
<1> QED
  BY <1>1, <1>3, <1>4, <1>7

ReaderMoves == \E r \in Readers : ReadStep(r) \/ \E k \in Keys : GetMem(r, k)

\* A step of a reader changes what the reader knows and nothing else.
LEMMA ReadFrame ==
  ASSUME ReaderMoves
  PROVE  UNCHANGED << mem, imm, tables, disk, closed, lock, flusher, compactor, closer, running,
                      clock, made, failures, restarts, history >>
BY DEF ReaderMoves, ReadStep, GetMem, CheckImm, GetImm, StartScan, NextTable, ReadTable, readUnchanged,
       flushVars, tableVars, controlVars

\* After a crash or an exit: what is not on disk is forgotten.
LEMMA RestartEffect ==
  ASSUME Restart
  PROVE  /\ mem' = FreshMem /\ imm' = NoMem /\ tables' = << >> /\ closed' = {}
         /\ lock' = "free" /\ flusher' = NoFlush
         /\ compactor' = [pc |-> "sleep", old |-> << >>]
         /\ closer' = [pc |-> "open", idx |-> 0]
         /\ reader' = [r \in Readers |-> IdleRead]
         /\ running' = TRUE /\ history' = {} /\ restarts' = restarts + 1
         /\ UNCHANGED << disk, clock, made, failures >>
<1>1. tables' = << >>
  BY NothingLoaded DEF Restart
<1>2. history' = {}
  <2>1. history' = UNION {{t.image[k] : k \in DOMAIN t.image} : t \in {Loaded[i] : i \in DOMAIN Loaded}}
    BY DEF Restart
  <2>2. {Loaded[i] : i \in DOMAIN Loaded} = {}
    BY NothingLoaded
  <2> QED
    BY <2>1, <2>2
<1> QED
  BY <1>1, <1>2 DEF Restart

\* The tables the threads make.
LEMMA NewTable ==
  ASSUME TableShape, NEW image \in Images, NEW merged \in BOOLEAN
  PROVE  /\ WriteTable(image, merged) \in Table
         /\ WriteTable(image, merged).name = made + 1
         /\ WriteTable(image, merged).image = image
         /\ WriteTable(image, merged).merged = merged
         /\ made + 1 \notin DOMAIN disk /\ made + 1 \notin closed
BY DEF WriteTable, Table, TableShape

LEMMA NewFile ==
  ASSUME TableShape, NEW t \in Table, t.name = made + 1
  PROVE  /\ DOMAIN OnDisk(t) = DOMAIN disk \cup {made + 1}
         /\ OnDisk(t)[made + 1] = t.image
         /\ \A n \in DOMAIN disk : OnDisk(t)[n] = disk[n]
         /\ DOMAIN OnDisk(t) \subseteq 1 .. made + 1
         /\ \A n \in DOMAIN OnDisk(t) : OnDisk(t)[n] \in Images
         /\ closed \subseteq 1 .. made + 1
<1>1. made \in Nat /\ DOMAIN disk \subseteq 1 .. made /\ closed \subseteq 1 .. made
      /\ \A n \in DOMAIN disk : disk[n] \in Images
  BY DEF TableShape
<1>2. made + 1 \notin DOMAIN disk /\ 1 .. made \subseteq 1 .. made + 1 /\ made + 1 \in 1 .. made + 1
  BY <1>1
<1>3. t.image \in Images
  BY DEF Table
<1> QED
  BY <1>1, <1>2, <1>3 DEF OnDisk

\* A new file, under a new name.
Appears(t) == t \in Table /\ t.name = made + 1 /\ disk' = OnDisk(t) /\ made' = made + 1

LEMMA Appeared ==
  ASSUME TableShape, NEW t, Appears(t)
  PROVE  /\ made' \in Nat
         /\ DOMAIN disk' \subseteq 1 .. made' /\ closed \subseteq 1 .. made'
         /\ \A n \in DOMAIN disk' : disk'[n] \in Images
         /\ DOMAIN disk \subseteq DOMAIN disk' /\ \A n \in DOMAIN disk : disk'[n] = disk[n]
         /\ t.name \in DOMAIN disk' /\ disk'[t.name] = t.image
         /\ t.name \notin DOMAIN disk /\ t.name \notin closed
         /\ \A n \in 1 .. made : /\ n \in 1 .. made' /\ n # t.name
                               /\ (n \in DOMAIN disk' => n \in DOMAIN disk)
<1>1. made \in Nat /\ made + 1 \notin DOMAIN disk /\ made + 1 \notin closed
  BY DEF TableShape
<1>2. /\ DOMAIN OnDisk(t) = DOMAIN disk \cup {made + 1}
      /\ OnDisk(t)[made + 1] = t.image
      /\ \A n \in DOMAIN disk : OnDisk(t)[n] = disk[n]
      /\ DOMAIN OnDisk(t) \subseteq 1 .. made + 1
      /\ \A n \in DOMAIN OnDisk(t) : OnDisk(t)[n] \in Images
      /\ closed \subseteq 1 .. made + 1
  BY NewFile DEF Appears
<1> QED
  BY <1>1, <1>2 DEF Appears

\* The flush thread writes what the memtable holds.
LEMMA FlushWriteEffect ==
  ASSUME Shape, ImmOwnedByFlush, FlushWrite
  PROVE  /\ imm \in Memory /\ flusher.pc = "write"
         /\ \E t : /\ Appears(t) /\ ~ t.merged
                   /\ DOMAIN t.image = KeysOf(imm.list)
                   /\ \A k \in DOMAIN t.image : t.image[k] \in ToSet(imm.list) /\ t.image[k].key = k
                   /\ flusher' = [pc |-> "reset", out |-> << t >>]
         /\ UNCHANGED << mem, imm, tables, closed, lock, compactor, reader, clock, history, closer,
                         running, failures, restarts >>
<1> DEFINE t == WriteTable(Image(imm.list), FALSE)
<1>1. imm \in Memory /\ flusher.pc = "write"
  BY DEF FlushWrite, ImmOwnedByFlush, Shape, MemShape
<1>2. imm.list \in Seq(Entry)
  BY <1>1 DEF Memory
<1>3. /\ Image(imm.list) \in Images /\ DOMAIN Image(imm.list) = KeysOf(imm.list)
      /\ \A k \in KeysOf(imm.list) :
           Image(imm.list)[k] \in ToSet(imm.list) /\ Image(imm.list)[k].key = k
  BY <1>2, ImageFacts
<1>4. t \in Table /\ t.name = made + 1 /\ t.image = Image(imm.list) /\ t.merged = FALSE
  BY <1>3, NewTable DEF Shape
<1>5. /\ disk' = OnDisk(t) /\ made' = made + 1
      /\ flusher' = [pc |-> "reset", out |-> << t >>]
      /\ UNCHANGED << mem, imm, tables, closed, lock, compactor, reader, clock, history, closer,
                      running, failures, restarts >>
  BY DEF FlushWrite, controlVars
<1> HIDE DEF t
<1> QED
  BY <1>1, <1>3, <1>4, <1>5 DEF Appears

LEMMA FlushResetEffect ==
  ASSUME FlushReset
  PROVE  /\ flusher.pc = "reset" /\ imm' = FreshMem
         /\ flusher' = [flusher EXCEPT !.pc = "publish"]
         /\ UNCHANGED << mem, lock, compactor, reader, clock, history, tables, disk, closed, made,
                         closer, running, failures, restarts >>
BY DEF FlushReset, tableVars, controlVars

LEMMA FlushPublishEffect ==
  ASSUME Shape, FlushPublish
  PROVE  /\ flusher.pc = "publish" /\ flusher' = NoFlush /\ imm' = NoMem
         /\ \E t \in Table : Out = {t} /\ tables' = Append(tables, t)
         /\ UNCHANGED << mem, disk, closed, made, lock, compactor, reader, clock, history, closer,
                         running, failures, restarts >>
<1>1. flusher.out \in Seq(Table) /\ Len(flusher.out) = 1 /\ tables \in Seq(Table)
  BY DEF Shape, FlusherShape, TableShape, FlushPublish
<1>2. flusher.out[1] \in Table /\ Out = {flusher.out[1]}
  BY <1>1, OfSingle DEF Out
<1>3. tables' = Append(tables, flusher.out[1])
  BY <1>1, OfConcat DEF FlushPublish
<1> QED
  BY <1>2, <1>3 DEF FlushPublish, controlVars

LEMMA FlushFailEffect ==
  ASSUME Shape, FlushFail
  PROVE  /\ flusher.pc = "write" /\ flusher' = [flusher EXCEPT !.pc = "giveup"]
         /\ failures' = failures + 1
         /\ (\E t : Appears(t)) \/ UNCHANGED << made, disk >>
         /\ UNCHANGED << mem, imm, tables, closed, lock, compactor, reader, clock, history, closer,
                         running, restarts >>
BY TornImage, NewTable DEF FlushFail, Shape, Appears

LEMMA FlushGiveUpEffect ==
  ASSUME FlushGiveUp
  PROVE  /\ flusher.pc = "giveup" /\ flusher' = NoFlush /\ imm' = NoMem
         /\ UNCHANGED << mem, lock, compactor, reader, clock, history, tables, disk, closed, made,
                         closer, running, failures, restarts >>
BY DEF FlushGiveUp, tableVars, controlVars

\* At the top of its loop the compaction thread holds nothing.
LEMMA LoopTopFacts == LoopTop.pc \in {"sleep", "stopped"} /\ LoopTop.old = << >>
                      /\ LoopTop = [pc |-> LoopTop.pc, old |-> << >>]
BY DEF LoopTop

LEMMA CompactSkipEffect ==
  ASSUME CompactSkip
  PROVE  /\ compactor.pc = "sleep" /\ compactor' = LoopTop
         /\ UNCHANGED << mem, imm, lock, flusher, reader, clock, history, tables, disk, closed, made,
                         closer, running, failures, restarts >>
BY DEF CompactSkip, flushVars, tableVars, controlVars

\* One table leaves the list.
Pops(pc) ==
  /\ tables # << >>
  /\ tables' = Tail(tables)
  /\ compactor' = [pc |-> pc, old |-> Append(compactor.old, Head(tables))]
  /\ lock' = "compact"
  /\ UNCHANGED << mem, imm, flusher, disk, closed, made, reader, clock, history, closer, running,
                  failures, restarts >>

LEMMA CompactPopEffect ==
  ASSUME Shape
  PROVE  /\ CompactPopFirst => compactor.pc = "sleep" /\ Len(tables) >= 2 /\ Pops("pop")
         /\ CompactPopSecond => compactor.pc = "pop" /\ Pops("merge")
<1>1. ASSUME CompactPopFirst
      PROVE  tables # << >>
  BY <1>1, EmptySeq DEF CompactPopFirst
<1>2. ASSUME CompactPopSecond
      PROVE  tables # << >>
  BY <1>2 DEF CompactPopSecond, Shape, CompactorShape
<1> QED
  BY <1>1, <1>2 DEF CompactPopFirst, CompactPopSecond, PopTable, Pops, flushVars, controlVars

\* The two tables popped become one that serves what they serve.
LEMMA CompactMergeEffect ==
  ASSUME Shape, FromHistory, CompactMerge
  PROVE  /\ compactor.pc = "merge" /\ compactor' = [compactor EXCEPT !.pc = "close1"]
         /\ \E t : /\ Appears(t) /\ t.merged /\ OfHistory(t.image) /\ Covers(t)
                   /\ tables' = Append(tables, t)
         /\ UNCHANGED << mem, imm, closed, lock, flusher, reader, clock, history, closer, running,
                         failures, restarts >>
<1> DEFINE a == compactor.old[1]
           b == compactor.old[2]
           t == WriteTable(Merge(a.image, b.image), TRUE)
<1>1. compactor.pc = "merge" /\ compactor.old \in Seq(Table) /\ Len(compactor.old) = 2
  BY DEF CompactMerge, Shape, CompactorShape
<1>2. a \in Table /\ b \in Table
  BY <1>1, ElementOfSeq
<1>3. Old = {compactor.old[i] : i \in 1 .. 2}
  BY <1>1, InSequence DEF Old
<1>4. Old = {a, b}
  BY <1>3
<1>5. /\ disk' = OnDisk(t) /\ made' = made + 1
      /\ tables' = Append(tables, t)
      /\ compactor' = [compactor EXCEPT !.pc = "close1"]
      /\ UNCHANGED << mem, imm, closed, lock, flusher, reader, clock, history, closer, running,
                      failures, restarts >>
  BY DEF CompactMerge, flushVars, controlVars
<1> HIDE DEF a, b
<1>6. OfHistory(a.image) /\ OfHistory(b.image) /\ \A e \in history : ~ e.deleted
  BY <1>4 DEF FromHistory, Held
<1>7. a.image \in Images /\ b.image \in Images
  BY <1>2 DEF Table
<1>8. /\ Merge(a.image, b.image) \in Images
      /\ DOMAIN Merge(a.image, b.image) = DOMAIN a.image \cup DOMAIN b.image
      /\ \A k \in DOMAIN Merge(a.image, b.image) :
           \/ k \in DOMAIN a.image /\ Merge(a.image, b.image)[k] = a.image[k]
           \/ k \in DOMAIN b.image /\ Merge(a.image, b.image)[k] = b.image[k]
  <2>1. \A k \in DOMAIN a.image : ~ a.image[k].deleted
    BY <1>6 DEF OfHistory
  <2>2. \A k \in DOMAIN b.image : ~ b.image[k].deleted
    BY <1>6 DEF OfHistory
  <2> QED
    BY <1>7, <2>1, <2>2, MergeFacts
<1>9. t \in Table /\ t.name = made + 1 /\ t.image = Merge(a.image, b.image) /\ t.merged = TRUE
  BY <1>8, NewTable DEF Shape
<1> HIDE DEF t
<1>10. OfHistory(t.image)
  BY <1>6, <1>8, <1>9 DEF OfHistory
<1>11. Covers(t)
  BY <1>4, <1>8, <1>9 DEF Covers
<1> QED
  BY <1>1, <1>5, <1>9, <1>10, <1>11 DEF Appears

\* The thread ends with the tables it popped.
CompactionDies == CompactReadClosed \/ CompactFail \/ CompactUnlinkFails

LEMMA CompactionDiesEffect ==
  ASSUME Shape, CompactionDies
  PROVE  /\ compactor' = [pc |-> "dead", old |-> << >>]
         /\ lock' = "free"
         /\ failures' \in Nat
         /\ failures' >= failures
         /\ (\E t : Appears(t)) \/ UNCHANGED << made, disk >>
         /\ UNCHANGED << mem, imm, flusher, tables, closed, reader, clock, history, closer, running,
                         restarts >>
<1>1. failures \in Nat
  BY DEF Shape, ControlShape
<1>2. CASE CompactReadClosed
  BY <1>1, <1>2 DEF CompactReadClosed, Die, flushVars
<1>3. CASE CompactFail
  <2>1. (\E t : Appears(t)) \/ UNCHANGED << made, disk >>
    BY <1>3, TornImage, NewTable DEF CompactFail, Shape, Appears
  <2> QED
    BY <1>1, <1>3, <2>1 DEF CompactFail, Die, flushVars
<1>4. CASE CompactUnlinkFails
  BY <1>1, <1>4 DEF CompactUnlinkFails, Die, flushVars
<1> QED
  BY <1>2, <1>3, <1>4 DEF CompactionDies

\* One of the popped tables is closed.
CompactCloses == CompactCloseFirst \/ CompactCloseSecond

LEMMA CompactClosesEffect ==
  ASSUME Shape, CompactCloses
  PROVE  /\ compactor.pc \in {"close1", "close2"}
         /\ \E pc \in {"close2", "unlink"} : compactor' = [compactor EXCEPT !.pc = pc]
         /\ \E t \in Old : closed' = closed \cup {t.name}
         /\ UNCHANGED << mem, imm, flusher, tables, disk, made, lock, reader, clock, history, closer,
                         running, failures, restarts >>
<1>1. /\ compactor.old \in Seq(Table)
      /\ compactor.pc \in {"close1", "close2"} => Len(compactor.old) = 2
  BY DEF Shape, CompactorShape
<1>2. Old = {compactor.old[i] : i \in 1 .. Len(compactor.old)}
  BY <1>1, InSequence DEF Old
<1>3. \E i \in 1 .. 2, pc \in {"close2", "unlink"} :
        compactor.pc \in {"close1", "close2"} /\ CloseOld(i, pc)
  BY DEF CompactCloses, CompactCloseFirst, CompactCloseSecond
<1> QED
  BY <1>1, <1>2, <1>3 DEF CloseOld, flushVars, controlVars

\* One of their files is removed; after the second the loop goes on.
LEMMA CompactUnlinkEffect ==
  ASSUME Shape, CompactUnlink
  PROVE  /\ compactor.pc = "unlink" /\ lock' \in {lock, "free"}
         /\ \E t \in Old : DOMAIN disk' = DOMAIN disk \ {t.name}
         /\ \A n \in DOMAIN disk' : disk'[n] = disk[n]
         /\ CompactorShape' /\ Old' \subseteq Old /\ compactor'.pc # "dead"
         /\ UNCHANGED << mem, imm, flusher, tables, closed, made, reader, clock, history, closer,
                         running, failures, restarts >>
<1>1. compactor \in [pc : CompactorPCs, old : Seq(Table)] /\ compactor.pc = "unlink"
      /\ Len(compactor.old) \in {1, 2}
  BY DEF CompactUnlink, Shape, CompactorShape
<1>2. compactor.old # << >>
  BY <1>1, EmptySeq
<1>3. Head(compactor.old) \in Old
  BY <1>1, <1>2, OfTail DEF Old
<1>4. CASE Len(compactor.old) = 2
  <2>1. compactor' = [compactor EXCEPT !.old = Tail(compactor.old)] /\ UNCHANGED lock
    BY <1>4 DEF CompactUnlink
  <2>2. Tail(compactor.old) \in Seq(Table) /\ Len(Tail(compactor.old)) = 1
        /\ ToSet(Tail(compactor.old)) \subseteq ToSet(compactor.old)
    BY <1>1, <1>2, <1>4, OfTail
  <2>3. compactor'.old = Tail(compactor.old) /\ compactor'.pc = "unlink"
        /\ compactor' \in [pc : CompactorPCs, old : Seq(Table)]
    BY <1>1, <2>1, <2>2
  <2>4. CompactorShape' /\ Old' \subseteq Old
    BY <2>2, <2>3 DEF CompactorShape, CompactorPCs, Old
  <2> QED
    BY <1>1, <1>3, <2>1, <2>3, <2>4 DEF CompactUnlink, flushVars, controlVars
<1>5. CASE Len(compactor.old) # 2
  <2>1. compactor' = LoopTop /\ lock' = "free"
    BY <1>5 DEF CompactUnlink
  <2>2. compactor'.pc \in {"sleep", "stopped"} /\ compactor'.old = << >>
        /\ compactor' = [pc |-> compactor'.pc, old |-> compactor'.old]
    BY <2>1, LoopTopFacts
  <2>3. << >> \in Seq(Table)
    BY EmptySeq
  <2>4. CompactorShape'
    BY <2>2, <2>3 DEF CompactorShape, CompactorPCs
  <2>5. Old' = {}
    BY <2>2, OfEmpty DEF Old
  <2> QED
    BY <1>1, <1>3, <2>1, <2>2, <2>4, <2>5 DEF CompactUnlink, flushVars, controlVars
<1> QED
  BY <1>4, <1>5

LEMMA CloseBeginEffect ==
  ASSUME CloseBegin
  PROVE  /\ closer.pc = "open" /\ closer' = [closer EXCEPT !.pc = "lock"] /\ running' = FALSE
         /\ UNCHANGED << mem, imm, flusher, tables, disk, closed, made, lock, compactor, reader, clock,
                         history, failures, restarts >>
BY DEF CloseBegin, flushVars, tableVars

LEMMA CloseFlushEffect ==
  ASSUME CloseFlush
  PROVE  /\ closer.pc = "lock"
         /\ Keeping(mem) \/ (mem.list # << >> /\ Flushing(mem))
         /\ lock' \in {lock, "close"}
         /\ \E pc \in {"sleep", "handles"} : closer' = [closer EXCEPT !.pc = pc]
         /\ UNCHANGED << tables, disk, closed, made, compactor, reader, clock, history, running,
                         failures, restarts >>
<1>1. UNCHANGED << tables, disk, closed, made, compactor, reader, clock, history, running,
                   failures, restarts >>
  BY DEF CloseFlush, tableVars, closeUnchanged
<1>2. CASE mem.list # << >>
  BY <1>1, <1>2, FlushMemtableCases DEF CloseFlush
<1>3. CASE mem.list = << >>
  BY <1>1, <1>3 DEF CloseFlush, Keeping, flushVars
<1> QED
  BY <1>2, <1>3

LEMMA CloseWakeEffect ==
  ASSUME CloseWake
  PROVE  /\ closer.pc = "sleep" /\ closer' = [closer EXCEPT !.pc = "handles"] /\ lock' = "free"
         /\ UNCHANGED << mem, imm, flusher, tables, disk, closed, made, compactor, reader, clock,
                         history, running, failures, restarts >>
BY DEF CloseWake, flushVars, tableVars, closeUnchanged

\* close goes on to the next handle, or is done.
LEMMA CloseHandleEffect ==
  ASSUME Shape, CloseHandle
  PROVE  /\ closer.pc = "handles"
         /\ \/ /\ closer' = [closer EXCEPT !.idx = @ + 1]
               /\ \E t \in Listed : closed' = closed \cup {t.name}
            \/ closer' = [closer EXCEPT !.pc = "done"] /\ UNCHANGED closed
         /\ UNCHANGED << mem, imm, flusher, tables, disk, made, lock, compactor, reader, clock,
                         history, running, failures, restarts >>
<1>1. UNCHANGED << mem, imm, flusher, tables, disk, made, lock, compactor, reader, clock,
                   history, running, failures, restarts >>
  BY DEF CloseHandle, flushVars, closeUnchanged
<1>2. closer.idx \in Nat /\ Len(tables) \in Nat /\ Listed = {tables[i] : i \in 1 .. Len(tables)}
  BY InSequence DEF Shape, ControlShape, TableShape, Listed
<1>3. ASSUME closer.idx < Len(tables)
      PROVE  tables[closer.idx + 1] \in Listed
  BY <1>2, <1>3
<1> QED
  BY <1>1, <1>3 DEF CloseHandle

\* Every step is one of these.
LEMMA StepCases ==
  ASSUME [Next]_vars
  PROVE  \/ UNCHANGED vars
         \/ \E k \in Keys, v \in Values : PutEntry(k, v)
         \/ FlushWrite \/ FlushReset \/ FlushPublish \/ FlushFail \/ FlushGiveUp
         \/ CompactSkip \/ CompactPopFirst \/ CompactPopSecond \/ CompactMerge
         \/ CompactionDies \/ CompactCloses \/ CompactUnlink
         \/ CloseBegin \/ CloseFlush \/ CloseWake \/ CloseHandle
         \/ ReaderMoves
         \/ Restart
<1>1. ASSUME NEW k \in Keys, Delete(k) \/ \E v \in Values \ {Empty} : Put(k, v)
      PROVE  \E v \in Values : PutEntry(k, v)
  BY <1>1, EmptyAssumption DEF Delete, Put
<1> QED
  BY <1>1 DEF Next, FlushStep, CompactStep, CompactEnd, CloseStep, CompactionDies, CompactCloses,
              ReaderMoves

----------------------------------------------------------------------------
(* Every step keeps the invariant, conjunct by conjunct. *)

LEMMA ShapeStep ==
  ASSUME Shape, ImmOwnedByFlush, Files, FromHistory, [Next]_vars
  PROVE  Shape'
<1> USE NoMemIsNone
<1>0. /\ MemShape /\ TableShape /\ FlusherShape /\ CompactorShape /\ ControlShape
      /\ \A t : t \in Table => << t >> \in Seq(Table) /\ Len(<< t >>) = 1
      /\ << >> \in Seq(Table) /\ Len(<< >>) = 0
  BY EmptySeq DEF Shape
<1> USE DEF Shape, CompactorPCs
<1>a. ASSUME NEW pc \in {"idle", "write"}, flusher' = [pc |-> pc, out |-> << >>]
      PROVE  FlusherShape'
  BY <1>0, <1>a DEF FlusherShape
<1>b. ASSUME NEW pc \in {"sleep", "stopped", "dead"}, compactor' = [pc |-> pc, old |-> << >>]
      PROVE  CompactorShape'
  BY <1>0, <1>b DEF CompactorShape
<1>c. UNCHANGED flusher => FlusherShape'
  BY <1>0 DEF FlusherShape
<1>1. CASE UNCHANGED vars
  BY <1>1, <1>0 DEF vars, MemShape, TableShape, FlusherShape, CompactorShape, ControlShape
<1>2. CASE \E k \in Keys, v \in Values : PutEntry(k, v)
  <2>1. PICK k \in Keys, v \in Values : PutEntry(k, v)
    BY <1>2
  <2>2. PICK e, m : /\ NewEntry(e, k) /\ Entered(m, e)
                    /\ history' = history \cup {e}
                    /\ Keeping(m) \/ Flushing(m)
    BY <2>1, <1>0, PutEffect
  <2>3. UNCHANGED << lock, compactor, reader, tables, disk, closed, made, closer, running,
                     failures, restarts >>
        /\ clock' = clock + 1
    BY <2>1, <1>0, PutEffect
  <2>4. MemShape'
    BY <1>0, <2>2, <2>3 DEF MemShape, Keeping, Flushing, Entered, NewEntry
  <2>5. FlusherShape'
    BY <1>a, <1>c, <2>2 DEF Keeping, Flushing
  <2> QED
    BY <1>0, <2>3, <2>4, <2>5 DEF TableShape, CompactorShape, ControlShape
<1>3. CASE FlushWrite
  <2>1. PICK t : Appears(t) /\ flusher' = [pc |-> "reset", out |-> << t >>]
    BY <1>3, FlushWriteEffect
  <2>2. UNCHANGED << mem, imm, tables, closed, lock, compactor, reader, clock, history, closer,
                     running, failures, restarts >>
    BY <1>3, FlushWriteEffect
  <2>3. TableShape'
    BY <1>0, <2>1, <2>2, Appeared DEF TableShape
  <2>4. FlusherShape'
    BY <1>0, <2>1 DEF FlusherShape, Appears
  <2> QED
    BY <1>0, <2>2, <2>3, <2>4 DEF MemShape, CompactorShape, ControlShape
<1>4. CASE FlushReset
  BY <1>4, <1>0, FlushResetEffect DEF MemShape, TableShape, FlusherShape, CompactorShape, ControlShape
<1>5. CASE FlushPublish
  <2>1. PICK t \in Table : tables' = Append(tables, t)
    BY <1>5, FlushPublishEffect
  <2>2. /\ flusher' = NoFlush /\ imm' = NoMem
        /\ UNCHANGED << mem, disk, closed, made, lock, compactor, reader, clock, history, closer,
                        running, failures, restarts >>
    BY <1>5, FlushPublishEffect
  <2>3. tables' \in Seq(Table) /\ tables' # << >>
    <3>1. tables \in Seq(Table)
      BY <1>0 DEF TableShape
    <3>2. tables' \in Seq(Table) /\ Len(tables') = Len(tables) + 1 /\ Len(tables) \in Nat
      BY <2>1, <3>1, OfAppend, InSequence
    <3> QED
      BY <3>2, <1>0
  <2>4. TableShape' /\ MemShape' /\ ControlShape'
    BY <1>0, <2>2, <2>3 DEF TableShape, MemShape, ControlShape
  <2>5. FlusherShape' /\ CompactorShape'
    BY <1>0, <2>2, <2>3 DEF FlusherShape, CompactorShape, NoFlush
  <2> QED
    BY <2>4, <2>5
<1>6. CASE FlushFail
  <2>1. TableShape'
    BY <1>6, <1>0, FlushFailEffect, Appeared DEF TableShape
  <2>2. FlusherShape' /\ ControlShape'
    BY <1>6, <1>0, FlushFailEffect DEF FlusherShape, ControlShape
  <2> QED
    BY <1>6, <1>0, <2>1, <2>2, FlushFailEffect DEF MemShape, CompactorShape
<1>7. CASE FlushGiveUp
  <2>1. FlusherShape'
    BY <1>7, <1>a, FlushGiveUpEffect DEF NoFlush
  <2> QED
    BY <1>7, <1>0, <2>1, FlushGiveUpEffect DEF MemShape, TableShape, CompactorShape, ControlShape
<1>8. CASE CompactSkip
  BY <1>8, <1>0, CompactSkipEffect, LoopTopFacts
     DEF MemShape, TableShape, FlusherShape, CompactorShape, ControlShape
<1>9. ASSUME NEW pc \in {"pop", "merge"}, Pops(pc),
             pc = "pop" => compactor.pc = "sleep" /\ Len(tables) >= 2,
             pc = "merge" => compactor.pc = "pop"
      PROVE  Shape'
  <2>1. tables \in Seq(Table) /\ compactor.old \in Seq(Table) /\ tables # << >>
    BY <1>0, <1>9 DEF TableShape, CompactorShape, Pops
  <2>2. Head(tables) \in Table /\ tables' \in Seq(Table) /\ Len(tables') = Len(tables) - 1
        /\ Len(tables) \in Nat
    BY <1>9, <2>1, OfTail DEF Pops
  <2>3. /\ Append(compactor.old, Head(tables)) \in Seq(Table)
        /\ Len(Append(compactor.old, Head(tables))) = Len(compactor.old) + 1
    BY <2>1, <2>2, OfAppend
  <2>4. pc = "pop" => tables' # << >>
    BY <1>0, <1>9, <2>2
  <2>5. compactor' = [pc |-> pc, old |-> Append(compactor.old, Head(tables))] /\ lock' = "compact"
        /\ UNCHANGED << mem, imm, flusher, disk, closed, made, reader, clock, history, closer, running,
                        failures, restarts >>
    BY <1>9 DEF Pops
  <2>6. CompactorShape'
    BY <1>0, <1>9, <2>3, <2>4, <2>5 DEF CompactorShape
  <2> QED
    BY <1>0, <2>2, <2>5, <2>6 DEF MemShape, TableShape, FlusherShape, ControlShape
<1>10. CASE CompactPopFirst
  BY <1>9, <1>10, CompactPopEffect
<1>11. CASE CompactPopSecond
  BY <1>9, <1>11, CompactPopEffect
<1>12. CASE CompactMerge
  <2>1. PICK t : Appears(t) /\ tables' = Append(tables, t)
    BY <1>12, CompactMergeEffect
  <2>2. /\ compactor.pc = "merge" /\ compactor' = [compactor EXCEPT !.pc = "close1"]
        /\ UNCHANGED << mem, imm, closed, lock, flusher, reader, clock, history, closer, running,
                        failures, restarts >>
    BY <1>12, CompactMergeEffect
  <2>3. tables' \in Seq(Table)
    BY <1>0, <2>1, OfAppend DEF TableShape, Appears
  <2>4. TableShape'
    BY <1>0, <2>1, <2>2, <2>3, Appeared DEF TableShape
  <2>5. CompactorShape'
    BY <1>0, <2>2 DEF CompactorShape
  <2> QED
    BY <1>0, <2>2, <2>4, <2>5 DEF MemShape, FlusherShape, ControlShape
<1>13. CASE CompactionDies
  <2>1. TableShape'
    BY <1>13, <1>0, CompactionDiesEffect, Appeared DEF TableShape
  <2>2. CompactorShape' /\ ControlShape'
    BY <1>13, <1>0, <1>b, CompactionDiesEffect DEF ControlShape
  <2> QED
    BY <1>13, <1>0, <2>1, <2>2, CompactionDiesEffect DEF MemShape, FlusherShape
<1>14. CASE CompactCloses
  <2>1. \A t \in Old : t.name \in 1 .. made
    BY DEF Files
  <2>2. TableShape'
    BY <1>14, <1>0, <2>1, CompactClosesEffect DEF TableShape
  <2>3. CompactorShape'
    BY <1>14, <1>0, CompactClosesEffect DEF CompactorShape, CompactorPCs
  <2> QED
    BY <1>14, <1>0, <2>2, <2>3, CompactClosesEffect DEF MemShape, FlusherShape, ControlShape
<1>21. CASE CompactUnlink
  <2>1. TableShape'
    BY <1>21, <1>0, CompactUnlinkEffect DEF TableShape
  <2> QED
    BY <1>21, <1>0, <2>1, CompactUnlinkEffect DEF MemShape, FlusherShape, ControlShape
<1>15. CASE CloseBegin
  BY <1>15, <1>0, CloseBeginEffect
     DEF MemShape, TableShape, FlusherShape, CompactorShape, ControlShape
<1>16. CASE CloseFlush
  <2>1. MemShape' /\ FlusherShape'
    BY <1>16, <1>0, <1>a, <1>c, CloseFlushEffect DEF MemShape, Keeping, Flushing
  <2>2. ControlShape'
    BY <1>16, <1>0, CloseFlushEffect DEF ControlShape
  <2> QED
    BY <1>16, <1>0, <2>1, <2>2, CloseFlushEffect DEF TableShape, CompactorShape
<1>17. CASE CloseWake
  BY <1>17, <1>0, CloseWakeEffect
     DEF MemShape, TableShape, FlusherShape, CompactorShape, ControlShape
<1>18. CASE CloseHandle
  <2>1. \A t \in Listed : t.name \in 1 .. made
    BY <1>0 DEF Files, Held, OnFile, TableShape
  <2> QED
    BY <1>18, <1>0, <2>1, CloseHandleEffect
       DEF MemShape, TableShape, FlusherShape, CompactorShape, ControlShape
<1>19. CASE ReaderMoves
  BY <1>19, <1>0, ReadFrame DEF MemShape, TableShape, FlusherShape, CompactorShape, ControlShape
<1>20. CASE Restart
  <2>1. FlusherShape' /\ CompactorShape'
    BY <1>20, <1>a, <1>b, RestartEffect DEF NoFlush
  <2>2. MemShape' /\ TableShape'
    BY <1>20, <1>0, RestartEffect DEF MemShape, TableShape
  <2>3. ControlShape'
    BY <1>20, <1>0, RestartEffect DEF ControlShape
  <2> QED
    BY <2>1, <2>2, <2>3
<1> QED
  BY <1>1, <1>2, <1>3, <1>4, <1>5, <1>6, <1>7, <1>8, <1>10, <1>11, <1>12, <1>13, <1>14, <1>15,
     <1>16, <1>17, <1>18, <1>19, <1>20, <1>21, StepCases

\* The steps that leave the flush thread and its memtable alone.
FlushAlone ==
  \/ UNCHANGED vars
  \/ CompactSkip \/ CompactPopFirst \/ CompactPopSecond \/ CompactMerge
  \/ CompactionDies \/ CompactCloses \/ CompactUnlink
  \/ CloseBegin \/ CloseWake \/ CloseHandle
  \/ ReaderMoves

LEMMA FlushFrame ==
  ASSUME Shape, FromHistory, FlushAlone
  PROVE  UNCHANGED << mem, imm, flusher, history, clock >> /\ failures' \in Nat /\ failures' >= failures
<1>1. failures \in Nat
  BY DEF Shape, ControlShape
<1>2. CASE UNCHANGED vars
  BY <1>1, <1>2 DEF vars
<1>3. CASE CompactSkip \/ CompactPopFirst \/ CompactPopSecond \/ CompactMerge
  <2>1. CASE CompactSkip
    BY <1>1, <2>1, CompactSkipEffect
  <2>2. CASE CompactPopFirst \/ CompactPopSecond
    BY <1>1, <2>2, CompactPopEffect DEF Pops
  <2>3. CASE CompactMerge
    BY <1>1, <2>3, CompactMergeEffect
  <2> QED
    BY <1>3, <2>1, <2>2, <2>3
<1>4. CASE CompactionDies \/ CompactCloses \/ CompactUnlink
  BY <1>1, <1>4, CompactionDiesEffect, CompactClosesEffect, CompactUnlinkEffect
<1>5. CASE CloseBegin \/ CloseWake \/ CloseHandle \/ ReaderMoves
  <2>1. CASE CloseBegin
    BY <1>1, <2>1, CloseBeginEffect
  <2>2. CASE CloseWake
    BY <1>1, <2>2, CloseWakeEffect
  <2>3. CASE CloseHandle
    BY <1>1, <2>3, CloseHandleEffect
  <2>4. CASE ReaderMoves
    BY <1>1, <2>4, ReadFrame
  <2> QED
    BY <1>5, <2>1, <2>2, <2>3, <2>4
<1> QED
  BY <1>2, <1>3, <1>4, <1>5 DEF FlushAlone

\* The same for the cases of a step: either the flush thread and its memtable
\* are left alone, or it is one of these.
LEMMA FlushCases ==
  ASSUME [Next]_vars
  PROVE  \/ FlushAlone
         \/ \E k \in Keys, v \in Values : PutEntry(k, v)
         \/ FlushWrite \/ FlushReset \/ FlushPublish \/ FlushFail \/ FlushGiveUp
         \/ CloseFlush
         \/ Restart
BY StepCases DEF FlushAlone

LEMMA ImmOwnedStep ==
  ASSUME Shape, ImmOwnedByFlush, FromHistory, [Next]_vars
  PROVE  ImmOwnedByFlush'
<1> USE NoMemIsNone
<1>1. ASSUME NEW m, m \in Memory, m.list # << >>, Flushing(m)
      PROVE  ImmOwnedByFlush'
  BY <1>1 DEF ImmOwnedByFlush, Flushing
<1>2. ASSUME NEW m, Keeping(m)
      PROVE  ImmOwnedByFlush'
  BY <1>2 DEF ImmOwnedByFlush, Keeping
<1>3. CASE FlushAlone
  BY <1>3, FlushFrame DEF ImmOwnedByFlush
<1>4. CASE \E k \in Keys, v \in Values : PutEntry(k, v)
  <2>1. \E e, m : Entered(m, e) /\ (Keeping(m) \/ Flushing(m))
    BY <1>4, PutEffect DEF Shape
  <2> QED
    BY <1>1, <1>2, <2>1 DEF Entered
<1>5. CASE FlushWrite
  BY <1>5, FlushWriteEffect DEF ImmOwnedByFlush
<1>6. CASE FlushReset
  BY <1>6, FlushResetEffect DEF ImmOwnedByFlush, Shape, FlusherShape
<1>7. CASE FlushPublish
  BY <1>7, FlushPublishEffect DEF ImmOwnedByFlush, NoFlush
<1>8. CASE FlushFail
  BY <1>8, FlushFailEffect DEF ImmOwnedByFlush, Shape, FlusherShape
<1>9. CASE FlushGiveUp
  BY <1>9, FlushGiveUpEffect DEF ImmOwnedByFlush, NoFlush
<1>10. CASE CloseFlush
  <2>1. mem \in Memory /\ (Keeping(mem) \/ (mem.list # << >> /\ Flushing(mem)))
    BY <1>10, CloseFlushEffect DEF Shape, MemShape
  <2> QED
    BY <1>1, <1>2, <2>1
<1>11. CASE Restart
  BY <1>11, RestartEffect DEF ImmOwnedByFlush, NoFlush
<1> QED
  BY <1>3, <1>4, <1>5, <1>6, <1>7, <1>8, <1>9, <1>10, <1>11, FlushCases

LEMMA FlushStagesStep ==
  ASSUME Shape, ImmOwnedByFlush, FlushStages, FromHistory, [Next]_vars
  PROVE  FlushStages'
<1> USE NoMemIsNone
<1>1. ASSUME NEW m, Flushing(m)
      PROVE  FlushStages'
  BY <1>1 DEF FlushStages, Flushing
<1>2. ASSUME NEW m, Keeping(m), UNCHANGED failures
      PROVE  FlushStages'
  BY <1>2 DEF FlushStages, Keeping, ImmKeys
<1>3. CASE FlushAlone
  <2>1. failures \in Nat
    BY DEF Shape, ControlShape
  <2> QED
    BY <1>3, <2>1, FlushFrame DEF FlushStages, ImmKeys
<1>4. CASE \E k \in Keys, v \in Values : PutEntry(k, v)
  <2>1. UNCHANGED failures /\ \E e, m : Keeping(m) \/ Flushing(m)
    BY <1>4, PutEffect DEF Shape
  <2> QED
    BY <1>1, <1>2, <2>1
<1>5. CASE FlushWrite
  <2>1. PICK t : /\ DOMAIN t.image = KeysOf(imm.list)
                 /\ Appears(t)
                 /\ flusher' = [pc |-> "reset", out |-> << t >>]
    BY <1>5, FlushWriteEffect
  <2>2. UNCHANGED imm /\ imm # NoMem
    BY <1>5, FlushWriteEffect
  <2>3. TableKeys(<< t >>) = DOMAIN t.image
    <3>1. << t >> \in Seq(Table) /\ Len(<< t >>) = 1 /\ << t >>[1] = t
      BY <2>1 DEF Appears
    <3>2. ToSet(<< t >>) = {t}
      BY <3>1, OfSingle
    <3>3. TableKeys(<< t >>) = UNION {DOMAIN u.image : u \in {t}}
      BY <3>2, KeysAndNames
    <3> QED
      BY <3>3
  <2> QED
    BY <2>1, <2>2, <2>3 DEF FlushStages, ImmKeys
<1>6. CASE FlushReset
  BY <1>6, FlushResetEffect DEF FlushStages, Shape, FlusherShape
<1>7. CASE FlushPublish
  BY <1>7, FlushPublishEffect DEF FlushStages, NoFlush
<1>8. CASE FlushFail
  BY <1>8, FlushFailEffect DEF FlushStages, Shape, FlusherShape, ControlShape
<1>9. CASE FlushGiveUp
  BY <1>9, FlushGiveUpEffect DEF FlushStages, NoFlush
<1>10. CASE CloseFlush
  BY <1>1, <1>2, <1>10, CloseFlushEffect
<1>11. CASE Restart
  BY <1>11, RestartEffect DEF FlushStages, NoFlush
<1> QED
  BY <1>3, <1>4, <1>5, <1>6, <1>7, <1>8, <1>9, <1>10, <1>11, FlushCases

----------------------------------------------------------------------------
(* Where tables go, and their files and handles. *)

CloserGoesOn == closer.pc \in {"handles", "done"} => closer'.pc \in {"handles", "done"}

DiskStays == UNCHANGED << made, disk >> \/ \E t : Appears(t)

\* No table moves.
HeldStays ==
  /\ UNCHANGED << tables, closed >> /\ Listed' = Listed /\ Out' = Out /\ Old' = Old
  /\ DiskStays /\ CloserGoesOn
  /\ compactor'.pc \in Dropping => compactor.pc \in Dropping

\* The flush thread has written table t, and it is listed.
Writes(t) ==
  /\ Appears(t)
  /\ UNCHANGED << tables, closed, closer, compactor >> /\ Listed' = Listed /\ Old' = Old
  /\ Out = {} /\ Out' = {t}
  /\ UNCHANGED << mem, imm >> /\ OfHistory(t.image) /\ Times(t.image) \subseteq ImmTimes

Lists(t) ==
  /\ t \in Table
  /\ tables' = Append(tables, t) /\ Listed' = Listed \cup {t}
  /\ UNCHANGED << made, disk, closed, closer, compactor >> /\ Old' = Old
  /\ Out = {t} /\ Out' = {}

\* Compaction has popped table t, and has made t out of those popped.
Takes(t) ==
  /\ tables # << >> /\ t = Head(tables) /\ tables' = Tail(tables)
  /\ Listed = Listed' \cup {t} /\ Old' = Old \cup {t}
  /\ UNCHANGED << made, disk, closed, closer >> /\ Out' = Out
  /\ compactor'.pc \notin Dropping

Merges(t) ==
  /\ Appears(t) /\ t.merged /\ OfHistory(t.image) /\ Covers(t)
  /\ tables' = Append(tables, t) /\ Listed' = Listed \cup {t}
  /\ UNCHANGED << closed, closer >> /\ Out' = Out /\ Old' = Old

\* The tables popped are gone, with or without their files.
Loses ==
  /\ UNCHANGED << tables, closed, closer >> /\ Listed' = Listed /\ Out' = Out /\ Old' = {}
  /\ DiskStays
  /\ compactor'.pc = "dead"

\* A handle or a file of a table that compaction has merged goes.
ClosesOld ==
  /\ UNCHANGED << tables, made, disk, closer >> /\ Listed' = Listed /\ Out' = Out /\ Old' = Old
  /\ compactor.pc \in Dropping /\ compactor'.pc # "dead"
  /\ \E t \in Old : closed' = closed \cup {t.name}

Unlinks ==
  /\ UNCHANGED << tables, made, closed, closer >> /\ Listed' = Listed /\ Out' = Out
  /\ Old' \subseteq Old
  /\ compactor.pc \in Dropping
  /\ \E t \in Old : DOMAIN disk' = DOMAIN disk \ {t.name}
  /\ \A n \in DOMAIN disk' : disk'[n] = disk[n]

\* A handle of a listed table is closed, or all are.
Closes ==
  /\ UNCHANGED << tables, made, disk, compactor >> /\ Listed' = Listed /\ Out' = Out /\ Old' = Old
  /\ closer'.pc \in {"handles", "done"}
  /\ closed' = closed \/ \E t \in Listed : closed' = closed \cup {t.name}

LEMMA HeldFacts ==
  ASSUME Shape
  PROVE  /\ flusher.pc \in {"idle", "write", "giveup"} => Out = {}
         /\ compactor.pc \in {"sleep", "stopped", "dead"} => Old = {}
         /\ Listed \subseteq Table /\ Out \subseteq Table /\ Old \subseteq Table
<1>1. tables \in Seq(Table) /\ flusher.out \in Seq(Table) /\ compactor.old \in Seq(Table)
  BY DEF Shape, TableShape, FlusherShape, CompactorShape
<1>2. Listed \subseteq Table /\ Out \subseteq Table /\ Old \subseteq Table
  BY <1>1, InSequence DEF Listed, Out, Old
<1>3. flusher.pc \in {"idle", "write", "giveup"} => Out = {}
  BY OfEmpty DEF Shape, FlusherShape, Out
<1>4. compactor.pc \in {"sleep", "stopped", "dead"} => Old = {}
  BY OfEmpty DEF Shape, CompactorShape, Old
<1> QED
  BY <1>2, <1>3, <1>4

LEMMA HeldFrame ==
  /\ UNCHANGED tables => Listed' = Listed
  /\ UNCHANGED flusher => Out' = Out
  /\ UNCHANGED compactor => Old' = Old
  /\ flusher'.out = << >> => Out' = {}
  /\ compactor'.old = << >> => Old' = {}
BY OfEmpty DEF Listed, Out, Old

LEMMA FlushWriteMoves ==
  ASSUME Shape, ImmOwnedByFlush, FromHistory, FlushWrite
  PROVE  \E t : Writes(t)
<1>1. PICK t : /\ Appears(t) /\ flusher' = [pc |-> "reset", out |-> << t >>]
               /\ \A k \in DOMAIN t.image : t.image[k] \in ToSet(imm.list) /\ t.image[k].key = k
  BY FlushWriteEffect
<1>2. UNCHANGED << mem, imm, tables, closed, closer, compactor >> /\ flusher.pc = "write"
  BY FlushWriteEffect
<1>3. Out' = {t}
  <2>1. << t >> \in Seq(Table) /\ Len(<< t >>) = 1 /\ << t >>[1] = t
    BY <1>1 DEF Appears
  <2> QED
    BY <2>1, <1>1, OfSingle DEF Out
<1>4. OfHistory(t.image) /\ Times(t.image) \subseteq ImmTimes
  <2>1. \A k \in DOMAIN t.image : t.image[k] \in ToSet(imm.list) /\ t.image[k].key = k
    BY <1>1
  <2>2. imm # NoMem
    BY FlushWriteEffect, NoMemIsNone
  <2>3. {t.image[k].ts : k \in DOMAIN t.image} \subseteq {f.ts : f \in ToSet(imm.list)}
    BY <2>1
  <2>4. {f.ts : f \in ToSet(imm.list)} = ListTimes(imm.list)
    BY DEF ListTimes, ToSet
  <2> QED
    BY <2>1, <2>2, <2>3, <2>4 DEF FromHistory, OfHistory, Times, ImmTimes
<1>5. Writes(t)
  BY <1>1, <1>2, <1>3, <1>4, HeldFacts, HeldFrame DEF Writes
<1> QED
  BY <1>5

LEMMA HeldCases ==
  ASSUME Shape, ImmOwnedByFlush, FromHistory, [Next]_vars
  PROVE  \/ HeldStays
         \/ \E t : Writes(t) \/ Lists(t) \/ Takes(t) \/ Merges(t)
         \/ Loses \/ ClosesOld \/ Unlinks \/ Closes
         \/ Restart
<1>0. /\ flusher \in [pc : {"idle", "write", "reset", "publish", "giveup"}, out : Seq(Table)]
      /\ compactor \in [pc : CompactorPCs, old : Seq(Table)]
      /\ closer \in [pc : {"open", "lock", "sleep", "handles", "done"}, idx : Nat]
      /\ tables \in Seq(Table)
  BY DEF Shape, FlusherShape, CompactorShape, ControlShape, TableShape
<1>1. ASSUME NEW m, Flushing(m)
      PROVE  Out = {} /\ Out' = {}
  BY <1>1, HeldFacts, HeldFrame DEF Flushing, ImmOwnedByFlush
<1>2. ASSUME NEW m, Keeping(m)
      PROVE  Out' = Out
  BY <1>2, HeldFrame DEF Keeping
<1>3. CASE UNCHANGED vars \/ ReaderMoves
  <2>1. UNCHANGED << tables, disk, closed, flusher, compactor, closer, made >>
    BY <1>3, ReadFrame DEF vars
  <2> QED
    BY <2>1, HeldFrame DEF HeldStays, DiskStays, CloserGoesOn
<1>4. CASE \E k \in Keys, v \in Values : PutEntry(k, v)
  <2>1. UNCHANGED << tables, disk, closed, compactor, closer, made >>
        /\ \E m : Keeping(m) \/ Flushing(m)
    BY <1>4, PutEffect DEF Shape
  <2> QED
    BY <2>1, <1>1, <1>2, HeldFrame DEF HeldStays, DiskStays, CloserGoesOn
<1>5. CASE FlushWrite
  BY <1>5, FlushWriteMoves
<1>6. CASE FlushReset
  <2>1. flusher'.out = flusher.out /\ UNCHANGED << tables, disk, closed, compactor, closer, made >>
    BY <1>6, <1>0, FlushResetEffect
  <2>2. Out' = Out
    BY <2>1 DEF Out
  <2> QED
    BY <2>1, <2>2, HeldFrame DEF HeldStays, DiskStays, CloserGoesOn
<1>7. CASE FlushPublish
  <2>1. PICK t \in Table : Out = {t} /\ tables' = Append(tables, t)
    BY <1>7, FlushPublishEffect
  <2>2. UNCHANGED << disk, closed, made, closer, compactor >> /\ flusher' = NoFlush
    BY <1>7, FlushPublishEffect
  <2>3. Listed' = Listed \cup {t}
    BY <1>0, <2>1, OfAppend DEF Listed
  <2>4. Lists(t)
    BY <2>1, <2>2, <2>3, HeldFrame DEF Lists, NoFlush
  <2> QED
    BY <2>4
<1>8. CASE FlushFail
  <2>1. /\ flusher'.out = flusher.out /\ UNCHANGED << tables, closed, compactor, closer >>
        /\ DiskStays
    BY <1>8, <1>0, FlushFailEffect DEF DiskStays
  <2>2. Out' = Out
    BY <2>1 DEF Out
  <2> QED
    BY <2>1, <2>2, HeldFrame DEF HeldStays, CloserGoesOn
<1>9. CASE FlushGiveUp
  <2>1. flusher' = NoFlush /\ flusher.pc = "giveup"
        /\ UNCHANGED << tables, disk, closed, compactor, closer, made >>
    BY <1>9, FlushGiveUpEffect
  <2>2. Out' = Out
    BY <2>1, HeldFacts, HeldFrame DEF NoFlush
  <2> QED
    BY <2>1, <2>2, HeldFrame DEF HeldStays, DiskStays, CloserGoesOn
<1>10. CASE CompactSkip
  <2>1. compactor.pc = "sleep" /\ compactor' = LoopTop
        /\ UNCHANGED << tables, disk, closed, flusher, closer, made >>
    BY <1>10, CompactSkipEffect
  <2>2. Old' = Old /\ compactor'.pc \notin Dropping
    BY <2>1, HeldFacts, HeldFrame, LoopTopFacts DEF Dropping
  <2> QED
    BY <2>1, <2>2, HeldFrame DEF HeldStays, DiskStays, CloserGoesOn
<1>11. ASSUME NEW pc \in {"pop", "merge"}, Pops(pc)
       PROVE  \E t : Takes(t)
  <2>1. tables # << >> /\ tables' = Tail(tables)
        /\ compactor' = [pc |-> pc, old |-> Append(compactor.old, Head(tables))]
        /\ UNCHANGED << made, disk, closed, closer, flusher >>
    BY <1>11 DEF Pops
  <2>2. Head(tables) \in Table /\ ToSet(tables) = {Head(tables)} \cup ToSet(Tail(tables))
    BY <1>0, <2>1, OfTail
  <2>3. Listed = Listed' \cup {Head(tables)}
    BY <2>1, <2>2 DEF Listed
  <2>4. compactor.old \in Seq(Table)
    BY <1>0
  <2>5. ToSet(Append(compactor.old, Head(tables))) = ToSet(compactor.old) \cup {Head(tables)}
    BY <2>2, <2>4, OfAppend
  <2>6. Old' = Old \cup {Head(tables)} /\ compactor'.pc \notin Dropping
    BY <2>1, <2>5 DEF Old, Dropping
  <2>7. Takes(Head(tables))
    BY <2>1, <2>3, <2>6, HeldFrame DEF Takes
  <2> QED
    BY <2>7
<1>12. CASE CompactPopFirst \/ CompactPopSecond
  BY <1>11, <1>12, CompactPopEffect
<1>13. CASE CompactMerge
  <2>1. PICK t : /\ Appears(t) /\ t.merged /\ OfHistory(t.image) /\ Covers(t)
                 /\ tables' = Append(tables, t)
    BY <1>13, CompactMergeEffect
  <2>2. UNCHANGED << closed, closer, flusher >> /\ compactor'.old = compactor.old
    BY <1>13, <1>0, CompactMergeEffect
  <2>3. Listed' = Listed \cup {t}
    BY <1>0, <2>1, OfAppend DEF Listed, Appears
  <2>4. Old' = Old
    BY <2>2 DEF Old
  <2>5. Merges(t)
    BY <2>1, <2>2, <2>3, <2>4, HeldFrame DEF Merges
  <2> QED
    BY <2>5
<1>14. CASE CompactionDies
  <2>1. /\ compactor' = [pc |-> "dead", old |-> << >>] /\ DiskStays
        /\ UNCHANGED << flusher, tables, closed, closer >>
    BY <1>14, CompactionDiesEffect DEF DiskStays
  <2> QED
    BY <2>1, HeldFrame DEF Loses
<1>15. CASE CompactCloses
  <2>1. PICK pc \in {"close2", "unlink"} : compactor' = [compactor EXCEPT !.pc = pc]
    BY <1>15, CompactClosesEffect
  <2>2. compactor'.old = compactor.old /\ compactor'.pc # "dead"
    BY <1>0, <2>1
  <2>3. Old' = Old
    BY <2>2 DEF Old
  <2> QED
    BY <1>15, <2>2, <2>3, CompactClosesEffect, HeldFrame DEF ClosesOld, Dropping
<1>19. CASE CompactUnlink
  BY <1>19, CompactUnlinkEffect, HeldFrame DEF Unlinks, Dropping
<1>16. CASE CloseBegin \/ CloseWake
  <2>1. /\ UNCHANGED << flusher, tables, disk, closed, made, compactor >>
        /\ closer.pc \notin {"handles", "done"}
    BY <1>16, CloseBeginEffect, CloseWakeEffect
  <2> QED
    BY <2>1, HeldFrame DEF HeldStays, DiskStays, CloserGoesOn
<1>17. CASE CloseFlush
  <2>1. /\ UNCHANGED << tables, disk, closed, made, compactor >>
        /\ Keeping(mem) \/ Flushing(mem)
        /\ closer.pc = "lock"
    BY <1>17, CloseFlushEffect
  <2> QED
    BY <2>1, <1>1, <1>2, HeldFrame DEF HeldStays, DiskStays, CloserGoesOn
<1>18. CASE CloseHandle
  <2>1. /\ UNCHANGED << flusher, tables, disk, made, compactor >>
        /\ closed' = closed \/ \E t \in Listed : closed' = closed \cup {t.name}
    BY <1>18, CloseHandleEffect
  <2>2. closer'.pc \in {"handles", "done"}
    BY <1>18, <1>0, CloseHandleEffect
  <2> QED
    BY <2>1, <2>2, HeldFrame DEF Closes
<1> QED
  BY <1>3, <1>4, <1>5, <1>6, <1>7, <1>8, <1>9, <1>10, <1>12, <1>13, <1>14, <1>15, <1>16, <1>17,
     <1>18, <1>19, StepCases

LEMMA DiskStaysFacts ==
  ASSUME TableShape, DiskStays
  PROVE  /\ DOMAIN disk \subseteq DOMAIN disk' /\ \A n \in DOMAIN disk : disk'[n] = disk[n]
         /\ \A n \in 1 .. made : n \in 1 .. made' /\ (n \in DOMAIN disk' => n \in DOMAIN disk)
BY Appeared DEF DiskStays

LEMMA FilesStep ==
  ASSUME Shape, ImmOwnedByFlush, FromHistory, Files, [Next]_vars
  PROVE  Files'
<1>0. /\ TableShape /\ tables \in Seq(Table)
      /\ Listed \subseteq Table /\ Out \subseteq Table /\ Old \subseteq Table
  BY HeldFacts DEF Shape, TableShape
<1>f. /\ \A t \in Listed \cup Out : t.name \in DOMAIN disk /\ disk[t.name] = t.image
      /\ \A t \in Old : t.name \in 1 .. made
                        /\ (t.name \in DOMAIN disk => disk[t.name] = t.image)
      /\ OneEach(tables)
      /\ \A s \in Listed, t \in Out : s.name # t.name
      /\ \A s \in Listed, t \in Old : s.name # t.name
      /\ \A s \in Out, t \in Old : s.name # t.name
      /\ \A t \in Out : t.name \notin closed
      /\ closer.pc \notin {"handles", "done"} => \A t \in Listed : t.name \notin closed
  BY DEF Files, Held, OnFile, Apart
<1>g. /\ \A t \in Listed' \cup Out' : t.name \in DOMAIN disk' /\ disk'[t.name] = t.image
      /\ \A t \in Old' : t.name \in 1 .. made'
                         /\ (t.name \in DOMAIN disk' => disk'[t.name] = t.image)
      /\ OneEach(tables')
      /\ \A s \in Listed', t \in Out' : s.name # t.name
      /\ \A s \in Listed', t \in Old' : s.name # t.name
      /\ \A s \in Out', t \in Old' : s.name # t.name
      /\ \A t \in Out' : t.name \notin closed'
      /\ closer'.pc \notin {"handles", "done"} => \A t \in Listed' : t.name \notin closed'
      => Files'
  BY DEF Files, Held, OnFile, Apart, OneEach
<1>1. CASE HeldStays
  BY <1>1, <1>0, <1>f, <1>g, DiskStaysFacts DEF HeldStays, CloserGoesOn
<1>2. ASSUME NEW t, Writes(t)
      PROVE  Files'
  BY <1>2, <1>0, <1>f, <1>g, Appeared DEF Writes
<1>3. ASSUME NEW t, Lists(t)
      PROVE  Files'
  <2>1. OneEach(tables')
    BY <1>3, <1>0, <1>f, OneEachAppend DEF Lists, Listed
  <2> QED
    BY <1>3, <1>f, <1>g, <2>1 DEF Lists
<1>4. ASSUME NEW t, Takes(t)
      PROVE  Files'
  <2>1. OneEach(tables') /\ \A s \in Listed' : s.name # t.name
    BY <1>4, <1>0, <1>f, OneEachTail DEF Takes, Listed
  <2>2. /\ Listed = Listed' \cup {t} /\ Old' = Old \cup {t} /\ Out' = Out
        /\ UNCHANGED << made, disk, closed, closer >>
    BY <1>4 DEF Takes
  <2>3. t.name \in 1 .. made
    BY <1>0, <1>f, <2>2 DEF TableShape
  <2> QED
    BY <1>f, <1>g, <2>1, <2>2, <2>3
<1>5. ASSUME NEW t, Merges(t)
      PROVE  Files'
  <2>1. /\ t \in Table /\ t.name \notin DOMAIN disk /\ t.name \notin closed
        /\ DOMAIN disk \subseteq DOMAIN disk' /\ \A n \in DOMAIN disk : disk'[n] = disk[n]
        /\ t.name \in DOMAIN disk' /\ disk'[t.name] = t.image
        /\ \A n \in 1 .. made : /\ n \in 1 .. made' /\ n # t.name
                              /\ (n \in DOMAIN disk' => n \in DOMAIN disk)
    BY <1>5, <1>0, Appeared DEF Merges, Appears
  <2>2. /\ tables' = Append(tables, t) /\ Listed' = Listed \cup {t} /\ Out' = Out /\ Old' = Old
        /\ UNCHANGED << closed, closer >>
    BY <1>5 DEF Merges
  <2>3. \A u \in Listed \cup Out \cup Old : u.name # t.name
    BY <1>f, <2>1
  <2>4. OneEach(tables')
    BY <1>0, <1>f, <2>1, <2>2, <2>3, OneEachAppend DEF Listed
  <2> QED
    BY <1>f, <1>g, <2>1, <2>2, <2>3, <2>4
<1>6. CASE Loses
  BY <1>6, <1>0, <1>f, <1>g, DiskStaysFacts DEF Loses
<1>7. CASE Unlinks \/ ClosesOld
  BY <1>7, <1>f, <1>g DEF Unlinks, ClosesOld
<1>8. CASE Closes
  BY <1>8, <1>f, <1>g DEF Closes
<1>9. CASE Restart
  <2>1. /\ tables' = << >> /\ flusher'.out = << >> /\ compactor'.old = << >>
    BY <1>9, RestartEffect DEF NoFlush
  <2>2. Listed' = {} /\ Out' = {} /\ Old' = {}
    BY <2>1, HeldFrame, OfEmpty DEF Listed
  <2>3. OneEach(tables')
    BY <2>1 DEF OneEach
  <2> QED
    BY <1>g, <2>2, <2>3
<1> QED
  BY <1>1, <1>2, <1>3, <1>4, <1>5, <1>6, <1>7, <1>8, <1>9, HeldCases

LEMMA MergedListedStep ==
  ASSUME Shape, ImmOwnedByFlush, FromHistory, MergedListed, [Next]_vars
  PROVE  MergedListed'
<1> USE DEF MergedListed, Covers
<1>1. CASE HeldStays \/ Closes \/ ClosesOld \/ Unlinks
  BY <1>1 DEF HeldStays, Closes, ClosesOld, Unlinks
<1>2. ASSUME NEW t, Writes(t) \/ Lists(t)
      PROVE  MergedListed'
  BY <1>2 DEF Writes, Lists
<1>3. ASSUME NEW t, Takes(t)
      PROVE  MergedListed'
  BY <1>3 DEF Takes
<1>4. ASSUME NEW t, Merges(t)
      PROVE  MergedListed'
  BY <1>4 DEF Merges
<1>5. CASE Loses
  BY <1>5 DEF Loses, Dropping
<1>6. CASE Restart
  BY <1>6, RestartEffect DEF Dropping
<1> QED
  BY <1>1, <1>2, <1>3, <1>4, <1>5, <1>6, HeldCases

----------------------------------------------------------------------------
(* Keys. *)

KeysIn(T) == UNION {DOMAIN t.image : t \in T}
MemKeys   == KeysOf(mem.list) \cup ImmKeys

\* The compaction thread never comes back from the dead but by a restart, and
\* failures are never forgotten.
LEMMA TroubleStays ==
  ASSUME Shape, FromHistory, [Next]_vars, ~ Restart
  PROVE  /\ failures' = 0 => failures = 0
         /\ compactor'.pc # "dead" => compactor.pc # "dead"
<1>1. failures \in Nat /\ MemShape
  BY DEF Shape, ControlShape
<1>2. CASE UNCHANGED vars \/ ReaderMoves
  BY <1>2, ReadFrame DEF vars
<1>3. CASE \E k \in Keys, v \in Values : PutEntry(k, v)
  BY <1>1, <1>3, PutEffect
<1>4. CASE FlushWrite \/ FlushReset \/ FlushPublish \/ FlushGiveUp
  BY <1>4 DEF FlushWrite, FlushReset, FlushPublish, FlushGiveUp, controlVars
<1>5. CASE FlushFail
  BY <1>1, <1>5 DEF FlushFail
<1>6. CASE CompactSkip \/ CompactPopFirst \/ CompactPopSecond \/ CompactMerge
  BY <1>6 DEF CompactSkip, CompactPopFirst, CompactPopSecond, CompactMerge, PopTable, controlVars
<1>9. CASE CompactCloses \/ CompactUnlink
  BY <1>9, CompactClosesEffect, CompactUnlinkEffect DEF CompactorShape
<1>7. CASE CompactionDies
  BY <1>1, <1>7, CompactionDiesEffect
<1>8. CASE CloseBegin \/ CloseFlush \/ CloseWake \/ CloseHandle
  BY <1>8 DEF CloseBegin, CloseFlush, CloseWake, CloseHandle, tableVars, closeUnchanged
<1> QED
  BY <1>2, <1>3, <1>4, <1>5, <1>6, <1>7, <1>8, <1>9, StepCases

LEMMA KeysInFacts ==
  /\ KeysIn({}) = {}
  /\ \A t : KeysIn({t}) = DOMAIN t.image
  /\ \A S, T : KeysIn(S \cup T) = KeysIn(S) \cup KeysIn(T)
BY DEF KeysIn

LEMMA TablesKeepKeys ==
  ASSUME Shape, ImmOwnedByFlush, FromHistory, MergedListed, [Next]_vars, ~ Restart,
         compactor'.pc # "dead"
  PROVE  KeysIn(Held) \subseteq KeysIn(Held')
<1> USE KeysInFacts DEF Held
<1>1. CASE HeldStays \/ Closes \/ ClosesOld
  BY <1>1 DEF HeldStays, Closes, ClosesOld
<1>2. ASSUME NEW t, Writes(t) \/ Lists(t) \/ Takes(t) \/ Merges(t)
      PROVE  KeysIn(Held) \subseteq KeysIn(Held')
  BY <1>2 DEF Writes, Lists, Takes, Merges
<1>3. CASE Unlinks
  <2>1. KeysIn(Old) \subseteq KeysIn(Listed)
    BY <1>3 DEF Unlinks, MergedListed, Covers, KeysIn
  <2>2. KeysIn(Held) \subseteq KeysIn(Listed \cup Out)
    BY <2>1
  <2>3. Listed \cup Out \subseteq Held'
    BY <1>3 DEF Unlinks
  <2> QED
    BY <2>2, <2>3 DEF KeysIn
<1> QED
  BY <1>1, <1>2, <1>3, HeldCases DEF Loses

LEMMA NoKeyLostStep ==
  ASSUME Shape, ImmOwnedByFlush, FromHistory, FlushStages, MergedListed, NoKeyLost, [Next]_vars
  PROVE  NoKeyLost'
<1> USE NoMemIsNone
<1>1. CASE Restart
  BY <1>1, RestartEffect DEF NoKeyLost
<1>2. CASE ~ Restart /\ failures' = 0 /\ compactor'.pc # "dead"
  <2>1. failures = 0 /\ compactor.pc # "dead"
    BY <1>2, TroubleStays
  <2>2. /\ TableKeys(tables) = KeysIn(Listed) /\ TableKeys(flusher.out) = KeysIn(Out)
        /\ TableKeys(compactor.old) = KeysIn(Old)
    BY KeysAndNames DEF KeysIn, Listed, Out, Old
  <2>3. KeysIn(Held) = KeysIn(Listed) \cup KeysIn(Out) \cup KeysIn(Old)
    BY DEF KeysIn, Held
  <2>4. \A e \in history : e.key \in MemKeys \cup KeysIn(Held)
    BY <2>1, <2>2, <2>3 DEF NoKeyLost, MemKeys
  <2>5. KeysIn(Held) \subseteq KeysIn(Held')
    BY <1>2, TablesKeepKeys
  <2>6. ASSUME NEW m \in Memory, Flushing(m)
        PROVE  MemKeys' = KeysOf(m.list) /\ MemKeys = KeysOf(mem.list)
    <3>1. KeysOf(FreshMem.list) = {}
      BY DEF KeysOf
    <3> QED
      BY <2>6, <3>1 DEF Flushing, MemKeys, ImmKeys
  <2>7. ASSUME NEW m, Keeping(m)
        PROVE  MemKeys' = KeysOf(m.list) \cup ImmKeys
    BY <2>7 DEF Keeping, MemKeys, ImmKeys
  <2>8. \A e \in history' : e.key \in MemKeys' \cup KeysIn(Held')
    <3>1. CASE FlushAlone
      <4>1. UNCHANGED << mem, imm, history >>
        BY <3>1, FlushFrame
      <4> QED
        BY <4>1, <2>4, <2>5 DEF MemKeys, ImmKeys
    <3>2. CASE \E k \in Keys, v \in Values : PutEntry(k, v)
      <4>1. PICK e, m : Entered(m, e) /\ history' = history \cup {e} /\ (Keeping(m) \/ Flushing(m))
        BY <3>2, PutEffect DEF Shape
      <4>2. KeysOf(m.list) = KeysOf(mem.list) \cup {e.key}
        BY <4>1 DEF Entered
      <4>3. MemKeys \cup {e.key} \subseteq MemKeys'
        BY <4>1, <4>2, <2>6, <2>7 DEF MemKeys, Entered
      <4> QED
        BY <4>1, <4>3, <2>4, <2>5
    <3>3. CASE FlushWrite
      <4>1. UNCHANGED << mem, imm, history >>
        BY <3>3, FlushWriteEffect
      <4> QED
        BY <4>1, <2>4, <2>5 DEF MemKeys, ImmKeys
    <3>4. CASE FlushReset
      <4>1. UNCHANGED << mem, history >> /\ ImmKeys \subseteq KeysIn(Out)
        BY <3>4, <2>2, FlushResetEffect DEF FlushStages
      <4>2. MemKeys \subseteq MemKeys' \cup KeysIn(Held)
        BY <4>1, <2>3 DEF MemKeys
      <4> QED
        BY <4>1, <4>2, <2>4, <2>5
    <3>5. CASE FlushPublish
      <4>1. UNCHANGED << mem, history >> /\ imm = FreshMem
        BY <3>5, FlushPublishEffect DEF FlushStages
      <4>2. ImmKeys = {}
        BY <4>1 DEF ImmKeys, KeysOf
      <4> QED
        BY <4>1, <4>2, <2>4, <2>5 DEF MemKeys
    <3>6. CASE FlushFail
      <4>1. UNCHANGED << mem, imm, history >>
        BY <3>6, FlushFailEffect
      <4> QED
        BY <4>1, <2>4, <2>5 DEF MemKeys, ImmKeys
    <3>7. CASE FlushGiveUp
      BY <3>7, <2>1, FlushGiveUpEffect DEF FlushStages
    <3>8. CASE CloseFlush
      <4>1. UNCHANGED history /\ (Keeping(mem) \/ Flushing(mem))
        BY <3>8, CloseFlushEffect
      <4>2. MemKeys \subseteq MemKeys'
        BY <4>1, <2>6, <2>7 DEF MemKeys, Shape, MemShape
      <4> QED
        BY <4>1, <4>2, <2>4, <2>5
    <3> QED
      BY <1>2, <3>1, <3>2, <3>3, <3>4, <3>5, <3>6, <3>7, <3>8, FlushCases
  <2>9. /\ TableKeys(tables') = KeysIn(Listed') /\ TableKeys(flusher'.out) = KeysIn(Out')
        /\ TableKeys(compactor'.old) = KeysIn(Old')
    BY KeysAndNames DEF KeysIn, Listed, Out, Old
  <2>10. KeysIn(Held') = KeysIn(Listed') \cup KeysIn(Out') \cup KeysIn(Old')
    BY DEF KeysIn, Held
  <2> QED
    BY <2>8, <2>9, <2>10 DEF NoKeyLost, MemKeys
<1> QED
  BY <1>1, <1>2 DEF NoKeyLost

----------------------------------------------------------------------------
(* What is held was put. *)

LEMMA HistoryGrows ==
  ASSUME Shape, ImmOwnedByFlush, FromHistory, [Next]_vars, ~ Restart
  PROVE  /\ history \subseteq history'
         /\ \A e \in history' : ~ e.deleted /\ e.ts <= clock'
         /\ \A image : OfHistory(image) => OfHistory(image)'
<1>1. /\ clock \in Nat /\ history \subseteq Entry /\ MemShape
      /\ \A e \in Entry : e.ts \in Nat
  BY DEF Shape, MemShape, Entry
<1>2. history \subseteq history' /\ \A e \in history' : ~ e.deleted /\ e.ts <= clock'
  <2>1. CASE \E k \in Keys, v \in Values : PutEntry(k, v)
    <3>1. PICK k \in Keys, v \in Values : PutEntry(k, v)
      BY <2>1
    <3>2. PICK e : NewEntry(e, k) /\ history' = history \cup {e}
      BY <3>1, <1>1, PutEffect
    <3>3. clock' = clock + 1
      BY <3>1, <1>1, PutEffect
    <3> QED
      BY <3>2, <3>3, <1>1 DEF NewEntry, FromHistory
  <2>2. CASE ~ \E k \in Keys, v \in Values : PutEntry(k, v)
    <3>1. UNCHANGED << history, clock >>
      <4>1. FlushAlone => UNCHANGED << history, clock >>
        BY FlushFrame
      <4>2. FlushWrite \/ FlushReset \/ FlushPublish => UNCHANGED << history, clock >>
        BY FlushWriteEffect, FlushResetEffect, FlushPublishEffect
      <4>3. FlushFail \/ FlushGiveUp \/ CloseFlush => UNCHANGED << history, clock >>
        BY FlushFailEffect, FlushGiveUpEffect, CloseFlushEffect
      <4> QED
        BY <2>2, <4>1, <4>2, <4>3, FlushCases
    <3> QED
      BY <3>1 DEF FromHistory
  <2> QED
    BY <2>1, <2>2
<1> QED
  BY <1>2 DEF OfHistory

LEMMA FromHistoryStep ==
  ASSUME Shape, ImmOwnedByFlush, FromHistory, [Next]_vars
  PROVE  FromHistory'
<1> USE NoMemIsNone
<1>1. CASE Restart
  <2>1. /\ tables' = << >> /\ flusher'.out = << >> /\ compactor'.old = << >>
        /\ history' = {} /\ imm' = NoMem /\ mem' = FreshMem
    BY <1>1, RestartEffect DEF NoFlush
  <2>2. Held' = {}
    BY <2>1, HeldFrame, OfEmpty DEF Listed, Held
  <2> QED
    BY <2>1, <2>2, OfEmpty DEF FromHistory
<1>2. CASE ~ Restart
  <2>1. /\ history \subseteq history'
        /\ \A e \in history' : ~ e.deleted /\ e.ts <= clock'
        /\ \A image : OfHistory(image) => OfHistory(image)'
    BY <1>2, HistoryGrows
  <2>2. \A t \in Held' : OfHistory(t.image)'
    <3>1. CASE HeldStays \/ Closes \/ ClosesOld \/ Loses \/ Unlinks
      BY <2>1, <3>1 DEF HeldStays, Closes, ClosesOld, Loses, Unlinks, Held, FromHistory
    <3>2. ASSUME NEW t, Writes(t) \/ Lists(t) \/ Takes(t) \/ Merges(t)
          PROVE  \A u \in Held' : OfHistory(u.image)'
      <4>1. Held' \subseteq Held \cup {t} /\ (t \in Held \/ OfHistory(t.image))
        BY <3>2 DEF Writes, Lists, Takes, Merges, Held
      <4> QED
        BY <2>1, <4>1 DEF FromHistory
    <3> QED
      BY <1>2, <3>1, <3>2, HeldCases
  <2>3. ASSUME NEW m \in Memory, ToSet(m.list) \subseteq history', Flushing(m) \/ Keeping(m)
        PROVE  ToSet(mem'.list) \subseteq history' /\ (imm' # NoMem => ToSet(imm'.list) \subseteq history')
    BY <2>1, <2>3, OfEmpty DEF Flushing, Keeping, FromHistory
  <2>4. UNCHANGED mem /\ (imm' = imm \/ imm' = FreshMem \/ imm' = NoMem) =>
        ToSet(mem'.list) \subseteq history' /\ (imm' # NoMem => ToSet(imm'.list) \subseteq history')
    BY <2>1, OfEmpty DEF FromHistory
  <2>5. ToSet(mem'.list) \subseteq history' /\ (imm' # NoMem => ToSet(imm'.list) \subseteq history')
    <3>1. CASE FlushAlone
      BY <3>1, <2>4, FlushFrame
    <3>2. CASE \E k \in Keys, v \in Values : PutEntry(k, v)
      <4>1. PICK e, m : Entered(m, e) /\ history' = history \cup {e} /\ (Keeping(m) \/ Flushing(m))
        BY <3>2, PutEffect DEF Shape
      <4>2. m \in Memory /\ ToSet(m.list) \subseteq history'
        BY <4>1 DEF Entered, FromHistory
      <4> QED
        BY <4>1, <4>2, <2>3
    <3>3. CASE FlushWrite \/ FlushReset
      BY <3>3, <2>4, FlushWriteEffect, FlushResetEffect
    <3>4. CASE FlushPublish \/ FlushFail \/ FlushGiveUp
      BY <3>4, <2>4, FlushPublishEffect, FlushFailEffect, FlushGiveUpEffect
    <3>5. CASE CloseFlush
      <4>1. (Keeping(mem) \/ Flushing(mem)) /\ mem \in Memory /\ ToSet(mem.list) \subseteq history'
        BY <3>5, <2>1, CloseFlushEffect DEF Shape, MemShape, FromHistory
      <4> QED
        BY <4>1, <2>3
    <3> QED
      BY <1>2, <3>1, <3>2, <3>3, <3>4, <3>5, FlushCases
  <2> QED
    BY <2>1, <2>2, <2>5 DEF FromHistory
<1> QED
  BY <1>1, <1>2

----------------------------------------------------------------------------
(* The order of time. *)

LEMMA TimesFacts ==
  /\ \A list : ListTimes(list) = {f.ts : f \in ToSet(list)}
  /\ ListTimes(<< >>) = {}
  /\ \A S : Earlier(S, {}) /\ Earlier({}, S)
  /\ \A S, T, U : Earlier(S, T \cup U) <=> Earlier(S, T) /\ Earlier(S, U)
  /\ \A S, T, U : Earlier(S \cup T, U) <=> Earlier(S, U) /\ Earlier(T, U)
  /\ \A S, T, U : Earlier(S, T) /\ U \subseteq T => Earlier(S, U)
  /\ \A S, T, U : Earlier(S, T) /\ U \subseteq S => Earlier(U, T)
<1>1. \A list : ListTimes(list) = {f.ts : f \in ToSet(list)}
  BY DEF ListTimes, ToSet
<1>2. ListTimes(<< >>) = {}
  BY <1>1, OfEmpty
<1> QED
  BY <1>1, <1>2 DEF Earlier

\* Everything held is older than an entry that is put.
LEMMA AllEarlier ==
  ASSUME Shape, FromHistory, NEW e, e.ts = clock + 1
  PROVE  /\ \A t \in Held : Earlier(Times(t.image), {e.ts})
         /\ Earlier(OutTimes, {e.ts}) /\ Earlier(ImmTimes, {e.ts})
         /\ Earlier(ListTimes(mem.list), {e.ts})
         /\ \A f \in ToSet(mem.list) : f.ts < e.ts
<1>1. \A f \in history : f.ts < e.ts
  <2>1. clock \in Nat /\ \A f \in history : f.ts \in Nat /\ f.ts <= clock
    BY DEF FromHistory, Shape, MemShape, Entry
  <2> QED
    BY <2>1
<1>2. \A t \in Held : Earlier(Times(t.image), {e.ts})
  BY <1>1 DEF FromHistory, OfHistory, Times, Earlier
<1>3. Earlier(OutTimes, {e.ts})
  BY <1>2 DEF OutTimes, Held, Earlier
<1>4. Earlier(ListTimes(mem.list), {e.ts}) /\ \A f \in ToSet(mem.list) : f.ts < e.ts
  BY <1>1, TimesFacts DEF FromHistory, Earlier
<1>5. Earlier(ImmTimes, {e.ts})
  BY <1>1, TimesFacts DEF FromHistory, Earlier, ImmTimes
<1> QED
  BY <1>2, <1>3, <1>4, <1>5

\* While no entry is put and none is flushed, tables only go in front or come
\* merged.
TablesMove ==
  \/ UNCHANGED tables
  \/ tables # << >> /\ tables' = Tail(tables)
  \/ \E t \in Table : t.merged /\ tables' = Append(tables, t)

Flushed == OutTimes \cup ImmTimes

LEMMA OrderKept ==
  ASSUME Shape, Order, UNCHANGED mem, TablesMove, Flushed' \subseteq Flushed
  PROVE  Order'
<1>1. tables \in Seq(Table)
  BY DEF Shape, TableShape
<1>2. /\ TablesInOrder(tables)
      /\ \A a \in Listed : ~ a.merged => Earlier(Times(a.image), Flushed \cup ListTimes(mem.list))
      /\ Earlier(Flushed, ListTimes(mem.list))
      /\ SortedTail(mem.list)
  BY DEF Order, Flushed
<1>3. TablesInOrder(tables') /\ \A a \in Listed' : ~ a.merged => a \in Listed
  <2>1. CASE UNCHANGED tables
    BY <2>1, <1>2, HeldFrame DEF TablesInOrder
  <2>2. CASE tables # << >> /\ tables' = Tail(tables)
    BY <2>2, <1>1, <1>2, TablesInOrderTail, OfTail DEF Listed
  <2>3. ASSUME NEW t \in Table, t.merged, tables' = Append(tables, t)
        PROVE  TablesInOrder(tables') /\ \A a \in Listed' : ~ a.merged => a \in Listed
    BY <2>3, <1>1, <1>2, TablesInOrderAppend, OfAppend DEF Listed
  <2> QED
    BY <2>1, <2>2, <2>3 DEF TablesMove
<1>4. Earlier(Flushed', ListTimes(mem'.list))
  BY <1>2 DEF Earlier
<1>5. ASSUME NEW a \in Listed', ~ a.merged
      PROVE  Earlier(Times(a.image), Flushed' \cup ListTimes(mem'.list))
  <2>1. Earlier(Times(a.image), Flushed \cup ListTimes(mem.list))
    BY <1>2, <1>3, <1>5
  <2> QED
    BY <2>1 DEF Earlier
<1> QED
  BY <1>2, <1>3, <1>4, <1>5 DEF Order, Flushed, TablesInOrder, Earlier

\* A memtable with what was in it, and perhaps a newer entry, is kept, or its
\* flush starts.
LEMMA OrderOnPut ==
  ASSUME Shape, ImmOwnedByFlush, Order, UNCHANGED tables, NEW m \in Memory, NEW S,
         ListTimes(m.list) = ListTimes(mem.list) \cup S,
         \A a \in Listed : Earlier(Times(a.image), S),
         Earlier(Flushed, S),
         SortedTail(m.list),
         Keeping(m) \/ Flushing(m)
  PROVE  Order'
<1>1. /\ TablesInOrder(tables)
      /\ \A a \in Listed : ~ a.merged => Earlier(Times(a.image), Flushed \cup ListTimes(mem.list))
      /\ Earlier(Flushed, ListTimes(mem.list))
  BY DEF Order, Flushed
<1>2. Listed' = Listed /\ TablesInOrder(tables')
  BY <1>1, HeldFrame DEF TablesInOrder
<1>3. ImmTimes' = (IF imm' = NoMem THEN {} ELSE ListTimes(imm'.list))
      /\ OutTimes' = UNION {Times(t.image) : t \in Out'}
  BY DEF ImmTimes, OutTimes, ListTimes, Times
<1>4. Flushed' \cup ListTimes(mem'.list) \subseteq Flushed \cup ListTimes(mem.list) \cup S
      /\ Earlier(Flushed', ListTimes(mem'.list))
      /\ SortedTail(mem'.list)
  <2>1. CASE Keeping(m)
    <3>1. mem' = m /\ UNCHANGED << imm, flusher >>
      BY <2>1 DEF Keeping
    <3>2. Flushed' = Flushed
      BY <3>1, <1>3, HeldFrame DEF Flushed, OutTimes, ImmTimes
    <3> QED
      BY <3>1, <3>2, <1>1 DEF Earlier
  <2>2. CASE Flushing(m)
    <3>1. mem' = FreshMem /\ imm' = m /\ Out' = {}
      BY <2>2, HeldFrame DEF Flushing
    <3>2. Flushed' = ListTimes(m.list)
      BY <3>1, <1>3, NoMemIsNone DEF Flushed
    <3>3. ListTimes(mem'.list) = {}
      BY <3>1, NoMemIsNone, TimesFacts
    <3> QED
      BY <3>1, <3>2, <3>3, FreshListSorted, NoMemIsNone DEF Earlier
  <2> QED
    BY <2>1, <2>2
<1>5. ASSUME NEW a \in Listed', ~ a.merged
      PROVE  Earlier(Times(a.image), Flushed' \cup ListTimes(mem'.list))
  <2>1. Earlier(Times(a.image), Flushed \cup ListTimes(mem.list) \cup S)
    BY <1>1, <1>2, <1>5 DEF Earlier
  <2> QED
    BY <1>4, <2>1 DEF Earlier
<1> QED
  BY <1>2, <1>4, <1>5 DEF Order, Flushed, TablesInOrder, Earlier

LEMMA OrderStep ==
  ASSUME Shape, ImmOwnedByFlush, FromHistory, FlushStages, Order, [Next]_vars
  PROVE  Order'
<1> USE NoMemIsNone
<1>0. tables \in Seq(Table) /\ mem \in Memory /\ MemShape
  BY DEF Shape, TableShape, MemShape
<1>1. CASE Restart
  <2>1. tables' = << >> /\ mem' = FreshMem /\ flusher'.out = << >> /\ imm' = NoMem
    BY <1>1, RestartEffect DEF NoFlush
  <2>2. Listed' = {} /\ ListTimes(mem'.list) = {} /\ SortedTail(mem'.list)
    BY <2>1, OfEmpty, TimesFacts, FreshListSorted DEF Listed
  <2>3. TablesInOrder(tables')
    BY <2>1 DEF TablesInOrder
  <2> QED
    BY <2>2, <2>3 DEF Order, TablesInOrder, Earlier
<1>2. CASE FlushAlone /\ ~ Restart
  <2>1. UNCHANGED << mem, imm, flusher >>
    BY <1>2, FlushFrame
  <2>2. Flushed' = Flushed
    BY <2>1, HeldFrame DEF Flushed, OutTimes, ImmTimes
  <2>3. TablesMove
    <3>1. Out' = Out
      BY <2>1, HeldFrame
    <3>2. CASE HeldStays \/ Loses \/ ClosesOld \/ Unlinks \/ Closes
      BY <3>2 DEF TablesMove, HeldStays, Loses, ClosesOld, Unlinks, Closes
    <3>3. ASSUME NEW t, Writes(t) \/ Lists(t) \/ Takes(t) \/ Merges(t)
          PROVE  TablesMove
      BY <3>1, <3>3 DEF TablesMove, Writes, Lists, Takes, Merges, Appears
    <3> QED
      BY <1>2, <3>2, <3>3, HeldCases
  <2> QED
    BY <2>1, <2>2, <2>3, OrderKept
<1>3. CASE \E k \in Keys, v \in Values : PutEntry(k, v)
  <2>1. PICK k \in Keys, v \in Values : PutEntry(k, v)
    BY <1>3
  <2>2. PICK e, m : NewEntry(e, k) /\ Entered(m, e) /\ (Keeping(m) \/ Flushing(m))
    BY <2>1, <1>0, PutEffect
  <2>3. UNCHANGED tables
    BY <2>1, <1>0, PutEffect
  <2>4. /\ \A t \in Held : Earlier(Times(t.image), {e.ts})
        /\ Earlier(OutTimes, {e.ts}) /\ Earlier(ImmTimes, {e.ts})
        /\ \A f \in ToSet(mem.list) : f.ts < e.ts
    BY <2>2, AllEarlier DEF NewEntry
  <2>5. m \in Memory /\ SortedTail(m.list)
    BY <2>2, <2>4 DEF Entered, Order
  <2>6. ListTimes(m.list) = ListTimes(mem.list) \cup {e.ts}
    BY <2>2, TimesFacts DEF Entered
  <2>7. Earlier(Flushed, {e.ts})
    BY <2>4 DEF Flushed, Earlier
  <2>8. \A a \in Listed : Earlier(Times(a.image), {e.ts})
    BY <2>4 DEF Held
  <2> QED
    BY <2>2, <2>3, <2>5, <2>6, <2>7, <2>8, OrderOnPut
<1>4. CASE CloseFlush
  <2>1. UNCHANGED tables /\ (Keeping(mem) \/ Flushing(mem))
    BY <1>4, CloseFlushEffect
  <2>2. ListTimes(mem.list) = ListTimes(mem.list) \cup {}
    OBVIOUS
  <2>3. SortedTail(mem.list)
    BY DEF Order
  <2> QED
    BY <2>1, <2>2, <2>3, <1>0, OrderOnPut DEF Earlier
<1>5. CASE FlushWrite
  <2>1. UNCHANGED << mem, imm, tables >> /\ \E t : Out' = {t} /\ Times(t.image) \subseteq ImmTimes
    BY <1>5, FlushWriteMoves DEF Writes
  <2>2. Flushed' \subseteq Flushed
    BY <2>1 DEF Flushed, OutTimes, ImmTimes
  <2> QED
    BY <2>1, <2>2, OrderKept DEF TablesMove
<1>6. CASE FlushReset \/ FlushGiveUp
  <2>1. UNCHANGED << mem, tables >> /\ imm' \in {NoMem, FreshMem}
        /\ flusher'.out \in {flusher.out, << >>}
    BY <1>6, FlushResetEffect, FlushGiveUpEffect DEF NoFlush, Shape, FlusherShape
  <2>2. Out' \subseteq Out
    BY <2>1, OfEmpty DEF Out
  <2>3. ImmTimes' = {}
    BY <2>1, TimesFacts DEF ImmTimes, ListTimes
  <2>4. Flushed' \subseteq Flushed
    BY <2>2, <2>3 DEF Flushed, OutTimes
  <2> QED
    BY <2>1, <2>4, OrderKept DEF TablesMove
<1>7. CASE FlushFail
  <2>1. UNCHANGED << mem, imm, tables >> /\ flusher'.out = flusher.out
    BY <1>7, FlushFailEffect DEF Shape, FlusherShape
  <2>2. Flushed' = Flushed
    BY <2>1 DEF Flushed, OutTimes, ImmTimes, Out
  <2> QED
    BY <2>1, <2>2, OrderKept DEF TablesMove
<1>8. CASE FlushPublish
  <2>1. PICK t \in Table : Out = {t} /\ tables' = Append(tables, t)
    BY <1>8, FlushPublishEffect
  <2>2. UNCHANGED mem /\ imm' = NoMem /\ flusher'.out = << >>
    BY <1>8, FlushPublishEffect DEF NoFlush
  <2>3. Listed' = Listed \cup {t}
    BY <1>0, <2>1, OfAppend DEF Listed
  <2>4. Flushed' = {}
    BY <2>2, HeldFrame DEF Flushed, OutTimes, ImmTimes
  <2>5. Times(t.image) \subseteq OutTimes
    BY <2>1 DEF OutTimes
  <2>6. /\ TablesInOrder(tables)
        /\ \A a \in Listed : ~ a.merged =>
             Earlier(Times(a.image), OutTimes \cup ImmTimes \cup ListTimes(mem.list))
        /\ Earlier(OutTimes \cup ImmTimes, ListTimes(mem.list))
        /\ SortedTail(mem.list)
    BY DEF Order
  <2>7. \A a \in Listed : ~ a.merged => Earlier(Times(a.image), Times(t.image))
    BY <2>5, <2>6 DEF Earlier
  <2>8. TablesInOrder(tables')
    BY <1>0, <2>1, <2>6, <2>7, TablesInOrderAppend DEF Listed
  <2>9. \A a \in Listed' : ~ a.merged => Earlier(Times(a.image), ListTimes(mem.list))
    BY <2>3, <2>5, <2>6 DEF Earlier
  <2> QED
    BY <2>2, <2>4, <2>6, <2>8, <2>9 DEF Order, Flushed, TablesInOrder, Earlier
<1> QED
  BY <1>1, <1>2, <1>3, <1>4, <1>5, <1>6, <1>7, <1>8, FlushCases

----------------------------------------------------------------------------
(* Readers. *)

ReaderFine(x) ==
  /\ x.pc # "idle" => x.key \in Keys
  /\ x.pc = "read" => Len(x.at) = 1 /\ OfHistory(x.at[1].image)
  /\ x.res.kind = "value" => x.res.entry \in history /\ x.res.entry.key = x.key

LEMMA ReadersFine ==
  ReadersOK /\ ReadsOnlyWritten <=>
    reader \in [Readers -> Reading] /\ \A r \in Readers : ReaderFine(reader[r])
BY DEF ReadersOK, ReadsOnlyWritten, ReaderFine

LEMMA AnswerKinds ==
  /\ NoResult \in Answers /\ NoResult.kind # "value"
  /\ Raised \in Answers /\ Raised.kind # "value"
  /\ \A e \in Entry : Value(e) \in Answers /\ Value(e).kind = "value" /\ Value(e).entry = e
BY DEF NoResult, Raised, Value, Answers

LEMMA IdleReadFacts == IdleRead \in Reading /\ IdleRead.pc = "idle" /\ IdleRead.res.kind # "value"
<1>1. << >> \in Seq(Table)
  BY EmptySeq
<1> QED
  BY <1>1, AnswerKinds DEF IdleRead, Reading, NoKey

\* A reader that has returned, with nothing, an error or a value.
LEMMA ReturnFine ==
  ASSUME NEW k \in Keys \cup {NoKey}, NEW x \in Answers,
         x.kind = "value" => x.entry \in history /\ x.entry.key = k
  PROVE  /\ [IdleRead EXCEPT !.key = k, !.res = x] \in Reading
         /\ ReaderFine([IdleRead EXCEPT !.key = k, !.res = x])
<1> DEFINE y == [IdleRead EXCEPT !.key = k, !.res = x]
<1>1. IdleRead \in Reading /\ IdleRead.pc = "idle"
  BY IdleReadFacts
<1>2. y \in Reading /\ y.pc = "idle" /\ y.key = k /\ y.res = x
  BY <1>1 DEF Reading
<1> QED
  BY <1>2 DEF ReaderFine

LEMMA ReadFine ==
  ASSUME Shape, FromHistory, ReadersOK, ReadsOnlyWritten,
         NEW r \in Readers, ReadStep(r) \/ \E k \in Keys : GetMem(r, k)
  PROVE  \E x \in Reading : ReaderFine(x) /\ reader' = [reader EXCEPT ![r] = x]
<1> DEFINE old == reader[r]
<1>0. /\ reader \in [Readers -> Reading] /\ old \in Reading /\ ReaderFine(old)
      /\ mem.list \in Seq(Entry) /\ tables \in Seq(Table)
      /\ imm # NoMem => imm.list \in Seq(Entry)
      /\ history \subseteq Entry
  BY ReadersFine DEF Shape, MemShape, TableShape, Memory
<1>1. ASSUME NEW list \in Seq(Entry), ToSet(list) \subseteq history, NEW k \in Keys, Found(list, k)
      PROVE  /\ Value(Lookup(list, k)) \in Answers
             /\ Value(Lookup(list, k)).entry \in history
             /\ Value(Lookup(list, k)).entry.key = k
  <2>1. Lookup(list, k) \in ToSet(list) /\ Lookup(list, k).key = k
    BY <1>1, LookupFacts
  <2> QED
    BY <1>0, <1>1, <2>1, AnswerKinds
<1>2. ASSUME NEW y \in Answers, y.kind = "value" => y.entry \in history /\ y.entry.key = old.key,
             Return(r, y)
      PROVE  \E x \in Reading : ReaderFine(x) /\ reader' = [reader EXCEPT ![r] = x]
  <2>1. old.key \in Keys \cup {NoKey}
    BY <1>0 DEF Reading
  <2> QED
    BY <1>2, <2>1, ReturnFine DEF Return
<1>3. ASSUME NEW pc \in {"scan", "imm"}, old.pc # "idle", GoTo(r, pc)
      PROVE  \E x \in Reading : ReaderFine(x) /\ reader' = [reader EXCEPT ![r] = x]
  <2>1. [old EXCEPT !.pc = pc] \in Reading /\ ReaderFine([old EXCEPT !.pc = pc])
    BY <1>0, <1>3 DEF Reading, ReaderFine
  <2> QED
    BY <1>3, <2>1 DEF GoTo
<1>4. ASSUME NEW k \in Keys, GetMem(r, k)
      PROVE  \E x \in Reading : ReaderFine(x) /\ reader' = [reader EXCEPT ![r] = x]
  <2>1. CASE MemHas(mem, k)
    <3>1. Found(mem.list, k) /\ ToSet(mem.list) \subseteq history
      BY <2>1 DEF MemHas, FromHistory
    <3>2. reader' = [reader EXCEPT ![r] = [IdleRead EXCEPT !.key = k, !.res = Value(Lookup(mem.list, k))]]
      BY <1>4, <2>1 DEF GetMem
    <3> QED
      BY <1>0, <1>1, <3>1, <3>2, ReturnFine
  <2>2. CASE ~ MemHas(mem, k)
    <3> DEFINE x == [IdleRead EXCEPT !.key = k, !.pc = "check"]
    <3>1. reader' = [reader EXCEPT ![r] = x]
      BY <1>4, <2>2 DEF GetMem
    <3>2. x \in Reading /\ x.pc = "check" /\ x.key = k /\ x.res = IdleRead.res
      BY IdleReadFacts DEF Reading
    <3>3. ReaderFine(x)
      BY <3>2, IdleReadFacts DEF ReaderFine
    <3> QED
      BY <3>1, <3>2, <3>3
  <2> QED
    BY <2>1, <2>2
<1>5. CASE CheckImm(r)
  BY <1>3, <1>5 DEF CheckImm
<1>6. CASE GetImm(r)
  <2>1. old.key \in Keys /\ old.pc = "imm"
    BY <1>0, <1>6 DEF GetImm, ReaderFine
  <2>2. CASE imm = NoMem /\ Return(r, Raised)
    BY <1>2, <2>2, AnswerKinds
  <2>3. CASE imm # NoMem /\ MemHas(imm, old.key) /\ Return(r, Value(Lookup(imm.list, old.key)))
    <3>1. Found(imm.list, old.key) /\ ToSet(imm.list) \subseteq history
      BY <2>3 DEF MemHas, FromHistory
    <3> QED
      BY <1>0, <1>1, <1>2, <2>1, <2>3, <3>1
  <2>4. CASE imm # NoMem /\ ~ MemHas(imm, old.key) /\ GoTo(r, "scan")
    BY <1>3, <2>1, <2>4
  <2> QED
    BY <1>6, <2>2, <2>3, <2>4 DEF GetImm
<1>7. CASE StartScan(r)
  <2> DEFINE x == [old EXCEPT !.pc = "next", !.idx = Len(tables)]
  <2>1. Len(tables) \in Int /\ old.pc = "scan"
    BY <1>0, <1>7, InSequence DEF StartScan
  <2>2. x \in Reading /\ ReaderFine(x)
    BY <1>0, <2>1 DEF Reading, ReaderFine
  <2>3. reader' = [reader EXCEPT ![r] = x]
    BY <1>0, <1>7 DEF StartScan
  <2> QED
    BY <2>2, <2>3
<1>8. CASE NextTable(r)
  <2>1. old.pc = "next"
    BY <1>8 DEF NextTable
  <2>2. CASE old.idx \in DOMAIN tables
    <3> DEFINE t == tables[old.idx]
               n == old.idx - 1
               x == [old EXCEPT !.pc = "read", !.idx = n, !.at = << t >>]
    <3>1. reader' = [reader EXCEPT ![r] = x]
      BY <1>0, <1>8, <2>2 DEF NextTable
    <3>2. t \in Listed /\ t \in Table
      BY <1>0, <2>2, HeldFacts DEF Listed, ToSet
    <3>3. OfHistory(t.image)
      BY <3>2 DEF FromHistory, Held
    <3>4. << t >> \in Seq(Table) /\ Len(<< t >>) = 1 /\ << t >>[1] = t
      BY <3>2
    <3>n. n \in Int
      BY <1>0 DEF Reading
    <3> HIDE DEF t, n
    <3>5. x \in Reading
      BY <1>0, <3>4, <3>n DEF Reading
    <3>6. x.pc = "read" /\ x.key = old.key /\ x.at = << t >> /\ x.res = old.res
      BY <1>0 DEF Reading
    <3>7. ReaderFine(x)
      BY <1>0, <2>1, <3>3, <3>4, <3>6 DEF ReaderFine
    <3> QED
      BY <3>1, <3>5, <3>7
  <2>3. CASE old.idx \notin DOMAIN tables
    <3>1. Return(r, NoResult)
      BY <1>8, <2>3 DEF NextTable
    <3> QED
      BY <1>2, <3>1, AnswerKinds
  <2> QED
    BY <2>2, <2>3
<1>9. CASE ReadTable(r)
  <2> DEFINE t == old.at[1]
             k == old.key
  <2>1. old.pc = "read" /\ k \in Keys /\ OfHistory(t.image)
    BY <1>0, <1>9 DEF ReadTable, ReaderFine
  <2>2. CASE Return(r, Raised)
    BY <1>2, <2>2, AnswerKinds
  <2>3. CASE ImageHas(t.image, k) /\ Return(r, Value(t.image[k]))
    <3>1. t.image[k] \in history /\ t.image[k].key = k
      BY <2>1, <2>3 DEF ImageHas, OfHistory
    <3> QED
      BY <1>0, <1>2, <2>3, <3>1, AnswerKinds
  <2>4. CASE reader' = [reader EXCEPT ![r].pc = "next", ![r].at = << >>]
    <3> DEFINE x == [old EXCEPT !.pc = "next", !.at = << >>]
    <3>1. reader' = [reader EXCEPT ![r] = x]
      BY <1>0, <2>4
    <3>2. << >> \in Seq(Table)
      BY EmptySeq
    <3>3. x \in Reading /\ ReaderFine(x)
      BY <1>0, <2>1, <3>2 DEF Reading, ReaderFine
    <3> QED
      BY <3>1, <3>3
  <2> QED
    BY <1>9, <2>2, <2>3, <2>4 DEF ReadTable
<1> QED
  BY <1>4, <1>5, <1>6, <1>7, <1>8, <1>9 DEF ReadStep

LEMMA OthersDoNotRead ==
  ASSUME Shape, ImmOwnedByFlush, FromHistory, [Next]_vars, ~ Restart, ~ ReaderMoves
  PROVE  UNCHANGED reader
<1>1. UNCHANGED vars => UNCHANGED reader
  BY DEF vars
<1>2. (\E k \in Keys, v \in Values : PutEntry(k, v)) => UNCHANGED reader
  BY PutEffect DEF Shape
<1>3. FlushWrite \/ FlushReset \/ FlushPublish \/ FlushFail \/ FlushGiveUp => UNCHANGED reader
  BY DEF FlushWrite, FlushReset, FlushPublish, FlushFail, FlushGiveUp
<1>4. CompactSkip \/ CompactPopFirst \/ CompactPopSecond \/ CompactMerge => UNCHANGED reader
  BY DEF CompactSkip, CompactPopFirst, CompactPopSecond, CompactMerge, PopTable
<1>5. CompactionDies \/ CompactCloses \/ CompactUnlink => UNCHANGED reader
  BY CompactionDiesEffect, CompactClosesEffect, CompactUnlinkEffect
<1>6. CloseBegin \/ CloseFlush \/ CloseWake \/ CloseHandle => UNCHANGED reader
  BY DEF CloseBegin, CloseFlush, CloseWake, CloseHandle, closeUnchanged
<1> QED
  BY <1>1, <1>2, <1>3, <1>4, <1>5, <1>6, StepCases

LEMMA ReadersStep ==
  ASSUME Shape, ImmOwnedByFlush, FromHistory, ReadersOK, ReadsOnlyWritten, [Next]_vars
  PROVE  ReadersOK' /\ ReadsOnlyWritten'
<1>0. reader \in [Readers -> Reading] /\ \A r \in Readers : ReaderFine(reader[r])
  BY ReadersFine
<1>1. reader' \in [Readers -> Reading] /\ (\A r \in Readers : ReaderFine(reader[r])')
      => ReadersOK' /\ ReadsOnlyWritten'
  BY DEF ReadersOK, ReadsOnlyWritten, ReaderFine, OfHistory
<1>2. CASE Restart
  <2>1. reader' = [r \in Readers |-> IdleRead]
    BY <1>2, RestartEffect
  <2> QED
    BY <1>1, <2>1, IdleReadFacts DEF ReaderFine
<1>3. CASE ~ Restart
  <2>1. history \subseteq history' /\ \A image : OfHistory(image) => OfHistory(image)'
    BY <1>3, HistoryGrows
  <2>2. CASE ReaderMoves
    <3>1. PICK r \in Readers, x \in Reading : ReaderFine(x) /\ reader' = [reader EXCEPT ![r] = x]
      BY <2>2, ReadFine DEF ReaderMoves
    <3>2. UNCHANGED history
      BY <2>2, ReadFrame
    <3>3. reader' \in [Readers -> Reading] /\ \A q \in Readers : reader'[q] \in {reader[q], x}
                                              /\ (reader'[q] = reader[q] \/ reader'[q] = x)
      BY <1>0, <3>1
    <3> QED
      BY <1>0, <1>1, <3>1, <3>2, <3>3 DEF ReaderFine, OfHistory
  <2>3. CASE ~ ReaderMoves
    <3>1. UNCHANGED reader
      BY <1>3, <2>3, OthersDoNotRead
    <3> QED
      BY <1>0, <1>1, <2>1, <3>1 DEF ReaderFine
  <2> QED
    BY <2>2, <2>3
<1> QED
  BY <1>2, <1>3

----------------------------------------------------------------------------
(* The invariant and what follows from it. *)

LEMMA InitInv == Init => Inv
<1> SUFFICES ASSUME Init
             PROVE  Inv
  OBVIOUS
<1> USE NoMemIsNone
<1>1. << >> \in Seq(Table) /\ DOMAIN << >> = {}
  BY EmptySeq
<1>2. Shape
  BY <1>1 DEF Init, Shape, MemShape, TableShape, FlusherShape, CompactorShape, CompactorPCs,
         ControlShape, NoFlush
<1>3. Held = {} /\ Listed = {} /\ Out = {} /\ Old = {}
  BY OfEmpty DEF Init, NoFlush, Listed, Out, Old, Held
<1>4. ImmOwnedByFlush /\ MergedListed /\ FlushStages /\ NoKeyLost
  BY DEF Init, NoFlush, ImmOwnedByFlush, MergedListed, Dropping, FlushStages, NoKeyLost
<1>5. Files
  BY <1>1, <1>3 DEF Init, Files, OneEach, Apart
<1>6. FromHistory
  BY <1>3, OfEmpty DEF Init, FromHistory
<1>7. Order
  BY <1>1, <1>3, TimesFacts, FreshListSorted
     DEF Init, Order, TablesInOrder, OutTimes, ImmTimes, Earlier
<1>8. ReadersOK /\ ReadsOnlyWritten
  BY IdleReadFacts DEF Init, ReadersOK, ReadsOnlyWritten
<1> QED
  BY <1>2, <1>4, <1>5, <1>6, <1>7, <1>8 DEF Inv

LEMMA NextInv == Inv /\ [Next]_vars => Inv'
<1> SUFFICES ASSUME Inv, [Next]_vars
             PROVE  Inv'
  OBVIOUS
<1> USE DEF Inv
<1>1. Shape' /\ ImmOwnedByFlush' /\ Files'
  BY ShapeStep, ImmOwnedStep, FilesStep
<1>2. MergedListed' /\ FlushStages' /\ NoKeyLost'
  BY MergedListedStep, FlushStagesStep, NoKeyLostStep
<1>3. FromHistory' /\ Order' /\ ReadersOK' /\ ReadsOnlyWritten'
  BY FromHistoryStep, OrderStep, ReadersStep
<1> QED
  BY <1>1, <1>2, <1>3

(***************************************************************************)
(* put, get, close, the flush and the compaction thread keep Inv, however  *)
(* their steps interleave, whichever writes fail and whenever the engine   *)
(* is opened again.                                                        *)
(***************************************************************************)
THEOREM Invariant == Spec => []Inv
BY InitInv, NextInv, PTL DEF Spec

(***************************************************************************)
(* The state of the engine keeps its type: threads, tables, files, readers *)
(* and counters.                                                           *)
(***************************************************************************)
THEOREM TypeCorrect == Spec => []TypeOK
<1>1. Inv => TypeOK
  <2> SUFFICES ASSUME Inv
               PROVE  TypeOK
    OBVIOUS
  <2>0. Shape /\ Files /\ ReadersOK
    BY DEF Inv
  <2>1. \A t \in Held : IsTable(t)
    <3>1. \A t \in Held : t \in Table /\ t.name \in 1 .. made
      BY <2>0, HeldFacts DEF Held, Files, OnFile, Shape, TableShape
    <3>2. \A f \in Images : IsImage(f)
      BY ImageFields DEF IsImage
    <3> QED
      BY <2>0, <3>1, <3>2 DEF IsTable, Table, Shape, TableShape
  <2>2. /\ \A i \in DOMAIN tables : IsTable(tables[i])
        /\ \A i \in DOMAIN flusher.out : IsTable(flusher.out[i])
        /\ \A i \in DOMAIN compactor.old : IsTable(compactor.old[i])
    BY <2>1 DEF Held, Listed, Out, Old, ToSet
  <2>3. \A n \in DOMAIN disk : n \in 1 .. made /\ IsImage(disk[n])
    BY <2>0, ImageFields DEF Shape, TableShape, IsImage
  <2>4. /\ mem.list \in Seq(Entry) /\ mem.bytes \in Int
        /\ imm # NoMem => imm.list \in Seq(Entry) /\ imm.bytes \in Int
    BY <2>0 DEF Shape, MemShape, Memory
  <2>5. \A r \in Readers : reader[r].pc \in {"idle", "check", "imm", "scan", "next", "read"}
    BY <2>0 DEF ReadersOK, Reading
  <2> QED
    BY <2>0, <2>2, <2>3, <2>4, <2>5
       DEF TypeOK, Shape, MemShape, TableShape, FlusherShape, CompactorShape, CompactorPCs,
           ControlShape
<1> QED
  BY <1>1, Invariant, PTL

(***************************************************************************)
(* There is never more than one flush, and none starts from an empty       *)
(* memtable.                                                               *)
(***************************************************************************)
THEOREM ImmAlwaysOwnedByFlush == Spec => []ImmOwnedByFlush
<1>1. Inv => ImmOwnedByFlush
  BY DEF Inv
<1> QED
  BY <1>1, Invariant, PTL

(***************************************************************************)
(* A listed table always has its file to itself, with what it was made     *)
(* from, and its handle is open until close comes.                         *)
(***************************************************************************)
THEOREM ListedTablesAlwaysUsable == Spec => []ListedTablesUsable
<1>1. Inv => ListedTablesUsable
  BY DEF Inv, Files, OnFile, OneEach, Held, Listed, ToSet, ListedTablesUsable
<1> QED
  BY <1>1, Invariant, PTL

(***************************************************************************)
(* Without a failure no key is ever lost between memtable, flush, tables   *)
(* and compaction.                                                         *)
(***************************************************************************)
THEOREM NoKeyEverLost == Spec => []NoKeyLost
<1>1. Inv => NoKeyLost
  BY DEF Inv
<1> QED
  BY <1>1, Invariant, PTL

(***************************************************************************)
(* Between flushes and compactions and before close is at the handles, a   *)
(* get that runs alone finds every key but the one a memtable can hide,    *)
(* and comes to no closed table before.                                    *)
(***************************************************************************)
THEOREM QuietGetAlwaysFinds == Spec => []QuietGetFinds
<1>1. Inv => QuietGetFinds
  <2> SUFFICES ASSUME Inv, imm = NoMem, compactor.pc \in {"sleep", "stopped"},
                      closer.pc \notin {"handles", "done"}, failures = 0,
                      NEW e \in history
               PROVE  \/ MemHas(mem, e.key)
                      \/ \E i \in DOMAIN tables :
                           /\ ImageHas(tables[i].image, e.key)
                           /\ \A j \in i .. Len(tables) : tables[j].name \notin closed
                      \/ mem.list # << >> /\ mem.list[1].key = e.key
    BY DEF QuietGetFinds
  <2>1. flusher.out = << >> /\ compactor.old = << >> /\ mem.list \in Seq(Entry)
    BY DEF Inv, ImmOwnedByFlush, Shape, FlusherShape, CompactorShape, MemShape, Memory
  <2>2. TableKeys(<< >>) = {}
    BY DEF TableKeys
  <2>3. e.key \in KeysOf(mem.list) \cup TableKeys(tables)
    BY <2>1, <2>2 DEF Inv, NoKeyLost, ImmKeys
  <2>4. \A f \in history : ~ f.deleted
    BY DEF Inv, FromHistory
  <2>5. CASE e.key \in TableKeys(tables)
    <3>1. PICK i \in DOMAIN tables : e.key \in DOMAIN tables[i].image
      BY <2>5 DEF TableKeys
    <3>2. OfHistory(tables[i].image)
      BY DEF Inv, FromHistory, Held, Listed, ToSet
    <3>3. \A j \in DOMAIN tables : tables[j].name \notin closed
      BY DEF Inv, Files, Listed, ToSet
    <3>4. DOMAIN tables = 1 .. Len(tables) /\ Len(tables) \in Nat
      BY InSequence DEF Inv, Shape, TableShape
    <3>5. i .. Len(tables) \subseteq DOMAIN tables
      BY <3>4
    <3> QED
      BY <2>4, <3>1, <3>2, <3>3, <3>5 DEF OfHistory, ImageHas
  <2>6. CASE e.key \in KeysOf(mem.list)
    <3>1. SortedTail(mem.list) /\ e.key \in Keys
      BY DEF Inv, Order, Shape, MemShape, Entry
    <3>2. CASE Found(mem.list, e.key)
      <4>1. Lookup(mem.list, e.key) \in ToSet(mem.list)
        BY <2>1, <3>1, <3>2, LookupFacts
      <4> QED
        BY <2>4, <3>2, <4>1 DEF MemHas, Inv, FromHistory
    <3>3. CASE ~ Found(mem.list, e.key)
      <4>1. mem.list[1].key = e.key
        BY <2>1, <2>6, <3>1, <3>3, HiddenIsFirst
      <4>2. mem.list # << >>
        BY <2>6 DEF KeysOf
      <4> QED
        BY <4>1, <4>2
    <3> QED
      BY <3>2, <3>3
  <2> QED
    BY <2>3, <2>5, <2>6
<1> QED
  BY <1>1, Invariant, PTL

(***************************************************************************)
(* What an unmerged table holds is older than what later ones and the      *)
(* memtables hold.                                                         *)
(***************************************************************************)
THEOREM FlushedTablesAlwaysInOrder == Spec => []FlushedTablesInOrder
<1>1. Inv => FlushedTablesInOrder
  <2> SUFFICES ASSUME Inv, NEW i \in DOMAIN tables, ~ tables[i].merged,
                      NEW t \in Times(tables[i].image)
               PROVE  /\ \A j \in DOMAIN tables : i < j /\ ~ tables[j].merged =>
                           \A u \in Times(tables[j].image) : t < u
                      /\ imm # NoMem => \A u \in ListTimes(imm.list) : t < u
                      /\ \A u \in ListTimes(mem.list) : t < u
    BY DEF FlushedTablesInOrder
  <2>1. TablesInOrder(tables)
    BY DEF Inv, Order
  <2>2. \A j \in DOMAIN tables : i < j /\ ~ tables[j].merged =>
          \A u \in Times(tables[j].image) : t < u
    BY <2>1 DEF TablesInOrder, Earlier
  <2>3. Earlier(Times(tables[i].image), OutTimes \cup ImmTimes \cup ListTimes(mem.list))
    BY DEF Inv, Order, Listed, ToSet
  <2> QED
    BY <2>2, <2>3 DEF Earlier, ImmTimes
<1> QED
  BY <1>1, Invariant, PTL

(***************************************************************************)
(* A value get returns was put under the key it was asked for, however     *)
(* flushes, compactions and close run beside it.                           *)
(***************************************************************************)
THEOREM ReadsOnlyEverWritten == Spec => []ReadsOnlyWritten
<1>1. Inv => ReadsOnlyWritten
  BY DEF Inv
<1> QED
  BY <1>1, Invariant, PTL

(***************************************************************************)
(* A file goes only when a table with its keys is listed and on disk.      *)
(***************************************************************************)
THEOREM UnlinkedFilesAlwaysMerged == Spec => UnlinkedFilesAreMerged
<1> DEFINE Covered == \A n \in DOMAIN disk \ DOMAIN disk' : \A k \in DOMAIN disk[n] :
             \E i \in DOMAIN tables' :
               tables'[i].name \in DOMAIN disk' /\ k \in DOMAIN disk'[tables'[i].name]
<1>1. ASSUME Inv, [Next]_vars
      PROVE  Covered
  <2>0. Shape /\ ImmOwnedByFlush /\ FromHistory /\ MergedListed /\ Files
    BY <1>1 DEF Inv
  <2>1. TableShape
    BY <2>0 DEF Shape
  <2>2. CASE Unlinks
    <3>1. PICK t \in Listed : Covers(t)
      BY <2>0, <2>2 DEF Unlinks, MergedListed
    <3>2. t.name \in DOMAIN disk' /\ disk'[t.name] = t.image
      BY <2>0, <2>2 DEF Unlinks, Files, Apart, Held, OnFile
    <3>3. PICK i \in DOMAIN tables : tables[i] = t
      BY DEF Listed, ToSet
    <3>4. ASSUME NEW n \in DOMAIN disk \ DOMAIN disk'
          PROVE  DOMAIN disk[n] \subseteq DOMAIN t.image
      <4>1. PICK u \in Old : n = u.name
        BY <2>2, <3>4 DEF Unlinks
      <4>2. disk[n] = u.image
        BY <2>0, <3>4, <4>1 DEF Files, OnFile
      <4> QED
        BY <3>1, <4>1, <4>2 DEF Covers
    <3> QED
      BY <2>2, <3>2, <3>3, <3>4 DEF Unlinks
  <2>3. CASE HeldStays \/ Loses \/ Closes \/ ClosesOld
    <3>1. DOMAIN disk \subseteq DOMAIN disk'
      BY <2>1, <2>3, DiskStaysFacts DEF HeldStays, Loses, Closes, ClosesOld
    <3> QED
      BY <3>1
  <2>4. ASSUME NEW t, Writes(t) \/ Lists(t) \/ Takes(t) \/ Merges(t)
        PROVE  Covered
    <3>1. DOMAIN disk \subseteq DOMAIN disk'
      BY <2>1, <2>4, Appeared DEF Writes, Lists, Takes, Merges
    <3> QED
      BY <3>1
  <2>5. CASE Restart
    <3>1. UNCHANGED disk
      BY <2>5, RestartEffect
    <3> QED
      BY <3>1
  <2> QED
    BY <1>1, <2>0, <2>2, <2>3, <2>4, <2>5, HeldCases
<1>2. Inv /\ [Next]_vars => [Covered]_vars
  BY <1>1
<1> QED
  BY <1>2, Invariant, PTL DEF Spec, UnlinkedFilesAreMerged

----------------------------------------------------------------------------
(* What starts a flush. *)

\* The memtable claims no more bytes than it holds.
MemCounts == mem.bytes <= SizeOf(mem.list)

\* A flush starts with this memtable: one that holds max_memtable_size bytes,
\* or the one close finds entries in.
Due(m) ==
  \/ SizeOf(m.list) >= MaxSize
  \/ closer.pc = "lock" /\ m = mem /\ m.list # << >>

LEMMA FreshCounts == FreshMem.bytes <= SizeOf(FreshMem.list)
BY SizeOfEmpty DEF FreshMem

LEMMA SizeIsInt ==
  ASSUME NEW list \in Seq(Entry)
  PROVE  SizeOf(list) \in Int
<1>1. PICK f : IsTotal(list, f) /\ SizeOf(list) = f[Len(list)]
  BY SizeOfFacts
<1> QED
  BY <1>1, EntryFields DEF IsTotal

LEMMA PutCounts ==
  ASSUME MemShape, MemCounts, NEW k \in Keys, NEW v \in Values, PutEntry(k, v)
  PROVE  MemCounts' /\ (imm = NoMem /\ imm' # NoMem => Due(imm'))
<1> DEFINE e == [key |-> k, val |-> v, ts |-> clock + 1, deleted |-> FALSE]
           m == MemPut(mem, e)
<1>1. e \in Entry
  BY DEF Entry, MemShape
<1>2. mem.list \in Seq(Entry) /\ mem.bytes \in Int
  BY DEF MemShape, Memory
<1>3. m.bytes \in Int /\ m.list \in Seq(Entry)
  <2>1. m.list = ListPut(mem.list, e)
    BY DEF MemPut
  <2> QED
    BY <1>1, <1>2, <2>1, MemPutBytes, ListPutFacts
<1>4. m.bytes <= SizeOf(m.list)
  BY <1>1, <1>2, MemPutCountsNoMore DEF MemCounts
<1>5. IF IsFull(m, MaxSize) THEN FlushMemtable(m) ELSE mem' = m /\ UNCHANGED flushVars
  BY DEF PutEntry
<1> HIDE DEF m
<1>6. CASE IsFull(m, MaxSize)
  <2>1. Keeping(m) \/ Flushing(m)
    BY <1>5, <1>6, FlushMemtableCases
  <2>2. SizeOf(m.list) >= MaxSize
    BY <1>3, <1>4, <1>6, SizeIsInt, BoundAssumption DEF IsFull
  <2> QED
    BY <1>4, <2>1, <2>2, FreshCounts DEF Keeping, Flushing, MemCounts, Due
<1>7. CASE ~ IsFull(m, MaxSize)
  BY <1>4, <1>5, <1>7 DEF MemCounts, flushVars
<1> QED
  BY <1>6, <1>7

LEMMA CountsStep ==
  ASSUME Inv, MemCounts, [Next]_vars
  PROVE  MemCounts' /\ (imm = NoMem /\ imm' # NoMem => Due(imm'))
<1>0. Shape /\ FromHistory /\ MemShape /\ FlushStages /\ ImmOwnedByFlush
  BY DEF Inv, Shape
<1>1. CASE FlushAlone
  BY <1>0, <1>1, FlushFrame DEF MemCounts
<1>2. ASSUME NEW k \in Keys, NEW v \in Values, PutEntry(k, v)
      PROVE  MemCounts' /\ (imm = NoMem /\ imm' # NoMem => Due(imm'))
  BY <1>0, <1>2, PutCounts
<1>3. CASE FlushWrite \/ FlushReset \/ FlushPublish \/ FlushFail \/ FlushGiveUp
  <2>1. UNCHANGED mem
    BY <1>3 DEF FlushWrite, FlushReset, FlushPublish, FlushFail, FlushGiveUp
  <2>2. imm' = imm \/ imm' = NoMem \/ (FlushReset /\ imm # NoMem)
    BY <1>0, <1>3 DEF FlushWrite, FlushReset, FlushPublish, FlushFail, FlushGiveUp, ImmOwnedByFlush
  <2> QED
    BY <2>1, <2>2 DEF MemCounts
<1>4. CASE CloseFlush
  <2>1. closer.pc = "lock" /\ (Keeping(mem) \/ (mem.list # << >> /\ Flushing(mem)))
    BY <1>4, CloseFlushEffect
  <2> QED
    BY <2>1, FreshCounts DEF Keeping, Flushing, MemCounts, Due
<1>5. CASE Restart
  BY <1>5, RestartEffect, FreshCounts DEF MemCounts
<1> QED
  BY <1>1, <1>2, <1>3, <1>4, <1>5, FlushCases

(***************************************************************************)
(* A flush never starts early: LSMTree.put hands a memtable to the flush   *)
(* thread only when its entries have max_memtable_size bytes, although     *)
(* _current_size is not what they have, and close only one with entries.   *)
(***************************************************************************)
THEOREM FlushesNeverEarly == Spec => [][imm = NoMem /\ imm' # NoMem => Due(imm')]_vars
<1>1. Init => MemCounts
  BY FreshCounts DEF Init, MemCounts
<1>2. Inv /\ MemCounts /\ [Next]_vars => MemCounts'
  BY CountsStep
<1>3. Inv /\ MemCounts /\ [Next]_vars => [imm = NoMem /\ imm' # NoMem => Due(imm')]_vars
  BY CountsStep
<1> QED
  BY <1>1, <1>2, <1>3, Invariant, PTL DEF Spec
===============================================================================
