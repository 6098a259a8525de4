-------------------------------- MODULE LSMTree --------------------------------
(***************************************************************************)
(* The storage engine, class LSMTree of nanocell/core/storage.py, with the *)
(* threads that meet in it: callers of put, delete, close and get, the     *)
(* flush thread a full memtable starts, and the compaction thread.         *)
(*                                                                         *)
(* put holds LSMTree._lock from its first step to its last, so it is one   *)
(* step here.  close and _compact hold the lock over several steps, and    *)
(* the variable lock says which of them has it.  get takes no lock: each   *)
(* of its reads of shared state is a step of its own, except that fetching *)
(* a memtable and searching it are one.                                    *)
(***************************************************************************)
EXTENDS StorageOps, FiniteSets

CONSTANTS
  Readers,       \* threads that call get
  Empty,         \* the value b'' that delete puts
  MaxSize,       \* max_memtable_size
  CompactAbove,  \* _compaction_loop compacts when there are more tables (4)
  NoMem,         \* the pointer None of _imm_memtable
  MaxPuts,       \* bound of the model: puts and deletes
  MaxFailures,   \* bound of the model: table writes and unlinks that raise
  MaxRestarts    \* bound of the model: crashes or exits followed by a new open

ASSUME EmptyAssumption == Empty \in Values
ASSUME BoundAssumption ==
  MaxSize \in Nat /\ CompactAbove \in Nat \ {0} /\ MaxPuts \in Nat
  /\ MaxFailures \in Nat /\ MaxRestarts \in Nat
ASSUME NoMemAssumption == NoMem \notin [list : Seq(Entry), bytes : Int]

VARIABLES
  mem,        \* _memtable
  imm,        \* _imm_memtable, or NoMem
  tables,     \* _sstables: [name, merged, image], oldest flush first
  disk,       \* the *.sst files: name -> image (what was written)
  closed,     \* names of the tables whose file handle is closed
  lock,       \* holder of _lock between steps: "free", "compact" or "close"
  flusher,    \* the flush thread: [pc, out], out a sequence of at most one table
  compactor,  \* the compaction thread: [pc, old], old the popped tables it still has
  closer,     \* the call of close: [pc, idx], idx the last table it closed
  reader,     \* each reader's call of get: [pc, key, idx, at, res]
  running,    \* _running
  clock,      \* entries put so far: the timestamp of the last one
  made,       \* tables made so far: file names are timestamps, hence all new
  failures,   \* table writes and unlinks that raised
  restarts,   \* times the database was opened again
  history     \* (ghost) entries put since the database was opened

vars == << mem, imm, tables, disk, closed, lock, flusher, compactor, closer, reader,
           running, clock, made, failures, restarts, history >>

flushVars   == << imm, flusher >>
tableVars   == << tables, disk, closed, made >>
controlVars == << closer, running, failures, restarts >>

NamesOf(ts) == {ts[i].name : i \in DOMAIN ts}

NoFlush  == [pc |-> "idle", out |-> << >>]
NoResult == [kind |-> "none"]
IdleRead == [pc |-> "idle", key |-> CHOOSE k \in Keys : TRUE, idx |-> 0, at |-> << >>,
             res |-> NoResult]

Init ==
  /\ mem = FreshMem
  /\ imm = NoMem
  /\ tables = << >>
  /\ disk = << >>
  /\ closed = {}
  /\ lock = "free"
  /\ flusher = NoFlush
  /\ compactor = [pc |-> "sleep", old |-> << >>]
  /\ closer = [pc |-> "open", idx |-> 0]
  /\ reader = [r \in Readers |-> IdleRead]
  /\ running = TRUE
  /\ clock = 0
  /\ made = 0
  /\ failures = 0
  /\ restarts = 0
  /\ history = {}

----------------------------------------------------------------------------
(* Writing. *)

\* Mutant: a second flush starts while one is under way.
FlushMemtableAlways(m) ==
  /\ imm' = m
  /\ mem' = FreshMem
  /\ flusher' = [pc |-> "write", out |-> << >>]

\* _flush_memtable on memtable m: nothing while a flush is under way, else m
\* becomes the immutable memtable and a flush thread starts.
FlushMemtable(m) ==
  IF imm # NoMem
  THEN mem' = m /\ UNCHANGED flushVars
  ELSE /\ imm' = m
       /\ mem' = FreshMem
       /\ flusher' = [pc |-> "write", out |-> << >>]

PutEntry(k, v) ==
  LET e == [key |-> k, val |-> v, ts |-> clock + 1, deleted |-> FALSE]
      m == MemPut(mem, e)
  IN  /\ lock = "free"
      /\ clock < MaxPuts
      /\ IF IsFull(m, MaxSize) THEN FlushMemtable(m) ELSE mem' = m /\ UNCHANGED flushVars
      /\ clock' = clock + 1
      /\ history' = history \cup {e}
      /\ UNCHANGED << lock, compactor, reader, tableVars, controlVars >>

Put(k, v) == PutEntry(k, v)

\* LSMTree.delete is a put of b''; the deleted flag stays unset.
Delete(k) == PutEntry(k, Empty)

----------------------------------------------------------------------------
(* The flush thread: _do_flush and MemTable.flush_to_sst. *)

\* Mutant: two tables made at the same time share a name.
WriteTableSameName(image, merged) == [name |-> made, merged |-> merged, image |-> image]

WriteTable(image, merged) == [name |-> made + 1, merged |-> merged, image |-> image]

OnDisk(t) == [n \in DOMAIN disk \cup {t.name} |-> IF n = t.name THEN t.image ELSE disk[n]]

FlushWrite ==
  LET t == WriteTable(Image(imm.list), FALSE)
  IN  /\ flusher.pc = "write"
      /\ flusher' = [pc |-> "reset", out |-> << t >>]
      /\ disk' = OnDisk(t)
      /\ made' = made + 1
      /\ UNCHANGED << mem, imm, tables, closed, lock, compactor, reader, clock, history, controlVars >>

\* The memtable being flushed is emptied before its table is listed.
FlushReset ==
  /\ flusher.pc = "reset"
  /\ imm' = FreshMem
  /\ flusher' = [flusher EXCEPT !.pc = "publish"]
  /\ UNCHANGED << mem, lock, compactor, reader, clock, history, tableVars, controlVars >>

\* Mutant: a flushed table is listed in front.
FlushPublishFront ==
  /\ flusher.pc = "publish"
  /\ lock = "free"
  /\ tables' = flusher.out \o tables
  /\ imm' = NoMem
  /\ flusher' = NoFlush
  /\ UNCHANGED << mem, disk, closed, made, lock, compactor, reader, clock, history, controlVars >>

\* Mutant: the immutable memtable is not dropped after its flush.
FlushPublishKeepsImm ==
  /\ flusher.pc = "publish"
  /\ lock = "free"
  /\ tables' = tables \o flusher.out
  /\ flusher' = NoFlush
  /\ UNCHANGED << imm, mem, disk, closed, made, lock, compactor, reader, clock, history, controlVars >>

FlushPublish ==
  /\ flusher.pc = "publish"
  /\ lock = "free"
  /\ tables' = tables \o flusher.out
  /\ imm' = NoMem
  /\ flusher' = NoFlush
  /\ UNCHANGED << mem, disk, closed, made, lock, compactor, reader, clock, history, controlVars >>

\* Writing the file raises, with or without a torn file left behind ...
FlushFail ==
  /\ flusher.pc = "write"
  /\ failures < MaxFailures
  /\ failures' = failures + 1
  /\ flusher' = [flusher EXCEPT !.pc = "giveup"]
  /\ \/ made' = made + 1 /\ disk' = OnDisk(WriteTable(<< >>, FALSE))
     \/ UNCHANGED << made, disk >>
  /\ UNCHANGED << mem, imm, tables, closed, lock, compactor, reader, clock, history, closer, running, restarts >>

\* Mutant: the handler keeps the memtable for later.
FlushGiveUpKeepsImm ==
  /\ flusher.pc = "giveup"
  /\ lock = "free"
  /\ flusher' = NoFlush
  /\ UNCHANGED << imm, mem, lock, compactor, reader, clock, history, tableVars, controlVars >>

\* ... and the handler drops the memtable with everything in it.
FlushGiveUp ==
  /\ flusher.pc = "giveup"
  /\ lock = "free"
  /\ imm' = NoMem
  /\ flusher' = NoFlush
  /\ UNCHANGED << mem, lock, compactor, reader, clock, history, tableVars, controlVars >>

----------------------------------------------------------------------------
(* The compaction thread: _compaction_loop and _compact. *)

\* The loop tests _running at its top only, before it sleeps.
LoopTop == [pc |-> IF running THEN "sleep" ELSE "stopped", old |-> << >>]

CompactSkip ==
  /\ compactor.pc = "sleep"
  /\ lock = "free"
  /\ Len(tables) <= CompactAbove
  /\ compactor' = LoopTop
  /\ UNCHANGED << mem, lock, reader, clock, history, flushVars, tableVars, controlVars >>

\* Mutant: tables stay listed while they are merged.
PopTableKeeps(pc) ==
  /\ compactor' = [pc |-> pc, old |-> Append(compactor.old, tables[Len(compactor.old) + 1])]
  /\ lock' = "compact"
  /\ UNCHANGED << mem, tables, disk, closed, made, reader, clock, history, flushVars, controlVars >>

\* The two oldest tables leave the list, which readers go on reading, before
\* anything is merged.
PopTable(pc) ==
  /\ compactor' = [pc |-> pc, old |-> Append(compactor.old, Head(tables))]
  /\ tables' = Tail(tables)
  /\ lock' = "compact"
  /\ UNCHANGED << mem, disk, closed, made, reader, clock, history, flushVars, controlVars >>

\* Mutant: compaction waits for one table more.
CompactPopLate ==
  /\ compactor.pc = "sleep"
  /\ lock = "free"
  /\ Len(tables) > CompactAbove + 1
  /\ PopTable("pop")

CompactPopFirst ==
  /\ compactor.pc = "sleep"
  /\ lock = "free"
  /\ Len(tables) > CompactAbove
  /\ Len(tables) >= 2
  /\ PopTable("pop")

CompactPopSecond ==
  /\ compactor.pc = "pop"
  /\ PopTable("merge")

\* The merged table goes to the end of the list, where the newest one is.
CompactMerge ==
  LET t == WriteTable(Merge(compactor.old[1].image, compactor.old[2].image), TRUE)
  IN  /\ compactor.pc = "merge"
      /\ NamesOf(compactor.old) \cap closed = {}
      /\ compactor' = [compactor EXCEPT !.pc = "close1"]
      /\ tables' = Append(tables, t)
      /\ disk' = OnDisk(t)
      /\ made' = made + 1
      /\ UNCHANGED << mem, closed, lock, reader, clock, history, flushVars, controlVars >>

\* Reading a closed table or writing the new one raises: nothing catches it,
\* the lock is released and the thread ends with the two tables popped.
Die ==
  /\ compactor' = [pc |-> "dead", old |-> << >>]
  /\ lock' = "free"
  /\ UNCHANGED << mem, tables, closed, reader, clock, history, flushVars, closer, running, restarts >>

CompactReadClosed ==
  /\ compactor.pc = "merge"
  /\ NamesOf(compactor.old) \cap closed # {}
  /\ UNCHANGED << disk, made, failures >>
  /\ Die

CompactFail ==
  /\ compactor.pc = "merge"
  /\ failures < MaxFailures
  /\ failures' = failures + 1
  /\ \/ made' = made + 1 /\ disk' = OnDisk(WriteTable(<< >>, TRUE))
     \/ UNCHANGED << made, disk >>
  /\ Die

\* The handles of the two old tables are closed, ...
CloseOld(i, pc) ==
  /\ compactor' = [compactor EXCEPT !.pc = pc]
  /\ closed' = closed \cup {compactor.old[i].name}
  /\ UNCHANGED << mem, tables, disk, made, lock, reader, clock, history, flushVars, controlVars >>

CompactCloseFirst ==
  /\ compactor.pc = "close1"
  /\ CloseOld(1, "close2")

CompactCloseSecond ==
  /\ compactor.pc = "close2"
  /\ CloseOld(2, "unlink")

\* ... and their files removed, one after the other; then the lock is free.
CompactUnlink ==
  /\ compactor.pc = "unlink"
  /\ disk' = [n \in DOMAIN disk \ {Head(compactor.old).name} |-> disk[n]]
  /\ IF Len(compactor.old) = 2
     THEN compactor' = [compactor EXCEPT !.old = Tail(@)] /\ UNCHANGED lock
     ELSE compactor' = LoopTop /\ lock' = "free"
  /\ UNCHANGED << mem, tables, closed, made, reader, clock, history, flushVars, controlVars >>

\* Removing a file raises: like any exception here it ends the thread.
CompactUnlinkFails ==
  /\ compactor.pc = "unlink"
  /\ failures < MaxFailures
  /\ failures' = failures + 1
  /\ UNCHANGED << disk, made >>
  /\ Die

----------------------------------------------------------------------------
(* close. *)

CloseBegin ==
  /\ closer.pc = "open"
  /\ running' = FALSE
  /\ closer' = [closer EXCEPT !.pc = "lock"]
  /\ UNCHANGED << mem, lock, compactor, reader, clock, history, failures, restarts, flushVars, tableVars >>

closeUnchanged == << compactor, reader, clock, history, running, failures, restarts >>

\* Under the lock: flush what is in the memtable, then sleep for half a second.
CloseFlush ==
  /\ closer.pc = "lock"
  /\ lock = "free"
  /\ IF mem.list # << >>
     THEN FlushMemtable(mem) /\ lock' = "close" /\ closer' = [closer EXCEPT !.pc = "sleep"]
     ELSE closer' = [closer EXCEPT !.pc = "handles"] /\ UNCHANGED << mem, lock, flushVars >>
  /\ UNCHANGED << tableVars, closeUnchanged >>

\* Mutant: close waits for the flush and keeps the lock meanwhile.
CloseWakeAfterFlush ==
  /\ closer.pc = "sleep"
  /\ imm = NoMem
  /\ lock' = "free"
  /\ closer' = [closer EXCEPT !.pc = "handles"]
  /\ UNCHANGED << mem, flushVars, tableVars, closeUnchanged >>

CloseWake ==
  /\ closer.pc = "sleep"
  /\ lock' = "free"
  /\ closer' = [closer EXCEPT !.pc = "handles"]
  /\ UNCHANGED << mem, flushVars, tableVars, closeUnchanged >>

\* Without the lock: one table after the other, in a list that may change.
CloseHandle ==
  /\ closer.pc = "handles"
  /\ IF closer.idx < Len(tables)
     THEN /\ closed' = closed \cup {tables[closer.idx + 1].name}
          /\ closer' = [closer EXCEPT !.idx = @ + 1]
     ELSE closer' = [closer EXCEPT !.pc = "done"] /\ UNCHANGED closed
  /\ UNCHANGED << mem, tables, disk, made, lock, flushVars, closeUnchanged >>

----------------------------------------------------------------------------
(* Reading: LSMTree.get, MemTable.get and SSTable.get. *)

Value(e) == [kind |-> "value", entry |-> e]
Raised   == [kind |-> "error"]

\* reader r goes on at pc, or returns.
GoTo(r, pc)   == reader' = [reader EXCEPT ![r].pc = pc]
Return(r, x)  == reader' = [reader EXCEPT ![r] = [IdleRead EXCEPT !.key = reader[r].key, !.res = x]]

readUnchanged == << mem, lock, compactor, clock, history, flushVars, tableVars, controlVars >>

GetMem(r, k) ==
  /\ reader[r].pc = "idle"
  /\ reader' = [reader EXCEPT ![r] =
       IF MemHas(mem, k)
       THEN [IdleRead EXCEPT !.key = k, !.res = Value(Lookup(mem.list, k))]
       ELSE [IdleRead EXCEPT !.key = k, !.pc = "check"]]
  /\ UNCHANGED readUnchanged

\* "if self._imm_memtable" and the use of it are two reads of the field.
CheckImm(r) ==
  /\ reader[r].pc = "check"
  /\ GoTo(r, IF imm = NoMem THEN "scan" ELSE "imm")
  /\ UNCHANGED readUnchanged

GetImm(r) ==
  /\ reader[r].pc = "imm"
  /\ \/ imm = NoMem /\ Return(r, Raised)
     \/ imm # NoMem /\ MemHas(imm, reader[r].key)
          /\ Return(r, Value(Lookup(imm.list, reader[r].key)))
     \/ imm # NoMem /\ ~ MemHas(imm, reader[r].key) /\ GoTo(r, "scan")
  /\ UNCHANGED readUnchanged

\* reversed(_sstables) remembers an index into the live list.
StartScan(r) ==
  /\ reader[r].pc = "scan"
  /\ reader' = [reader EXCEPT ![r].pc = "next", ![r].idx = Len(tables)]
  /\ UNCHANGED readUnchanged

\* Mutant: the iterator does not move on.
NextTableStuck(r) ==
  /\ reader[r].pc = "next"
  /\ IF reader[r].idx \in DOMAIN tables
     THEN reader' = [reader EXCEPT ![r].pc = "read", ![r].at = << tables[reader[r].idx] >>]
     ELSE Return(r, NoResult)
  /\ UNCHANGED readUnchanged

NextTable(r) ==
  /\ reader[r].pc = "next"
  /\ IF reader[r].idx \in DOMAIN tables
     THEN reader' = [reader EXCEPT ![r].pc = "read", ![r].idx = @ - 1,
                                   ![r].at = << tables[reader[r].idx] >>]
     ELSE Return(r, NoResult)
  /\ UNCHANGED readUnchanged

ReadTable(r) ==
  LET t == reader[r].at[1]
      k == reader[r].key
  IN  /\ reader[r].pc = "read"
      /\ \/ k \in DOMAIN t.image /\ t.name \in closed /\ Return(r, Raised)
         \/ ImageHas(t.image, k) /\ t.name \notin closed /\ Return(r, Value(t.image[k]))
         \/ ~ ImageHas(t.image, k) /\ (k \in DOMAIN t.image => t.name \notin closed)
              /\ reader' = [reader EXCEPT ![r].pc = "next", ![r].at = << >>]
      /\ UNCHANGED readUnchanged

----------------------------------------------------------------------------
(* A crash or exit, and a new LSMTree on the same directory. *)

\* _load_sstables: the files in name order, without those load raises on.
\* A torn file has no offset field to find.
Loaded ==
  IF LoadFindsIndex
  THEN LET names == SetToSortSeq({n \in DOMAIN disk : disk[n] # << >>}, <)
       IN  [i \in DOMAIN names |-> [name |-> names[i], merged |-> FALSE, image |-> disk[names[i]]]]
  ELSE << >>

Restart ==
  /\ restarts < MaxRestarts
  /\ restarts' = restarts + 1
  /\ mem' = FreshMem
  /\ imm' = NoMem
  /\ tables' = Loaded
  /\ closed' = {}
  /\ lock' = "free"
  /\ flusher' = NoFlush
  /\ compactor' = [pc |-> "sleep", old |-> << >>]
  /\ closer' = [pc |-> "open", idx |-> 0]
  /\ reader' = [r \in Readers |-> IdleRead]
  /\ running' = TRUE
  /\ history' = UNION {{t.image[k] : k \in DOMAIN t.image} : t \in {Loaded[i] : i \in DOMAIN Loaded}}
  /\ UNCHANGED << disk, clock, made, failures >>

----------------------------------------------------------------------------
FlushStep   == FlushWrite \/ FlushReset \/ FlushPublish \/ FlushFail \/ FlushGiveUp
CompactEnd  == CompactCloseFirst \/ CompactCloseSecond \/ CompactUnlink \/ CompactUnlinkFails
CompactStep == CompactSkip \/ CompactPopFirst \/ CompactPopSecond \/ CompactMerge \/ CompactReadClosed \/ CompactFail \/ CompactEnd
CloseStep   == CloseBegin \/ CloseFlush \/ CloseWake \/ CloseHandle
ReadStep(r) == CheckImm(r) \/ GetImm(r) \/ StartScan(r) \/ NextTable(r) \/ ReadTable(r)

Next ==
  \/ \E k \in Keys : Delete(k) \/ \E v \in Values \ {Empty} : Put(k, v)
  \/ FlushStep
  \/ CompactStep
  \/ CloseStep
  \/ \E r \in Readers : ReadStep(r) \/ \E k \in Keys : GetMem(r, k)
  \/ Restart

Spec == Init /\ [][Next]_vars

\* Threads that run go on running, and a thread that waits for the lock gets
\* it when it stays free; nobody has to call anything.
Fairness ==
  /\ WF_vars(FlushStep)
  /\ WF_vars(CompactStep)
  /\ WF_vars(CloseFlush \/ CloseWake \/ CloseHandle)
  /\ \A r \in Readers : WF_vars(ReadStep(r))

FairSpec == Spec /\ Fairness

----------------------------------------------------------------------------
IsImage(f) == DOMAIN f \subseteq Keys /\ \A k \in DOMAIN f : f[k] \in Entry
IsTable(t) == t.name \in 1 .. made /\ t.merged \in BOOLEAN /\ IsImage(t.image)

(* Type invariant. *)
TypeOK ==
  /\ mem.list \in Seq(Entry) /\ mem.bytes \in Int
  /\ imm # NoMem => imm.list \in Seq(Entry) /\ imm.bytes \in Int
  /\ \A i \in DOMAIN tables : IsTable(tables[i])
  /\ \A n \in DOMAIN disk : n \in 1 .. made /\ IsImage(disk[n])
  /\ closed \subseteq 1 .. made
  /\ lock \in {"free", "compact", "close"}
  /\ flusher.pc \in {"idle", "write", "reset", "publish", "giveup"}
  /\ \A i \in DOMAIN flusher.out : IsTable(flusher.out[i])
  /\ compactor.pc \in {"sleep", "pop", "merge", "close1", "close2", "unlink", "stopped", "dead"}
  /\ \A i \in DOMAIN compactor.old : IsTable(compactor.old[i])
  /\ closer.pc \in {"open", "lock", "sleep", "handles", "done"} /\ closer.idx \in Nat
  /\ \A r \in Readers : reader[r].pc \in {"idle", "check", "imm", "scan", "next", "read"}
  /\ running \in BOOLEAN
  /\ {clock, made, failures, restarts} \subseteq Nat
  /\ history \subseteq Entry

ImmKeys == IF imm = NoMem THEN {} ELSE KeysOf(imm.list)
TableKeys(ts) == UNION {DOMAIN ts[i].image : i \in DOMAIN ts}

(***************************************************************************)
(* No key is lost on its way from the memtable through a flush and any     *)
(* number of compactions: as long as no table write failed and compaction  *)
(* has not died, each key put since the database was opened is in the      *)
(* memtable, in the one being flushed, in the table the flush thread has   *)
(* written, in a listed table, or in one compaction has popped.            *)
(***************************************************************************)
NoKeyLost ==
  failures = 0 /\ compactor.pc # "dead" =>
    \A e \in history :
      e.key \in KeysOf(mem.list) \cup ImmKeys \cup TableKeys(flusher.out)
                \cup TableKeys(tables) \cup TableKeys(compactor.old)

(***************************************************************************)
(* Between flushes and compactions, and before close gets to the handles,  *)
(* a get that runs alone finds every key put, but for the one that         *)
(* SkipList.get can hide, the first of the memtable: an open table has it, *)
(* and no closed one, on which the scan would raise, comes before.         *)
(***************************************************************************)
QuietGetFinds ==
  /\ imm = NoMem
  /\ compactor.pc \in {"sleep", "stopped"}
  /\ closer.pc \notin {"handles", "done"}
  /\ failures = 0
  => \A e \in history :
      \/ MemHas(mem, e.key)
      \/ \E i \in DOMAIN tables :
            /\ ImageHas(tables[i].image, e.key)
            /\ \A j \in i .. Len(tables) : tables[j].name \notin closed
      \/ mem.list # << >> /\ mem.list[1].key = e.key

(***************************************************************************)
(* get never makes an answer up: whatever moves while it runs, a value it  *)
(* returns was put under that very key.                                    *)
(***************************************************************************)
ReadsOnlyWritten ==
  \A r \in Readers : reader[r].res.kind = "value" =>
    reader[r].res.entry \in history /\ reader[r].res.entry.key = reader[r].key

(***************************************************************************)
(* A table in _sstables can be read: its file is there with what the table *)
(* was made from, no other listed table is the same, and its handle is     *)
(* open, unless close is at the handles: compaction closes and unlinks no  *)
(* table that the list has.                                                *)
(***************************************************************************)
ListedTablesUsable ==
  \A i \in DOMAIN tables :
    /\ tables[i].name \in DOMAIN disk
    /\ disk[tables[i].name] = tables[i].image
    /\ tables[i].name \in closed => closer.pc \in {"handles", "done"}
    /\ \A j \in DOMAIN tables : tables[j].name = tables[i].name => j = i

(***************************************************************************)
(* _imm_memtable is set exactly while a flush thread runs, so there are    *)
(* never two, and none of them ever starts from an empty memtable.         *)
(***************************************************************************)
ImmOwnedByFlush ==
  /\ imm # NoMem <=> flusher.pc # "idle"
  /\ flusher.pc = "write" => imm.list # << >>

(***************************************************************************)
(* Flushes keep the order of time: what an unmerged table holds is older   *)
(* than what any later unmerged table, the memtable being flushed and the  *)
(* memtable hold.                                                          *)
(***************************************************************************)
Times(image) == {image[k].ts : k \in DOMAIN image}
ListTimes(list) == {list[i].ts : i \in DOMAIN list}
FlushedTablesInOrder ==
  \A i \in DOMAIN tables : ~ tables[i].merged =>
    \A t \in Times(tables[i].image) :
      /\ \A j \in DOMAIN tables : i < j /\ ~ tables[j].merged =>
           \A u \in Times(tables[j].image) : t < u
      /\ imm # NoMem => \A u \in ListTimes(imm.list) : t < u
      /\ \A u \in ListTimes(mem.list) : t < u

(***************************************************************************)
(* When _compact unlinks a file, each of its keys is in the file of a      *)
(* listed table: the table merged from it is complete and listed before    *)
(* the first of the two files goes, so that no key is left without a file, *)
(* wherever between or after the two unlinks the process ends.             *)
(***************************************************************************)
UnlinkedFilesAreMerged ==
  [][\A n \in DOMAIN disk \ DOMAIN disk' : \A k \in DOMAIN disk[n] :
       \E i \in DOMAIN tables' :
         tables'[i].name \in DOMAIN disk' /\ k \in DOMAIN disk'[tables'[i].name]]_vars

(***************************************************************************)
(* LSMTree.get reads the tables under the comment "newest first": a table  *)
(* later in the list holds no older value of a key than an earlier one.    *)
(***************************************************************************)
NewestFirst ==
  \A i, j \in DOMAIN tables : i < j =>
    \A k \in DOMAIN tables[i].image \cap DOMAIN tables[j].image :
      tables[i].image[k].ts <= tables[j].image[k].ts

(***************************************************************************)
(* Opening a database lists every table whose file was completely written: *)
(* "Load existing SSTables".                                               *)
(***************************************************************************)
LoadsExisting ==
  [][restarts' # restarts => NamesOf(tables') = {n \in DOMAIN disk : disk[n] # << >>}]_vars

(***************************************************************************)
(* close flushes what is in the memtable: "Flush remaining data".          *)
(***************************************************************************)
CloseFlushesRemaining ==
  [][closer.pc = "lock" /\ closer'.pc # "lock" => mem'.list = << >>]_vars

(* A flush that was started ends, although it waits for the lock close and *)
(* compaction hold.                                                        *)
FlushEnds == (imm # NoMem) ~> (imm = NoMem)

(* get returns, whatever happens to the tables below its iterator. *)
GetReturns == \A r \in Readers : (reader[r].pc # "idle") ~> (reader[r].pc = "idle")

(* close returns, although the flush and the compaction thread want its    *)
(* lock.                                                                   *)
CloseReturns == (closer.pc = "lock") ~> (closer.pc = "done")

(* Compaction brings the number of tables back to its bound, unless the    *)
(* thread has died or the database is being closed.                        *)
CompactionCatchesUp ==
  (Len(tables) > CompactAbove) ~>
     (Len(tables) <= CompactAbove \/ compactor.pc = "dead" \/ ~ running)
===============================================================================
