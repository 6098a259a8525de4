------------------------------- MODULE MemTable -------------------------------
(***************************************************************************)
(* The write buffer of the storage engine: class MemTable over a SkipList  *)
(* (nanocell/core/storage.py), driven through its public operations.  Each *)
(* operation runs under MemTable._lock and is one step.                    *)
(***************************************************************************)
EXTENDS StorageOps

CONSTANTS
  Empty,     \* the value b'' a tombstone carries
  MaxPuts    \* bound of the model: entries added between two flushes

ASSUME EmptyAssumption == Empty \in Values /\ ValLen[Empty] = 0

VARIABLES
  mem,       \* [list, bytes]: the nodes of _skiplist and _current_size
  clock      \* number of the last entry since the last flush (its timestamp)

vars == << mem, clock >>

Init ==
  /\ mem = FreshMem
  /\ clock = 0

AddEntry(k, v, d) ==
  /\ clock < MaxPuts
  /\ clock' = clock + 1
  /\ mem' = MemPut(mem, [key |-> k, val |-> v, ts |-> clock + 1, deleted |-> d])

Put(k, v) == AddEntry(k, v, FALSE)

Delete(k) == AddEntry(k, Empty, TRUE)

\* Mutant: the skip list is not replaced by an empty one.
FlushKeepsList ==
  /\ mem' = [mem EXCEPT !.bytes = 0]
  /\ clock' = 0

\* Mutant: _current_size is not reset.
FlushKeepsSize ==
  /\ mem' = [FreshMem EXCEPT !.bytes = mem.bytes]
  /\ clock' = 0

\* flush_to_sst returns the table Image(mem.list) and starts over.
FlushToSst ==
  /\ mem' = FreshMem
  /\ clock' = 0

Next ==
  \/ \E k \in Keys, v \in Values : Put(k, v)
  \/ \E k \in Keys : Delete(k)
  \/ FlushToSst

Spec == Init /\ [][Next]_vars

----------------------------------------------------------------------------
(* Type invariant; a node for every entry put since the last flush. *)
TypeOK ==
  /\ mem.list \in Seq(Entry)
  /\ mem = [list |-> mem.list, bytes |-> mem.bytes]
  /\ mem.bytes \in Int
  /\ clock \in Nat /\ Len(mem.list) = clock

(***************************************************************************)
(* The shape lookups rely on: behind the first node, which keeps whatever  *)
(* key was put first, keys never decrease, and entries of one key stand    *)
(* newest first (SkipList.put, "while ... key < key").                     *)
(***************************************************************************)
TailSorted == SortedTail(mem.list)

(***************************************************************************)
(* Flushing never changes an answer: for a key SkipList.get finds, the     *)
(* table flush_to_sst would write (stable sort, last offset of the key     *)
(* wins in the index) serves the very entry the walk finds.                *)
(***************************************************************************)
FlushPreservesLookups ==
  \A k \in Keys : Found(mem.list, k) => Image(mem.list)[k] = Lookup(mem.list, k)

(***************************************************************************)
(* The only key SkipList.get can miss although it was put is the very      *)
(* first one, and only while it stands nowhere behind the first node and   *)
(* a smaller key does: the walk then leaves the first node.                *)
(***************************************************************************)
OnlyFirstKeyHidden ==
  \A k \in KeysOf(mem.list) : ~ Found(mem.list, k) =>
    /\ mem.list[1].key = k
    /\ \E j \in 2 .. Len(mem.list) : mem.list[j].key < k
    /\ \A j \in 2 .. Len(mem.list) : mem.list[j].key # k

(***************************************************************************)
(* _current_size is not what the list holds: put takes the size of one     *)
(* entry off that stays in the list, the same one again and again, and the *)
(* number even gets negative. It errs on this side only: a memtable that   *)
(* is_full holds that many bytes, and is never flushed too early.          *)
(***************************************************************************)
NeverFullEarly == mem.bytes <= SizeOf(mem.list)

(***************************************************************************)
(* SkipList.put is documented to "Insert or update entry": when a lookup   *)
(* finds a key, it answers with the entry put last under it.               *)
(***************************************************************************)
LastWriteWins ==
  \A k \in Keys : Found(mem.list, k) =>
    \A i \in DOMAIN mem.list :
      mem.list[i].key = k => mem.list[i].ts <= Lookup(mem.list, k).ts
===============================================================================
