------------------------------ MODULE StorageOps ------------------------------
(***************************************************************************)
(* Pure operators of nanocell/core/storage.py: what a SkipList holds after *)
(* a put, what a lookup finds in it, how a MemTable accounts for its size, *)
(* and what an SSTable made from a memtable or from two tables serves.     *)
(*                                                                         *)
(* A skip list is the sequence of its nodes in level-0 order (module       *)
(* SkipList shows that the pointer structure is exactly that).  An entry   *)
(* is a record with the fields key, val, ts and deleted; an SSTable's      *)
(* image is the function from the keys of its index to the entries found   *)
(* at their offsets.                                                       *)
(***************************************************************************)
EXTENDS Integers, Sequences, SequencesExt

CONSTANTS
  Keys,      \* the keys, integers: only the order of the byte strings matters
  Values,    \* the values a client may put
  KeyLen,    \* KeyLen[k]: length in bytes of key k
  ValLen     \* ValLen[v]: length in bytes of value v

ASSUME KeysAssumption == Keys \subseteq Int
ASSUME LengthAssumption == KeyLen \in [Keys -> Nat] /\ ValLen \in [Values -> Nat]

Entry == [key : Keys, val : Values, ts : Nat, deleted : BOOLEAN]

KeysOf(list) == {list[i].key : i \in DOMAIN list}

(***************************************************************************)
(* The walk both put and get make: it starts ON the first node, whatever   *)
(* its key, and moves right while the NEXT node's key is in Pass.          *)
(***************************************************************************)
WalkEnd(list, Pass) ==
  CHOOSE i \in 1 .. Len(list) :
    /\ \A j \in 2 .. i : list[j].key \in Pass
    /\ i < Len(list) => list[i + 1].key \notin Pass

Below(k)  == {x \in Keys : x < k}
UpTo(k)   == {x \in Keys : x <= k}

\* Mutant: the new node goes behind the entries with its key.
ListPutAfterEqual(list, e) ==
  IF list = << >> THEN << e >>
  ELSE InsertAt(list, WalkEnd(list, UpTo(e.key)) + 1, e)

\* SkipList.put: the new node goes behind the last node the walk reaches.
ListPut(list, e) ==
  IF list = << >> THEN << e >>
  ELSE InsertAt(list, WalkEnd(list, Below(e.key)) + 1, e)

\* Mutant: get stops in front of the key.
FindPosStrict(list, k) == WalkEnd(list, Below(k))

\* SkipList.get: the node the walk ends on, if it has the key.
FindPos(list, k) == WalkEnd(list, UpTo(k))

\* Mutant: get does not compare the key it ends on.
FoundAny(list, k) == list # << >>

Found(list, k) == list # << >> /\ list[FindPos(list, k)].key = k
Lookup(list, k) == list[FindPos(list, k)]

\* The order the walks rely on (not for the first node, which never moves):
\* keys never decrease, and of one key the newest entry comes first.
SortedTail(list) ==
  \A i, j \in 2 .. Len(list) : i < j =>
    \/ list[i].key < list[j].key
    \/ list[i].key = list[j].key /\ list[i].ts > list[j].ts

----------------------------------------------------------------------------
(***************************************************************************)
(* MemTable: a skip list and the running total of its key and value bytes. *)
(***************************************************************************)
FreshMem == [list |-> << >>, bytes |-> 0]

EntrySize(e) == KeyLen[e.key] + ValLen[e.val]

\* The bytes a list really holds.
SizeOf(list) ==
  LET total[n \in 0 .. Len(list)] ==
        IF n = 0 THEN 0 ELSE total[n - 1] + EntrySize(list[n])
  IN  total[Len(list)]

\* MemTable.put takes the size of the entry a lookup finds for the key off
\* the total, although that entry stays in the list.
MemPut(mem, e) ==
  [list  |-> ListPut(mem.list, e),
   bytes |-> mem.bytes + EntrySize(e)
             - (IF Found(mem.list, e.key) THEN EntrySize(Lookup(mem.list, e.key)) ELSE 0)]

IsFull(mem, maxSize) == mem.bytes >= maxSize

\* MemTable.get hides a deleted entry.
MemHas(mem, k) == Found(mem.list, k) /\ ~ Lookup(mem.list, k).deleted

----------------------------------------------------------------------------
(***************************************************************************)
(* SSTable.create: a stable sort by key, one record per entry, and an      *)
(* index in which a later record of a key replaces an earlier one.         *)
(***************************************************************************)
LastAt(list, k) ==
  CHOOSE i \in DOMAIN list :
    list[i].key = k /\ \A j \in DOMAIN list : list[j].key = k => j <= i

\* Mutant: the first record of a key stays in the index.
FirstImage(list) ==
  [k \in KeysOf(list) |->
     list[CHOOSE i \in DOMAIN list :
            list[i].key = k /\ \A j \in DOMAIN list : list[j].key = k => i <= j]]

Image(list) == [k \in KeysOf(list) |-> list[LastAt(list, k)]]

\* SSTable.get: a deleted entry counts as absent.
ImageHas(image, k) == k \in DOMAIN image /\ ~ image[k].deleted

\* Mutant: keys of the second table only are forgotten.
MergeFirstOnly(first, second) ==
  [k \in {x \in DOMAIN first : ImageHas(first, x)} |->
     IF ImageHas(second, k) THEN second[k] ELSE first[k]]

\* Mutant: keys in one table only are forgotten.
MergeCommon(first, second) ==
  [k \in {x \in DOMAIN first \cap DOMAIN second : ImageHas(second, x)} |-> second[k]]

\* LSMTree._compact merges by key: of two live entries the SECOND table's
\* stays, and deleted ones are dropped.
Merge(first, second) ==
  [k \in {x \in DOMAIN first \cup DOMAIN second : ImageHas(first, x) \/ ImageHas(second, x)} |->
     IF ImageHas(second, k) THEN second[k] ELSE first[k]]

(***************************************************************************)
(* The tail of an SSTable file.  create ends it with the index (a 4-byte   *)
(* length, then the data) and 8 bytes holding the index's offset; load     *)
(* takes the 8 bytes that start LoadSeek bytes before the end for that     *)
(* offset.  When they are other bytes, the number points nowhere, decoding *)
(* raises, and _load_sstables goes on without the file.                    *)
(***************************************************************************)
OffsetWidth == 8
LoadSeek == 20
LoadFindsIndex == LoadSeek = OffsetWidth
===============================================================================
