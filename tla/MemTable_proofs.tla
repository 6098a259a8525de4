--------------------------- MODULE MemTable_proofs ---------------------------
(***************************************************************************)
(* Proofs about MemTable, for every set of keys and values, every length   *)
(* of them and every number of puts.                                       *)
(***************************************************************************)
EXTENDS MemTable, StorageOps_proofs

\* Timestamps never run ahead of the clock: what makes an entry that comes
\* next newer than all the others.
OlderThanClock == \A i \in 1 .. Len(mem.list) : mem.list[i].ts <= clock

\* The inductive invariant.
Inv == TypeOK /\ TailSorted /\ OlderThanClock /\ NeverFullEarly

LEMMA InitInv == Init => Inv
<1> SUFFICES ASSUME Init
             PROVE  Inv
  OBVIOUS
<1>1. mem = [list |-> << >>, bytes |-> 0] /\ mem.list = << >> /\ mem.bytes = 0 /\ clock = 0
  BY DEF Init, FreshMem
<1>2. Len(mem.list) = 0 /\ mem.list \in Seq(Entry)
  BY <1>1
<1>3. TypeOK
  BY <1>1, <1>2 DEF TypeOK
<1>4. TailSorted
  BY <1>1, FreshListSorted DEF TailSorted
<1>5. OlderThanClock
  BY <1>2 DEF OlderThanClock
<1>6. NeverFullEarly
  BY <1>1, SizeOfEmpty DEF NeverFullEarly
<1> QED
  BY <1>3, <1>4, <1>5, <1>6 DEF Inv

LEMMA AddEntryInv ==
  ASSUME Inv, NEW k \in Keys, NEW v \in Values, NEW d \in BOOLEAN, AddEntry(k, v, d)
  PROVE  Inv'
<1> DEFINE e == [key |-> k, val |-> v, ts |-> clock + 1, deleted |-> d]
<1>1. mem.list \in Seq(Entry) /\ mem.bytes \in Int /\ clock \in Nat /\ Len(mem.list) = clock
  BY DEF Inv, TypeOK
<1>2. e \in Entry /\ e.ts = clock + 1
  BY <1>1 DEF Entry
<1>3. mem' = MemPut(mem, e) /\ clock' = clock + 1
  BY DEF AddEntry
<1> HIDE DEF e
<1>4. mem'.list = ListPut(mem.list, e) /\ mem' = [list |-> mem'.list, bytes |-> mem'.bytes]
  BY <1>3 DEF MemPut
<1>5. mem'.list \in Seq(Entry) /\ Len(mem'.list) = Len(mem.list) + 1
  BY <1>1, <1>2, <1>4, ListPutFacts
<1>6. TypeOK'
  <2>1. mem'.bytes \in Int
    BY <1>1, <1>2, <1>3, MemPutBytes
  <2>2. clock' \in Nat /\ Len(mem'.list) = clock'
    BY <1>1, <1>3, <1>5
  <2> QED
    BY <1>4, <1>5, <2>1, <2>2 DEF TypeOK
<1>7. \A i \in 1 .. Len(mem.list) : mem.list[i].ts < e.ts
  BY <1>1, <1>2, EntryFields DEF Inv, OlderThanClock
<1>8. TailSorted'
  BY <1>1, <1>2, <1>4, <1>7, ListPutKeepsTailSorted DEF Inv, TailSorted
<1>9. OlderThanClock'
  <2>1. \A i \in 1 .. Len(mem'.list) :
          mem'.list[i] = e \/ \E j \in 1 .. Len(mem.list) : mem'.list[i] = mem.list[j]
    <3>1. \A i \in 1 .. Len(ListPut(mem.list, e)) :
            \/ ListPut(mem.list, e)[i] = e
            \/ \E j \in 1 .. Len(mem.list) : ListPut(mem.list, e)[i] = mem.list[j]
      BY <1>1, <1>2, ListPutElements
    <3> QED
      BY <1>4, <3>1
  <2>2. \A j \in 1 .. Len(mem.list) : mem.list[j].ts <= clock + 1
    BY <1>1, EntryFields DEF Inv, OlderThanClock
  <2>3. e.ts <= clock + 1
    BY <1>1, <1>2
  <2> QED
    BY <1>3, <2>1, <2>2, <2>3 DEF OlderThanClock
<1>10. NeverFullEarly'
  <2>1. mem.bytes <= SizeOf(mem.list)
    BY DEF Inv, NeverFullEarly
  <2>2. MemPut(mem, e).bytes <= SizeOf(MemPut(mem, e).list)
    BY <1>1, <1>2, <2>1, MemPutCountsNoMore
  <2> QED
    BY <1>3, <2>2 DEF NeverFullEarly
<1> QED
  BY <1>6, <1>8, <1>9, <1>10 DEF Inv

LEMMA FlushInv == Inv /\ FlushToSst => Inv'
<1> SUFFICES ASSUME Inv, FlushToSst
             PROVE  Inv'
  OBVIOUS
<1>1. mem' = [list |-> << >>, bytes |-> 0] /\ mem'.list = << >> /\ mem'.bytes = 0 /\ clock' = 0
  BY DEF FlushToSst, FreshMem
<1>2. Len(mem'.list) = 0 /\ mem'.list \in Seq(Entry)
  BY <1>1
<1>3. TypeOK'
  BY <1>1, <1>2 DEF TypeOK
<1>4. TailSorted'
  BY <1>1, FreshListSorted DEF TailSorted
<1>5. OlderThanClock'
  BY <1>2 DEF OlderThanClock
<1>6. NeverFullEarly'
  BY <1>1, SizeOfEmpty DEF NeverFullEarly
<1> QED
  BY <1>3, <1>4, <1>5, <1>6 DEF Inv

LEMMA NextInv == Inv /\ [Next]_vars => Inv'
<1> SUFFICES ASSUME Inv, [Next]_vars
             PROVE  Inv'
  OBVIOUS
<1>1. ASSUME NEW k \in Keys, NEW v \in Values, Put(k, v)
      PROVE  Inv'
  BY <1>1, AddEntryInv DEF Put
<1>2. ASSUME NEW k \in Keys, Delete(k)
      PROVE  Inv'
  BY <1>2, AddEntryInv, EmptyAssumption DEF Delete
<1>3. CASE FlushToSst
  BY <1>3, FlushInv
<1>4. CASE UNCHANGED vars
  BY <1>4 DEF Inv, TypeOK, TailSorted, OlderThanClock, NeverFullEarly, vars
<1> QED
  BY <1>1, <1>2, <1>3, <1>4 DEF Next

(***************************************************************************)
(* MemTable.put, delete and flush_to_sst keep Inv: the list's order behind *)
(* its first node, that no entry is newer than the clock, and that the     *)
(* size counted is no more than the size held.                             *)
(***************************************************************************)
THEOREM Invariant == Spec => []Inv
  BY InitInv, NextInv, PTL DEF Spec

(***************************************************************************)
(* MemTable.put and flush_to_sst keep the state of its type.               *)
(***************************************************************************)
THEOREM TypeCorrect == Spec => []TypeOK
<1>1. Inv => TypeOK
  BY DEF Inv
<1> QED
  BY <1>1, Invariant, PTL

(***************************************************************************)
(* Behind the first node the skip list stays sorted by key, and newest     *)
(* first within a key, whatever is put and deleted.                        *)
(***************************************************************************)
THEOREM TailAlwaysSorted == Spec => []TailSorted
<1>1. Inv => TailSorted
  BY DEF Inv
<1> QED
  BY <1>1, Invariant, PTL

(***************************************************************************)
(* A flush at any moment serves the entry a lookup finds, for every key a  *)
(* lookup finds.                                                           *)
(***************************************************************************)
THEOREM FlushAlwaysPreservesLookups == Spec => []FlushPreservesLookups
<1>1. Inv => FlushPreservesLookups
  BY ImageOfFound DEF Inv, TypeOK, TailSorted, FlushPreservesLookups
<1> QED
  BY <1>1, Invariant, PTL

(***************************************************************************)
(* A put key is found unless it is the first node's and a smaller key      *)
(* follows it.                                                             *)
(***************************************************************************)
THEOREM OnlyFirstKeyEverHidden == Spec => []OnlyFirstKeyHidden
<1>1. Inv => OnlyFirstKeyHidden
  BY HiddenIsFirst DEF Inv, TypeOK, TailSorted, OnlyFirstKeyHidden
<1> QED
  BY <1>1, Invariant, PTL

(***************************************************************************)
(* is_full never comes too early: _current_size, from which put takes the  *)
(* size of an entry that stays in the list, never exceeds the bytes of     *)
(* what the list holds.                                                    *)
(***************************************************************************)
THEOREM NeverEarlyFull == Spec => []NeverFullEarly
<1>1. Inv => NeverFullEarly
  BY DEF Inv
<1> QED
  BY <1>1, Invariant, PTL
===============================================================================
