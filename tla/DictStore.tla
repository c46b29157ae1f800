----------------------------- MODULE DictStore -----------------------------
(***************************************************************************)
(* DictStore (dict_store.cpp) over HashIndex (hash_index.hpp): the table   *)
(* of slots and the entries, as they lie in the region.  A slot holds the  *)
(* offset of the first entry of its chain and an entry, in its last word,  *)
(* the offset of the next; 0 ends a chain.  The blocks of an entry that is *)
(* freed keep their bytes until they are allocated again.  One process at  *)
(* a time is here: SharedDict has the locks that see to that, and uses the *)
(* chains as the sequences that Chain says they are.                       *)
(***************************************************************************)
EXTENDS Integers, Sequences, SequencesExt, FiniteSetsExt

CONSTANTS Keys, Vals,
          HASH_SLOTS,
          SlotOf,    \* FNV-1a modulo HASH_SLOTS
          Blocks,    \* indexes of the allocator's blocks; an entry takes one
          NoEntry    \* what a block holds before its first use

Slots == 0 .. HASH_SLOTS - 1

\* Offset of the entry in block b: it follows the 4 bytes of the block's header.
OffsetOf(b) == 64 * b + 4
Offsets == {OffsetOf(b) : b \in Blocks}

VARIABLES table,    \* the offset in each slot
          mem,      \* the entry at each offset: its key, value and next offset
          taken,    \* offsets of allocated blocks
          map       \* ghost: the values the keys should have

storeVars == <<table, mem, taken, map>>

Absent == "absent"

Init ==
  /\ table = [s \in Slots |-> 0]
  /\ mem = [o \in Offsets |-> NoEntry]
  /\ taken = {}
  /\ map = [k \in Keys |-> Absent]

\* The offsets the loop over the chain of slot s passes, and how they end:
\* Hop(s)[n] is bi after n rounds.  No loop of the code counts its rounds; a
\* chain longer than there are blocks would be one that does not end.
Hop(s) ==
  LET hop[n \in 0 .. Cardinality(Offsets)] ==
        IF n = 0 THEN table[s]
        ELSE IF hop[n - 1] = 0 THEN 0 ELSE mem[hop[n - 1]].next
  IN hop

Rounds(s) == {n \in DOMAIN Hop(s) : Hop(s)[n] # 0}

Chain(s) == [i \in 1 .. Cardinality(Rounds(s)) |-> Hop(s)[i - 1]]

IsKey(o, k) == mem[o].key = k

\* The rounds in which the loop meets k; it stops in the first.
Meets(k) == {n \in Rounds(SlotOf[k]) : IsKey(Hop(SlotOf[k])[n], k)}

FindKey(k) == IF Meets(k) = {} THEN 0 ELSE Hop(SlotOf[k])[Min(Meets(k))]

\* The slot, or the last word of the entry before, gets the offset of the next.
Unhook_AlwaysHead(k) ==
  /\ table' = [table EXCEPT ![SlotOf[k]] = mem[FindKey(k)].next]
  /\ UNCHANGED mem

Unhook(k) ==
  LET next == mem[FindKey(k)].next
      n    == Min(Meets(k))
  IN IF n = 0
     THEN table' = [table EXCEPT ![SlotOf[k]] = next] /\ UNCHANGED mem
     ELSE /\ mem' = [mem EXCEPT ![Hop(SlotOf[k])[n - 1]].next = next]
          /\ UNCHANGED table

RemoveKey(k) ==
  /\ FindKey(k) # 0
  /\ Unhook(k)
  /\ taken' = taken \ {FindKey(k)}
  /\ map' = [map EXCEPT ![k] = Absent]

LinkEntry_KeepsNext(k, v, o) ==
  /\ mem' = [mem EXCEPT ![o] =
              [key |-> k, val |-> v, next |-> IF mem[o] = NoEntry THEN 0 ELSE mem[o].next]]
  /\ table' = [table EXCEPT ![SlotOf[k]] = o]

\* The entry is written at o and put before the one the slot held.
LinkEntry(k, v, o) ==
  /\ mem' = [mem EXCEPT ![o] = [key |-> k, val |-> v, next |-> table[SlotOf[k]]]]
  /\ table' = [table EXCEPT ![SlotOf[k]] = o]

\* Set and the counters take the old entry out first: RemoveKey, then Insert.
Insert(k, v, o) ==
  /\ FindKey(k) = 0
  /\ o \notin taken
  /\ LinkEntry(k, v, o)
  /\ taken' = taken \cup {o}
  /\ map' = [map EXCEPT ![k] = v]

\* Clear zeroes the table and the allocator starts anew; the entries stay.
Clear ==
  /\ table' = [s \in Slots |-> 0]
  /\ taken' = {}
  /\ map' = [k \in Keys |-> Absent]
  /\ UNCHANGED mem

Next ==
  \/ \E k \in Keys : RemoveKey(k)
  \/ \E k \in Keys, v \in Vals, o \in Offsets : Insert(k, v, o)
  \/ Clear
-----------------------------------------------------------------------------
KeysIn(s) == [i \in DOMAIN Chain(s) |-> mem[Chain(s)[i]].key]

CollectKeys ==
  LET out[n \in 0 .. HASH_SLOTS] == IF n = 0 THEN << >> ELSE out[n - 1] \o KeysIn(n - 1)
  IN out[HASH_SLOTS]

\* Whatever bytes the freed entries leave behind, lookup and listing see
\* exactly the map: a key has its last value, or is not found, and Keys lists
\* each key once.
StoreIsMap ==
  /\ \A k \in Keys : IF FindKey(k) = 0 THEN map[k] = Absent ELSE map[k] = mem[FindKey(k)].val
  /\ ToSet(CollectKeys) = {k \in Keys : map[k] # Absent}
  /\ IsInjective(CollectKeys)

\* Every chain ends, no two share an entry, and together they hold exactly
\* the allocated blocks: no link leads into memory the allocator may hand out.
ChainsHoldTaken ==
  /\ \A s \in Slots : Hop(s)[Cardinality(Offsets)] = 0
  /\ UNION {ToSet(Chain(s)) : s \in Slots} = taken
  /\ \A s, t \in Slots : s # t => ToSet(Chain(s)) \cap ToSet(Chain(t)) = {}
=============================================================================
