------------------------------ MODULE FreeList ------------------------------
(***************************************************************************)
(* FreeListAlloc (freelist.cpp): first fit over a singly linked list of    *)
(* free runs of 64-byte blocks, with a size word at the start of a run and *)
(* a copy of it at the end (the footer) so that Free can merge both ways.  *)
(*                                                                         *)
(* The memory is modelled word by word as far as the allocator looks at    *)
(* it: the first word of every block (head), its second word (next) and    *)
(* its last word (foot).  The bytes of a client begin after the head of    *)
(* its run and may reach the last word of the run, which the allocator     *)
(* also uses as the footer; Fill lets the client write them.  Calls are    *)
(* atomic: Dict makes them under its allocator lock (see SharedDict).      *)
(*                                                                         *)
(* A definition named X_Y next to X is X with a plausible mistake in it;   *)
(* no specification uses it, and the README says which property it breaks. *)
(***************************************************************************)
EXTENDS Integers, FiniteSets, FiniteSetsExt, Functions

CONSTANTS TotalBlocks,  \* blocks of the region
          BLOCK_SIZE,   \* bytes of a block (64)
          WordSize,     \* 2^w where the code computes in uint32_t, w = 32
          Requests,     \* sizes in bytes the clients ask for
          InnerWords,   \* what clients may store in the words inside a buffer
          TailWords     \* what they may store in the last word of a run

ASSUME FreeListAssumption ==
  /\ TotalBlocks \in Nat \ {0}
  /\ BLOCK_SIZE \in Nat /\ BLOCK_SIZE >= 12
  /\ WordSize \in Nat /\ WordSize > BLOCK_SIZE
  /\ Requests \subseteq 0 .. WordSize - 1

Blocks == 0 .. TotalBlocks - 1
Links  == -1 .. TotalBlocks - 1

\* A size word: FREE_FLAG is its highest bit, the rest is the number of blocks.
Word     == [free : BOOLEAN, blocks : 0 .. TotalBlocks]
FreeWord(n) == [free |-> TRUE, blocks |-> n]
UsedWord(n) == [free |-> FALSE, blocks |-> n]

VARIABLES head,      \* first word of every block
          next,      \* second word of every block
          foot,      \* last word of every block
          freeHead,  \* m_hdr->freeHead
          live       \* ghost: first block of each live buffer |-> bytes asked for

vars == <<head, next, foot, freeHead, live>>

TypeOK ==
  /\ head \in [Blocks -> Word]
  /\ next \in [Blocks -> Links]
  /\ foot \in [Blocks -> Word]
  /\ freeHead \in Links
  /\ DOMAIN live \subseteq Blocks
  /\ \A i \in DOMAIN live : live[i] \in Requests

-----------------------------------------------------------------------------
(* The words of a run *)

BlocksNeeded_RoundsDown(bytes) == ((bytes + 4) % WordSize) \div BLOCK_SIZE

\* Four bytes of header and rounding up, in uint32_t.
BlocksNeeded(bytes) ==
  ((bytes + 4 + BLOCK_SIZE - 1) % WordSize) \div BLOCK_SIZE

\* Alloc hands out at least one block.
Need(bytes) == Max({1, BlocksNeeded(bytes)})

WriteFooter_Missing(f, i, w) == f

\* The last word of the run at i, as long as w says, becomes w.
WriteFooter(f, i, w) == [f EXCEPT ![i + w.blocks - 1] = w]

-----------------------------------------------------------------------------
(* The free list *)

\* The nodes met from the head of list l, then -1 for ever.
Walk(l) ==
  LET node[k \in 0 .. TotalBlocks] ==
        IF k = 0 THEN l.first
        ELSE LET n == node[k - 1] IN IF n < 0 THEN -1 ELSE l.next[n]
  IN  node

List == [first |-> freeHead, next |-> next]

FreeRuns == {Walk(List)[k] : k \in 0 .. TotalBlocks} \ {-1}

Unlink_Never(l, t) == l

\* REMOVE_FROM_LIST: l without node t, or l itself when t is not in it.
Unlink(l, t) ==
  LET w  == Walk(l)
      at == {k \in 0 .. TotalBlocks : w[k] = t}
  IN  IF at = {} THEN l
      ELSE IF Min(at) = 0 THEN [l EXCEPT !.first = l.next[t]]
      ELSE [l EXCEPT !.next[w[Min(at) - 1]] = l.next[t]]

\* The list with the node at position k replaced by link n, as Alloc does it.
Replace(k, n) ==
  IF k = 0 THEN [first |-> n, next |-> next]
  ELSE [first |-> freeHead, next |-> [next EXCEPT ![Walk(List)[k - 1]] = n]]

-----------------------------------------------------------------------------
(* The operations *)

\* The whole region becomes one free run; the other words keep what they had.
Reset(h, n, f) ==
  /\ head' = [h EXCEPT ![0] = FreeWord(TotalBlocks)]
  /\ next' = [n EXCEPT ![0] = -1]
  /\ foot' = WriteFooter(f, 0, FreeWord(TotalBlocks))
  /\ freeHead' = 0
  /\ live' = << >>

\* A new region: Init(clear = true) over the zeroes of a new file.
Init ==
  /\ head = [[b \in Blocks |-> UsedWord(0)] EXCEPT ![0] = FreeWord(TotalBlocks)]
  /\ next = [[b \in Blocks |-> 0] EXCEPT ![0] = -1]
  /\ foot = WriteFooter([b \in Blocks |-> UsedWord(0)], 0, FreeWord(TotalBlocks))
  /\ freeHead = 0
  /\ live = << >>

\* Dict::Clear runs Init(clear = true) over whatever the region holds.
Clear == Reset(head, next, foot)

\* The positions in the free list whose run is long enough.
Fits(bytes) ==
  {k \in 0 .. TotalBlocks :
     Walk(List)[k] >= 0 /\ head[Walk(List)[k]].blocks >= Need(bytes)}

NewBuffer(i, bytes) ==
  live' = [j \in DOMAIN live \cup {i} |-> IF j = i THEN bytes ELSE live[j]]

RestOf_Beyond(i, need) == i + need + 1

RestOf_Overlaps(i, need) == i + need - 1

\* ri: where the rest of a split run starts.
RestOf(i, need) == i + need

\* First fit in a longer run: its first blocks are handed out, the rest takes
\* its place in the list.
AllocSplit(bytes) ==
  /\ Fits(bytes) # {}
  /\ LET k    == Min(Fits(bytes))
         cu   == Walk(List)[k]
         need == Need(bytes)
         ri   == RestOf(cu, need)
         rem  == head[cu].blocks - need
         l    == Replace(k, ri)
     IN  /\ rem >= 1
         /\ head' = [head EXCEPT ![cu] = UsedWord(need), ![ri] = FreeWord(rem)]
         /\ foot' = WriteFooter(WriteFooter(foot, cu, UsedWord(need)), ri, FreeWord(rem))
         /\ freeHead' = l.first
         /\ next' = [l.next EXCEPT ![ri] = next[cu]]
         /\ NewBuffer(cu, bytes)

\* First fit in a run of exactly the right length: it leaves the list.
AllocWhole(bytes) ==
  /\ Fits(bytes) # {}
  /\ LET k    == Min(Fits(bytes))
         cu   == Walk(List)[k]
         need == Need(bytes)
         l    == Replace(k, next[cu])
     IN  /\ head[cu].blocks = need
         /\ head' = [head EXCEPT ![cu] = UsedWord(need)]
         /\ foot' = WriteFooter(foot, cu, UsedWord(need))
         /\ freeHead' = l.first
         /\ next' = l.next
         /\ NewBuffer(cu, bytes)

\* nullptr: no free run is long enough.
AllocFails(bytes) == Fits(bytes) = {} /\ UNCHANGED vars

MergesBack_Never(i) == FALSE

\* The word before the run says that the run before it is free.
MergesBack(i) == i > 0 /\ foot[i - 1].free

MergesOn_Never(ni) == FALSE

\* The run that starts at ni exists and is free.
MergesOn(ni) == ni < TotalBlocks /\ head[ni].free

\* The run at i is merged with its free neighbours, which leave the list, and
\* the result becomes the head of the list.
Free(i) ==
  /\ i \in DOMAIN live
  /\ LET ri    == IF MergesBack(i) THEN i - foot[i - 1].blocks ELSE i
         ni    == i + head[i].blocks
         back  == IF MergesBack(i) THEN Unlink(List, ri) ELSE List
         l     == IF MergesOn(ni) THEN Unlink(back, ni) ELSE back
         total == (ni - ri) + (IF MergesOn(ni) THEN head[ni].blocks ELSE 0)
     IN  /\ head' = [head EXCEPT ![ri] = FreeWord(total)]
         /\ next' = [l.next EXCEPT ![ri] = l.first]
         /\ foot' = WriteFooter(foot, ri, FreeWord(total))
         /\ freeHead' = ri
         /\ live' = [j \in DOMAIN live \ {i} |-> live[j]]

\* What the last word of a run holds after its client wrote all its bytes: the
\* word t if they cover it, all but the highest byte of t if they reach into it.
LastWord(old, t, bytes, n) ==
  IF bytes + 4 = n * BLOCK_SIZE THEN t
  ELSE IF bytes + 8 > n * BLOCK_SIZE THEN [old EXCEPT !.blocks = t.blocks]
  ELSE old

\* A client writes its whole buffer: the words it covers become w, the last
\* word of the run becomes what LastWord says.
Fill(i, w, t) ==
  /\ i \in DOMAIN live
  /\ LET n    == head[i].blocks
         last == i + n - 1
     IN  /\ live[i] + 4 <= n * BLOCK_SIZE
         /\ head' = [b \in Blocks |-> IF b \in i + 1 .. last THEN w ELSE head[b]]
         /\ next' = [b \in Blocks |-> IF b \in i .. last THEN w.blocks - 1 ELSE next[b]]
         /\ foot' = [b \in Blocks |->
                       IF b = last THEN LastWord(foot[b], t, live[i], n)
                       ELSE IF b \in i .. last THEN w ELSE foot[b]]
  /\ UNCHANGED <<freeHead, live>>

Next ==
  \/ \E bytes \in Requests :
       AllocSplit(bytes) \/ AllocWhole(bytes) \/ AllocFails(bytes)
  \/ \E i \in Blocks : Free(i)
  \/ \E i \in Blocks, w \in InnerWords, t \in TailWords : Fill(i, w, t)
  \/ Clear

Spec == Init /\ [][Next]_vars

-----------------------------------------------------------------------------
(* Status: what the walks over the free list report *)

Nodes == {k \in 0 .. TotalBlocks : Walk(List)[k] >= 0}

UsedBlocks == TotalBlocks - SumFunction([k \in Nodes |-> head[Walk(List)[k]].blocks])

FreeFragments == Cardinality(Nodes)

-----------------------------------------------------------------------------
(* Properties *)

\* The blocks of the run that starts at i.
Span(i) == i .. i + head[i].blocks - 1

Starts == DOMAIN live \cup FreeRuns

\* Every block belongs to exactly one run, and every run is either one live
\* buffer or one node of the free list, which ends and has no node twice: no
\* block is lost and none is handed out while it is in use.
Tiling ==
  /\ Walk(List)[TotalBlocks] = -1
  /\ Cardinality(FreeRuns) = Cardinality(Nodes)
  /\ \A b \in Blocks : \E i \in Starts : b \in Span(i)
  /\ \A i, j \in Starts : i # j => Span(i) \cap Span(j) = {}
  /\ FreeRuns \cap DOMAIN live = {}

\* freelist.cpp:98-99: the last word of a run tells whether the run is free, and
\* how long it is if so; Free relies on it to find the run before its own.
FooterMarksFree ==
  /\ \A i \in FreeRuns : foot[i + head[i].blocks - 1] = head[i] /\ head[i].free
  /\ \A i \in DOMAIN live : ~foot[i + head[i].blocks - 1].free /\ ~head[i].free

Unused == Blocks \ UNION {Span(i) : i \in DOMAIN live}

\* Alloc returns nullptr only when no gap between live buffers is long enough,
\* whatever the order in which the buffers around the gap were freed.
AllocFindsGap ==
  \A bytes \in Requests :
    (\E s \in Blocks : s .. s + Need(bytes) - 1 \subseteq Unused) => Fits(bytes) # {}

\* The run of a live buffer has room for its size word and all its bytes.
BufferFits == \A i \in DOMAIN live : live[i] + 4 <= head[i].blocks * BLOCK_SIZE

\* The first blocks of the maximal gaps between live buffers.
Gaps == {b \in Unused : b - 1 \notin Unused}

\* Status reports the blocks of the live buffers and the number of maximal gaps:
\* what was freed next to each other has been merged (freelist.hpp:20).
StatusExact ==
  /\ UsedBlocks = Cardinality(Blocks \ Unused)
  /\ FreeFragments = Cardinality(Gaps)

Abstract ==
  INSTANCE Heap WITH allocs <- [i \in DOMAIN live |-> head[i].blocks]

\* Splitting, merging, relinking and the clients' writes are invisible outside:
\* live buffers are disjoint intervals that only their Free or a Clear ends.
ImplementsHeap == Abstract!Spec
=============================================================================
