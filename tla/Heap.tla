-------------------------------- MODULE Heap --------------------------------
(***************************************************************************)
(* What the block allocator promises: every live allocation is an interval *)
(* of blocks of its own, and only its owner or a reset ends it.            *)
(***************************************************************************)
EXTENDS Naturals

CONSTANT TotalBlocks

Blocks == 0 .. TotalBlocks - 1

VARIABLE allocs   \* first block of each live allocation |-> its length

Span(s, n) == s .. s + n - 1

Init == allocs = << >>

Alloc(s, n) ==
  /\ s \notin DOMAIN allocs
  /\ Span(s, n) \subseteq Blocks
  /\ \A r \in DOMAIN allocs : Span(s, n) \cap Span(r, allocs[r]) = {}
  /\ allocs' = [r \in DOMAIN allocs \cup {s} |-> IF r = s THEN n ELSE allocs[r]]

Free(s) ==
  /\ s \in DOMAIN allocs
  /\ allocs' = [r \in DOMAIN allocs \ {s} |-> allocs[r]]

Reset == allocs' = << >>

Next ==
  \/ \E s \in Blocks, n \in 1 .. TotalBlocks : Alloc(s, n)
  \/ \E s \in Blocks : Free(s)
  \/ Reset

Spec == Init /\ [][Next]_allocs
=============================================================================
