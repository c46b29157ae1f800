----------------------------- MODULE MCFreeList -----------------------------
(***************************************************************************)
(* Contents for FreeList.  A block has 60 bytes for its client after the   *)
(* size word: a request of 60 fills one block to the last byte, one of 121 *)
(* needs two and reaches into the footer.                                  *)
(***************************************************************************)
EXTENDS FreeList

\* Inside a buffer anything may stand, also what looks like a free run.
AnyWords == {FreeWord(1)}

\* The last word of a dict entry is nextHash, an offset into the region: its
\* highest bit is 0 in every region of less than 2 GiB.
EntryWords == {UsedWord(1)}

\* The last word of a raw buffer of Dict::Alloc is its user's own data.
RawWords == {FreeWord(1)}
=============================================================================
