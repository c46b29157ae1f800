----------------------------- MODULE Iterators -----------------------------
(***************************************************************************)
(* Iteration over a std::map that bind_map has made a Python class of:     *)
(* the state of make_iterator, the views of keys, values and items, and    *)
(* what keeps the map alive for them, while Python code goes on changing   *)
(* the map and dropping references.  Nothing keeps it from erasing the     *)
(* element that an iterator is at.                                         *)
(***************************************************************************)
EXTENDS Integers, Sequences, SequencesExt, FiniteSets, FiniteSetsExt

CONSTANTS MaxKey    \* bound: keys are 1 .. MaxKey

Keys  == 1 .. MaxKey
End   == MaxKey + 1
Wraps == {"map", "view", "iterator", "element"}    \* Python objects

VARIABLES map,      \* keys in the std::map
          it,       \* position of the iterator, a key or End
          firstOrDone,
          seen,     \* ghost: keys returned since the iterator was made
          steady,   \* ghost: keys that have been in the map since
          done,     \* ghost: the iterator has stopped once
          lost,     \* ghost: an element has been erased that an iterator is at
          broken,   \* the iterator has gone beyond the end or from an erased element
          maker,    \* whose __iter__ has made the iterator
          held,     \* references of Python code
          alive     \* Python objects that exist

iterVars == <<map, it, firstOrDone, seen, steady, done, lost, broken, maker, held, alive>>

Init ==
  /\ map = {} /\ it = End /\ firstOrDone = TRUE
  /\ seen = << >> /\ steady = {} /\ done = FALSE /\ lost = FALSE /\ broken = FALSE
  /\ maker = "map" /\ held = {"map"} /\ alive = {"map"}

-----------------------------------------------------------------------------
(* keep_alive<0, 1> of keys, values, items and __iter__; what __next__ returns *)
(* is a reference_internal of the iterator.                                    *)

KeptBy_ViewForgotten(w) == CASE w = "iterator" -> maker
                             [] w = "element"  -> "iterator"
                             [] OTHER          -> w
KeptBy(w) == CASE w = "view"     -> "map"
               [] w = "iterator" -> maker
               [] w = "element"  -> "iterator"
               [] OTHER          -> w

Reached(ws) ==
  LET one == ws \cup {KeptBy(w) : w \in ws}
      two == one \cup {KeptBy(w) : w \in one}
  IN two \cup {KeptBy(w) : w \in two}

Make(w) == held' = held \cup {w} /\ alive' = alive \cup {w}

Drop(w) ==
  /\ w \in held
  /\ held' = held \ {w}
  /\ alive' = Reached(held \ {w})
  /\ UNCHANGED <<map, it, firstOrDone, seen, steady, done, lost, broken, maker>>

MakeView ==
  /\ "map" \in held /\ "view" \notin alive
  /\ Make("view")
  /\ UNCHANGED <<map, it, firstOrDone, seen, steady, done, lost, broken, maker>>

-----------------------------------------------------------------------------
(* make_iterator *)

After(p) == Min({k \in map : k > p} \cup {End})

\* __iter__ of the map or of a view: begin(), end() and true.
MakeIterator ==
  /\ "iterator" \notin alive
  /\ maker' \in {"map", "view"} \cap held
  /\ Make("iterator")
  /\ it' = After(0) /\ firstOrDone' = TRUE
  /\ seen' = << >> /\ steady' = map /\ done' = FALSE /\ lost' = FALSE
  /\ UNCHANGED <<map, broken>>

Advanced == IF firstOrDone THEN it ELSE After(it)

StopsHere_Forgets == UNCHANGED firstOrDone
StopsHere == firstOrDone' = TRUE

\* What comes of an erased element, and of going beyond the end, is undefined.
IterNext ==
  /\ "iterator" \in held
  /\ broken' = (lost \/ (~firstOrDone /\ it = End))
  /\ IF lost THEN UNCHANGED <<it, firstOrDone, seen, done, held, alive>>
     ELSE /\ it' = Advanced
          /\ IF Advanced = End
             THEN StopsHere /\ done' = TRUE /\ UNCHANGED <<seen, held, alive>>
             ELSE /\ firstOrDone' = FALSE /\ seen' = Append(seen, Advanced)
                  /\ Make("element") /\ UNCHANGED done
  /\ UNCHANGED <<map, steady, lost, maker>>

-----------------------------------------------------------------------------
(* bind_map's methods *)

Usable == "map" \in held

\* The iterator is at one of these.
At(ks) == "iterator" \in alive /\ it \in ks

Erased(ks) == lost' = (lost \/ At(ks))

\* map_set of keys, one by __setitem__ or another map's by update: a value that is
\* there already is assigned or, if its class has no assignment, its element erased
\* and put in again; which of these is left open.
SetItems(ks) ==
  /\ Usable
  /\ map' = map \cup ks
  /\ \E erased \in {{}, ks \cap map} : Erased(erased)
  /\ UNCHANGED <<it, firstOrDone, seen, steady, done, broken, maker, held, alive>>

\* m.update(m): if it erases elements, its loop is at them.
UpdateBySelf ==
  /\ Usable
  /\ broken' \in {FALSE, map # {}} /\ lost' = (lost \/ broken')
  /\ UNCHANGED <<map, it, firstOrDone, seen, steady, done, maker, held, alive>>

DelItem(k) ==
  /\ Usable /\ k \in map
  /\ map' = map \ {k} /\ steady' = steady \ {k} /\ Erased({k})
  /\ UNCHANGED <<it, firstOrDone, seen, done, broken, maker, held, alive>>

Clear ==
  /\ Usable
  /\ map' = {} /\ steady' = {} /\ Erased(map)
  /\ UNCHANGED <<it, firstOrDone, seen, done, broken, maker, held, alive>>

\* Bound: what is undefined is not followed further.
Next ==
  /\ ~broken
  /\ \/ MakeView \/ MakeIterator \/ IterNext \/ Clear \/ UpdateBySelf
     \/ \E w \in Wraps : Drop(w)
     \/ \E k \in Keys : DelItem(k)
     \/ \E ks \in SUBSET Keys : SetItems(ks)
-----------------------------------------------------------------------------
\* make_iterator.h:55-68, bind_map.h:26-35, 66-168: whatever else is put into the
\* map or taken out on the way, an iterator returns no key twice, has returned
\* every key that was there all along when it stops, then stops again and again,
\* and is never pushed beyond the end; only when the element it is at is erased,
\* by deletion or by setting a value that cannot be assigned, is it broken.
VisitsOnce ==
  /\ \A n \in 1 .. Len(seen) - 1 : seen[n] < seen[n + 1]
  /\ done => steady \subseteq ToSet(seen) /\ it = End
  /\ broken => lost

\* bind_map.h:66-71, 132-166: through whatever Python keeps of a map, be it a
\* view, an iterator made from a view or an element an iterator has returned,
\* the map it goes back to still exists.
MapOutlivesViews == held # {} => "map" \in alive
=============================================================================
