------------------------------- MODULE Python -------------------------------
(***************************************************************************)
(* The sequential components around the shared dictionary: its chains in   *)
(* memory, the Python binding, the string functions, and nanobind's parts. *)
(* They share no state.  A behaviour picks one of them in focus and leaves *)
(* the others in their initial state, so that one run checks them all.     *)
(* Conversions, whose types are recursive, joins them in MCPython.         *)
(***************************************************************************)
EXTENDS Integers, FiniteSets

CONSTANTS
  StoreKeys, Vals, HASH_SLOTS, SlotOf, Blocks, NoEntry,                 \* DictStore
  Width, Chars, Blanks, Nul, Wide, MaxText,                        \* SimdOps
  Handles, PyKeys, Half, Default, PyObjects, Foreign,              \* PyDict
  Objects, Arrays, Raws, Items, Caches, Outer, Plain, Tensors, NullRef, MaxDepth,  \* ObjectRefs
  MaxElems, ArraySize,                                             \* Casters
  Names, MaxGiven, MaxSpread,                                      \* Calls
  Elems, Bounds, Steps, MaxSize,                                   \* BoundVector
  MaxKey,                                                          \* Iterators
  Defaults, Nanobinds, MaxRefs                                     \* Ownership

VARIABLES focus,
          table, mem, taken, map,
          call, answer,
          store, open, alive, py, last,
          ptr, refs, stack,
          job, at, idx, partRefs, within, temp, error, value,
          given, method, next, args, kwnames, nargs, nkwargs, argRefs, received, fixed,
          passed, overload, casting, called, skipped, takenArgs,
          vec, list, got, parted,
          keys, it, firstOrDone, seen, steady, done, lost, broken, maker, held, exist,
          life, inst, destroys, internal, pyrefs, unique, taking, pyShared,
          cppShared, kept, aborted

storeV == <<table, mem, taken, map>>
simdV  == <<call, answer>>
dictV  == <<store, open, alive, py, last>>
refsV  == <<ptr, refs, stack>>
castV  == <<job, at, idx, partRefs, within, temp, error, value>>
callV  == <<given, method, next, args, kwnames, nargs, nkwargs, argRefs, received, fixed,
            passed, overload, casting, called, skipped, takenArgs>>
vecV   == <<vec, list, got, parted>>
iterV  == <<keys, it, firstOrDone, seen, steady, done, lost, broken, maker, held, exist>>
ownV   == <<life, inst, destroys, internal, pyrefs, unique, taking, pyShared,
            cppShared, kept, aborted>>

-----------------------------------------------------------------------------
Store == INSTANCE DictStore WITH Keys <- StoreKeys
Simd  == INSTANCE SimdOps WITH MaxLen <- MaxText
Dict  == INSTANCE PyDict WITH Keys <- PyKeys, Objects <- PyObjects
Refs  == INSTANCE ObjectRefs WITH Null <- NullRef
Cast  == INSTANCE Casters WITH MaxLen <- MaxElems, i <- idx, Size <- ArraySize, refs <- partRefs
Call  == INSTANCE Calls WITH refs <- argRefs, taken <- takenArgs
Vec   == INSTANCE BoundVector
Iter  == INSTANCE Iterators WITH map <- keys, alive <- exist
Own   == INSTANCE Ownership

-----------------------------------------------------------------------------
Components == {"store", "simd", "dict", "refs", "cast", "conv", "call", "vec", "iter", "own"}

Init ==
  /\ focus \in Components
  /\ Store!Init /\ Simd!Init /\ Dict!Init /\ Refs!Init /\ Cast!Init
  /\ Call!Init /\ Vec!Init /\ Iter!Init /\ Own!Init

Next ==
  /\ UNCHANGED focus
  /\ \/ focus = "store" /\ Store!Next
        /\ UNCHANGED <<simdV, dictV, refsV, castV, callV, vecV, iterV, ownV>>
     \/ focus = "simd" /\ Simd!Next
        /\ UNCHANGED <<storeV, dictV, refsV, castV, callV, vecV, iterV, ownV>>
     \/ focus = "dict" /\ Dict!Next
        /\ UNCHANGED <<storeV, simdV, refsV, castV, callV, vecV, iterV, ownV>>
     \/ focus = "refs" /\ Refs!Next
        /\ UNCHANGED <<storeV, simdV, dictV, castV, callV, vecV, iterV, ownV>>
     \/ focus = "cast" /\ Cast!Next
        /\ UNCHANGED <<storeV, simdV, dictV, refsV, callV, vecV, iterV, ownV>>
     \/ focus = "call" /\ Call!Next
        /\ UNCHANGED <<storeV, simdV, dictV, refsV, castV, vecV, iterV, ownV>>
     \/ focus = "vec" /\ Vec!Next
        /\ UNCHANGED <<storeV, simdV, dictV, refsV, castV, callV, iterV, ownV>>
     \/ focus = "iter" /\ Iter!Next
        /\ UNCHANGED <<storeV, simdV, dictV, refsV, castV, callV, vecV, ownV>>
     \/ focus = "own" /\ Own!Next
        /\ UNCHANGED <<storeV, simdV, dictV, refsV, castV, callV, vecV, iterV>>

vars == <<focus, storeV, simdV, dictV, refsV, castV, callV, vecV, iterV, ownV>>
Spec == Init /\ [][Next]_vars

-----------------------------------------------------------------------------
(* What the constants are. *)

\* Holders of references are finitely many and of different kinds; a null
\* pointer is none of them and no object.
ASSUME RefsAssumption ==
  /\ IsFiniteSet(Objects \cup Arrays \cup Raws \cup Items \cup Caches \cup Outer)
  /\ NullRef \notin Objects \cup Arrays \cup Raws \cup Items \cup Caches \cup Outer \cup Plain \cup Tensors
  /\ Items \cap (Objects \cup Arrays) = {}

\* Arrays and tuples that are converted have elements.
ASSUME SizeAssumption == MaxElems \in Nat /\ ArraySize \in 1 .. MaxElems

\* Python objects of the classes that the binding tells apart, each standing for
\* a number, a text or whatever n counts; "other" is pickled.  Others store any
\* tag in a byte, and eight bytes with the tag of an int.
PyClasses == {"str", "bool", "int", "float", "bytes", "other",
              "unpicklable", "surrogate", "endless"}

ASSUME DictAssumption ==
  /\ Half \in Nat \ {0}
  /\ PyObjects \subseteq [cls : PyClasses, n : Int]
  /\ Foreign \subseteq [tag : 0 .. 255, data : Int]
  /\ \A e \in Foreign : e.tag = 5 => e.data \in 0 .. 2 * Half - 1

\* A key has one slot, and a region has finitely many blocks.
ASSUME StoreAssumption ==
  /\ HASH_SLOTS \in Nat
  /\ SlotOf \in [StoreKeys -> Store!Slots]
  /\ Blocks \subseteq Nat /\ IsFiniteSet(Blocks)
  /\ Store!Absent \notin Vals

ASSUME KeyAssumption == MaxKey \in Nat

\* Subscripts are numbers, and no slice has a step of 0.
ASSUME VectorAssumption == Bounds \subseteq Int /\ Steps \subseteq Int \ {0}

\* The zero byte and the blanks are single bytes, as the ASCII characters are,
\* which the two bytes of a wide character are not.
ASSUME TextAssumption ==
  /\ Width \in Nat \ {0} /\ MaxText \in Nat
  /\ Nul \notin Wide /\ Blanks \cap Wide = {}
  /\ \A c \in Chars \cup Blanks \cup {Nul}, d \in Wide : c \notin {Simd!Lead(d), Simd!Cont(d)}

\* How many arguments a call has, and *args and **kwargs each.
ASSUME CallAssumption == MaxGiven \in Nat /\ MaxSpread \in Nat

-----------------------------------------------------------------------------
(* The properties, which the modules state. *)

\* DictStore: lookup and listing see exactly the map (dict_store.cpp:114-223).
StoreIsMap == Store!StoreIsMap
\* DictStore: the chains hold the allocated blocks, each once (dict_store.cpp:145-202).
ChainsHoldTaken == Store!ChainsHoldTaken
\* SimdOps: no chunk boundary and no wide character shows (simd_ops.cpp:8-93).
BytesAreCharacters == Simd!BytesAreCharacters
\* PyDict: the region is the dict its callers have in mind (bindings.cpp:168-301).
ActsLikeDict == Dict!ActsLikeDict
\* ObjectRefs: a count is the number of references to be given back (nb_types.h:205-241).
RefsExact == Refs!RefsExact
\* Casters: to Python all or nothing, and no reference left (stl/detail/nb_list.h:55-75).
NoReferenceLost == Cast!NoReferenceLost
\* Casters: from Python all or nothing, and no exception left (stl/detail/nb_set.h:22-53).
LoadsAllOrNothing == Cast!LoadsAllOrNothing
\* Calls: every argument arrives at its place and name (nb_call.h:30-133).
ArgumentsArrive == Call!ArgumentsArrive
\* Calls: overloads that do not match take no argument (nb_func.h:118-131).
TakenOnlyByMatch == Call!TakenOnlyByMatch
\* BoundVector: a bound vector is a Python list (stl/bind_vector.h:22-209).
ActsLikeList == Vec!ActsLikeList
\* Iterators: each key once, and no step beyond the end (make_iterator.h:55-68).
VisitsOnce == Iter!VisitsOnce
\* Iterators: views and iterators keep their map (stl/bind_map.h:66-168).
MapOutlivesViews == Iter!MapOutlivesViews
\* Ownership: one owner deletes the object, once (stl/unique_ptr.h:32-135).
OneOwner == Own!OneOwner
=============================================================================
