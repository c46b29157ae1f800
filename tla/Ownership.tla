----------------------------- MODULE Ownership -----------------------------
(***************************************************************************)
(* Who deletes a C++ object that goes back and forth between C++ and       *)
(* Python in unique_ptrs and shared_ptrs: the casters of stl/unique_ptr.h  *)
(* and stl/shared_ptr.h over the flags of the Python instance, which       *)
(* libnanobind keeps (external).  One object, from its creation on either  *)
(* side to its deletion.  Taking an argument has two steps, from_python    *)
(* and the cast; the casters of other arguments run in between.            *)
(***************************************************************************)
EXTENDS Integers, FiniteSets

CONSTANTS Defaults,    \* variables of type std::unique_ptr<T>
          Nanobinds,   \* variables of type std::unique_ptr<T, nb::deleter<T>>
          MaxRefs      \* bound: references of Python code, shared_ptrs of each kind

Uniques == Defaults \cup Nanobinds

VARIABLES life,       \* "none", "alive" or "deleted"; "twice" if it is deleted again
          inst,       \* the Python instance: "none", "ready" or "relinquished"
          destroys,   \* the instance deletes the object when it goes
          internal,   \* the object lies within the instance
          pyrefs,     \* references of Python code to the instance
          unique,     \* what each unique_ptr deletes with: "null", "cpp" or "python"
          taking,     \* unique_ptr arguments between from_python and the cast
          pyShared,   \* shared_ptrs whose deleter gives up a reference
          cppShared,  \* shared_ptrs that count the object itself
          kept,       \* the instance keeps one of these alive
          aborted     \* libnanobind has found the ownership corrupted

ownVars == <<life, inst, destroys, internal, pyrefs, unique, taking,
             pyShared, cppShared, kept, aborted>>

Init ==
  /\ life = "none" /\ inst = "none" /\ destroys = FALSE /\ internal = FALSE
  /\ pyrefs = 0 /\ unique = [u \in Uniques |-> "null"] /\ taking = {}
  /\ pyShared = 0 /\ cppShared = 0 /\ kept = FALSE /\ aborted = FALSE

By(owner)  == {u \in Uniques : unique[u] = owner}
InstRefs   == pyrefs + Cardinality(By("python")) + pyShared
Shares     == cppShared + IF kept THEN 1 ELSE 0

-----------------------------------------------------------------------------
Delete == life' = IF life = "alive" THEN "deleted" ELSE "twice"

NewInstance(flag) == inst' = "ready" /\ destroys' = flag

\* Python calls the class.
New ==
  /\ life = "none" /\ life' = "alive"
  /\ NewInstance(TRUE) /\ internal' = TRUE /\ pyrefs' = 1
  /\ UNCHANGED <<unique, taking, pyShared, cppShared, kept, aborted>>

MakeUnique(u) ==
  /\ life = "none" /\ life' = "alive"
  /\ unique' = [unique EXCEPT ![u] = "cpp"]
  /\ UNCHANGED <<inst, destroys, internal, pyrefs, taking, pyShared, cppShared, kept, aborted>>

MakeShared ==
  /\ life = "none" /\ life' = "alive" /\ cppShared' = 1
  /\ UNCHANGED <<inst, destroys, internal, pyrefs, unique, taking, pyShared, kept, aborted>>

\* The last reference to the instance goes: it deletes the object if it is its
\* to delete, or gives up the shared_ptr it has kept.
InstanceDies ==
  /\ inst' = "none" /\ destroys' = FALSE /\ kept' = FALSE
  /\ IF destroys \/ (kept /\ cppShared = 0) THEN Delete ELSE UNCHANGED life

LastRef == InstRefs = 1

RefGone == IF LastRef THEN InstanceDies ELSE UNCHANGED <<inst, destroys, kept, life>>

DropRef ==
  /\ pyrefs > 0 /\ (taking = {} \/ pyrefs > 1)   \* the caller keeps its arguments
  /\ pyrefs' = pyrefs - 1 /\ RefGone
  /\ UNCHANGED <<internal, unique, taking, pyShared, cppShared, aborted>>

CopyRef ==
  /\ 0 < pyrefs /\ pyrefs < MaxRefs /\ pyrefs' = pyrefs + 1
  /\ UNCHANGED <<life, inst, destroys, internal, unique, taking, pyShared, cppShared, kept, aborted>>

-----------------------------------------------------------------------------
(* unique_ptr *)

\* nb_type_get takes instances that are ready only.
FromPython(u) ==
  /\ inst = "ready" /\ pyrefs > 0 /\ u \notin taking /\ unique[u] = "null"
  /\ taking' = taking \cup {u}
  /\ UNCHANGED <<life, inst, destroys, internal, pyrefs, unique, pyShared, cppShared, kept, aborted>>

\* nb_type_relinquish_ownership; C++ can delete what was allocated on its own
\* and belongs to the instance.
MayRelinquish(u) == inst = "ready" /\ (u \in Defaults => destroys /\ ~internal)

\* No one asks whether shared_ptrs made from the instance exist.
Cast(u) ==
  /\ u \in taking /\ taking' = taking \ {u}
  /\ IF MayRelinquish(u)
     THEN /\ inst' = "relinquished"
          /\ destroys' = (destroys /\ u \notin Defaults)
          /\ unique' = [unique EXCEPT ![u] = IF u \in Defaults THEN "cpp" ELSE "python"]
          /\ UNCHANGED aborted
     ELSE aborted' = TRUE /\ UNCHANGED <<inst, destroys, unique>>
  /\ UNCHANGED <<life, internal, pyrefs, pyShared, cppShared, kept>>

OwnedByCpp(u) == unique[u] = "cpp"

Released_NotReset(u) == UNCHANGED <<unique, life>>

\* value.release(), or value.reset() with the deleter that gives up a reference.
Released(u) == unique' = [unique EXCEPT ![u] = "null"] /\ UNCHANGED life

\* from_cpp: the instance gets, or gets back, what the unique_ptr owned.
UniqueToPython(u) ==
  /\ unique[u] # "null" /\ pyrefs < MaxRefs
  /\ inst' = "ready" /\ pyrefs' = pyrefs + 1
  /\ destroys' = (destroys \/ OwnedByCpp(u))
  /\ Released(u)
  /\ UNCHANGED <<internal, taking, pyShared, cppShared, kept, aborted>>

\* The deleter.
DropUnique(u) ==
  /\ unique[u] # "null"
  /\ unique' = [unique EXCEPT ![u] = "null"]
  /\ IF OwnedByCpp(u) THEN Delete /\ UNCHANGED <<inst, destroys, kept>> ELSE RefGone
  /\ UNCHANGED <<internal, pyrefs, taking, pyShared, cppShared, aborted>>

-----------------------------------------------------------------------------
(* shared_ptr *)

SharedFromPython ==
  /\ inst = "ready" /\ pyrefs > 0 /\ pyShared < MaxRefs
  /\ pyShared' = pyShared + 1
  /\ UNCHANGED <<life, inst, destroys, internal, pyrefs, unique, taking, cppShared, kept, aborted>>

DropPyShared ==
  /\ pyShared > 0 /\ pyShared' = pyShared - 1 /\ RefGone
  /\ UNCHANGED <<internal, pyrefs, unique, taking, cppShared, aborted>>

CopyShared ==
  /\ 0 < cppShared /\ cppShared < MaxRefs /\ cppShared' = cppShared + 1
  /\ UNCHANGED <<life, inst, destroys, internal, pyrefs, unique, taking, pyShared, kept, aborted>>

DropShared ==
  /\ cppShared > 0 /\ cppShared' = cppShared - 1
  /\ IF Shares = 1 THEN Delete ELSE UNCHANGED life
  /\ UNCHANGED <<inst, destroys, internal, pyrefs, unique, taking, pyShared, kept, aborted>>

\* from_cpp by reference finds the instance or makes one; only a new one is
\* told to keep a copy of the shared_ptr alive.
SharedToPython ==
  /\ cppShared > 0 \/ pyShared > 0
  /\ pyrefs < MaxRefs /\ pyrefs' = pyrefs + 1
  /\ IF inst = "none" THEN NewInstance(FALSE) /\ kept' = TRUE ELSE UNCHANGED <<inst, destroys, kept>>
  /\ UNCHANGED <<life, internal, unique, taking, pyShared, cppShared, aborted>>

Next ==
  /\ ~aborted
  /\ \/ New \/ MakeShared \/ DropRef \/ CopyRef
     \/ SharedFromPython \/ DropPyShared \/ CopyShared \/ DropShared \/ SharedToPython
     \/ \E u \in Uniques : \/ MakeUnique(u) \/ FromPython(u) \/ Cast(u)
                           \/ UniqueToPython(u) \/ DropUnique(u)
-----------------------------------------------------------------------------
\* Those who will delete the object.
Owners == (IF destroys THEN {"instance"} ELSE {}) \cup By("cpp")
          \cup (IF Shares > 0 THEN {"shares"} ELSE {})

\* A std::unique_ptr has taken the object from an instance, and deleted it.
TakenAndDeleted == life = "deleted" /\ inst = "relinquished" /\ ~destroys

\* unique_ptr.h:32-39, 92-135, shared_ptr.h:27-51, 93-129: however the object is
\* handed over and back, it has exactly one owner that will delete it while it
\* lives and none afterwards; an instance Python may use and a unique_ptr lead to a
\* living object, and so does a shared_ptr made from the instance unless a
\* std::unique_ptr, made from it too, has deleted the object under it.
OneOwner ==
  /\ life = "alive" => Cardinality(Owners) = 1
  /\ life # "alive" => Owners = {}
  /\ life # "twice"
  /\ inst = "ready" \/ (\E u \in Uniques : unique[u] # "null") => life = "alive"
  /\ pyShared > 0 => life = "alive" \/ TakenAndDeleted
=============================================================================
