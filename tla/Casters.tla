------------------------------ MODULE Casters ------------------------------
(***************************************************************************)
(* The casters of containers (stl/detail/nb_list.h, nb_array.h, nb_dict.h, *)
(* nb_set.h, stl/pair.h, stl/tuple.h) and make_tuple, in both directions:  *)
(* one conversion, element by element, in which every call of the Python   *)
(* API and every element's own caster may fail.  refs are the references   *)
(* to the Python objects of the elements that the conversion has to answer *)
(* for; the elements' casters are Conversions.                             *)
(***************************************************************************)
EXTENDS Integers, Sequences, FiniteSets

CONSTANTS MaxLen,    \* bound: elements of a container
          Size       \* of the arrays and tuples; Size <= MaxLen

Kinds  == {"list", "array", "dict", "set", "tuple", "make_tuple"}
Fixed  == {"array", "tuple", "make_tuple"}
Parts  == (1 .. MaxLen) \X {"key", "value"}

VARIABLES job,       \* the conversion: direction, kind, number of elements
          at,        \* where it is: "new", "fill", "close", or how it ended
          i,         \* the element it is at
          refs,      \* references to each part of an element
          within,    \* from_cpp: the parts in the container, or in the locals of a tuple
          temp,      \* from_python: references to the list or iterator made for it
          error,     \* a Python exception is set
          value      \* from_python: the elements of the C++ container

castVars == <<job, at, i, refs, within, temp, error, value>>

PartsOf(e) == {e} \X (IF job.kind = "dict" THEN {"key", "value"} ELSE {"key"})
AllParts   == UNION {PartsOf(e) : e \in 1 .. job.n}

Init ==
  /\ job = [dir |-> "none", kind |-> "none", n |-> 0]
  /\ at = "idle" /\ i = 1
  /\ refs = [p \in Parts |-> 0]
  /\ within = {} /\ temp = 0 /\ error = FALSE /\ value = << >>

\* A caster of a container of containers is used for one element after the
\* other: its value may still be what was left when the last was moved out.
Begin(dir, kind, n) ==
  /\ at = "idle"
  /\ kind \in Fixed /\ dir = "from_cpp" => n = Size
  /\ kind = "make_tuple" => dir = "from_cpp"
  /\ job' = [dir |-> dir, kind |-> kind, n |-> n]
  /\ at' = IF dir = "from_cpp" /\ kind = "tuple" THEN "fill" ELSE "new"
  /\ value' \in {<< >>, <<0>>}
  /\ UNCHANGED <<i, refs, within, temp, error>>

Goes(dir, where) == job.dir = dir /\ at = where

-----------------------------------------------------------------------------
(* from_cpp *)

Gain(parts, by) == refs' = [p \in Parts |-> refs[p] + IF p \in parts THEN by ELSE 0]

\* PyList_New, PyDict_New, PySet_New and PyTuple_New return null when memory is
\* out.  make_tuple does not look: it would write through the null pointer.
NewContainer ==
  /\ Goes("from_cpp", "new")
  /\ at' \in {"fill", IF job.kind = "make_tuple" THEN "crashed" ELSE "null"}
  /\ UNCHANGED <<job, i, refs, within, temp, error, value>>

\* ret.reset() or the destructors of the locals: what is within is released.
GivesUp(parts) ==
  /\ at' = "null"
  /\ Gain(parts, -1)
  /\ within' = within \ parts
  /\ UNCHANGED <<job, i, temp, error, value>>

NextElement == UNCHANGED <<job, at, temp, error, value>> /\ i' = i + 1

Filling == Goes("from_cpp", "fill") /\ i <= job.n

\* NB_LIST_SET_ITEM takes over the reference that the element's caster returned.
StealElement ==
  /\ Filling /\ job.kind \in {"list", "array"}
  /\ \/ Gain(PartsOf(i), 1) /\ within' = within \cup PartsOf(i) /\ NextElement
     \/ GivesUp(within)

AddElement_AsHandles ==
  /\ Filling /\ job.kind \in {"dict", "set"}
  /\ \E made \in SUBSET PartsOf(i), added \in BOOLEAN :
       IF made = PartsOf(i) /\ added
       THEN Gain(made, 2) /\ within' = within \cup made /\ NextElement
       ELSE GivesUp(within)

\* PyDict_SetItem and PySet_Add add references of their own; the locals give
\* theirs up at the end of the round, whether both were made or not.
AddElement ==
  /\ Filling /\ job.kind \in {"dict", "set"}
  /\ \E made \in SUBSET PartsOf(i), added \in BOOLEAN :
       IF made = PartsOf(i) /\ added
       THEN Gain(made, 1) /\ within' = within \cup made /\ NextElement
       ELSE GivesUp(within)

\* The elements of pairs and tuples are converted into locals first.
MakeLocal ==
  /\ Filling /\ job.kind = "tuple"
  /\ \/ Gain(PartsOf(i), 1) /\ within' = within \cup PartsOf(i) /\ NextElement
     \/ GivesUp(within)

\* make_tuple stores null for an element that has no conversion.
SetOrNull ==
  /\ Filling /\ job.kind = "make_tuple"
  /\ \/ Gain(PartsOf(i), 1) /\ within' = within \cup PartsOf(i) /\ NextElement
     \/ NextElement /\ UNCHANGED <<refs, within>>

Filled == Goes("from_cpp", "fill") /\ i > job.n

ReturnContainer ==
  /\ Filled /\ job.kind \notin {"tuple", "make_tuple"}
  /\ at' = "object"
  /\ UNCHANGED <<job, i, refs, within, temp, error, value>>

\* The locals are released into the tuple; nobody looks whether there is one.
ReturnTuple ==
  /\ Filled /\ job.kind = "tuple"
  /\ at' \in {"object", "crashed"}
  /\ UNCHANGED <<job, i, refs, within, temp, error, value>>

\* tuple_check finds the nulls and throws, which destroys the tuple.
CheckTuple ==
  /\ Filled /\ job.kind = "make_tuple"
  /\ IF within = AllParts
     THEN at' = "object" /\ UNCHANGED <<job, i, refs, within, temp, error, value>>
     ELSE GivesUp(within)

-----------------------------------------------------------------------------
(* from_python *)

\* seq_get and seq_get_with_size lend the elements of a list or a tuple and make
\* a list of those of another sequence; PyMapping_Items and obj_iter always make
\* something.  They fail for other objects and leave no exception, but those two.
Open_KeepsValue ==
  /\ Goes("from_python", "new")
  /\ \/ at' = "fill" /\ temp' \in {IF job.kind \in {"dict", "set"} THEN 1 ELSE 0, 1}
     \/ at' = "refused" /\ temp' = 0
  /\ UNCHANGED <<job, i, refs, within, error, value>>

Open ==
  /\ Goes("from_python", "new")
  /\ value' = IF job.kind \in Fixed THEN value ELSE << >>
  /\ \/ /\ job.kind \in Fixed => job.n = Size
        /\ at' = "fill" /\ temp' \in {IF job.kind \in {"dict", "set"} THEN 1 ELSE 0, 1}
     \/ at' = "refused" /\ temp' = 0
  /\ UNCHANGED <<job, i, refs, within, error>>

Store(n) == IF job.kind \in Fixed /\ n <= Len(value) THEN [value EXCEPT ![n] = n]
            ELSE Append(value, n)

Loading == Goes("from_python", "fill") /\ i <= job.n

\* The element's caster takes the object, or the loop ends.
LoadElement ==
  /\ Loading
  /\ \/ value' = Store(i) /\ i' = i + 1 /\ UNCHANGED at
     \/ at' = "close" /\ UNCHANGED <<value, i>>
  /\ UNCHANGED <<job, refs, within, temp, error>>

\* Only an iterator can raise on the way.
NextRaises ==
  /\ Goes("from_python", "fill") /\ job.kind = "set"
  /\ error' = TRUE /\ at' = "close"
  /\ UNCHANGED <<job, i, refs, within, temp, value>>

LoadedAll ==
  /\ Goes("from_python", "fill") /\ i > job.n
  /\ at' = "close"
  /\ UNCHANGED <<job, i, refs, within, temp, error, value>>

\* The temporary is released on every path, and the exception cleared.
CloseTemp ==
  /\ Goes("from_python", "close")
  /\ temp' = 0 /\ error' = FALSE
  /\ at' = IF i > job.n /\ ~error THEN "loaded" ELSE "refused"
  /\ UNCHANGED <<job, i, refs, within, value>>

Next ==
  \/ \E dir \in {"from_cpp", "from_python"}, kind \in Kinds, n \in 0 .. MaxLen : Begin(dir, kind, n)
  \/ NewContainer \/ StealElement \/ AddElement \/ MakeLocal \/ SetOrNull
  \/ ReturnContainer \/ ReturnTuple \/ CheckTuple
  \/ Open \/ LoadElement \/ NextRaises \/ LoadedAll \/ CloseTemp
-----------------------------------------------------------------------------
\* nb_list.h:55-75, nb_dict.h:63-83, nb_set.h:55-72, pair.h:70-87,
\* tuple.h:68-87, nb_cast.h:372-388: whichever call fails, a conversion to
\* Python ends with the whole container, which has one reference to every part,
\* or with null and no reference left.
NoReferenceLost ==
  /\ \A p \in Parts : refs[p] >= IF p \in within THEN 1 ELSE 0
  /\ at = "object" => /\ within = AllParts
                      /\ \A p \in Parts : refs[p] = IF p \in AllParts THEN 1 ELSE 0
  /\ at = "null" => \A p \in Parts : refs[p] = 0

\* nb_list.h:25-53, nb_dict.h:25-61, nb_set.h:22-53, nb_array.h:14-37: a
\* conversion from Python takes all elements in their order and nothing that was
\* in the caster before, or says no; either way it keeps no temporary, and no
\* exception stays set that the next overload would trip over.
LoadsAllOrNothing ==
  /\ at = "loaded" => value = [n \in 1 .. job.n |-> n]
  /\ at \in {"loaded", "refused"} => temp = 0 /\ ~error
=============================================================================
