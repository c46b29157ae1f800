------------------------------ MODULE MCPython ------------------------------
(***************************************************************************)
(* A small instance of Python, with Conversions for the focus "conv": the  *)
(* steps of either leave the other's variables as they are, so that what   *)
(* holds of Python's Spec holds here.                                      *)
(***************************************************************************)
EXTENDS Python

CONSTANTS letter, blank, eacute, nul, k1, k2, k3, v1, v2, none,
          x, y, arr1, arr2, h, i0, c0, z, o1, o2, t1, t2

\* DictStore: two keys share a slot.
SlotOfKey == [k \in {k1, k2, k3} |-> IF k = k3 THEN 1 ELSE 0]

\* PyDict: objects of every class; of others, a number in text, one in binary,
\* and a tag nobody knows.
ObjectsOfAll  == {[cls |-> c, n |-> 1] : c \in PyClasses} \cup {[cls |-> "int", n |-> n] : n \in -2 .. 2}
ForeignValues == {[tag |-> t, data |-> 1] : t \in {1, 2, 9}}
GetDefault    == [cls |-> "default", n |-> 0]

\* BoundVector
Ends      == -4 .. 4
Strides   == {-2, -1, 1, 2, 3}

-----------------------------------------------------------------------------
\* Conversions: scalars; what nests in them once, and optionals and lists of that.
\* C++ has no variant of a type twice, and nanobind none of a void*.
Scalars == {<<k>> : k \in {"signed", "unsigned", "double", "bool", "char", "string",
                           "nullptr", "void*", "class*", "class"}}
Held    == Scalars \ {<<"void*">>}
Once    == {<<"optional", t>> : t \in Held} \cup {<<"list", t>> : t \in Scalars}
           \cup ({<<"variant", t, u>> : t, u \in Held} \ {<<"variant", t, t>> : t \in Held})
           \cup {<<"pair", t, u>> : t, u \in Scalars}
Twice   == {<<k, t>> : k \in {"optional", "list"}, t \in Once}
           \cup {<<"list", <<"pair", <<"optional", t>>, u>>>> : t \in Held, u \in Scalars}

-----------------------------------------------------------------------------
VARIABLES type, convert, cppValue, object
convV == <<type, convert, cppValue, object>>

Conv == INSTANCE Conversions WITH Letters <- {letter}, value <- cppValue,
                                    Types <- Scalars \cup Once \cup Twice

MCInit == Init /\ Conv!Init
MCNext == \/ Next /\ UNCHANGED convV
          \/ focus = "conv" /\ Conv!Call /\ UNCHANGED vars
MCSpec == MCInit /\ [][MCNext]_<<vars, convV>>

\* Conversions: what comes back from Python, from which casters (nb_cast.h:53-324).
RoundTrip == Conv!RoundTrip
=============================================================================
