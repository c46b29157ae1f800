---------------------------- MODULE Conversions ----------------------------
(***************************************************************************)
(* What the casters of single values make of a C++ value, and of a Python  *)
(* object: nb_cast.h, stl/string.h, stl/optional.h, stl/variant.h; lists   *)
(* and pairs stand for the containers, whose casters are in Casters.       *)
(* libnanobind's conversion of numbers is external.  A type is a tuple     *)
(* with its kind first, a value or an object one with what it is first.    *)
(* A caster's from_python is noexcept: what a cast throws within it ends   *)
(* the process.                                                            *)
(***************************************************************************)
EXTENDS Integers, Sequences, SequencesExt

CONSTANTS Half,      \* a signed integer is -Half .. Half - 1, an unsigned below 2 * Half
          Letters,   \* the characters of one byte, other than zero
          Types      \* bound: the types, nested how often

VARIABLES type, convert,   \* the type, and whether implicit conversions are allowed
          value,           \* a value of the type
          object           \* what Python gets

convVars == <<type, convert, value, object>>

None == <<"None">>

\* Values: an optional and a variant hold a value, or 1 of the alternatives.
\* Doubles are those that are integers, and a "class" is held by value.
RECURSIVE Values(_)
Values(t) ==
  CASE t[1] = "signed"   -> {<<n>> : n \in -Half .. Half - 1}
    [] t[1] = "unsigned" -> {<<n>> : n \in 0 .. 2 * Half - 1}
    [] t[1] = "double"   -> {<<n>> : n \in 0 .. 1}
    [] t[1] = "bool"     -> {<<n>> : n \in 0 .. 1}
    [] t[1] = "char"     -> {<<c>> : c \in Letters}
    [] t[1] = "string"   -> {<<s>> : s \in SeqOf(Letters, 2)}
    [] t[1] = "nullptr"  -> {<< >>}
    [] t[1] = "class"    -> {<<"instance">>}
    [] t[1] \in {"void*", "class*"} -> {<< >>, <<"pointer">>}
    [] t[1] = "optional" -> {<< >>} \cup {<<v>> : v \in Values(t[2])}
    [] t[1] = "variant"  -> {<<1, v>> : v \in Values(t[2])} \cup {<<2, v>> : v \in Values(t[3])}
    [] t[1] = "list"     -> SeqOf(Values(t[2]), 2)
    [] t[1] = "pair"     -> Values(t[2]) \X Values(t[3])

-----------------------------------------------------------------------------
(* from_cpp *)

RECURSIVE FromCpp(_, _)

PutScalar(t, v) ==
  CASE t \in {"signed", "unsigned"} -> <<"int", v[1]>>
    [] t = "double" -> <<"float", v[1]>>
    [] t = "bool"   -> <<"bool", v[1]>>
    [] t = "char"   -> <<"str", <<v[1]>>>>
    [] t = "string" -> <<"str", v[1]>>
    [] t = "class"  -> <<"instance">>

PutPointer(t, v) ==
  IF v = << >> THEN None ELSE <<IF t = "void*" THEN "capsule" ELSE "instance">>

PutOptional(t, v) == IF v = << >> THEN None ELSE FromCpp(t, v[1])

PutVariant(alternatives, v) == FromCpp(alternatives[v[1]], v[2])

FromCpp(t, v) ==
  CASE t[1] \in {"nullptr", "void*", "class*"} -> PutPointer(t[1], v)
    [] t[1] = "optional" -> PutOptional(t[2], v)
    [] t[1] = "variant"  -> PutVariant(Tail(t), v)
    [] t[1] = "list"     -> <<"list", [n \in DOMAIN v |-> FromCpp(t[2], v[n])]>>
    [] t[1] = "pair"     -> <<"tuple", <<FromCpp(t[2], v[1]), FromCpp(t[3], v[2])>>>>
    [] OTHER             -> PutScalar(t[1], v)

-----------------------------------------------------------------------------
(* from_python and the cast *)

\* A value is loaded; or the object is refused, the cast raises next_overload,
\* or the process terminates.
Loaded(v)  == [how |-> "loaded", value |-> v]
Ended(how) == [how |-> how]
Refused    == Ended("refused")
LoadIf(guard, v) == IF guard THEN Loaded(v) ELSE Refused

\* A cast within a from_python, which is noexcept.
Within(r) == IF r.how = "raises" THEN Ended("terminates") ELSE r

\* What a new caster holds: the empty optional, alone or in a pair.  Casters of
\* other types hold what they overwrite.
RECURSIVE Fresh(_)
Fresh(t) == IF t[1] = "pair" THEN <<Fresh(t[2]), Fresh(t[3])>> ELSE << >>

\* What a value is that was moved from: strings and lists are empty.
RECURSIVE Moved(_, _)
Moved(t, v) ==
  CASE t[1] = "string" -> << << >> >>
    [] t[1] = "list"   -> << >>
    [] t[1] = "optional" /\ v # << >> -> <<Moved(t[2], v[1])>>
    [] t[1] = "variant" -> <<v[1], Moved(t[1 + v[1]], v[2])>>
    [] t[1] = "pair"    -> <<Moved(t[2], v[1]), Moved(t[3], v[2])>>
    [] OTHER            -> v

\* What a caster holds after its value went into a list: a pair is made of
\* copies, an optional moved.
Left(t, v) == IF t[1] = "pair" THEN v ELSE Moved(t, v)

RECURSIVE FromPython(_, _, _, _)

\* load_i64 and the like: ints in their range and, if conversions are allowed,
\* what has an __int__ but is no float; floats, and with conversions ints.
LoadInt(t, o, conv) ==
  LET range == IF t = "signed" THEN -Half .. Half - 1 ELSE 0 .. 2 * Half - 1 IN
  IF o[1] = "int" \/ (o[1] = "bool" /\ conv) THEN LoadIf(o[2] \in range, <<o[2]>>) ELSE Refused

LoadFloat(o, conv) ==
  IF o[1] = "float" \/ (o[1] \in {"int", "bool"} /\ conv) THEN Loaded(<<o[2]>>) ELSE Refused

LoadBool(o) == IF o[1] = "bool" THEN Loaded(<<o[2]>>) ELSE Refused

\* A char takes any str; its cast wants a C string that ends after one byte.
LoadChar(o) ==
  CASE o[1] # "str"      -> Refused
    [] Len(o[2]) = 1     -> Loaded(o[2])
    [] OTHER             -> Ended("raises")

LoadString(o) == IF o[1] = "str" THEN Loaded(<<o[2]>>) ELSE Refused

\* A void* is taken from a capsule of nanobind's, nullptr from None only.
LoadPointer(t, o) ==
  CASE o = None -> Loaded(<< >>)
    [] (t = "void*" /\ o[1] = "capsule") \/ (t = "class*" /\ o[1] = "instance") -> Loaded(<<"pointer">>)
    [] OTHER -> Refused

\* None is a null pointer, which an object by value is not cast from.
LoadClass(o) ==
  CASE o = None          -> Ended("raises")
    [] o[1] = "instance" -> Loaded(<<"instance">>)
    [] OTHER             -> Refused

\* None leaves the caster as it is.
LoadOptional(t, left, o, conv) ==
  IF o = None THEN Loaded(left)
  ELSE LET r == Within(FromPython(t, Fresh(t), o, conv)) IN
       IF r.how = "loaded" THEN Loaded(<<r.value>>) ELSE r

\* One alternative; an object by value takes no None.
Alternative(n, t, o, conv) ==
  IF t = <<"class">> /\ o = None THEN Refused
  ELSE LET r == Within(FromPython(t, Fresh(t), o, conv)) IN
       IF r.how = "loaded" THEN Loaded(<<n, r.value>>) ELSE r

\* The first alternative that takes the object.
LoadVariant_LastFirst(t, u, o, conv) ==
  LET second == Alternative(2, u, o, conv) IN
  IF second.how = "refused" THEN Alternative(1, t, o, conv) ELSE second

LoadVariant(t, u, o, conv) ==
  LET first == Alternative(1, t, o, conv) IN
  IF first.how = "refused" THEN Alternative(2, u, o, conv) ELSE first

IsSequence(o) == o[1] \in {"list", "tuple"}

\* One caster takes the elements in turn, up to the first that fails.
LoadElement(t, so, o, conv) ==
  IF so.how # "loaded" THEN so
  ELSE LET r == Within(FromPython(t, so.left, o, conv)) IN
       IF r.how = "loaded"
       THEN [how |-> "loaded", value |-> Append(so.value, r.value), left |-> Left(t, r.value)]
       ELSE r

LoadList(t, o, conv) ==
  IF IsSequence(o)
  THEN FoldLeft(LAMBDA so, e : LoadElement(t, so, e, conv),
                [how |-> "loaded", value |-> << >>, left |-> Fresh(t)], o[2])
  ELSE Refused

\* Both casters take their element before either is cast.
LoadPair(t, u, left, o, conv) ==
  IF ~IsSequence(o) THEN Refused
  ELSE IF Len(o[2]) # 2 THEN Refused
  ELSE LET first  == FromPython(t, left[1], o[2][1], conv)
           second == FromPython(u, left[2], o[2][2], conv) IN
       CASE first.how \in {"refused", "terminates"}  -> first
         [] second.how \in {"refused", "terminates"} -> second
         [] "raises" \in {first.how, second.how}     -> Ended("raises")
         [] OTHER -> Loaded(<<first.value, second.value>>)

FromPython(t, left, o, conv) ==
  CASE t[1] \in {"signed", "unsigned"} -> LoadInt(t[1], o, conv)
    [] t[1] = "double"   -> LoadFloat(o, conv)
    [] t[1] = "bool"     -> LoadBool(o)
    [] t[1] = "char"     -> LoadChar(o)
    [] t[1] = "string"   -> LoadString(o)
    [] t[1] \in {"nullptr", "void*", "class*"} -> LoadPointer(t[1], o)
    [] t[1] = "class"    -> LoadClass(o)
    [] t[1] = "optional" -> LoadOptional(t[2], left, o, conv)
    [] t[1] = "variant"  -> LoadVariant(t[2], t[3], o, conv)
    [] t[1] = "list"     -> LoadList(t[2], o, conv)
    [] t[1] = "pair"     -> LoadPair(t[2], t[3], left, o, conv)

-----------------------------------------------------------------------------
Init == type = None /\ convert = FALSE /\ value = << >> /\ object = None

Call ==
  /\ type = None
  /\ type' \in Types /\ convert' \in BOOLEAN
  /\ value' \in Values(type')
  /\ object' = FromCpp(type', value')

-----------------------------------------------------------------------------
\* The values that a value is made of, each with its type.
RECURSIVE Parts(_, _)
Parts(t, v) ==
  {<<t, v>>} \cup
  CASE t[1] = "optional" -> UNION {Parts(t[2], v[n]) : n \in DOMAIN v}
    [] t[1] = "variant"  -> Parts(t[1 + v[1]], v[2])
    [] t[1] = "list"     -> UNION {Parts(t[2], v[n]) : n \in DOMAIN v}
    [] t[1] = "pair"     -> Parts(t[2], v[1]) \cup Parts(t[3], v[2])
    [] OTHER             -> {}

\* An optional that looks empty, after one in the same caster that did not.
RECURSIVE KeepsLast(_, _, _)
KeepsLast(t, v, w) ==
  CASE t[1] = "optional" -> FromCpp(t, v) # None /\ FromCpp(t, w) = None
    [] t[1] = "pair"     -> KeepsLast(t[2], v[1], w[1]) \/ KeepsLast(t[3], v[2], w[2])
    [] OTHER             -> FALSE

\* A list whose caster still holds an earlier element's optional.
IsStale(t, v) ==
  t[1] = "list" /\ \E m, n \in DOMAIN v : m < n /\ KeepsLast(t[2], v[m], v[n])

\* A string of other than one character in a variant that tries a char first.
IsMisfit(t, v) ==
  t = <<"variant", <<"char">>, <<"string">>>> /\ v[1] = 2 /\ Len(v[2][1]) # 1

\* Classes of the objects that a type's values become, and those that an
\* alternative takes.
RECURSIVE ClassesOf(_)
ClassesOf(t) ==
  CASE t[1] \in {"signed", "unsigned"} -> {"int"}
    [] t[1] = "double"            -> {"float"}
    [] t[1] = "bool"              -> {"bool"}
    [] t[1] \in {"char", "string"} -> {"str"}
    [] t[1] = "nullptr"           -> {"None"}
    [] t[1] = "void*"             -> {"None", "capsule"}
    [] t[1] = "class*"            -> {"None", "instance"}
    [] t[1] = "class"             -> {"instance"}
    [] t[1] = "optional"          -> {"None"} \cup ClassesOf(t[2])
    [] t[1] = "variant"           -> ClassesOf(t[2]) \cup ClassesOf(t[3])
    [] t[1] = "list"              -> {"list"}
    [] t[1] = "pair"              -> {"tuple"}

TakenBy(t, conv) ==
  ClassesOf(t) \cup CASE ~conv -> {}
                      [] t[1] \in {"signed", "unsigned"} -> {"bool"}
                      [] t[1] = "double" -> {"int", "bool"}
                      [] OTHER -> {}

\* A part that Python can tell from the type's other values: what is in an
\* optional is not None, and no earlier alternative takes the object.
Distinct(t, v) ==
  CASE t[1] = "optional" -> v = << >> \/ "None" \notin ClassesOf(t[2])
    [] t[1] = "variant"  -> v[1] = 1 \/ TakenBy(t[2], convert) \cap ClassesOf(t[3]) = {}
    [] OTHER             -> TRUE

\* Python's ==, for which numbers are equal whatever their class.
Numbers == {"int", "float", "bool"}

RECURSIVE Same(_, _)
Same(o, p) ==
  CASE {o[1], p[1]} \subseteq Numbers -> o[2] = p[2]
    [] o[1] # p[1]                    -> FALSE
    [] o[1] = "str"                   -> o[2] = p[2]
    [] IsSequence(o) -> Len(o[2]) = Len(p[2]) /\ \A n \in DOMAIN o[2] : Same(o[2][n], p[2][n])
    [] OTHER                          -> TRUE

-----------------------------------------------------------------------------
\* What comes back from Python.
Back == FromPython(type, Fresh(type), object, convert)

\* nb_cast.h:53-324, string.h, optional.h, variant.h, nb_list.h, pair.h: what C++
\* gets is, to Python, the object, and the same value of the same alternative
\* wherever Python can tell the values apart; except for an optional that keeps
\* an earlier element's value, and the process that ends where a char is tried
\* before a string.
RoundTrip ==
  type # None =>
    LET parts == Parts(type, value)
        stale == \E p \in parts : IsStale(p[1], p[2]) IN
    /\ Back.how = IF \E p \in parts : IsMisfit(p[1], p[2]) THEN "terminates" ELSE "loaded"
    /\ Back.how = "loaded" =>
         /\ ~stale => Same(FromCpp(type, Back.value), object)
         /\ (\A p \in parts : Distinct(p[1], p[2])) => (Back.value = value <=> ~stale)

=============================================================================
