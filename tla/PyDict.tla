------------------------------- MODULE PyDict -------------------------------
(***************************************************************************)
(* Dict as Python sees it (bindings.cpp): objects are turned into a type   *)
(* tag and bytes on their way into the region and back on their way out.   *)
(* One interpreter with several Dict objects of one name, and a C++        *)
(* program, or an older version of this one, that has left values in the   *)
(* formats the binding reads but no longer writes.  A call is one step:    *)
(* SharedDict has what happens inside.  Buffers are not here.              *)
(***************************************************************************)
EXTENDS Integers, FiniteSets

CONSTANTS Handles,    \* Dict objects
          Keys,
          Objects,    \* Python objects: records of a class and a value
          Half,       \* int64 is -Half .. Half - 1
          Foreign,    \* pairs of tag and data that others store
          Default     \* what get returns by default

VARIABLES store,      \* the tag and the data of each key, in the region
          open,       \* the handles that are open
          alive,      \* the interpreter has not crashed
          py,         \* ghost: the dict the callers have in mind
          last        \* the last call and its answer

pyVars == <<store, open, alive, py, last>>

Absent == [tag |-> -1]
Nothing == [cls |-> "nothing", n |-> 0]

-----------------------------------------------------------------------------
(* serialize and deserialize *)

Obj(cls, n) == [cls |-> cls, n |-> n]

Fits(n) == -Half <= n /\ n < Half

IsLong(o) == o.cls \in {"int", "bool"}

\* A str with a lone surrogate has no UTF-8, and int refuses to print too many
\* digits: the code goes on with a null pointer.
IsUndefined(o) == o.cls \in {"surrogate", "endless"}
Raises(o) == o.cls = "unpicklable"
Converts(o) == ~IsUndefined(o) /\ ~Raises(o)

\* The eight bytes of an int64, as the number they are without a sign.
Bytes8(n) == n % (2 * Half)
Signed_Not(b) == b
Signed(b) == IF b < Half THEN b ELSE b - 2 * Half

Serialize(o) ==
  CASE o.cls = "str"          -> [tag |-> 0, data |-> o.n]
    [] IsLong(o) /\ Fits(o.n)  -> [tag |-> 5, data |-> Bytes8(o.n)]
    [] IsLong(o) /\ ~Fits(o.n) -> [tag |-> 1, data |-> o.n]
    [] o.cls = "float"        -> [tag |-> 6, data |-> o.n]
    [] o.cls = "bytes"        -> [tag |-> 3, data |-> o.n]
    [] OTHER                  -> [tag |-> 4, data |-> o.n]

Deserialize(e) ==
  CASE e.tag = 5       -> Obj("int", Signed(e.data))
    [] e.tag = 1       -> Obj("int", e.data)
    [] e.tag \in {2, 6} -> Obj("float", e.data)
    [] e.tag = 3       -> Obj("bytes", e.data)
    [] e.tag = 4       -> Obj("other", e.data)
    [] OTHER           -> Obj("str", e.data)

\* _ReadInt64 and _ReadDouble; stoll refuses what does not fit.
ReadInt64_BinaryOnly(e) == IF e.tag = 5 THEN Signed(e.data) ELSE 0

ReadInt64(e) ==
  CASE e.tag = 5                -> Signed(e.data)
    [] e.tag = 1 /\ Fits(e.data) -> e.data
    [] OTHER                    -> 0

ReadDouble(e) == IF e.tag \in {2, 6} THEN e.data ELSE 0

Wrap(n) == Signed(Bytes8(n))

-----------------------------------------------------------------------------
(* The calls *)

Init ==
  /\ store = [k \in Keys |-> Absent]
  /\ open = {}
  /\ alive = TRUE
  /\ py = [k \in Keys |-> Nothing]
  /\ last = [call |-> "none"]

None == Obj("None", 0)
Error(cls) == Obj(cls, 0)

Answers(d, call, k, a) ==
  last' = [call |-> call, key |-> k, through |-> d \in open, answer |-> a]

Reads == UNCHANGED <<store, open, alive, py>>

Present == {k \in Keys : store[k] # Absent}

Puts(k, e, o) ==
  /\ store' = [store EXCEPT ![k] = e]
  /\ py' = [py EXCEPT ![k] = o]
  /\ UNCHANGED <<open, alive>>

Empties ==
  /\ store' = [k \in Keys |-> Absent]
  /\ py' = [k \in Keys |-> Nothing]
  /\ UNCHANGED <<open, alive>>

\* Most calls on a Dict that is not open throw.
NotOpen(d, call, k) ==
  d \notin open /\ Answers(d, call, k, Error("RuntimeError")) /\ Reads

OpenOrCreate(d) ==
  open' = open \cup {d} /\ Answers(d, "open", None, None) /\ UNCHANGED <<store, alive, py>>

\* Close, __exit__ and the destructor; the region stays in its file.
Close(d) ==
  open' = open \ {d} /\ Answers(d, "close", None, None) /\ UNCHANGED <<store, alive, py>>

\* DeleteFile fails while a mapping is open.
Reset(d) == open = {} /\ Answers(d, "reset", None, None) /\ Empties

\* When there is no room for the new value the old one is already gone.
NoRoom(d, k) ==
  d \in open /\ Answers(d, "set", k, Error("RuntimeError")) /\ Puts(k, Absent, Nothing)

\* The conversion comes first, whether the Dict is open or not.
SetItem(d, k, o) ==
  /\ Converts(o)
  /\ \/ NotOpen(d, "set", k)
     \/ d \in open /\ Answers(d, "set", k, None) /\ Puts(k, Serialize(o), o)
     \/ NoRoom(d, k)

SetItemRaises(d, k, o) ==
  Raises(o) /\ Answers(d, "set", k, Error("PicklingError")) /\ Reads

SetItemUndefined(d, k, o) ==
  /\ IsUndefined(o)
  /\ \/ Answers(d, "set", k, Error("RuntimeError")) /\ Reads
     \/ alive' = FALSE /\ UNCHANGED <<store, open, py, last>>

Found(k, otherwise) == IF k \in Present THEN Deserialize(store[k]) ELSE otherwise

\* d[k] and Get
GetItem(d, k) ==
  \/ NotOpen(d, "getitem", k)
  \/ d \in open /\ Answers(d, "getitem", k, Found(k, Error("KeyError"))) /\ Reads

Get(d, k) ==
  \/ NotOpen(d, "get", k)
  \/ d \in open /\ Answers(d, "get", k, Found(k, Default)) /\ Reads

DelItem(d, k) ==
  \/ NotOpen(d, "del", k)
  \/ /\ d \in open
     /\ Answers(d, "del", k, IF k \in Present THEN None ELSE Error("KeyError"))
     /\ Puts(k, Absent, Nothing)

Contains(d, k) ==
  Answers(d, "contains", k, IF d \in open /\ k \in Present THEN Obj("bool", 1) ELSE Obj("bool", 0))
  /\ Reads

\* __iter__ goes over a list of the keys made when it is called.
Iter(d) ==
  Answers(d, "iter", None, Obj("list", IF d \in open THEN Present ELSE {})) /\ Reads

LenOf(d) ==
  Answers(d, "len", None, Obj("int", IF d \in open THEN Cardinality(Present) ELSE 0)) /\ Reads

Clear(d) ==
  /\ Answers(d, "clear", None, None)
  /\ IF d \in open THEN Empties ELSE Reads

\* What the callers expect of a counter: it counts on from an int that fits in
\* 64 bits, or from a float, and otherwise from 0.
CountFrom(o) == IF IsLong(o) /\ Fits(o.n) THEN o.n ELSE 0
AddFrom(o)   == IF o.cls = "float" THEN o.n ELSE 0

Count(d, k, by) ==
  \/ NotOpen(d, "count", k)
  \/ NoRoom(d, k)
  \/ LET n == Wrap(ReadInt64(store[k]) + by) IN
     /\ d \in open
     /\ Answers(d, "count", k, Obj("int", n))
     /\ Puts(k, [tag |-> 5, data |-> Bytes8(n)], Obj("int", Wrap(CountFrom(py[k]) + by)))

Add(d, k, by) ==
  \/ NotOpen(d, "count", k)
  \/ NoRoom(d, k)
  \/ LET n == ReadDouble(store[k]) + by IN
     /\ d \in open
     /\ Fits(n)      \* bound
     /\ Answers(d, "count", k, Obj("float", n))
     /\ Puts(k, [tag |-> 6, data |-> n], Obj("float", AddFrom(py[k]) + by))

\* Another program stores a value in one of the formats.
ForeignSet(d, k, e) == Answers(d, "foreign", k, None) /\ Puts(k, e, Deserialize(e))

OnKey(d, k) ==
  \/ GetItem(d, k) \/ Get(d, k) \/ DelItem(d, k) \/ Contains(d, k)
  \/ Add(d, k, 1) \/ Count(d, k, 1) \/ Count(d, k, -1)
  \/ \E o \in Objects : SetItem(d, k, o) \/ SetItemRaises(d, k, o) \/ SetItemUndefined(d, k, o)
  \/ \E e \in Foreign : ForeignSet(d, k, e)

Next ==
  /\ alive
  /\ \E d \in Handles :
       \/ OpenOrCreate(d) \/ Close(d) \/ Reset(d) \/ LenOf(d) \/ Iter(d) \/ Clear(d)
       \/ \E k \in Keys : OnKey(d, k)
-----------------------------------------------------------------------------
\* Python's ==: numbers of all classes compare by value, so True is 1.
Same(a, b) ==
  a.n = b.n /\ (a.cls = b.cls \/ {a.cls, b.cls} \subseteq {"bool", "int", "float"})

InMind == {k \in Keys : py[k] # Nothing}

\* What a call through an open handle answers.
AnswerFits ==
  LET k == last.key  a == last.answer IN
  CASE last.call = "getitem"  -> IF k \in InMind THEN Same(a, py[k]) ELSE a = Error("KeyError")
    [] last.call = "get"      -> IF k \in InMind THEN Same(a, py[k]) ELSE a = Default
    [] last.call = "count"    -> Same(a, py[k])
    [] last.call = "contains" -> a.n = 1 <=> k \in InMind
    [] last.call = "iter"     -> a.n = InMind
    [] last.call = "len"      -> a.n = Cardinality(InMind)
    [] OTHER                  -> TRUE

\* bindings.cpp:168-301: through every handle, with conversions, counters,
\* values of older formats, Sets that fail, Close and reopening, the region is
\* the dict its callers have in mind, up to ==, and every answer is that
\* dict's; KeyError and the default of get mean that the key is not there.
ActsLikeDict ==
  /\ Present = InMind
  /\ \A k \in Present : Same(Deserialize(store[k]), py[k])
  /\ last.call # "none" => (last.through => AnswerFits)
=============================================================================
