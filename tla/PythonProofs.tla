---------------------------- MODULE PythonProofs ----------------------------
\* Theorems about the binding and the string functions in Python, and the chains
\* of entries below, for every value of the constants.  Each component has its own
\* section: the inductive invariant, one lemma for each of its actions, and the
\* theorem, which speaks of the composition.
EXTENDS Python, SetInduction

\* A step of the whole is a step of each component, or leaves it alone.
LEMMA ComponentSteps ==
  ASSUME [Next]_vars
  PROVE  /\ [Store!Next]_storeV /\ [Simd!Next]_simdV /\ [Dict!Next]_dictV
  BY DEF Next, vars

LEMMA ComponentInits ==
  ASSUME Init
  PROVE  /\ Store!Init /\ Simd!Init /\ Dict!Init
  BY DEF Init
-----------------------------------------------------------------------------
(* The binding                                                             *)

PyType    == [cls : PyClasses, n : Int]
EntryType == {e \in [tag : 0 .. 255, data : Int] : e.tag = 5 => e.data \in 0 .. 2 * Half - 1}

\* What is stored for an object: the binding's format for it, or another one
\* that is read as the object.
Kept(e, o) ==
  \/ e = Dict!Absent /\ o = Dict!Nothing
  \/ o \in PyType /\ Dict!Converts(o) /\ e = Dict!Serialize(o)
  \/ e \in EntryType /\ o = Dict!Deserialize(e)

KeptAll ==
  /\ store \in [PyKeys -> EntryType \cup {Dict!Absent}]
  /\ py \in [PyKeys -> PyType \cup {Dict!Nothing}]
  /\ \A k \in PyKeys : Kept(store[k], py[k])

Answered == last.call # "none" => (last.through => Dict!AnswerFits)

-----------------------------------------------------------------------------
\* The eight bytes of an int64 are those of one number.
LEMMA BytesAreSigned ==
  ASSUME NEW n \in Int
  PROVE  /\ Dict!Bytes8(n) \in 0 .. 2 * Half - 1
         /\ Dict!Fits(n) => Dict!Signed(Dict!Bytes8(n)) = n
  <1>1. Half \in Nat \ {0} /\ 2 * Half \in Nat \ {0}
    BY DictAssumption
  <1>2. n % (2 * Half) \in Int /\ 0 <= n % (2 * Half) /\ n % (2 * Half) < 2 * Half
    BY <1>1
  <1>3. ASSUME Dict!Fits(n), n >= 0 PROVE n % (2 * Half) = n
    BY <1>1, <1>3 DEF Dict!Fits
  <1>4. ASSUME Dict!Fits(n), n < 0 PROVE n % (2 * Half) = n + 2 * Half
    BY <1>1, <1>4 DEF Dict!Fits
  <1> QED
    BY <1>1, <1>2, <1>3, <1>4 DEF Dict!Bytes8, Dict!Signed, Dict!Fits

LEMMA SignedFits ==
  ASSUME NEW b \in 0 .. 2 * Half - 1
  PROVE  Dict!Signed(b) \in Int /\ Dict!Fits(Dict!Signed(b))
  BY DictAssumption DEF Dict!Signed, Dict!Fits

LEMMA WrapFits ==
  ASSUME NEW n \in Int
  PROVE  Dict!Wrap(n) \in Int /\ Dict!Fits(Dict!Wrap(n))
  BY BytesAreSigned, SignedFits DEF Dict!Wrap

LEMMA SerializeIs ==
  ASSUME NEW o \in PyType, Dict!Converts(o)
  PROVE  /\ Dict!Serialize(o) \in EntryType
         /\ Dict!Same(Dict!Deserialize(Dict!Serialize(o)), o)
         /\ Dict!ReadInt64(Dict!Serialize(o)) = Dict!CountFrom(o)
         /\ Dict!ReadDouble(Dict!Serialize(o)) = Dict!AddFrom(o)
  <1>1. o.cls \in {"str", "bool", "int", "float", "bytes", "other"} /\ o.n \in Int
    BY DEF PyType, PyClasses, Dict!Converts, Dict!IsUndefined, Dict!Raises
  <1>2. CASE Dict!IsLong(o) /\ Dict!Fits(o.n)
    <2>1. Dict!Serialize(o) = [tag |-> 5, data |-> Dict!Bytes8(o.n)]
      BY <1>2 DEF Dict!Serialize, Dict!IsLong
    <2>2. Dict!Bytes8(o.n) \in 0 .. 2 * Half - 1 /\ Dict!Signed(Dict!Bytes8(o.n)) = o.n
      BY <1>1, <1>2, BytesAreSigned
    <2> QED
      BY <1>1, <1>2, <2>1, <2>2, DictAssumption
         DEF EntryType, Dict!Same, Dict!Deserialize, Dict!Obj, Dict!IsLong, Dict!ReadInt64,
             Dict!ReadDouble, Dict!CountFrom, Dict!AddFrom
  <1>3. CASE ~(Dict!IsLong(o) /\ Dict!Fits(o.n))
    BY <1>1, <1>3
       DEF EntryType, Dict!Serialize, Dict!Same, Dict!Deserialize, Dict!Obj, Dict!IsLong,
           Dict!ReadInt64, Dict!ReadDouble, Dict!CountFrom, Dict!AddFrom
  <1> QED
    BY <1>2, <1>3

LEMMA DeserializeIs ==
  ASSUME NEW e \in EntryType
  PROVE  /\ Dict!Deserialize(e) \in PyType
         /\ Dict!ReadInt64(e) = Dict!CountFrom(Dict!Deserialize(e))
         /\ Dict!ReadDouble(e) = Dict!AddFrom(Dict!Deserialize(e))
  <1>1. e.tag \in 0 .. 255 /\ e.data \in Int
    BY DEF EntryType
  <1>2. CASE e.tag = 5
    <2>1. Dict!Signed(e.data) \in Int /\ Dict!Fits(Dict!Signed(e.data))
      BY <1>2, SignedFits DEF EntryType
    <2> QED
      BY <1>2, <2>1
         DEF PyType, PyClasses, Dict!Deserialize, Dict!Obj, Dict!IsLong, Dict!ReadInt64,
             Dict!ReadDouble, Dict!CountFrom, Dict!AddFrom
  <1>3. CASE e.tag # 5
    BY <1>1, <1>3
       DEF PyType, PyClasses, Dict!Deserialize, Dict!Obj, Dict!IsLong, Dict!ReadInt64,
           Dict!ReadDouble, Dict!CountFrom, Dict!AddFrom
  <1> QED
    BY <1>2, <1>3

\* An entry of an object is read as the object, by every kind of call.
LEMMA KeptReads ==
  ASSUME NEW e \in EntryType \cup {Dict!Absent}, NEW o \in PyType \cup {Dict!Nothing}, Kept(e, o)
  PROVE  /\ e = Dict!Absent <=> o = Dict!Nothing
         /\ e # Dict!Absent => Dict!Same(Dict!Deserialize(e), o)
         /\ Dict!ReadInt64(e) = Dict!CountFrom(o) /\ Dict!CountFrom(o) \in Int
         /\ Dict!ReadDouble(e) = Dict!AddFrom(o) /\ Dict!AddFrom(o) \in Int
  <1>1. Dict!Absent \notin EntryType
    BY DEF EntryType, Dict!Absent
  <1>2. Dict!Nothing \notin PyType
    BY DEF PyType, PyClasses, Dict!Nothing
  <1>3. CASE e = Dict!Absent
    <2>1. o = Dict!Nothing
      BY <1>1, <1>3, SerializeIs DEF Kept
    <2> QED
      BY <1>3, <2>1 DEF Dict!Absent, Dict!Nothing, Dict!ReadInt64, Dict!ReadDouble,
                        Dict!CountFrom, Dict!AddFrom, Dict!IsLong
  <1>4. CASE e # Dict!Absent
    <2>1. o # Dict!Nothing /\ o \in PyType
      BY <1>2, <1>4, DeserializeIs DEF Kept
    <2>2. Dict!CountFrom(o) \in Int /\ Dict!AddFrom(o) \in Int
      BY <2>1 DEF PyType, Dict!CountFrom, Dict!AddFrom
    <2>3. CASE o \in PyType /\ Dict!Converts(o) /\ e = Dict!Serialize(o)
      BY <1>4, <2>1, <2>2, <2>3, SerializeIs
    <2>4. CASE e \in EntryType /\ o = Dict!Deserialize(e)
      BY <1>4, <2>1, <2>2, <2>4, DeserializeIs DEF Dict!Same
    <2> QED
      BY <1>4, <2>3, <2>4 DEF Kept
  <1> QED
    BY <1>3, <1>4

LEMMA PresentIsInMind ==
  ASSUME KeptAll
  PROVE  Dict!Present = Dict!InMind
  BY KeptReads DEF KeptAll, Dict!Present, Dict!InMind

LEMMA PutsKept ==
  ASSUME KeptAll, NEW k \in PyKeys, NEW e \in EntryType \cup {Dict!Absent},
         NEW o \in PyType \cup {Dict!Nothing}, Kept(e, o), Dict!Puts(k, e, o)
  PROVE  KeptAll'
  BY DEF KeptAll, Dict!Puts

LEMMA ReadsKept ==
  ASSUME KeptAll, UNCHANGED <<store, py>>
  PROVE  KeptAll' /\ Dict!Present' = Dict!Present /\ Dict!InMind' = Dict!InMind
  BY DEF KeptAll, Dict!Present, Dict!InMind

\* Calls whose answer says nothing of the dict.
Silent(c) == c \notin {"getitem", "get", "count", "contains", "iter", "len"}

LEMMA SilentAnswer ==
  ASSUME NEW d, NEW c, NEW k, NEW a, Dict!Answers(d, c, k, a), Silent(c) \/ d \notin open
  PROVE  Answered'
  BY DEF Dict!Answers, Silent, Answered, Dict!AnswerFits

LEMMA UnopenedAnswer ==
  ASSUME NEW d, d \notin open, NEW c, NEW k, NEW a, Dict!Answers(d, c, k, a)
  PROVE  Answered'
  BY SilentAnswer

LEMMA NoRoomStep ==
  ASSUME KeptAll, NEW d \in Handles, NEW k \in PyKeys, Dict!NoRoom(d, k)
  PROVE  KeptAll' /\ Answered'
  <1>1. Kept(Dict!Absent, Dict!Nothing) /\ Silent("set")
    BY DEF Kept, Silent
  <1> QED
    BY <1>1, PutsKept, SilentAnswer DEF Dict!NoRoom

LEMMA NotOpenStep ==
  ASSUME KeptAll, NEW d, NEW c, NEW k, Dict!NotOpen(d, c, k)
  PROVE  KeptAll' /\ Answered'
  BY SilentAnswer, ReadsKept DEF Dict!NotOpen, Dict!Reads

LEMMA EmptiesKept ==
  ASSUME KeptAll, Dict!Empties
  PROVE  KeptAll'
  BY DEF KeptAll, Dict!Empties, Kept

\* Calls on the whole dict.
LEMMA WholeStep ==
  ASSUME KeptAll, NEW d \in Handles,
         \/ Dict!OpenOrCreate(d) \/ Dict!Close(d) \/ Dict!Reset(d) \/ Dict!Clear(d)
         \/ Dict!LenOf(d) \/ Dict!Iter(d)
  PROVE  KeptAll' /\ Answered'
  <1>1. Silent("open") /\ Silent("close") /\ Silent("reset") /\ Silent("clear")
    BY DEF Silent
  <1>2. CASE Dict!OpenOrCreate(d) \/ Dict!Close(d)
    BY <1>1, <1>2, ReadsKept, SilentAnswer DEF Dict!OpenOrCreate, Dict!Close
  <1>3. CASE Dict!Reset(d) \/ Dict!Clear(d)
    BY <1>1, <1>3, ReadsKept, EmptiesKept, SilentAnswer DEF Dict!Reset, Dict!Clear, Dict!Reads
  <1>4. CASE Dict!LenOf(d) \/ Dict!Iter(d)
    <2>1. KeptAll' /\ Dict!Present = Dict!InMind'
      BY <1>4, ReadsKept, PresentIsInMind DEF Dict!LenOf, Dict!Iter, Dict!Reads
    <2>2. CASE d \notin open
      BY <1>1, <1>4, <2>1, <2>2, UnopenedAnswer DEF Dict!LenOf, Dict!Iter
    <2>3. CASE d \in open
      <3>1. CASE Dict!LenOf(d)
        <4>1. last'.call = "len" /\ last'.answer.n = Dict!Cardinality(Dict!Present)
          BY <2>3, <3>1 DEF Dict!LenOf, Dict!Answers, Dict!Obj
        <4> QED
          BY <2>1, <4>1 DEF Answered, Dict!AnswerFits
      <3>2. CASE Dict!Iter(d)
        <4>1. last'.call = "iter" /\ last'.answer.n = Dict!Present
          BY <2>3, <3>2 DEF Dict!Iter, Dict!Answers, Dict!Obj
        <4> QED
          BY <2>1, <4>1 DEF Answered, Dict!AnswerFits
      <3> QED
        BY <1>4, <3>1, <3>2
    <2> QED
      BY <2>1, <2>2, <2>3
  <1> QED
    BY <1>2, <1>3, <1>4

LEMMA ReadStep ==
  ASSUME KeptAll, NEW d \in Handles, NEW k \in PyKeys,
         Dict!GetItem(d, k) \/ Dict!Get(d, k) \/ Dict!Contains(d, k)
  PROVE  KeptAll' /\ Answered'
  <1>1. CASE Dict!NotOpen(d, "getitem", k) \/ Dict!NotOpen(d, "get", k)
    BY <1>1, NotOpenStep
  <1>2. CASE Dict!Reads
    <2>1. KeptAll' /\ Dict!Present = Dict!InMind' /\ py' = py
      BY <1>2, ReadsKept, PresentIsInMind DEF Dict!Reads
    <2>2. k \in Dict!Present => Dict!Same(Dict!Deserialize(store[k]), py[k])
      BY KeptReads DEF KeptAll, Dict!Present
    <2>3. CASE Dict!GetItem(d, k) \/ Dict!Get(d, k)
      BY <1>1, <2>1, <2>2, <2>3, NotOpenStep
         DEF Dict!GetItem, Dict!Get, Dict!Answers, Answered, Dict!AnswerFits, Dict!Found
    <2>4. CASE Dict!Contains(d, k)
      <3>1. CASE d \notin open
        BY <2>1, <2>4, <3>1, UnopenedAnswer DEF Dict!Contains
      <3>2. CASE d \in open
        <4>1. /\ last'.call = "contains" /\ last'.key = k
              /\ last'.answer.n = IF k \in Dict!Present THEN 1 ELSE 0
          BY <2>4, <3>2 DEF Dict!Contains, Dict!Answers, Dict!Obj
        <4> QED
          BY <2>1, <4>1 DEF Answered, Dict!AnswerFits
      <3> QED
        BY <3>1, <3>2
    <2> QED
      BY <2>1, <2>3, <2>4
  <1> QED
    BY <1>1, <1>2 DEF Dict!GetItem, Dict!Get, Dict!Contains

LEMMA SetStep ==
  ASSUME KeptAll, NEW d \in Handles, NEW k \in PyKeys, NEW o \in PyObjects,
         Dict!SetItem(d, k, o) \/ Dict!SetItemRaises(d, k, o) \/ Dict!SetItemUndefined(d, k, o),
         Answered
  PROVE  KeptAll' /\ Answered'
  <1>1. Silent("set") /\ o \in PyType
    BY DictAssumption DEF Silent, PyType
  <1>2. CASE Dict!SetItem(d, k, o)
    <2>1. Dict!Converts(o) /\ Kept(Dict!Serialize(o), o) /\ Dict!Serialize(o) \in EntryType
      BY <1>1, <1>2, SerializeIs DEF Dict!SetItem, Kept
    <2> QED
      BY <1>1, <1>2, <2>1, NotOpenStep, NoRoomStep, PutsKept, SilentAnswer DEF Dict!SetItem
  <1>3. CASE Dict!SetItemRaises(d, k, o)
    BY <1>1, <1>3, ReadsKept, SilentAnswer DEF Dict!SetItemRaises, Dict!Reads
  <1>4. CASE Dict!SetItemUndefined(d, k, o)
    <2>1. CASE Dict!Reads /\ Dict!Answers(d, "set", k, Dict!Error("RuntimeError"))
      BY <1>1, <2>1, ReadsKept, SilentAnswer DEF Dict!Reads
    <2>2. CASE UNCHANGED <<store, open, py, last>>
      BY <2>2, ReadsKept DEF Answered, Dict!AnswerFits
    <2> QED
      BY <1>4, <2>1, <2>2 DEF Dict!SetItemUndefined
  <1> QED
    BY <1>2, <1>3, <1>4

LEMMA OtherWriteStep ==
  ASSUME KeptAll, NEW d \in Handles, NEW k \in PyKeys,
         Dict!DelItem(d, k) \/ \E e \in Foreign : Dict!ForeignSet(d, k, e)
  PROVE  KeptAll' /\ Answered'
  <1>1. Silent("del") /\ Silent("foreign") /\ Kept(Dict!Absent, Dict!Nothing)
    BY DEF Silent, Kept
  <1>2. CASE Dict!DelItem(d, k)
    BY <1>1, <1>2, NotOpenStep, PutsKept, SilentAnswer DEF Dict!DelItem
  <1>3. ASSUME NEW e \in Foreign, Dict!ForeignSet(d, k, e) PROVE KeptAll' /\ Answered'
    <2>1. e \in EntryType /\ Dict!Deserialize(e) \in PyType /\ Kept(e, Dict!Deserialize(e))
      BY DeserializeIs, DictAssumption DEF EntryType, Kept
    <2> QED
      BY <1>1, <1>3, <2>1, PutsKept, SilentAnswer DEF Dict!ForeignSet
  <1> QED
    BY <1>2, <1>3

\* Counters store the number they answer, counted on from the one in mind.
LEMMA CountStep ==
  ASSUME KeptAll, NEW d \in Handles, NEW k \in PyKeys, NEW by \in {1, -1},
         Dict!Count(d, k, by) \/ (by = 1 /\ Dict!Add(d, k, by))
  PROVE  KeptAll' /\ Answered'
  <1>1. /\ store[k] \in EntryType \cup {Dict!Absent} /\ py[k] \in PyType \cup {Dict!Nothing}
        /\ Kept(store[k], py[k])
    BY DEF KeptAll
  <1>2. CASE Dict!NotOpen(d, "count", k) \/ Dict!NoRoom(d, k)
    BY <1>2, NotOpenStep, NoRoomStep
  <1>3. ASSUME NEW n \in Int, NEW o \in PyType, Dict!Converts(o), Dict!Puts(k, Dict!Serialize(o), o),
               Dict!Answers(d, "count", k, o)
        PROVE  KeptAll' /\ Answered'
    <2>1. Kept(Dict!Serialize(o), o) /\ Dict!Serialize(o) \in EntryType
      BY <1>3, SerializeIs DEF Kept
    <2>2. KeptAll'
      BY <1>3, <2>1, PutsKept
    <2>3. py'[k] = o
      BY <1>3 DEF KeptAll, Dict!Puts
    <2>4. Dict!Same(o, o)
      BY DEF Dict!Same
    <2> QED
      BY <1>3, <2>2, <2>3, <2>4 DEF Dict!Answers, Answered, Dict!AnswerFits
  <1>4. CASE Dict!Count(d, k, by)
    <2> DEFINE n == Dict!Wrap(Dict!ReadInt64(store[k]) + by)
               o == Dict!Obj("int", n)
    <2>1. n \in Int /\ Dict!Fits(n) /\ n = Dict!Wrap(Dict!CountFrom(py[k]) + by)
      BY <1>1, KeptReads, WrapFits
    <2> HIDE DEF n
    <2>2. /\ o \in PyType /\ Dict!Converts(o)
          /\ Dict!Serialize(o) = [tag |-> 5, data |-> Dict!Bytes8(n)]
      BY <2>1 DEF PyType, PyClasses, Dict!Converts, Dict!IsUndefined, Dict!Raises, Dict!Obj,
                  Dict!Serialize, Dict!IsLong
    <2> QED
      BY <1>2, <1>3, <1>4, <2>1, <2>2 DEF Dict!Count, n
  <1>5. CASE Dict!Add(d, k, 1)
    <2> DEFINE n == Dict!ReadDouble(store[k]) + 1
               o == Dict!Obj("float", n)
    <2>1. n \in Int /\ n = Dict!AddFrom(py[k]) + 1
      BY <1>1, KeptReads
    <2> HIDE DEF n
    <2>2. o \in PyType /\ Dict!Converts(o) /\ Dict!Serialize(o) = [tag |-> 6, data |-> n]
      BY <2>1 DEF PyType, PyClasses, Dict!Converts, Dict!IsUndefined, Dict!Raises, Dict!Obj,
                  Dict!Serialize, Dict!IsLong
    <2> QED
      BY <1>2, <1>3, <1>5, <2>1, <2>2 DEF Dict!Add, n
  <1> QED
    BY <1>4, <1>5

LEMMA DictNext ==
  ASSUME KeptAll, Answered, [Dict!Next]_dictV
  PROVE  KeptAll' /\ Answered'
  <1>1. ASSUME NEW d \in Handles, NEW k \in PyKeys, Dict!OnKey(d, k) PROVE KeptAll' /\ Answered'
    BY <1>1, ReadStep, SetStep, OtherWriteStep, CountStep DEF Dict!OnKey
  <1>2. CASE UNCHANGED dictV
    BY <1>2, ReadsKept DEF dictV, Answered, Dict!AnswerFits
  <1> QED
    BY <1>1, <1>2, WholeStep DEF Dict!Next

\* Through conversions, counters, formats of others and Sets that fail, the region
\* is the dict its callers have in mind (bindings.cpp:168-301).
THEOREM DictInMind == Spec => []ActsLikeDict
  <1>1. Init => KeptAll /\ Answered
    BY ComponentInits DEF Dict!Init, KeptAll, Kept, Answered
  <1>2. KeptAll /\ Answered /\ [Next]_vars => KeptAll' /\ Answered'
    BY ComponentSteps, DictNext
  <1>3. KeptAll /\ Answered => ActsLikeDict
    BY PresentIsInMind, KeptReads
       DEF KeptAll, Answered, Dict!Present, ActsLikeDict, Dict!ActsLikeDict
  <1> QED
    BY <1>1, <1>2, <1>3, PTL DEF Spec
-----------------------------------------------------------------------------
(* Functions of strings                                                    *)

LEMMA TextLibrary ==
  /\ \A S : Simd!Cardinality(S) = Cardinality(S)
  /\ \A f : Simd!SumFunction(f) = SumFunctionOnSet(f, DOMAIN f)
  /\ \A s : Simd!FlattenSeq(s) = Flat(s)
  <1>1. \A S : Simd!Cardinality(S) = Cardinality(S)
    BY DEF Cardinality, Simd!Cardinality
  <1>2. \A f : Simd!SumFunction(f) = SumFunctionOnSet(f, DOMAIN f)
    BY DEF Simd!SumFunction, Simd!SumFunctionOnSet, Simd!FoldFunctionOnSet, Simd!MapThenFoldSet,
           SumFunctionOnSet, FoldFunctionOnSet, MapThenFoldSet
  <1>3. \A s : Simd!FlattenSeq(s) = Flat(s)
    BY DEF Simd!FlattenSeq, Flat
  <1> QED BY <1>1, <1>2, <1>3

Bytes == Chars \cup {Simd!Lead(d) : d \in Wide} \cup {Simd!Cont(d) : d \in Wide}

\* A byte that is a character of its own.
Single(b) == b \notin Wide /\ \A d \in Wide : b # Simd!Lead(d) /\ b # Simd!Cont(d)

Spelled(text) == [n \in DOMAIN text |-> Simd!Utf8(text[n])]
Sizes(text)   == Lens(Spelled(text))

LEMMA Utf8Is ==
  ASSUME NEW c \in Chars
  PROVE  /\ Simd!Utf8(c) \in Seq(Bytes)
         /\ c \in Wide => /\ Len(Simd!Utf8(c)) = 2
                          /\ Simd!Utf8(c)[1] = Simd!Lead(c) /\ Simd!Utf8(c)[2] = Simd!Cont(c)
         /\ c \notin Wide => Len(Simd!Utf8(c)) = 1 /\ Simd!Utf8(c)[1] = c
  <1>1. CASE c \in Wide
    <2> DEFINE u == Simd!Lead(c)
               v == Simd!Cont(c)
    <2>1. Simd!Utf8(c) = <<u, v>>
      BY <1>1 DEF Simd!Utf8
    <2>2. u \in Bytes /\ v \in Bytes
      BY <1>1 DEF Bytes
    <2> HIDE DEF u, v
    <2>3. <<u, v>> \in Seq(Bytes) /\ Len(<<u, v>>) = 2 /\ <<u, v>>[1] = u /\ <<u, v>>[2] = v
      BY <2>2
    <2> QED BY <1>1, <2>1, <2>3 DEF u, v
  <1>2. CASE c \notin Wide
    <2>1. Simd!Utf8(c) = <<c>> /\ c \in Bytes
      BY <1>2 DEF Simd!Utf8, Bytes
    <2>2. <<c>> \in Seq(Bytes) /\ Len(<<c>>) = 1 /\ <<c>>[1] = c
      BY <2>1
    <2> QED BY <1>2, <2>1, <2>2
  <1> QED BY <1>1, <1>2

LEMMA SpelledIs ==
  ASSUME NEW text \in Seq(Chars)
  PROVE  /\ Len(text) \in Nat /\ DOMAIN text = 1 .. Len(text)
         /\ Spelled(text) \in Seq(Seq(Bytes)) /\ Len(Spelled(text)) = Len(text)
         /\ \A n \in 1 .. Len(text) :
              /\ text[n] \in Chars /\ Spelled(text)[n] = Simd!Utf8(text[n])
              /\ Sizes(text)[n] = (IF text[n] \in Wide THEN 2 ELSE 1)
              /\ Sizes(text)[n] = Len(Simd!Utf8(text[n])) /\ Sizes(text)[n] \in Nat
  <1>1. Len(text) \in Nat /\ DOMAIN text = 1 .. Len(text) /\ \A n \in 1 .. Len(text) : text[n] \in Chars
    BY LenProperties, ElementOfSeq
  <1> DEFINE N == Len(text)
  <1>2. \A n \in 1 .. N : Simd!Utf8(text[n]) \in Seq(Bytes)
    BY <1>1, Utf8Is
  <1>3. Spelled(text) \in [1 .. N -> Seq(Bytes)]
    BY <1>1, <1>2 DEF Spelled
  <1>4. Spelled(text) \in Seq(Seq(Bytes)) /\ Len(Spelled(text)) = N
    <2> DEFINE q == Spelled(text)
               V == Seq(Bytes)
    <2>1. q \in [1 .. N -> V] /\ N \in Nat
      BY <1>1, <1>3
    <2> HIDE DEF q, V, N
    <2>2. q \in Seq(V) /\ Len(q) = N
      BY <2>1
    <2> QED BY <2>2 DEF q, V
  <1>5. ASSUME NEW n \in 1 .. N
        PROVE  /\ Spelled(text)[n] = Simd!Utf8(text[n])
               /\ Sizes(text)[n] = (IF text[n] \in Wide THEN 2 ELSE 1)
               /\ Sizes(text)[n] = Len(Simd!Utf8(text[n])) /\ Sizes(text)[n] \in Nat
    <2>1. Spelled(text)[n] = Simd!Utf8(text[n]) /\ n \in DOMAIN Spelled(text)
      BY <1>1, <1>3 DEF Spelled
    <2>2. Sizes(text)[n] = Len(Simd!Utf8(text[n]))
      BY <2>1 DEF Sizes, Lens
    <2>3. Len(Simd!Utf8(text[n])) = (IF text[n] \in Wide THEN 2 ELSE 1)
      BY <1>1, Utf8Is
    <2> QED BY <2>1, <2>2, <2>3
  <1> QED BY <1>1, <1>4, <1>5

\* The bytes of a text lie where the sizes of the characters before say.
LEMMA EncodeIs ==
  ASSUME NEW text \in Seq(Chars)
  PROVE  /\ Simd!Encode(text) \in Seq(Bytes)
         /\ Len(Simd!Encode(text)) = Before(Sizes(text), Len(text))
         /\ \A n \in 1 .. Len(text) : \A e \in 1 .. Sizes(text)[n] :
              Simd!Encode(text)[Before(Sizes(text), n - 1) + e] = Simd!Utf8(text[n])[e]
         /\ \A i \in 1 .. Len(Simd!Encode(text)) : \E n \in 1 .. Len(text) : \E e \in 1 .. Sizes(text)[n] :
              i = Before(Sizes(text), n - 1) + e
  <1> DEFINE N == Len(text)
             q == Spelled(text)
             ls == Sizes(text)
  <1>1. /\ N \in Nat /\ q \in Seq(Seq(Bytes)) /\ Len(q) = N
        /\ \A n \in 1 .. N : q[n] = Simd!Utf8(text[n]) /\ ls[n] = Len(q[n]) /\ ls[n] \in Nat
    BY SpelledIs
  <1>2. Simd!Encode(text) = Flat(q)
    BY TextLibrary DEF Simd!Encode, Spelled
  <1>3. InPlaces(Flat(q), Bytes, q, N)
    <2> HIDE DEF q
    <2> QED BY <1>1, FlatIs
  <1>4. /\ Flat(q) \in Seq(Bytes) /\ Len(Flat(q)) = Before(ls, N)
        /\ \A n \in 1 .. N : \A e \in 1 .. ls[n] : Flat(q)[Before(ls, n - 1) + e] = q[n][e]
    BY <1>1, <1>3 DEF InPlaces, Sizes
  <1> HIDE DEF q, ls, N
  <1>5. \A i \in 1 .. Len(Flat(q)) : \E n \in 1 .. N : \E e \in 1 .. ls[n] : i = Before(ls, n - 1) + e
    <2>1. N \in Nat /\ (\A n \in 1 .. N : ls[n] \in Nat) /\ Len(Flat(q)) = Before(ls, N)
      BY <1>1, <1>4
    <2> QED BY <2>1, BeforeMeets
  <1> QED BY <1>1, <1>2, <1>4, <1>5 DEF q, ls, N

\* A single byte in a text is the character.
LEMMA SinglePlaces ==
  ASSUME NEW text \in Seq(Chars), NEW b, Single(b),
         NEW n \in 1 .. Len(text), NEW e \in 1 .. Sizes(text)[n]
  PROVE  /\ Simd!Encode(text)[Before(Sizes(text), n - 1) + e] = b <=> text[n] = b
         /\ text[n] = b => Sizes(text)[n] = 1 /\ e = 1
  <1>1. /\ text[n] \in Chars
        /\ Sizes(text)[n] = (IF text[n] \in Wide THEN 2 ELSE 1)
        /\ Simd!Encode(text)[Before(Sizes(text), n - 1) + e] = Simd!Utf8(text[n])[e]
    BY SpelledIs, EncodeIs
  <1>2. CASE text[n] \in Wide
    <2>1. e = 1 \/ e = 2
      BY <1>1, <1>2
    <2>2. Simd!Utf8(text[n])[1] = Simd!Lead(text[n]) /\ Simd!Utf8(text[n])[2] = Simd!Cont(text[n])
      BY <1>1, <1>2, Utf8Is
    <2> QED BY <1>1, <1>2, <2>1, <2>2 DEF Single
  <1>3. CASE text[n] \notin Wide
    <2>1. e = 1
      BY <1>1, <1>3
    <2> QED BY <1>1, <1>3, <2>1, Utf8Is
  <1> QED BY <1>2, <1>3

LEMMA SingleBytes ==
  /\ Single(Nul) /\ \A b \in Blanks : Single(b)
  /\ \A c \in Chars \ Wide : Single(c)
  BY TextAssumption DEF Single

\* What nanobind takes for a char is a str that starts with a single byte.
LEMMA CharIs ==
  ASSUME NEW a \in Seq(Chars), Simd!IsChar(a)
  PROVE  Len(a) # 0 /\ Simd!CharOf(a) = a[1] /\ a[1] \in Chars /\ Single(a[1])
  <1> DEFINE d == Simd!Encode(a)
             N == Len(a)
             ls == Sizes(a)
  <1>1. /\ d \in Seq(Bytes) /\ Len(d) = Before(ls, N) /\ N \in Nat
        /\ \A n \in 1 .. N : \A e \in 1 .. ls[n] : d[Before(ls, n - 1) + e] = Simd!Utf8(a[n])[e]
    BY EncodeIs, SpelledIs
  <1>2. /\ Before(ls, 0) = 0 /\ \A n \in 0 .. N : Before(ls, n) \in Nat
        /\ \A n \in 1 .. N : Before(ls, n) = Before(ls, n - 1) + ls[n]
    <2>1. N \in Nat /\ \A n \in 1 .. N : ls[n] \in Nat
      BY SpelledIs
    <2> HIDE DEF N, ls
    <2> QED BY <2>1, BeforeIs
  <1>3. /\ Simd!CString(a) = d \o <<Nul>>
        /\ Simd!CString(a)[1] # Nul /\ Simd!CString(a)[2] = Nul /\ Simd!CharOf(a) = Simd!CString(a)[1]
    BY DEF Simd!IsChar, Simd!CString, Simd!CharOf
  <1>4. \A j \in 1 .. Len(d) + 1 : (d \o <<Nul>>)[j] = IF j <= Len(d) THEN d[j] ELSE Nul
    <2> DEFINE V == Bytes \cup {Nul}
    <2>1. d \in Seq(V) /\ <<Nul>> \in Seq(V) /\ Len(<<Nul>>) = 1 /\ Len(d) \in Nat
      <3> HIDE DEF d
      <3> QED BY <1>1, LenProperties
    <2> HIDE DEF d, V
    <2>2. \A j \in 1 .. Len(d) + 1 : (d \o <<Nul>>)[j] = IF j <= Len(d) THEN d[j] ELSE <<Nul>>[j - Len(d)]
      BY <2>1, ConcatProperties
    <2>3. <<Nul>>[1] = Nul
      OBVIOUS
    <2> QED BY <2>1, <2>2, <2>3
  <1>5. N # 0
    <2> SUFFICES ASSUME N = 0 PROVE FALSE
      OBVIOUS
    <2>1. Len(d) = 0
      BY <1>1, <1>2
    <2> HIDE DEF d
    <2> QED BY <1>3, <1>4, <2>1
  <1>6. /\ 1 \in 1 .. N /\ a[1] \in Chars
        /\ ls[1] = (IF a[1] \in Wide THEN 2 ELSE 1)
    BY <1>1, <1>5, SpelledIs
  <1> HIDE DEF d, N, ls
  <1>7. \A e \in 1 .. ls[1] : d[e] = Simd!Utf8(a[1])[e] /\ e \in 1 .. Len(d)
    <2> SUFFICES ASSUME NEW e \in 1 .. ls[1] PROVE d[e] = Simd!Utf8(a[1])[e] /\ e \in 1 .. Len(d)
      OBVIOUS
    <2>1. d[Before(ls, 1 - 1) + e] = Simd!Utf8(a[1])[e]
      BY <1>1, <1>6
    <2>2. Before(ls, 1 - 1) + e = e
      BY <1>2
    <2>3. Before(ls, 1) = ls[1] /\ ls[1] \in Nat
      BY <1>2, <1>6
    <2>4. Before(ls, 1) <= Before(ls, N)
      <3>1. N \in Nat /\ \A n \in 1 .. N : ls[n] \in Nat
        BY SpelledIs DEF N, ls
      <3>2. 1 \in 0 .. N /\ N \in 0 .. N /\ 1 <= N
        BY <1>1, <1>6
      <3> QED BY <3>1, <3>2, BeforeGrows
    <2> QED BY <1>1, <1>2, <2>1, <2>2, <2>3, <2>4
  <1>8. a[1] \notin Wide
    <2> SUFFICES ASSUME a[1] \in Wide PROVE FALSE
      OBVIOUS
    <2>1. 2 \in 1 .. ls[1] /\ Len(d) \in Nat
      BY <1>1, <1>2, <1>6, LenProperties
    <2>2. d[2] = Simd!Cont(a[1]) /\ 2 \in 1 .. Len(d)
      BY <1>6, <1>7, <2>1, Utf8Is
    <2>3. (d \o <<Nul>>)[2] = d[2]
      BY <1>4, <2>1, <2>2
    <2> QED BY <1>3, <2>2, <2>3, SingleBytes DEF Single
  <1>9. Simd!CharOf(a) = a[1]
    <2>1. 1 \in 1 .. ls[1] /\ Len(d) \in Nat
      BY <1>1, <1>6, <1>8, LenProperties
    <2>2. d[1] = a[1] /\ 1 \in 1 .. Len(d)
      BY <1>6, <1>7, <1>8, <2>1, Utf8Is
    <2>3. (d \o <<Nul>>)[1] = d[1]
      BY <1>4, <2>1, <2>2
    <2> QED BY <1>3, <2>2, <2>3
  <1> QED BY <1>5, <1>6, <1>8, <1>9, SingleBytes DEF N

\* Two sets of numbers, the second moved up behind the first.
LEMMA Behind ==
  ASSUME NEW A \in SUBSET Nat, IsFiniteSet(A), NEW B \in SUBSET Nat, IsFiniteSet(B),
         NEW p \in Nat, \A i \in A : i < p
  PROVE  Cardinality(A \cup {p + j : j \in B}) = Cardinality(A) + Cardinality(B)
  <1> DEFINE C == {p + j : j \in B}
             f == [j \in B |-> p + j]
  <1>1. /\ \A j \in B : f[j] \in C
        /\ \A j, k \in B : f[j] = f[k] => j = k
        /\ \A i \in C : \E j \in B : f[j] = i
    <2>1. \A j \in B : f[j] = p + j /\ j \in Nat
      OBVIOUS
    <2>2. \A j \in B : p + j \in C
      OBVIOUS
    <2>3. \A i \in C : \E j \in B : p + j = i
      OBVIOUS
    <2> HIDE DEF f, C
    <2>4. \A j, k \in B : p + j = p + k => j = k
      BY <2>1
    <2> QED BY <2>1, <2>2, <2>3, <2>4
  <1>2. IsFiniteSet(C) /\ Cardinality(C) = Cardinality(B)
    <2> HIDE DEF f, C
    <2> QED BY <1>1, AsMany
  <1>3. A \cap C = {}
    OBVIOUS
  <1> HIDE DEF C, f
  <1>4. Cardinality(A \cup C) = Cardinality(A) + Cardinality(C) - Cardinality(A \cap C)
    BY <1>2, FS_Union
  <1>5. Cardinality({}) = 0 /\ Cardinality(A) \in Nat /\ Cardinality(C) \in Nat
    BY <1>2, FS_EmptySet, FS_CardinalityType
  <1>6. Cardinality(A \cap C) = 0
    BY <1>3, <1>5
  <1>7. Cardinality(A \cup C) = Cardinality(A) + Cardinality(C)
    <2> DEFINE u == Cardinality(A \cup C)
               a == Cardinality(A)
               c == Cardinality(C)
               z == Cardinality(A \cap C)
    <2>1. u = a + c - z /\ z = 0 /\ a \in Nat /\ c \in Nat
      BY <1>4, <1>5, <1>6
    <2> HIDE DEF u, a, c, z
    <2>2. u = a + c
      BY <2>1
    <2> QED BY <2>2 DEF u, a, c
  <1> QED BY <1>2, <1>7 DEF C

\* The bytes equal to b among the first m.
Hits(data, b, m) == {i \in 0 .. m - 1 : data[i + 1] = b}

LEMMA HitsFinite ==
  ASSUME NEW data, NEW b, NEW m \in Nat
  PROVE  Hits(data, b, m) \in SUBSET Nat /\ IsFiniteSet(Hits(data, b, m))
  <1>1. IsFiniteSet(0 .. m - 1)
    BY FS_Interval
  <1>2. Hits(data, b, m) \subseteq 0 .. m - 1
    BY DEF Hits
  <1> QED BY <1>1, <1>2, FS_Subset

\* One more piece of n bytes.
LEMMA HitsNext ==
  ASSUME NEW data, NEW b, NEW m \in Nat, NEW n \in Nat,
         NEW M, M = {j \in 0 .. n - 1 : data[m + j + 1] = b}
  PROVE  Cardinality(Hits(data, b, m + n)) = Cardinality(Hits(data, b, m)) + Cardinality(M)
  <1>1. Hits(data, b, m + n) = Hits(data, b, m) \cup {m + j : j \in M}
    <2>1. ASSUME NEW i \in Hits(data, b, m + n) PROVE i \in Hits(data, b, m) \cup {m + j : j \in M}
      <3>1. i \in 0 .. m + n - 1 /\ data[i + 1] = b
        BY <2>1 DEF Hits
      <3>2. CASE i < m
        BY <3>1, <3>2 DEF Hits
      <3>3. CASE ~(i < m)
        <4>1. i - m \in 0 .. n - 1 /\ m + (i - m) = i
          BY <3>1, <3>3
        <4>2. i - m \in M
          BY <3>1, <4>1
        <4> QED BY <4>1, <4>2
      <3> QED BY <3>2, <3>3
    <2>2. Hits(data, b, m) \subseteq Hits(data, b, m + n)
      BY DEF Hits
    <2>3. ASSUME NEW j \in M PROVE m + j \in Hits(data, b, m + n)
      BY <2>3 DEF Hits
    <2> QED BY <2>1, <2>2, <2>3
  <1>2. Hits(data, b, m) \in SUBSET Nat /\ IsFiniteSet(Hits(data, b, m)) /\ \A i \in Hits(data, b, m) : i < m
    <2>1. \A i \in Hits(data, b, m) : i < m
      BY DEF Hits
    <2> QED BY <2>1, HitsFinite
  <1>3. M \in SUBSET Nat /\ IsFiniteSet(M)
    <2>1. IsFiniteSet(0 .. n - 1)
      BY FS_Interval
    <2> QED BY <2>1, FS_Subset
  <1> QED BY ZenonT(40), <1>1, <1>2, <1>3, Behind

\* The chunks and the rest together are all bytes.
LEMMA CountIs ==
  ASSUME NEW S, NEW data \in Seq(S), NEW b
  PROVE  Simd!CountChar(data, b) = Cardinality({i \in 1 .. Len(data) : data[i] = b})
  <1> DEFINE L == Len(data)
             C == Simd!Chunks(L)
             f == [c \in 0 .. C - 1 |-> Cardinality(Simd!Mask(data, c, b))]
             T == {k \in 0 .. C : SumFunctionOnSet(f, 0 .. k - 1) = Cardinality(Hits(data, b, Width * k))}
  <1>1. L \in Nat /\ Width \in Nat \ {0}
    BY LenProperties, TextAssumption
  <1>2. C \in Nat /\ Width * C \in Nat /\ Width * C <= L
    <2>1. C = L \div Width
      BY DEF Simd!Chunks
    <2> HIDE DEF L, C
    <2> QED BY <1>1, <2>1
  <1> HIDE DEF L, C
  <1>3. ASSUME NEW c \in 0 .. C - 1
        PROVE  /\ Simd!Mask(data, c, b) = {j \in 0 .. Width - 1 : data[Width * c + j + 1] = b}
               /\ f[c] = Cardinality(Simd!Mask(data, c, b)) /\ f[c] \in Nat
    <2>1. Simd!Mask(data, c, b) = {j \in 0 .. Width - 1 : data[Width * c + j + 1] = b}
      BY DEF Simd!Mask, Simd!At
    <2>2. IsFiniteSet(0 .. Width - 1)
      BY <1>1, FS_Interval
    <2>3. Cardinality(Simd!Mask(data, c, b)) \in Nat
      BY <2>1, <2>2, FS_Subset, FS_CardinalityType
    <2> QED BY <2>1, <2>3
  <1>4. 0 \in T
    <2>1. 0 .. 0 - 1 = {} /\ Width * 0 = 0
      BY <1>1
    <2>2. Hits(data, b, 0) = {}
      BY DEF Hits
    <2>3. Cardinality({}) = 0
      BY FS_EmptySet
    <2> HIDE DEF f
    <2>4. SumFunctionOnSet(f, 0 .. 0 - 1) = Cardinality(Hits(data, b, Width * 0))
      BY <2>1, <2>2, <2>3, SumEmpty
    <2> QED BY <1>2, <2>4
  <1>5. ASSUME NEW k \in 1 .. C, k - 1 \in T PROVE k \in T
    <2> DEFINE l == k - 1
               m == Width * l
               M == Simd!Mask(data, l, b)
    <2>1. /\ l \in 0 .. C - 1 /\ l \in 0 .. k - 1 /\ (0 .. k - 1) \ {l} = 0 .. l - 1
          /\ \A c \in 0 .. k - 1 : c \in 0 .. C - 1
      BY <1>2
    <2>2. m \in Nat /\ Width * k = m + Width
      BY <1>1
    <2>3. IsFiniteSet(0 .. k - 1) /\ \A c \in 0 .. k - 1 : f[c] \in Int
      BY <1>3, <2>1, FS_Interval
    <2> HIDE DEF f
    <2>4. SumFunctionOnSet(f, 0 .. k - 1) = f[l] + SumFunctionOnSet(f, 0 .. l - 1)
      BY SMTT(30), <2>1, <2>3, SumRemove
    <2>5. SumFunctionOnSet(f, 0 .. l - 1) = Cardinality(Hits(data, b, m))
      BY <1>5
    <2>6. M = {j \in 0 .. Width - 1 : data[m + j + 1] = b} /\ f[l] = Cardinality(M) /\ f[l] \in Nat
      BY <1>3, <2>1
    <2> HIDE DEF l, m, M
    <2>7. Cardinality(Hits(data, b, m + Width)) = Cardinality(Hits(data, b, m)) + Cardinality(M)
      BY <1>1, <2>2, <2>6, HitsNext
    <2>8. Cardinality(Hits(data, b, m)) \in Nat
      BY <2>2, HitsFinite, FS_CardinalityType
    <2>9. SumFunctionOnSet(f, 0 .. k - 1) = Cardinality(Hits(data, b, Width * k))
      BY <2>2, <2>4, <2>5, <2>6, <2>7, <2>8
    <2> QED BY <1>2, <2>9
  <1>6. SumFunctionOnSet(f, 0 .. C - 1) = Cardinality(Hits(data, b, Width * C))
    <2> HIDE DEF T
    <2>1. \A k \in 0 .. C : k \in T
      BY <1>2, <1>4, <1>5, NumbersUpTo
    <2>2. C \in T
      BY <1>2, <2>1
    <2> QED BY <2>2 DEF T
  <1> DEFINE m == Width * C
             n == L - m
             R == {i \in Simd!Rest(L) : Simd!At(data, i) = b}
             M == {j \in 0 .. n - 1 : data[m + j + 1] = b}
  <1>7. m \in Nat /\ n \in Nat /\ m + n = L
    BY <1>1, <1>2
  <1>8. R = {i \in m .. L - 1 : data[i + 1] = b}
    BY DEF Simd!Rest, Simd!At, C
  <1> HIDE DEF m, n, R, M
  <1>9. Cardinality(Hits(data, b, L)) = Cardinality(Hits(data, b, m)) + Cardinality(M)
    <2>0. m \in Nat /\ n \in Nat /\ M = {j \in 0 .. n - 1 : data[m + j + 1] = b}
      BY <1>7 DEF M
    <2>1. Cardinality(Hits(data, b, m + n)) = Cardinality(Hits(data, b, m)) + Cardinality(M)
      BY SMTT(30), <2>0, HitsNext
    <2> QED BY <1>7, <2>1
  <1>10. Cardinality(R) = Cardinality(M)
    <2> DEFINE g == [j \in M |-> m + j]
    <2>1. \A i \in R : i - m \in M /\ m + (i - m) = i
      <3> SUFFICES ASSUME NEW i \in R PROVE i - m \in M /\ m + (i - m) = i
        OBVIOUS
      <3>1. i \in m .. L - 1 /\ data[i + 1] = b
        BY <1>8
      <3>2. i - m \in 0 .. n - 1 /\ m + (i - m) = i
        BY <1>7, <3>1
      <3> QED BY <3>1, <3>2 DEF M
    <2>2. \A j \in M : m + j \in R /\ j \in Nat
      BY <1>7, <1>8 DEF M
    <2>3. /\ \A j \in M : g[j] \in R
          /\ \A j, k \in M : g[j] = g[k] => j = k
          /\ \A i \in R : \E j \in M : g[j] = i
      BY <1>7, <2>1, <2>2
    <2>4. IsFiniteSet(M)
      <3>1. IsFiniteSet(0 .. n - 1)
        BY <1>7, FS_Interval
      <3> QED BY <3>1, FS_Subset DEF M
    <2> HIDE DEF g
    <2> QED BY <2>3, <2>4, AsMany
  <1>11. Cardinality({i \in 1 .. L : data[i] = b}) = Cardinality(Hits(data, b, L))
    <2> DEFINE H == Hits(data, b, L)
               P == {i \in 1 .. L : data[i] = b}
               g == [j \in H |-> j + 1]
    <2>1. \A i \in P : i - 1 \in H /\ (i - 1) + 1 = i
      BY <1>1 DEF Hits
    <2>2. \A j \in H : j + 1 \in P /\ j \in Nat
      BY <1>1 DEF Hits
    <2> HIDE DEF H, P
    <2>3. /\ \A j \in H : g[j] \in P
          /\ \A j, k \in H : g[j] = g[k] => j = k
          /\ \A i \in P : \E j \in H : g[j] = i
      BY <2>1, <2>2
    <2>4. IsFiniteSet(H)
      BY <1>1, HitsFinite DEF H
    <2> HIDE DEF g
    <2>5. Cardinality(P) = Cardinality(H)
      BY <2>3, <2>4, AsMany
    <2> QED BY <2>5 DEF H, P
  <1>12. Simd!CountChar(data, b) = SumFunctionOnSet(f, 0 .. C - 1) + Cardinality(R)
    BY TextLibrary DEF Simd!CountChar, L, C, R
  <1> QED BY <1>6, <1>9, <1>10, <1>11, <1>12 DEF L, m

\* Each byte that equals the character is that character.
LEMMA CountInText ==
  ASSUME NEW text \in Seq(Chars), NEW b, Single(b)
  PROVE  Simd!CountChar(Simd!Encode(text), b) = Cardinality({n \in DOMAIN text : text[n] = b})
  <1> DEFINE d == Simd!Encode(text)
             ls == Sizes(text)
             P == {i \in 1 .. Len(d) : d[i] = b}
             K == {n \in DOMAIN text : text[n] = b}
             g == [n \in K |-> Before(ls, n - 1) + 1]
  <1>1. /\ Len(text) \in Nat /\ DOMAIN text = 1 .. Len(text)
        /\ \A n \in 1 .. Len(text) : ls[n] \in Nat /\ (text[n] = b => ls[n] = 1)
    BY SpelledIs DEF Single
  <1>2. d \in Seq(Bytes) /\ Len(d) = Before(ls, Len(text))
    BY EncodeIs
  <1>3. ASSUME NEW n \in K PROVE g[n] \in P
    <2>1. n \in 1 .. Len(text) /\ text[n] = b /\ ls[n] = 1 /\ 1 \in 1 .. ls[n] /\ g[n] = Before(ls, n - 1) + 1
      BY <1>1
    <2>2. g[n] \in 1 .. Len(d)
      <3> DEFINE N == Len(text)
      <3>1. N \in Nat /\ (\A k \in 1 .. N : ls[k] \in Nat) /\ n \in 1 .. N /\ 1 \in 1 .. ls[n]
        BY <1>1, <2>1
      <3> HIDE DEF g, ls, d, N
      <3>2. Before(ls, n - 1) + 1 \in 1 .. Before(ls, N)
        BY <3>1, OnePlace
      <3> QED BY <1>2, <2>1, <3>2 DEF N
    <2>3. d[g[n]] = b
      BY <2>1, SinglePlaces
    <2> QED BY <2>2, <2>3
  <1>4. ASSUME NEW n \in K, NEW m \in K, g[n] = g[m] PROVE n = m
    <2>1. /\ n \in 1 .. Len(text) /\ 1 \in 1 .. ls[n] /\ m \in 1 .. Len(text) /\ 1 \in 1 .. ls[m]
          /\ Before(ls, n - 1) + 1 = Before(ls, m - 1) + 1
      BY <1>1, <1>4
    <2> HIDE DEF ls, K
    <2> QED BY <1>1, <2>1, OnePlace
  <1>5. ASSUME NEW i \in P PROVE \E n \in K : g[n] = i
    <2>1. PICK n \in 1 .. Len(text) : \E e \in 1 .. ls[n] : i = Before(ls, n - 1) + e
      BY EncodeIs
    <2>2. PICK e \in 1 .. ls[n] : i = Before(ls, n - 1) + e
      BY <2>1
    <2>3. text[n] = b /\ e = 1
      BY <2>2, SinglePlaces
    <2> QED BY <1>1, <2>2, <2>3
  <1>6. IsFiniteSet(K)
    <2>1. IsFiniteSet(1 .. Len(text))
      BY <1>1, FS_Interval
    <2> QED BY <1>1, <2>1, FS_Subset
  <1> HIDE DEF P
  <1>8. Cardinality(P) = Cardinality(K)
    <2> HIDE DEF g, K
    <2> QED BY <1>3, <1>4, <1>5, <1>6, AsMany
  <1>9. Simd!CountChar(d, b) = Cardinality(P)
    BY <1>2, CountIs DEF P
  <1> QED BY <1>8, <1>9

LEMMA LeastIs ==
  ASSUME NEW S \in SUBSET Int, NEW n \in S
  PROVE  /\ (\A m \in S : n <= m) => Simd!Min(S) = n
         /\ (\A m \in S : n >= m) => Simd!Max(S) = n
  <1>1. ASSUME \A m \in S : n <= m PROVE Simd!Min(S) = n
    <2>1. \A k \in S : (\A m \in S : k <= m) => k = n
      BY <1>1
    <2>2. Simd!Min(S) \in S /\ \A m \in S : Simd!Min(S) <= m
      BY <1>1 DEF Simd!Min
    <2> QED BY <2>1, <2>2
  <1>2. ASSUME \A m \in S : n >= m PROVE Simd!Max(S) = n
    <2>1. \A k \in S : (\A m \in S : k >= m) => k = n
      BY <1>2
    <2>2. Simd!Max(S) \in S /\ \A m \in S : Simd!Max(S) >= m
      BY <1>2 DEF Simd!Max
    <2> QED BY <2>1, <2>2
  <1> QED BY <1>1, <1>2

\* The blanks before s and after t go.
LEMMA TrimCuts ==
  ASSUME NEW S, NEW d \in Seq(S), NEW s \in 0 .. Len(d), NEW t \in s .. Len(d),
         \A i \in 1 .. s : d[i] \in Blanks, s < Len(d) => d[s + 1] \notin Blanks,
         \A i \in t + 1 .. Len(d) : d[i] \in Blanks, t > s => d[t] \notin Blanks
  PROVE  Simd!Trim(d) = SubSeq(d, s + 1, t)
  <1> DEFINE L == Len(d)
             F == {i \in 0 .. L : i < L => Simd!At(d, i) \notin Blanks}
             G == {i \in s .. L : i > s => Simd!At(d, i - 1) \notin Blanks}
  <1>1. L \in Nat
    BY LenProperties
  <1> HIDE DEF L
  <1>2. Simd!Min(F) = s
    <2>1. s \in F
      BY DEF Simd!At, L
    <2>2. ASSUME NEW y \in F, y < s PROVE FALSE
      <3>1. y \in 0 .. L /\ y < L /\ y + 1 \in 1 .. s
        BY <1>1, <2>2 DEF L
      <3> QED BY <3>1 DEF Simd!At
    <2>3. F \in SUBSET Int /\ \A y \in F : s <= y
      BY <1>1, <2>2
    <2> HIDE DEF F
    <2> QED BY <2>1, <2>3, LeastIs
  <1>3. Simd!Max(G) = t
    <2>1. t \in G
      BY DEF Simd!At, L
    <2>2. ASSUME NEW y \in G, y > t PROVE FALSE
      <3>1. y \in t + 1 .. L /\ y > s /\ y - 1 + 1 = y
        BY <1>1, <2>2 DEF L
      <3>2. d[y - 1 + 1] \notin Blanks
        BY <3>1 DEF Simd!At
      <3> QED BY <3>1, <3>2 DEF L
    <2>3. G \in SUBSET Int /\ \A y \in G : t >= y
      BY <1>1, <2>2
    <2> HIDE DEF G
    <2> QED BY <2>1, <2>3, LeastIs
  <1>4. Simd!TrimStart(d) = s
    BY <1>2 DEF Simd!TrimStart, L
  <1>5. Simd!TrimEnd(d) = t
    BY <1>3, <1>4 DEF Simd!TrimEnd, L
  <1> QED BY <1>4, <1>5 DEF Simd!Trim

\* The bytes of a part of a text are a part of its bytes.
LEMMA EncodePart ==
  ASSUME NEW text \in Seq(Chars), NEW a \in 1 .. Len(text), NEW b \in a .. Len(text)
  PROVE  Simd!Encode(SubSeq(text, a, b))
           = SubSeq(Simd!Encode(text), Before(Sizes(text), a - 1) + 1, Before(Sizes(text), b))
  <1> DEFINE N == Len(text)
             ls == Sizes(text)
             d == Simd!Encode(text)
             part == SubSeq(text, a, b)
             K == b - a + 1
             ks == Sizes(part)
             p == Before(ls, a - 1)
             z == Before(ls, b)
             q == SubSeq(d, p + 1, z)
  <1>1. /\ N \in Nat /\ a \in Nat /\ b \in Nat /\ K \in Nat /\ a + K = b + 1
        /\ \A n \in 1 .. N : text[n] \in Chars /\ ls[n] = Len(Simd!Utf8(text[n])) /\ ls[n] \in Nat
    BY SpelledIs
  <1>2. part \in Seq(Chars) /\ Len(part) = K /\ \A m \in 1 .. K : part[m] = text[a + m - 1]
    <2>1. a \in Int /\ b \in Int /\ \A n \in a .. b : text[n] \in Chars
      BY <1>1
    <2>2. /\ part \in Seq(Chars) /\ Len(part) = IF a <= b THEN b - a + 1 ELSE 0
          /\ \A m \in 1 .. b - a + 1 : part[m] = text[a + m - 1]
      BY <2>1, SubSeqProperties
    <2> QED BY <2>2
  <1>3. \A m \in 1 .. K : /\ ks[m] = Len(Simd!Utf8(part[m])) /\ ks[m] \in Nat
                          /\ a + m - 1 \in 1 .. N /\ ks[m] = ls[a + m - 1]
    <2> SUFFICES ASSUME NEW m \in 1 .. K
                 PROVE  /\ ks[m] = Len(Simd!Utf8(part[m])) /\ ks[m] \in Nat
                        /\ a + m - 1 \in 1 .. N /\ ks[m] = ls[a + m - 1]
      OBVIOUS
    <2>1. m \in 1 .. Len(part) /\ a + m - 1 \in 1 .. N
      BY <1>1, <1>2
    <2> HIDE DEF part, K
    <2>2. ks[m] = Len(Simd!Utf8(part[m])) /\ ks[m] \in Nat
      BY <1>2, <2>1, SpelledIs
    <2> QED BY <1>1, <1>2, <2>1, <2>2
  <1>4. /\ d \in Seq(Bytes) /\ Len(d) = Before(ls, N)
        /\ \A n \in 1 .. N : \A e \in 1 .. ls[n] : d[Before(ls, n - 1) + e] = Simd!Utf8(text[n])[e]
    BY EncodeIs
  <1> HIDE DEF ls, d, part, ks, N, K
  <1>5. /\ \A n \in 0 .. N : Before(ls, n) \in Nat
        /\ \A n \in 1 .. N : Before(ls, n) = Before(ls, n - 1) + ls[n]
        /\ \A n \in 0 .. K : Before(ks, n) \in Nat
        /\ Before(ks, 0) = 0
        /\ \A n \in 1 .. K : Before(ks, n) = Before(ks, n - 1) + ks[n]
    <2>1. \A n \in 1 .. K : ks[n] \in Nat
      BY <1>3
    <2>2. /\ \A n \in 0 .. N : Before(ls, n) \in Nat
          /\ \A n \in 1 .. N : Before(ls, n) = Before(ls, n - 1) + ls[n]
      BY <1>1, BeforeIs
    <2>3. /\ \A n \in 0 .. K : Before(ks, n) \in Nat
          /\ Before(ks, 0) = 0
          /\ \A n \in 1 .. K : Before(ks, n) = Before(ks, n - 1) + ks[n]
      BY <1>1, <2>1, BeforeIs
    <2> QED BY <2>2, <2>3
  <1>6. \A m \in 0 .. K : a + m - 1 \in 0 .. N /\ p + Before(ks, m) = Before(ls, a + m - 1)
    <2> DEFINE T == {m \in 0 .. K : p + Before(ks, m) = Before(ls, a + m - 1)}
    <2>0. p \in Nat
      BY <1>1, <1>5 DEF N
    <2>1. 0 \in T
      <3>1. a + 0 - 1 = a - 1
        BY <1>1
      <3> QED BY <1>1, <1>5, <2>0, <3>1
    <2>2. ASSUME NEW m \in 1 .. K, m - 1 \in T PROVE m \in T
      <3> DEFINE j == a + m - 1
                 u == Before(ks, m - 1)
                 v == Before(ls, j - 1)
      <3>1. j \in 1 .. N /\ a + (m - 1) - 1 = j - 1 /\ j - 1 \in 0 .. N /\ m - 1 \in 0 .. K /\ m \in 0 .. K
        <4>0. K \in Nat
          BY <1>1
        <4>1. a + m - 1 \in 1 .. N
          BY <1>3
        <4>2. m \in Nat /\ m - 1 \in 0 .. K /\ m \in 0 .. K
          BY <4>0
        <4>3. a + (m - 1) - 1 = (a + m - 1) - 1 /\ (a + m - 1) - 1 \in 0 .. N
          BY <1>1, <4>1, <4>2
        <4> QED BY <4>1, <4>2, <4>3
      <3>2. p + u = v
        BY <2>2, <3>1
      <3>3. Before(ks, m) = u + ks[m] /\ Before(ls, j) = v + ls[j] /\ ks[m] = ls[j] /\ ks[m] \in Nat
            /\ u \in Nat /\ v \in Nat
        BY <1>3, <1>5, <3>1
      <3> HIDE DEF j, u, v, p
      <3>4. p + Before(ks, m) = Before(ls, j)
        BY <2>0, <3>2, <3>3
      <3> QED BY <3>1, <3>4 DEF j
    <2> HIDE DEF T
    <2>3. \A m \in 0 .. K : m \in T
      BY <1>1, <2>1, <2>2, NumbersUpTo
    <2>4. \A m \in 0 .. K : a + m - 1 \in 0 .. N
      BY <1>1 DEF N, K
    <2> QED BY <2>3, <2>4 DEF T
  <1>7. p \in Nat /\ z \in Nat /\ Before(ks, K) \in Nat /\ z = p + Before(ks, K) /\ z <= Len(d)
    <2>1. K \in 0 .. K /\ b = a + K - 1 /\ a - 1 \in 0 .. N /\ b \in 0 .. N /\ N \in 0 .. N /\ b <= N
      BY <1>1 DEF N
    <2>2. z <= Before(ls, N)
      BY <1>1, <2>1, BeforeGrows
    <2> QED BY <1>4, <1>5, <1>6, <2>1, <2>2
  <1> HIDE DEF p, z
  <1>8. q \in Seq(Bytes) /\ Len(q) = Before(ks, K) /\ \A i \in 1 .. Before(ks, K) : q[i] = d[p + i]
    <2> DEFINE l == p + 1
    <2>1. l \in Int /\ z \in Int /\ \A i \in l .. z : d[i] \in Bytes
      <3>1. \A i \in l .. z : i \in 1 .. Len(d)
        BY <1>7, LenProperties
      <3> QED BY <1>4, <1>7, <3>1, ElementOfSeq
    <2> HIDE DEF l
    <2>2. /\ SubSeq(d, l, z) \in Seq(Bytes)
          /\ Len(SubSeq(d, l, z)) = IF l <= z THEN z - l + 1 ELSE 0
          /\ \A i \in 1 .. z - l + 1 : SubSeq(d, l, z)[i] = d[l + i - 1]
      BY <2>1, SubSeqProperties
    <2>3. /\ z - l + 1 = Before(ks, K) /\ (IF l <= z THEN z - l + 1 ELSE 0) = Before(ks, K)
          /\ \A i \in 1 .. Before(ks, K) : l + i - 1 = p + i
      BY <1>7 DEF l
    <2> QED BY <2>2, <2>3 DEF l
  <1> HIDE DEF q
  <1>9. ASSUME NEW m \in 1 .. K, NEW e \in 1 .. ks[m]
        PROVE  q[Before(ks, m - 1) + e] = Simd!Utf8(part[m])[e]
    <2> DEFINE j == a + m - 1
               i == Before(ks, m - 1) + e
    <2>1. /\ j \in 1 .. N /\ ks[m] = ls[j] /\ part[m] = text[j]
          /\ m - 1 \in 0 .. K /\ a + (m - 1) - 1 = j - 1
      BY <1>1, <1>2, <1>3
    <2>2. i \in 1 .. Before(ks, K)
      <3>1. \A n \in 1 .. K : ks[n] \in Nat
        BY <1>3
      <3> QED BY <1>1, <3>1, OnePlace
    <2>3. p + Before(ks, m - 1) = Before(ls, j - 1) /\ Before(ks, m - 1) \in Nat
      BY <1>5, <1>6, <2>1
    <2>4. p + i = Before(ls, j - 1) + e
      <3> DEFINE u == Before(ks, m - 1)
                 v == Before(ls, j - 1)
      <3>1. u \in Nat /\ p \in Nat /\ p + u = v /\ e \in Nat
        BY <1>3, <1>7, <2>3
      <3> HIDE DEF u, v
      <3>2. p + (u + e) = v + e
        BY <3>1
      <3> QED BY <3>2 DEF u, v
    <2>5. d[Before(ls, j - 1) + e] = Simd!Utf8(text[j])[e]
      BY <1>4, <2>1
    <2> HIDE DEF i, j
    <2>6. q[i] = Simd!Utf8(part[m])[e]
      BY <1>8, <2>1, <2>2, <2>4, <2>5
    <2> QED BY <2>6 DEF i
  <1>10. q = Simd!Encode(part)
    <2> DEFINE seqs == Spelled(part)
    <2>1. seqs \in Seq(Seq(Bytes)) /\ Len(seqs) = K /\ \A m \in 1 .. K : seqs[m] = Simd!Utf8(part[m])
      BY <1>2, SpelledIs
    <2>2. Lens(seqs) = ks
      BY DEF ks, Sizes
    <2> HIDE DEF seqs
    <2>3. InPlaces(q, Bytes, seqs, K)
      <3>1. \A m \in 1 .. K : seqs[m] = Simd!Utf8(part[m]) /\ ks[m] = Len(seqs[m])
        BY <1>3, <2>1
      <3>2. \A m \in 1 .. K : \A e \in 1 .. Len(seqs[m]) : q[Before(ks, m - 1) + e] = seqs[m][e]
        BY <1>9, <3>1
      <3> QED BY <1>8, <2>2, <3>2 DEF InPlaces
    <2>4. q = Flat(seqs)
      BY <1>8, <2>1, <2>3, PlacesTell
    <2> QED BY <2>4, TextLibrary DEF Simd!Encode, seqs, Spelled
  <1> QED BY <1>10 DEF q, p, z, d, ls, part

LEMMA BlankPlaces ==
  ASSUME NEW text \in Seq(Chars), NEW n \in 1 .. Len(text), NEW e \in 1 .. Sizes(text)[n]
  PROVE  Simd!Encode(text)[Before(Sizes(text), n - 1) + e] \in Blanks <=> text[n] \in Blanks
  BY SinglePlaces, SingleBytes

LEMMA TrimInText ==
  ASSUME NEW text \in Seq(Chars)
  PROVE  Simd!Trim(Simd!Encode(text)) = Simd!Encode(Simd!Stripped(text))
  <1> DEFINE N == Len(text)
             ls == Sizes(text)
             d == Simd!Encode(text)
             L == Len(d)
             inner == {n \in DOMAIN text : text[n] \notin Blanks}
  <1>1. /\ N \in Nat /\ DOMAIN text = 1 .. N
        /\ \A n \in 1 .. N : ls[n] \in Nat /\ ls[n] >= 1
    <2>1. \A n \in 1 .. N : ls[n] = IF text[n] \in Wide THEN 2 ELSE 1
      BY SpelledIs
    <2> HIDE DEF ls
    <2>2. \A n \in 1 .. N : ls[n] \in Nat /\ ls[n] >= 1
      BY <2>1
    <2> QED BY <2>2, SpelledIs
  <1>2. /\ d \in Seq(Bytes) /\ L \in Nat /\ L = Before(ls, N)
        /\ \A i \in 1 .. L : \E n \in 1 .. N : \E e \in 1 .. ls[n] : i = Before(ls, n - 1) + e
    BY EncodeIs, LenProperties
  <1>3. \A n \in 1 .. N : \A e \in 1 .. ls[n] :
          d[Before(ls, n - 1) + e] \in Blanks <=> text[n] \in Blanks
    BY BlankPlaces
  <1> HIDE DEF N, ls
  <1>4. /\ \A n \in 0 .. N : Before(ls, n) \in Nat
        /\ \A n \in 1 .. N : Before(ls, n) = Before(ls, n - 1) + ls[n] /\ n - 1 \in 0 .. N /\ n \in 0 .. N
        /\ \A m, n \in 0 .. N : m <= n => Before(ls, m) <= Before(ls, n)
    <2>1. N \in Nat /\ \A n \in 1 .. N : ls[n] \in Nat
      BY <1>1
    <2>2. \A n \in 1 .. N : n - 1 \in 0 .. N /\ n \in 0 .. N
      BY <2>1
    <2>3. /\ \A n \in 0 .. N : Before(ls, n) \in Nat
          /\ \A n \in 1 .. N : Before(ls, n) = Before(ls, n - 1) + ls[n]
      BY <2>1, BeforeIs
    <2>4. \A m, n \in 0 .. N : m <= n => Before(ls, m) <= Before(ls, n)
      BY <2>1, BeforeGrows
    <2> QED BY <2>2, <2>3, <2>4
  <1>5. CASE inner = {}
    <2>1. \A n \in 1 .. N : text[n] \in Blanks
      BY <1>1, <1>5
    <2>2. \A i \in 1 .. L : d[i] \in Blanks
      BY <1>2, <1>3, <2>1
    <2>3. Simd!Trim(d) = SubSeq(d, L + 1, L)
      <3>1. /\ L = Len(d) /\ L \in 0 .. Len(d) /\ L \in L .. Len(d)
            /\ L + 1 .. Len(d) = {} /\ ~(L < Len(d)) /\ ~(L > L)
        BY <1>2
      <3>2. d \in Seq(Bytes)
        BY <1>2
      <3> HIDE DEF d, L
      <3>3. \A i \in L + 1 .. Len(d) : d[i] \in Blanks
        BY <3>1
      <3> QED BY <2>2, <3>1, <3>2, <3>3, TrimCuts
    <2>4. SubSeq(d, L + 1, L) = << >>
      <3> HIDE DEF d, L
      <3> QED BY <1>2, SubSeqEmpty
    <2>5. Simd!Stripped(text) = << >>
      BY <1>5 DEF Simd!Stripped
    <2>6. Simd!Encode(<< >>) = << >>
      <3>1. << >> \in Seq(Chars) /\ Len(<< >>) = 0
        OBVIOUS
      <3>2. Simd!Encode(<< >>) \in Seq(Bytes) /\ Len(Simd!Encode(<< >>)) = Before(Sizes(<< >>), 0)
        BY <3>1, EncodeIs
      <3>3. Before(Sizes(<< >>), 0) = 0
        BY 1 .. 0 = {}, SumEmpty DEF Before
      <3> QED BY <3>2, <3>3, EmptySeq
    <2> QED BY <2>3, <2>4, <2>5, <2>6
  <1>6. CASE inner # {}
    <2>1. inner \in SUBSET Nat /\ \A n \in inner : n \in 1 .. N
      BY <1>1
    <2> HIDE DEF inner
    <2>2. PICK a \in inner : \A n \in inner : a <= n
      BY <1>6, <2>1, LeastElement
    <2>3. PICK b \in inner : \A n \in inner : b >= n
      <3> DEFINE T == {N - n : n \in inner}
      <3>1. T \in SUBSET Nat /\ T # {}
        BY <1>1, <1>6, <2>1
      <3> HIDE DEF T
      <3>2. PICK c \in T : \A m \in T : c <= m
        BY <3>1, LeastElement
      <3>3. PICK b \in inner : c = N - b
        BY DEF T
      <3>4. \A n \in inner : c <= N - n
        BY <3>2 DEF T
      <3>5. \A n \in inner : b >= n
        BY <1>1, <2>1, <3>3, <3>4
      <3> QED BY <3>5
    <2>4. /\ a \in 1 .. N /\ b \in a .. N /\ text[a] \notin Blanks /\ text[b] \notin Blanks
          /\ b \in 1 .. N
          /\ \A n \in 1 .. a - 1 : n \in 1 .. N /\ text[n] \in Blanks
          /\ \A n \in b + 1 .. N : n \in 1 .. N /\ text[n] \in Blanks
      BY SMTT(30), <1>1, <2>1, <2>2, <2>3 DEF inner
    <2> DEFINE s == Before(ls, a - 1)
               t == Before(ls, b)
    <2>5. s \in 0 .. L /\ t \in s .. L /\ s < L
      <3>1. /\ a - 1 \in 0 .. N /\ a \in 0 .. N /\ b \in 0 .. N /\ N \in 0 .. N /\ a <= b /\ b <= N
            /\ Before(ls, a) = Before(ls, a - 1) + ls[a] /\ ls[a] \in Nat /\ ls[a] >= 1
        BY <1>1, <1>4, <2>4
      <3>2. Before(ls, a) <= Before(ls, b) /\ Before(ls, b) <= Before(ls, N)
        BY <1>4, <3>1
      <3>3. Before(ls, a - 1) \in Nat /\ Before(ls, a) \in Nat /\ Before(ls, b) \in Nat
        BY <1>4, <3>1
      <3> QED BY <1>2, <3>1, <3>2, <3>3
    <2>6. \A i \in 1 .. s : d[i] \in Blanks
      <3> SUFFICES ASSUME NEW i \in 1 .. s PROVE d[i] \in Blanks
        OBVIOUS
      <3>1. i \in 1 .. L
        BY <1>2, <2>5
      <3>2. PICK n \in 1 .. N : \E e \in 1 .. ls[n] : i = Before(ls, n - 1) + e
        BY <1>2, <3>1
      <3>3. PICK e \in 1 .. ls[n] : i = Before(ls, n - 1) + e
        BY <3>2
      <3>4. n < a
        <4> SUFFICES ASSUME ~(n < a) PROVE FALSE
          OBVIOUS
        <4>1. a - 1 <= n - 1 /\ a - 1 \in 0 .. N /\ n - 1 \in 0 .. N
          BY <1>1, <2>4
        <4>2. s <= Before(ls, n - 1) /\ Before(ls, n - 1) \in Nat /\ s \in Nat
          BY <1>4, <4>1
        <4>3. e \in Nat /\ e >= 1
          BY <1>1
        <4> QED BY <3>3, <4>2, <4>3
      <3>5. text[n] \in Blanks
        BY <1>1, <2>4, <3>4
      <3> QED BY <1>3, <3>3, <3>5
    <2>7. \A i \in t + 1 .. L : d[i] \in Blanks
      <3> SUFFICES ASSUME NEW i \in t + 1 .. L PROVE d[i] \in Blanks
        OBVIOUS
      <3>1. i \in 1 .. L /\ t \in Nat /\ i > t
        BY <1>2, <2>5
      <3>2. PICK n \in 1 .. N : \E e \in 1 .. ls[n] : i = Before(ls, n - 1) + e
        BY <1>2, <3>1
      <3>3. PICK e \in 1 .. ls[n] : i = Before(ls, n - 1) + e
        BY <3>2
      <3>4. n > b
        <4> SUFFICES ASSUME ~(n > b) PROVE FALSE
          OBVIOUS
        <4>1. n <= b /\ n \in 0 .. N /\ b \in 0 .. N
          BY <1>1, <2>4
        <4>2. Before(ls, n) <= t /\ Before(ls, n) \in Nat
          BY <1>4, <4>1
        <4>3. /\ Before(ls, n) = Before(ls, n - 1) + ls[n] /\ Before(ls, n - 1) \in Nat
              /\ ls[n] \in Nat /\ e <= ls[n] /\ e \in Nat
          BY <1>1, <1>4
        <4> QED BY <3>1, <3>3, <4>2, <4>3
      <3>5. text[n] \in Blanks
        BY <1>1, <2>4, <3>4
      <3> QED BY <1>3, <3>3, <3>5
    <2>8. d[s + 1] \notin Blanks
      <3>1. 1 \in 1 .. ls[a]
        BY <1>1, <2>4
      <3> QED BY <1>3, <2>4, <3>1
    <2>9. d[t] \notin Blanks
      <3>1. ls[b] \in 1 .. ls[b] /\ Before(ls, b) = Before(ls, b - 1) + ls[b]
        BY <1>1, <1>4, <2>4
      <3> QED BY <1>3, <2>4, <3>1
    <2>10. Simd!Trim(d) = SubSeq(d, s + 1, t)
      <3> HIDE DEF d, s, t
      <3> QED BY <1>2, <2>5, <2>6, <2>7, <2>8, <2>9, TrimCuts
    <2>11. Simd!Encode(SubSeq(text, a, b)) = SubSeq(d, s + 1, t)
      BY <2>4, EncodePart DEF N, ls
    <2>12. Simd!Stripped(text) = SubSeq(text, a, b)
      <3>1. inner \in SUBSET Int
        BY <2>1
      <3>2. Simd!Min(inner) = a /\ Simd!Max(inner) = b
        BY <2>2, <2>3, <3>1, LeastIs
      <3> QED BY <1>6, <3>2 DEF Simd!Stripped, inner
    <2> QED BY <2>10, <2>11, <2>12
  <1> QED BY <1>5, <1>6

\* The blended chunks and the rest together: every byte that equals o.
LEMMA ReplaceIs ==
  ASSUME NEW S, NEW d \in Seq(S), NEW o, NEW w
  PROVE  Simd!ReplaceChar(d, o, w) = [n \in DOMAIN d |-> IF d[n] = o THEN w ELSE d[n]]
  <1> DEFINE r == Simd!ReplaceChar(d, o, w)
             L == Len(d)
  <1>1. L \in Nat /\ DOMAIN d = 1 .. L /\ Width \in Nat \ {0}
    BY LenProperties, TextAssumption
  <1>2. r = [n \in DOMAIN d |->
               IF n - 1 \in Simd!Rest(L) THEN (IF d[n] = o THEN w ELSE d[n])
               ELSE IF (n - 1) % Width \in Simd!Mask(d, (n - 1) \div Width, o) THEN w ELSE d[n]]
    BY DEF Simd!ReplaceChar
  <1> HIDE DEF r, L
  <1>3. ASSUME NEW n \in DOMAIN d PROVE (n - 1) % Width \in Simd!Mask(d, (n - 1) \div Width, o) <=> d[n] = o
    <2> DEFINE i == n - 1
               j == i % Width
               c == i \div Width
    <2>1. i \in Nat /\ i + 1 = n
      BY <1>1, <1>3
    <2> HIDE DEF i
    <2>2. j \in 0 .. Width - 1 /\ Width * c + j = i
      BY <1>1, <2>1
    <2> HIDE DEF j, c
    <2>3. j \in Simd!Mask(d, c, o) <=> d[Width * c + j + 1] = o
      BY <2>2 DEF Simd!Mask, Simd!At
    <2> QED BY <2>1, <2>2, <2>3 DEF i, j, c
  <1> QED BY <1>2, <1>3 DEF r

LEMMA ReplaceInText ==
  ASSUME NEW text \in Seq(Chars), NEW o \in Chars, NEW w \in Chars, Single(o), Single(w)
  PROVE  Simd!ReplaceChar(Simd!Encode(text), o, w)
           = Simd!Encode([n \in DOMAIN text |-> IF text[n] = o THEN w ELSE text[n]])
  <1> DEFINE N == Len(text)
             ls == Sizes(text)
             d == Simd!Encode(text)
             new == [n \in DOMAIN text |-> IF text[n] = o THEN w ELSE text[n]]
             r == Simd!ReplaceChar(d, o, w)
             seqs == Spelled(new)
  <1>1. /\ N \in Nat /\ DOMAIN text = 1 .. N
        /\ \A n \in 1 .. N : /\ text[n] \in Chars /\ ls[n] \in Nat
                             /\ ls[n] = IF text[n] \in Wide THEN 2 ELSE 1
    BY SpelledIs
  <1>2. new \in Seq(Chars) /\ Len(new) = N /\ \A n \in 1 .. N : new[n] = IF text[n] = o THEN w ELSE text[n]
    <2>1. new \in [1 .. N -> Chars] /\ \A n \in 1 .. N : new[n] = IF text[n] = o THEN w ELSE text[n]
      BY <1>1
    <2> HIDE DEF new, N
    <2> QED BY <1>1, <2>1
  <1>3. /\ d \in Seq(Bytes) /\ Len(d) \in Nat /\ DOMAIN d = 1 .. Len(d) /\ Len(d) = Before(ls, N)
        /\ \A n \in 1 .. N : \A e \in 1 .. ls[n] : d[Before(ls, n - 1) + e] = Simd!Utf8(text[n])[e]
    BY EncodeIs, LenProperties
  <1>4. r = [i \in DOMAIN d |-> IF d[i] = o THEN w ELSE d[i]]
    BY <1>3, ReplaceIs
  <1> HIDE DEF d, new, r
  <1>5. r \in Seq(Bytes) /\ Len(r) = Len(d)
    <2>1. w \in Bytes /\ \A i \in 1 .. Len(d) : d[i] \in Bytes
      BY <1>3, ElementOfSeq DEF Bytes
    <2> DEFINE M == Len(d)
    <2>2. r \in [1 .. M -> Bytes] /\ M \in Nat
      BY <1>3, <1>4, <2>1
    <2> HIDE DEF M
    <2>3. r \in Seq(Bytes) /\ Len(r) = M
      BY <2>2
    <2> QED BY <2>3 DEF M
  <1>6. Sizes(new) = ls
    <2>1. DOMAIN Sizes(new) = 1 .. N /\ DOMAIN ls = 1 .. N
      BY <1>1, <1>2, SpelledIs DEF Sizes, Lens, Spelled
    <2>2. \A n \in 1 .. N : Sizes(new)[n] = IF new[n] \in Wide THEN 2 ELSE 1
      BY <1>2, SpelledIs
    <2>3. \A n \in 1 .. N : Sizes(new)[n] = ls[n]
      BY <1>1, <1>2, <2>2 DEF Single
    <2>4. Sizes(new) = [n \in DOMAIN Sizes(new) |-> Sizes(new)[n]] /\ ls = [n \in DOMAIN ls |-> ls[n]]
      BY DEF Sizes, Lens
    <2> QED BY <2>1, <2>3, <2>4
  <1>7. ASSUME NEW n \in 1 .. N, NEW e \in 1 .. ls[n]
        PROVE  r[Before(ls, n - 1) + e] = Simd!Utf8(new[n])[e]
    <2> DEFINE i == Before(ls, n - 1) + e
    <2>1. i \in 1 .. Len(d)
      <3> HIDE DEF ls, N
      <3> QED BY <1>1, <1>3, OnePlace
    <2>2. d[i] = Simd!Utf8(text[n])[e]
      BY <1>3
    <2>3. /\ d[i] = o <=> text[n] = o
          /\ text[n] = o => e = 1
      BY SinglePlaces DEF d
    <2>4. r[i] = IF d[i] = o THEN w ELSE d[i]
      BY <1>3, <1>4, <2>1
    <2>5. Simd!Utf8(w)[1] = w
      BY Utf8Is DEF Single
    <2> QED BY <1>2, <2>2, <2>3, <2>4, <2>5
  <1>8. seqs \in Seq(Seq(Bytes)) /\ Len(seqs) = N /\ \A n \in 1 .. N : /\ seqs[n] = Simd!Utf8(new[n])
                                                                      /\ ls[n] = Len(seqs[n])
    BY <1>2, <1>6, SpelledIs
  <1>9. InPlaces(r, Bytes, seqs, N)
    BY <1>3, <1>5, <1>6, <1>7, <1>8 DEF InPlaces, Sizes
  <1> HIDE DEF seqs, ls
  <1>10. r = Flat(seqs)
    BY <1>5, <1>8, <1>9, PlacesTell
  <1>11. Simd!Encode(new) = Flat(seqs)
    BY TextLibrary DEF Simd!Encode, seqs, Spelled
  <1> QED BY <1>10, <1>11 DEF r, d, new

LEMMA TextStep ==
  ASSUME Simd!BytesAreCharacters, [Simd!Next]_simdV
  PROVE  Simd!BytesAreCharacters'
  <1>1. \A text \in Simd!Texts : text \in Seq(Chars)
    <2>1. ASSUME NEW text \in Simd!Texts PROVE text \in Seq(Chars)
      <3>1. PICK m \in 0 .. MaxText : text \in [1 .. m -> Chars]
        BY <2>1 DEF Simd!Texts, Simd!SeqOf
      <3>2. m \in Nat
        BY TextAssumption
      <3> QED BY <3>1, <3>2
    <2> QED BY <2>1
  <1>2. \A a \in Simd!Args : a \in Seq(Chars)
    <2>1. ASSUME NEW a \in Simd!Args PROVE a \in Seq(Chars)
      <3>1. PICK m \in 0 .. 2 : a \in [1 .. m -> Chars]
        BY <2>1 DEF Simd!Args, Simd!SeqOf
      <3>2. m \in Nat
        OBVIOUS
      <3> QED BY <3>1, <3>2
    <2> QED BY <2>1
  <1>3. CASE Simd!Count
    <2>1. PICK text \in Simd!Texts, a \in Simd!Args :
            /\ Simd!IsChar(a)
            /\ call' = [name |-> "count_char", text |-> text, ch |-> a]
            /\ answer' = Simd!CountChar(Simd!Encode(text), Simd!CharOf(a))
      BY <1>3 DEF Simd!Count
    <2>2. text \in Seq(Chars) /\ a \in Seq(Chars)
      BY <1>1, <1>2
    <2>3. Simd!CharOf(a) = a[1] /\ Single(a[1])
      BY <2>1, <2>2, CharIs
    <2>4. answer' = Cardinality({n \in DOMAIN text : text[n] = a[1]})
      BY <2>1, <2>2, <2>3, CountInText
    <2>5. call'.name = "count_char" /\ call'.text = text /\ call'.ch = a
      BY <2>1
    <2> QED BY <2>4, <2>5, TextLibrary DEF Simd!BytesAreCharacters
  <1>4. CASE Simd!Strip
    <2>1. PICK text \in Simd!Texts :
            /\ call' = [name |-> "trim", text |-> text]
            /\ answer' = Simd!Trim(Simd!Encode(text))
      BY <1>4 DEF Simd!Strip
    <2>2. answer' = Simd!Encode(Simd!Stripped(text))
      BY <1>1, <2>1, TrimInText
    <2>3. call'.name = "trim" /\ call'.text = text
      BY <2>1
    <2> QED BY <2>2, <2>3 DEF Simd!BytesAreCharacters
  <1>5. CASE Simd!Replace
    <2>1. PICK text \in Simd!Texts, a \in Simd!Args, b \in Simd!Args :
            /\ Simd!IsChar(a) /\ Simd!IsChar(b)
            /\ call' = [name |-> "replace_char", text |-> text, old |-> a, new |-> b]
            /\ answer' = Simd!ReplaceChar(Simd!Encode(text), Simd!CharOf(a), Simd!CharOf(b))
      BY <1>5 DEF Simd!Replace
    <2>2. text \in Seq(Chars) /\ a \in Seq(Chars) /\ b \in Seq(Chars)
      BY <1>1, <1>2
    <2>3. /\ Simd!CharOf(a) = a[1] /\ Single(a[1]) /\ a[1] \in Chars
          /\ Simd!CharOf(b) = b[1] /\ Single(b[1]) /\ b[1] \in Chars
      BY <2>1, <2>2, CharIs
    <2>4. answer' = Simd!Encode([n \in DOMAIN text |-> IF text[n] = a[1] THEN b[1] ELSE text[n]])
      BY <2>1, <2>2, <2>3, ReplaceInText
    <2>5. call'.name = "replace_char" /\ call'.text = text /\ call'.old = a /\ call'.new = b
      BY <2>1
    <2> QED BY <2>4, <2>5 DEF Simd!BytesAreCharacters
  <1>6. CASE UNCHANGED simdV
    BY <1>6 DEF simdV, Simd!BytesAreCharacters
  <1> QED BY <1>3, <1>4, <1>5, <1>6 DEF Simd!Next

\* CountChar, Trim and ReplaceChar answer about the characters of a text of any
\* length what they compute from its bytes, in chunks of any size (simd_ops.cpp:8-93).
THEOREM TextsAreRead == Spec => []BytesAreCharacters
  <1>1. Init => Simd!BytesAreCharacters
    <2> SUFFICES ASSUME Init PROVE Simd!BytesAreCharacters
      OBVIOUS
    <2>1. call.name = "none"
      BY ComponentInits DEF Simd!Init
    <2> QED BY <2>1 DEF Simd!BytesAreCharacters
  <1>2. Simd!BytesAreCharacters /\ [Next]_vars => Simd!BytesAreCharacters'
    BY ComponentSteps, TextStep
  <1> QED BY <1>1, <1>2, PTL DEF Spec, BytesAreCharacters
-----------------------------------------------------------------------------
(* DictStore: the chains as lists of offsets.                              *)

Links     == Store!Offsets \cup {0}
EntryIn   == [key : StoreKeys, val : Vals, next : Links]

Nth(q, n, j) == IF j < n THEN q[j] ELSE 0

\* The n offsets of q are a chain from first to 0, each once.
Chains(first, m, q, n) ==
  /\ q \in [0 .. n - 1 -> Store!Offsets]
  /\ \A a, b \in 0 .. n - 1 : q[a] = q[b] => a = b
  /\ first = Nth(q, n, 0)
  /\ \A j \in 1 .. n : m[q[j - 1]].next = Nth(q, n, j)

OffsetsIn(q, n) == {q[j] : j \in 0 .. n - 1}

\* A chain from first ends and has the offsets F.
Chained(first, m, F) == \E n \in Nat : \E q : Chains(first, m, q, n) /\ F = OffsetsIn(q, n)

TakenIn(s) == {o \in taken : SlotOf[mem[o].key] = s}

StoreInv ==
  /\ table \in [Store!Slots -> Links]
  /\ taken \subseteq Store!Offsets
  /\ mem \in [Store!Offsets -> EntryIn \cup {NoEntry}]
  /\ \A o \in taken : mem[o] \in EntryIn
  /\ map \in [StoreKeys -> Vals \cup {Store!Absent}]
  /\ \A s \in Store!Slots : Chained(table[s], mem, TakenIn(s))
  /\ \A o, p \in taken : mem[o].key = mem[p].key => o = p
  /\ \A o \in taken : map[mem[o].key] = mem[o].val
  /\ \A k \in StoreKeys : map[k] # Store!Absent => \E o \in taken : mem[o].key = k

LEMMA StoreOperators ==
  /\ \A S : Store!Cardinality(S) = Cardinality(S)
  /\ \A f : Store!ToSet(f) = {f[j] : j \in DOMAIN f}
  /\ \A f : Store!IsInjective(f) <=> \A a, b \in DOMAIN f : f[a] = f[b] => a = b
  <1>1. \A S : Store!Cardinality(S) = Cardinality(S)
    BY DEF Cardinality, Store!Cardinality
  <1>2. \A f : Store!ToSet(f) = {f[j] : j \in DOMAIN f}
    BY DEF Store!ToSet
  <1>3. \A f : Store!IsInjective(f) <=> \A a, b \in DOMAIN f : f[a] = f[b] => a = b
    BY DEF Store!IsInjective
  <1> QED BY <1>1, <1>2, <1>3

LEMMA OffsetsAre ==
  /\ 0 \notin Store!Offsets /\ 0 \in Links
  /\ Store!Offsets \subseteq Nat
  /\ IsFiniteSet(Store!Offsets) /\ Cardinality(Store!Offsets) \in Nat
  <1>1. \A b \in Blocks : Store!OffsetOf(b) \in Nat /\ Store!OffsetOf(b) # 0
    BY StoreAssumption DEF Store!OffsetOf
  <1>2. 0 \notin Store!Offsets /\ Store!Offsets \subseteq Nat
    BY <1>1 DEF Store!Offsets
  <1>3. IsFiniteSet(Store!Offsets)
    <2> DEFINE f == [b \in Blocks |-> Store!OffsetOf(b)]
    <2>1. f \in Surjection(Blocks, Store!Offsets)
      BY DEF Surjection, Store!Offsets
    <2> HIDE DEF f
    <2> QED BY <2>1, FS_Surjection, StoreAssumption
  <1> QED
    BY <1>2, <1>3, FS_CardinalityType DEF Links

\* The loop over a chain passes its offsets in order.
LEMMA HopIs ==
  ASSUME NEW s \in Store!Slots, NEW n \in Nat, NEW q, Chains(table[s], mem, q, n)
  PROVE  /\ n <= Cardinality(Store!Offsets)
         /\ Store!Hop(s) = [j \in 0 .. Cardinality(Store!Offsets) |-> Nth(q, n, j)]
  <1> DEFINE C == Cardinality(Store!Offsets)
             Is(w) == w = [j \in 0 .. C |->
                             IF j = 0 THEN table[s]
                             ELSE IF w[j - 1] = 0 THEN 0 ELSE mem[w[j - 1]].next]
             f == [j \in 0 .. C |-> Nth(q, n, j)]
  <1>1. C \in Nat
    BY OffsetsAre
  <1>2. n <= C
    <2>1. q \in Injection(0 .. n - 1, Store!Offsets)
      BY DEF Chains, Injection, IsInjective
    <2>2. Cardinality(0 .. n - 1) = n
      BY FS_Interval
    <2> QED
      BY <2>1, <2>2, OffsetsAre, FS_Injection
  <1>3. ASSUME NEW j \in 1 .. C
        PROVE  Nth(q, n, j) = IF Nth(q, n, j - 1) = 0 THEN 0 ELSE mem[Nth(q, n, j - 1)].next
    <2>1. CASE j - 1 < n
      <3>1. j \in 1 .. n /\ j - 1 \in 0 .. n - 1
        BY <1>1, <2>1
      <3>2. Nth(q, n, j - 1) = q[j - 1] /\ q[j - 1] \in Store!Offsets /\ mem[q[j - 1]].next = Nth(q, n, j)
        BY <2>1, <3>1 DEF Chains, Nth
      <3> QED
        BY <3>2, OffsetsAre
    <2>2. CASE ~(j - 1 < n)
      BY <1>1, <2>2 DEF Nth
    <2> QED
      BY <2>1, <2>2
  <1>4. Is(f)
    <2>1. ASSUME NEW j \in 0 .. C
          PROVE  f[j] = IF j = 0 THEN table[s] ELSE IF f[j - 1] = 0 THEN 0 ELSE mem[f[j - 1]].next
      <3>1. CASE j = 0
        BY <3>1, <1>1 DEF Chains
      <3>2. CASE j # 0
        <4>1. j \in 1 .. C /\ j - 1 \in 0 .. C
          BY <1>1, <3>2
        <4> QED
          BY <1>3, <3>2, <4>1
      <3> QED
        BY <3>1, <3>2
    <2> QED
      BY <2>1
  <1> HIDE DEF f
  <1>5. Is(Store!Hop(s))
    <2>1. Store!Hop(s) = CHOOSE w : Is(w)
      BY StoreOperators DEF Store!Hop
    <2> HIDE DEF Is
    <2> QED
      BY <1>4, <2>1
  <1>6. ASSUME NEW w, Is(w)
        PROVE  w = f
    <2> DEFINE N == {j \in 0 .. C : w[j] = f[j]}
    <2>1. \A j \in 0 .. C : w[j] = IF j = 0 THEN table[s] ELSE IF w[j - 1] = 0 THEN 0 ELSE mem[w[j - 1]].next
      BY <1>6
    <2>2. \A j \in 0 .. C : f[j] = IF j = 0 THEN table[s] ELSE IF f[j - 1] = 0 THEN 0 ELSE mem[f[j - 1]].next
      BY <1>4
    <2>3. 0 \in N
      BY <1>1, <2>1, <2>2
    <2>4. ASSUME NEW j \in 1 .. C, j - 1 \in N PROVE j \in N
      <3>1. j \in 0 .. C /\ j # 0
        BY <1>1
      <3> QED
        BY <2>1, <2>2, <2>4, <3>1
    <2> HIDE DEF N
    <2>5. \A j \in 0 .. C : j \in N
      BY <1>1, <2>3, <2>4, NumbersUpTo
    <2> USE DEF N
    <2>6. w = [j \in 0 .. C |-> w[j]] /\ f = [j \in 0 .. C |-> f[j]]
      BY <1>4, <1>6
    <2> QED
      BY <2>5, <2>6
  <1> HIDE DEF Is
  <1>7. Store!Hop(s) = f
    BY <1>5, <1>6
  <1> QED
    BY <1>2, <1>7 DEF f

LEMMA ChainIs ==
  ASSUME NEW s \in Store!Slots, NEW n \in Nat, NEW q, Chains(table[s], mem, q, n)
  PROVE  /\ Store!Rounds(s) = 0 .. n - 1
         /\ \A j \in 0 .. n - 1 : Store!Hop(s)[j] = q[j]
         /\ Store!Hop(s)[Store!Cardinality(Store!Offsets)] = 0
         /\ Store!Chain(s) = [j \in 1 .. n |-> q[j - 1]]
  <1> DEFINE C == Cardinality(Store!Offsets)
  <1>1. C \in Nat /\ n <= C /\ Store!Hop(s) = [j \in 0 .. C |-> Nth(q, n, j)]
    BY HopIs, OffsetsAre
  <1>2. \A j \in 0 .. n - 1 : Store!Hop(s)[j] = q[j] /\ q[j] \in Store!Offsets
    BY <1>1 DEF Nth, Chains
  <1>3. Store!Rounds(s) = 0 .. n - 1
    BY <1>1, <1>2, OffsetsAre DEF Store!Rounds, Nth
  <1>4. Store!Hop(s)[C] = 0
    BY <1>1 DEF Nth
  <1>5. Store!Cardinality(Store!Rounds(s)) = n
    BY <1>3, FS_Interval, StoreOperators
  <1>6. Store!Chain(s) = [j \in 1 .. n |-> q[j - 1]]
    BY <1>2, <1>5 DEF Store!Chain
  <1> QED
    BY <1>2, <1>3, <1>4, <1>6, StoreOperators

\* FindKey finds the entry of a key, in the round of its offset.
LEMMA FindIs ==
  ASSUME StoreInv, NEW k \in StoreKeys, NEW n \in Nat, NEW q,
         Chains(table[SlotOf[k]], mem, q, n), TakenIn(SlotOf[k]) = OffsetsIn(q, n)
  PROVE  \/ /\ Store!FindKey(k) = 0
            /\ \A o \in taken : mem[o].key # k
         \/ \E j \in 0 .. n - 1 :
              /\ Store!FindKey(k) = q[j] /\ Store!Min(Store!Meets(k)) = j
              /\ q[j] \in taken /\ mem[q[j]].key = k
              /\ \A i \in 0 .. n - 1 : Store!Hop(SlotOf[k])[i] = q[i]
  <1> DEFINE s == SlotOf[k]
  <1>1. s \in Store!Slots
    BY StoreAssumption
  <1>2. /\ Store!Rounds(s) = 0 .. n - 1
        /\ \A j \in 0 .. n - 1 : Store!Hop(s)[j] = q[j]
    BY ZenonT(40), <1>1, ChainIs
  <1>3. /\ \A j \in 0 .. n - 1 : q[j] \in taken
        /\ \A o \in taken : mem[o].key = k => \E j \in 0 .. n - 1 : o = q[j]
    BY DEF OffsetsIn, TakenIn
  <1>4. Store!Meets(k) = {j \in 0 .. n - 1 : mem[q[j]].key = k}
    BY <1>2 DEF Store!Meets, Store!IsKey
  <1>5. CASE \A j \in 0 .. n - 1 : mem[q[j]].key # k
    BY <1>3, <1>4, <1>5 DEF Store!FindKey
  <1>6. ASSUME NEW j \in 0 .. n - 1, mem[q[j]].key = k
        PROVE  /\ Store!FindKey(k) = q[j] /\ Store!Min(Store!Meets(k)) = j
    <2>1. \A i \in 0 .. n - 1 : mem[q[i]].key = k => i = j
      BY <1>3, <1>6 DEF StoreInv, Chains
    <2>2. Store!Meets(k) = {j}
      BY <1>4, <1>6, <2>1
    <2>3. Store!Min({j}) = j
      <3>1. Store!Min({j}) = CHOOSE x \in {j} : \A y \in {j} : x <= y
        BY DEF Store!Min
      <3>2. j \in {j} /\ \A y \in {j} : j <= y
        OBVIOUS
      <3>3. (CHOOSE x \in {j} : \A y \in {j} : x <= y) \in {j}
        BY <3>2
      <3> QED
        BY <3>1, <3>3
    <2> QED
      BY <1>2, <1>6, <2>2, <2>3 DEF Store!FindKey
  <1> QED
    BY <1>2, <1>3, <1>5, <1>6

\* The offset at place j is taken out.
LEMMA ChainCut ==
  ASSUME StoreInv, NEW s \in Store!Slots, NEW n \in Nat, NEW q, Chains(table[s], mem, q, n),
         NEW j \in 0 .. n - 1, NEW m, NEW t,
         \A a \in 0 .. n - 1 : mem[q[a]] \in EntryIn,
         j = 0 => t = mem[q[j]].next /\ m = mem,
         j # 0 => t = table[s] /\ m = [mem EXCEPT ![q[j - 1]].next = mem[q[j]].next]
  PROVE  Chained(t, m, OffsetsIn(q, n) \ {q[j]})
  <1>1. /\ q \in [0 .. n - 1 -> Store!Offsets]
        /\ \A i, k \in 0 .. n - 1 : q[i] = q[k] => i = k
        /\ table[s] = Nth(q, n, 0)
        /\ \A k \in 1 .. n : mem[q[k - 1]].next = Nth(q, n, k)
    BY DEF Chains
  <1> DEFINE r == [k \in 0 .. n - 2 |-> IF k < j THEN q[k] ELSE q[k + 1]]
  <1>2. mem[q[j]].next = Nth(q, n, j + 1)
    <2>1. j + 1 \in 1 .. n /\ j + 1 - 1 = j
      OBVIOUS
    <2> QED
      BY <1>1, <2>1
  <1>3. \A k \in 0 .. n - 1 :
          /\ j # 0 /\ k = j - 1 => m[q[k]].next = mem[q[j]].next
          /\ ~(j # 0 /\ k = j - 1) => m[q[k]].next = mem[q[k]].next
    <2>1. CASE j = 0
      BY <2>1
    <2>2. CASE j # 0
      <3>1. j - 1 \in 0 .. n - 1
        BY <2>2
      <3>2. DOMAIN mem = Store!Offsets
        BY DEF StoreInv
      <3> QED
        BY <1>1, <2>2, <3>1, <3>2 DEF EntryIn
    <2> QED
      BY <2>1, <2>2
  <1>4. r \in [0 .. n - 2 -> Store!Offsets] /\ n - 1 \in Nat /\ n - 2 = n - 1 - 1
    BY <1>1
  <1> HIDE DEF r
  <1>5. \A k \in 0 .. n - 2 : r[k] = IF k < j THEN q[k] ELSE q[k + 1]
    BY DEF r
  <1>6. \A i, k \in 0 .. n - 2 : r[i] = r[k] => i = k
    BY <1>1, <1>5
  <1>7. OffsetsIn(r, n - 1) = OffsetsIn(q, n) \ {q[j]}
    <2>1. ASSUME NEW k \in 0 .. n - 2 PROVE r[k] \in OffsetsIn(q, n) /\ r[k] # q[j]
      BY <1>1, <1>5 DEF OffsetsIn
    <2>2. ASSUME NEW k \in 0 .. n - 1, q[k] # q[j] PROVE \E i \in 0 .. n - 2 : r[i] = q[k]
      <3>1. CASE k < j
        BY <1>5, <3>1
      <3>2. CASE k > j
        <4>1. k - 1 \in 0 .. n - 2 /\ ~(k - 1 < j) /\ k - 1 + 1 = k
          BY <3>2
        <4> QED
          BY <1>5, <4>1
      <3> QED
        BY <2>2, <3>1, <3>2
    <2> QED
      BY <1>4, <2>1, <2>2 DEF OffsetsIn
  <1>8. t = Nth(r, n - 1, 0)
    <2>1. CASE j = 0
      <3>1. t = Nth(q, n, 1)
        BY <1>2, <2>1
      <3> QED
        BY <1>5, <2>1, <3>1 DEF Nth
    <2>2. CASE j # 0
      BY <1>1, <1>5, <2>2 DEF Nth
    <2> QED
      BY <2>1, <2>2
  <1>9. ASSUME NEW k \in 1 .. n - 1 PROVE m[r[k - 1]].next = Nth(r, n - 1, k)
    <2>1. CASE k < j
      <3>1. r[k - 1] = q[k - 1] /\ k - 1 # j - 1 /\ k - 1 \in 0 .. n - 1 /\ k \in 1 .. n
        BY <1>5, <2>1
      <3>2. m[r[k - 1]].next = Nth(q, n, k)
        BY <1>1, <1>3, <3>1
      <3> QED
        BY <1>5, <2>1, <3>2 DEF Nth
    <2>2. CASE k = j
      <3>1. r[k - 1] = q[j - 1] /\ j # 0 /\ j - 1 \in 0 .. n - 1
        BY <1>5, <2>2
      <3>2. m[r[k - 1]].next = Nth(q, n, j + 1)
        BY <1>2, <1>3, <3>1
      <3> QED
        BY <1>5, <2>2, <3>2 DEF Nth
    <2>3. CASE k > j
      <3>1. r[k - 1] = q[k] /\ k \in 0 .. n - 1 /\ k # j - 1 /\ k + 1 \in 1 .. n /\ k + 1 - 1 = k
        BY <1>5, <2>3
      <3>2. m[r[k - 1]].next = Nth(q, n, k + 1)
        BY <1>1, <1>3, <3>1
      <3> QED
        BY <1>5, <2>3, <3>2 DEF Nth
    <2> QED
      BY <2>1, <2>2, <2>3
  <1>10. Chains(t, m, r, n - 1)
    BY <1>4, <1>6, <1>8, <1>9 DEF Chains
  <1> QED
    BY <1>4, <1>7, <1>10 DEF Chained

\* An offset is put first.
LEMMA ChainPush ==
  ASSUME NEW first, NEW F, Chained(first, mem, F), NEW o \in Store!Offsets \ F, NEW m,
         m[o].next = first, \A p \in F : m[p].next = mem[p].next
  PROVE  Chained(o, m, F \cup {o})
  <1>1. PICK n \in Nat : \E q : Chains(first, mem, q, n) /\ F = OffsetsIn(q, n)
    BY DEF Chained
  <1>2. PICK q : Chains(first, mem, q, n) /\ F = OffsetsIn(q, n)
    BY <1>1
  <1>3. /\ q \in [0 .. n - 1 -> Store!Offsets]
        /\ \A i, k \in 0 .. n - 1 : q[i] = q[k] => i = k
        /\ first = Nth(q, n, 0)
        /\ \A k \in 1 .. n : mem[q[k - 1]].next = Nth(q, n, k)
        /\ \A k \in 0 .. n - 1 : q[k] # o /\ q[k] \in F
    BY <1>2 DEF Chains, OffsetsIn
  <1> DEFINE r == [k \in 0 .. n |-> IF k = 0 THEN o ELSE q[k - 1]]
  <1>4. /\ r \in [0 .. n -> Store!Offsets] /\ n + 1 \in Nat /\ n + 1 - 1 = n /\ r[0] = o
        /\ \A k \in 1 .. n : r[k] = q[k - 1] /\ k - 1 \in 0 .. n - 1
    BY <1>3
  <1> HIDE DEF r
  <1>5. \A i, k \in 0 .. n : r[i] = r[k] => i = k
    <2> SUFFICES ASSUME NEW i \in 0 .. n, NEW k \in 0 .. n, r[i] = r[k] PROVE i = k
      OBVIOUS
    <2>1. CASE i = 0 \/ k = 0
      BY <1>3, <1>4, <2>1
    <2>2. CASE i # 0 /\ k # 0
      <3>1. i - 1 \in 0 .. n - 1 /\ k - 1 \in 0 .. n - 1 /\ q[i - 1] = q[k - 1]
        BY <1>4, <2>2
      <3>2. i - 1 = k - 1
        BY <1>3, <3>1
      <3> QED
        BY <3>2
    <2> QED
      BY <2>1, <2>2
  <1>6. OffsetsIn(r, n + 1) = F \cup {o}
    <2>1. OffsetsIn(r, n + 1) = {r[k] : k \in 0 .. n}
      BY <1>4 DEF OffsetsIn
    <2>2. ASSUME NEW k \in 0 .. n PROVE r[k] \in F \cup {o}
      BY <1>3, <1>4
    <2>3. ASSUME NEW i \in 0 .. n - 1 PROVE \E k \in 0 .. n : r[k] = q[i]
      <3>1. i + 1 \in 1 .. n /\ i + 1 - 1 = i /\ i + 1 \in 0 .. n
        OBVIOUS
      <3> QED
        BY <1>4, <3>1
    <2>4. \A b \in F : \E k \in 0 .. n : r[k] = b
      BY <1>2, <2>3 DEF OffsetsIn
    <2>5. 0 \in 0 .. n
      OBVIOUS
    <2> QED
      BY <1>4, <2>1, <2>2, <2>4, <2>5
  <1>7. ASSUME NEW k \in 1 .. n + 1 PROVE m[r[k - 1]].next = Nth(r, n + 1, k)
    <2>1. CASE k = 1
      <3>1. m[r[k - 1]].next = Nth(q, n, 0)
        BY <1>3, <1>4, <2>1
      <3> QED
        BY <1>4, <2>1, <3>1 DEF Nth
    <2>2. CASE k # 1
      <3> DEFINE i == k - 1
      <3>1. i \in 1 .. n /\ k = i + 1 /\ i - 1 \in 0 .. n - 1 /\ q[i - 1] \in F
        BY <1>3, <2>2
      <3>2. m[r[i]].next = Nth(q, n, i)
        BY <1>3, <1>4, <3>1
      <3>3. k < n + 1 => r[k] = q[i]
        BY <1>4, <3>1
      <3> QED
        BY <3>1, <3>2, <3>3 DEF Nth
    <2> QED
      BY <2>1, <2>2
  <1>8. o = Nth(r, n + 1, 0)
    BY <1>4 DEF Nth
  <1>9. Chains(o, m, r, n + 1)
    BY <1>4, <1>5, <1>7, <1>8 DEF Chains
  <1> QED
    BY <1>4, <1>6, <1>9 DEF Chained

\* What is not in a chain does not matter to it.
LEMMA ChainSame ==
  ASSUME NEW first, NEW F, Chained(first, mem, F), NEW m, \A p \in F : m[p].next = mem[p].next
  PROVE  Chained(first, m, F)
  <1>1. PICK n \in Nat : \E q : Chains(first, mem, q, n) /\ F = OffsetsIn(q, n)
    BY DEF Chained
  <1>2. PICK q : Chains(first, mem, q, n) /\ F = OffsetsIn(q, n)
    BY <1>1
  <1>3. \A k \in 1 .. n : q[k - 1] \in F
    BY <1>2 DEF OffsetsIn
  <1> QED
    BY <1>2, <1>3 DEF Chains, Chained

LEMMA ChainEmpty == ASSUME NEW m PROVE Chained(0, m, {})
  <1> DEFINE q == [j \in 0 .. 0 - 1 |-> 0]
  <1>1. Chains(0, m, q, 0) /\ OffsetsIn(q, 0) = {}
    BY DEF Chains, OffsetsIn, Nth
  <1> QED BY <1>1 DEF Chained

LEMMA StoreRemove ==
  ASSUME StoreInv, NEW k \in StoreKeys, Store!RemoveKey(k)
  PROVE  StoreInv'
  <1> DEFINE s == SlotOf[k]
             o == Store!FindKey(k)
  <1>1. s \in Store!Slots /\ Chained(table[s], mem, TakenIn(s))
    BY StoreAssumption DEF StoreInv
  <1>2. PICK n \in Nat : \E q : Chains(table[s], mem, q, n) /\ TakenIn(s) = OffsetsIn(q, n)
    BY <1>1 DEF Chained
  <1>3. PICK q : Chains(table[s], mem, q, n) /\ TakenIn(s) = OffsetsIn(q, n)
    BY <1>2
  <1>4. /\ Store!FindKey(k) # 0 /\ Store!Unhook(k)
        /\ taken' = taken \ {o} /\ map' = [map EXCEPT ![k] = Store!Absent]
    BY DEF Store!RemoveKey
  <1>5. PICK j \in 0 .. n - 1 :
              /\ Store!FindKey(k) = q[j] /\ Store!Min(Store!Meets(k)) = j
              /\ q[j] \in taken /\ mem[q[j]].key = k
              /\ \A i \in 0 .. n - 1 : Store!Hop(SlotOf[k])[i] = q[i]
    BY <1>3, <1>4, FindIs
  <1>6. \A a \in 0 .. n - 1 : q[a] \in taken /\ mem[q[a]] \in EntryIn /\ SlotOf[mem[q[a]].key] = s
    BY <1>3 DEF OffsetsIn, TakenIn, StoreInv
  <1>7. /\ o = q[j] /\ o \in taken /\ mem[o] \in EntryIn /\ mem[o].key = k /\ o \in TakenIn(s)
        /\ mem[o].next \in Links
    BY <1>5, <1>6 DEF EntryIn, TakenIn
  <1>8. /\ j = 0 => table' = [table EXCEPT ![s] = mem[q[j]].next] /\ mem' = mem
        /\ j # 0 => table' = table /\ mem' = [mem EXCEPT ![q[j - 1]].next = mem[q[j]].next]
    <2>1. j # 0 => j - 1 \in 0 .. n - 1
      OBVIOUS
    <2> QED
      BY <1>4, <1>5, <2>1 DEF Store!Unhook
  <1> HIDE DEF o
  <1>9. /\ mem' \in [Store!Offsets -> EntryIn \cup {NoEntry}]
        /\ \A p \in taken : /\ mem'[p] \in EntryIn /\ mem'[p].key = mem[p].key
                            /\ mem'[p].val = mem[p].val
        /\ \A p \in taken : SlotOf[mem[p].key] # s => mem'[p] = mem[p]
    <2>1. CASE j = 0
      BY <1>8, <2>1 DEF StoreInv
    <2>2. CASE j # 0
      <3> DEFINE b == q[j - 1]
      <3>1. /\ b \in taken /\ b \in Store!Offsets /\ mem[b] \in EntryIn
            /\ SlotOf[mem[b].key] = s
        <4>1. j - 1 \in 0 .. n - 1
          BY <2>2
        <4> QED
          BY <1>6, <4>1 DEF StoreInv
      <3>2. mem' = [mem EXCEPT ![b] = [mem[b] EXCEPT !.next = mem[o].next]]
        BY <1>7, <1>8, <2>2
      <3>3. [mem[b] EXCEPT !.next = mem[o].next] \in EntryIn
        BY <1>7, <3>1 DEF EntryIn
      <3>4. /\ [mem[b] EXCEPT !.next = mem[o].next].key = mem[b].key
            /\ [mem[b] EXCEPT !.next = mem[o].next].val = mem[b].val
        BY <3>1 DEF EntryIn
      <3> HIDE DEF b
      <3>5. mem \in [Store!Offsets -> EntryIn \cup {NoEntry}] /\ \A p \in taken : mem[p] \in EntryIn /\ p \in Store!Offsets
        BY DEF StoreInv
      <3> QED
        BY <3>1, <3>2, <3>3, <3>4, <3>5
    <2> QED
      BY <2>1, <2>2
  <1>10. table' \in [Store!Slots -> Links] /\ \A t \in Store!Slots \ {s} : table'[t] = table[t]
    BY <1>1, <1>7, <1>8 DEF StoreInv
  <1>11. \A t \in Store!Slots : TakenIn(t)' = TakenIn(t) \ {o}
    BY <1>4, <1>9 DEF TakenIn, o
  <1>12. ASSUME NEW t \in Store!Slots PROVE Chained(table'[t], mem', TakenIn(t)')
    <2>1. CASE t = s
      <3>1. /\ j = 0 => table'[s] = mem[q[j]].next /\ mem' = mem
            /\ j # 0 => table'[s] = table[s] /\ mem' = [mem EXCEPT ![q[j - 1]].next = mem[q[j]].next]
        BY <1>1, <1>8 DEF StoreInv
      <3>2. Chained(table'[s], mem', OffsetsIn(q, n) \ {q[j]})
        BY <1>1, <1>3, <1>6, <3>1, ChainCut
      <3> QED
        BY <1>3, <1>7, <1>11, <2>1, <3>2
    <2>2. CASE t # s
      <3>1. Chained(table[t], mem, TakenIn(t)) /\ table'[t] = table[t]
        BY <1>10, <2>2 DEF StoreInv
      <3>2. o \notin TakenIn(t) /\ \A p \in TakenIn(t) : mem'[p].next = mem[p].next
        BY <1>7, <1>9, <2>2 DEF TakenIn
      <3>3. Chained(table[t], mem', TakenIn(t))
        BY <3>1, <3>2, ChainSame
      <3> QED
        BY <1>11, <3>1, <3>2, <3>3
    <2> QED
      BY <2>1, <2>2
  <1>13. /\ taken' \subseteq taken /\ taken' = taken \ {o}
         /\ \A p \in taken' : mem'[p].key # k
    BY <1>4, <1>7, <1>9 DEF o, StoreInv
  <1>14. /\ map' \in [StoreKeys -> Vals \cup {Store!Absent}] /\ map'[k] = Store!Absent
         /\ \A x \in StoreKeys : x # k => map'[x] = map[x]
    BY <1>4 DEF StoreInv
  <1>15. \A p \in taken' : mem'[p] \in EntryIn /\ mem'[p].key \in StoreKeys /\ map'[mem'[p].key] = mem'[p].val
    BY <1>9, <1>13, <1>14 DEF StoreInv, EntryIn
  <1>16. ASSUME NEW x \in StoreKeys, map'[x] # Store!Absent PROVE \E p \in taken' : mem'[p].key = x
    <2>1. x # k /\ map[x] # Store!Absent
      BY <1>14, <1>16
    <2>2. PICK p \in taken : mem[p].key = x
      BY <2>1 DEF StoreInv
    <2> QED
      BY <1>7, <1>9, <1>13, <2>1, <2>2
  <1>17. \A p, r \in taken' : mem'[p].key = mem'[r].key => p = r
    BY <1>9, <1>13 DEF StoreInv
  <1>18. taken' \subseteq Store!Offsets
    BY <1>13 DEF StoreInv
  <1> HIDE DEF s
  <1> QED
    BY <1>9, <1>10, <1>12, <1>14, <1>15, <1>16, <1>17, <1>18 DEF StoreInv

LEMMA StoreInsert ==
  ASSUME StoreInv, NEW k \in StoreKeys, NEW v \in Vals, NEW o \in Store!Offsets, Store!Insert(k, v, o)
  PROVE  StoreInv'
  <1> DEFINE s == SlotOf[k]
             new == [key |-> k, val |-> v, next |-> table[s]]
  <1>1. /\ Store!FindKey(k) = 0 /\ o \notin taken
        /\ mem' = [mem EXCEPT ![o] = new] /\ table' = [table EXCEPT ![s] = o]
        /\ taken' = taken \cup {o} /\ map' = [map EXCEPT ![k] = v]
    BY DEF Store!Insert, Store!LinkEntry
  <1>2. s \in Store!Slots /\ Chained(table[s], mem, TakenIn(s))
    BY StoreAssumption DEF StoreInv
  <1>3. \A p \in taken : mem[p].key # k
    <2>1. PICK n \in Nat : \E q : Chains(table[s], mem, q, n) /\ TakenIn(s) = OffsetsIn(q, n)
      BY <1>2 DEF Chained
    <2>2. PICK q : Chains(table[s], mem, q, n) /\ TakenIn(s) = OffsetsIn(q, n)
      BY <2>1
    <2>3. \A j \in 0 .. n - 1 : q[j] # 0
      BY <2>2, OffsetsAre DEF Chains
    <2> QED
      BY <1>1, <2>2, <2>3, FindIs
  <1>4. new \in EntryIn /\ new.key = k /\ new.val = v /\ new.next = table[s]
    BY <1>2 DEF StoreInv, EntryIn
  <1> HIDE DEF new
  <1>5. /\ mem' \in [Store!Offsets -> EntryIn \cup {NoEntry}] /\ mem'[o] = new
        /\ \A p \in taken : mem'[p] = mem[p] /\ p # o /\ mem[p] \in EntryIn
    BY <1>1, <1>4 DEF StoreInv
  <1>6. table' \in [Store!Slots -> Links] /\ table'[s] = o /\ \A t \in Store!Slots \ {s} : table'[t] = table[t]
    BY <1>1, <1>2 DEF StoreInv, Links
  <1>7. \A t \in Store!Slots : TakenIn(t)' = IF t = s THEN TakenIn(t) \cup {o} ELSE TakenIn(t)
    BY <1>1, <1>4, <1>5 DEF TakenIn
  <1>8. ASSUME NEW t \in Store!Slots PROVE Chained(table'[t], mem', TakenIn(t)')
    <2>1. /\ Chained(table[t], mem, TakenIn(t)) /\ o \notin TakenIn(t)
          /\ \A p \in TakenIn(t) : mem'[p].next = mem[p].next
      BY <1>1, <1>5 DEF StoreInv, TakenIn
    <2>2. CASE t = s
      <3>1. mem'[o].next = table[t]
        BY <1>4, <1>5, <2>2
      <3>2. Chained(o, mem', TakenIn(t) \cup {o})
        BY <2>1, <3>1, ChainPush
      <3> QED
        BY <1>6, <1>7, <2>2, <3>2
    <2>3. CASE t # s
      <3>1. Chained(table[t], mem', TakenIn(t))
        BY <2>1, ChainSame
      <3> QED
        BY <1>6, <1>7, <2>3, <3>1
    <2> QED
      BY <2>2, <2>3
  <1>9. /\ map' \in [StoreKeys -> Vals \cup {Store!Absent}] /\ map'[k] = v
        /\ \A x \in StoreKeys : x # k => map'[x] = map[x]
    BY <1>1 DEF StoreInv
  <1>10. \A p \in taken' : mem'[p] \in EntryIn
    BY <1>1, <1>4, <1>5
  <1>11. \A p \in taken' : map'[mem'[p].key] = mem'[p].val
    <2>1. \A p \in taken : mem[p].key \in StoreKeys /\ map[mem[p].key] = mem[p].val
      BY <1>5 DEF EntryIn, StoreInv
    <2> QED
      BY <1>1, <1>3, <1>4, <1>5, <1>9, <2>1
  <1>12. ASSUME NEW x \in StoreKeys, map'[x] # Store!Absent PROVE \E p \in taken' : mem'[p].key = x
    <2>1. CASE x = k
      BY <1>1, <1>4, <1>5, <2>1
    <2>2. CASE x # k
      <3>1. PICK p \in taken : mem[p].key = x
        BY <1>9, <1>12, <2>2 DEF StoreInv
      <3> QED
        BY <1>1, <1>5, <3>1
    <2> QED
      BY <2>1, <2>2
  <1>13. \A p, r \in taken' : mem'[p].key = mem'[r].key => p = r
    <2>1. \A p, r \in taken : mem[p].key = mem[r].key => p = r
      BY DEF StoreInv
    <2> QED
      BY <1>1, <1>3, <1>4, <1>5, <2>1
  <1>14. taken' \subseteq Store!Offsets
    BY <1>1 DEF StoreInv
  <1> HIDE DEF s
  <1> QED
    BY <1>5, <1>6, <1>8, <1>9, <1>10, <1>11, <1>12, <1>13, <1>14 DEF StoreInv

\* Nothing is in a table of zeroes.
LEMMA StoreEmpty ==
  ASSUME table = [s \in Store!Slots |-> 0], taken = {}, map = [k \in StoreKeys |-> Store!Absent],
         mem \in [Store!Offsets -> EntryIn \cup {NoEntry}]
  PROVE  StoreInv
  <1>1. \A s \in Store!Slots : TakenIn(s) = {} /\ table[s] = 0 /\ Chained(table[s], mem, TakenIn(s))
    BY ChainEmpty DEF TakenIn
  <1>2. table \in [Store!Slots -> Links] /\ map \in [StoreKeys -> Vals \cup {Store!Absent}]
        /\ \A k \in StoreKeys : map[k] = Store!Absent
    BY OffsetsAre
  <1> QED
    BY <1>1, <1>2 DEF StoreInv

LEMMA StoreInvInit == Init => StoreInv
  <1> SUFFICES ASSUME Init PROVE StoreInv
    OBVIOUS
  <1>1. Store!Init
    BY ComponentInits
  <1> QED
    BY <1>1, StoreEmpty DEF Store!Init

LEMMA StoreInvNext == StoreInv /\ [Next]_vars => StoreInv'
  <1> SUFFICES ASSUME StoreInv, [Next]_vars PROVE StoreInv'
    OBVIOUS
  <1>1. [Store!Next]_storeV
    BY ComponentSteps
  <1>2. CASE Store!Clear
    <2>1. /\ table' = [s \in Store!Slots |-> 0] /\ taken' = {}
          /\ map' = [k \in StoreKeys |-> Store!Absent]
          /\ mem' \in [Store!Offsets -> EntryIn \cup {NoEntry}]
      BY <1>2 DEF Store!Clear, StoreInv
    <2>2. \A s \in Store!Slots : TakenIn(s)' = {} /\ table'[s] = 0 /\ Chained(table'[s], mem', TakenIn(s)')
      BY <2>1, ChainEmpty DEF TakenIn
    <2>3. table' \in [Store!Slots -> Links] /\ map' \in [StoreKeys -> Vals \cup {Store!Absent}]
          /\ \A k \in StoreKeys : map'[k] = Store!Absent
      BY <2>1, OffsetsAre
    <2> QED
      BY <2>1, <2>2, <2>3 DEF StoreInv
  <1>3. CASE UNCHANGED storeV
    BY <1>3 DEF storeV, StoreInv, TakenIn
  <1> QED
    BY <1>1, <1>2, <1>3, StoreRemove, StoreInsert DEF Store!Next

\* The list of each chain.
LEMMA EachChain ==
  ASSUME StoreInv, NEW s \in Store!Slots
  PROVE  /\ Store!Hop(s)[Store!Cardinality(Store!Offsets)] = 0
         /\ \E n \in Nat :
              /\ DOMAIN Store!Chain(s) = 1 .. n
              /\ \A j \in 1 .. n : Store!Chain(s)[j] \in TakenIn(s)
              /\ \A a, b \in 1 .. n : Store!Chain(s)[a] = Store!Chain(s)[b] => a = b
              /\ \A o \in TakenIn(s) : \E j \in 1 .. n : Store!Chain(s)[j] = o
  <1>1. PICK n \in Nat : \E q : Chains(table[s], mem, q, n) /\ TakenIn(s) = OffsetsIn(q, n)
    BY DEF StoreInv, Chained
  <1>2. PICK q : Chains(table[s], mem, q, n) /\ TakenIn(s) = OffsetsIn(q, n)
    BY <1>1
  <1>3. /\ Store!Hop(s)[Store!Cardinality(Store!Offsets)] = 0
        /\ Store!Chain(s) = [j \in 1 .. n |-> q[j - 1]]
    BY <1>2, ChainIs
  <1>4. \A j \in 1 .. n : Store!Chain(s)[j] = q[j - 1] /\ j - 1 \in 0 .. n - 1
    BY <1>3
  <1>5. \A j \in 1 .. n : Store!Chain(s)[j] \in TakenIn(s)
    BY <1>2, <1>4 DEF OffsetsIn
  <1>6. ASSUME NEW a \in 1 .. n, NEW b \in 1 .. n, Store!Chain(s)[a] = Store!Chain(s)[b] PROVE a = b
    <2>1. a - 1 = b - 1
      BY <1>2, <1>4, <1>6 DEF Chains
    <2> QED BY <2>1
  <1>7. ASSUME NEW o \in TakenIn(s) PROVE \E j \in 1 .. n : Store!Chain(s)[j] = o
    <2>1. PICK j \in 0 .. n - 1 : q[j] = o
      BY <1>2 DEF OffsetsIn
    <2>2. j + 1 \in 1 .. n /\ j + 1 - 1 = j
      OBVIOUS
    <2> QED BY <1>4, <2>1, <2>2
  <1> QED
    BY <1>3, <1>5, <1>6, <1>7

LEMMA ChainsAreTaken == StoreInv => ChainsHoldTaken
  <1> SUFFICES ASSUME StoreInv PROVE ChainsHoldTaken
    OBVIOUS
  <1>1. \A s \in Store!Slots : Store!ToSet(Store!Chain(s)) = TakenIn(s)
    <2> SUFFICES ASSUME NEW s \in Store!Slots PROVE Store!ToSet(Store!Chain(s)) = TakenIn(s)
      OBVIOUS
    <2>1. Store!ToSet(Store!Chain(s)) = {Store!Chain(s)[j] : j \in DOMAIN Store!Chain(s)}
      BY StoreOperators
    <2> QED
      BY <2>1, EachChain
  <1>2. \A o \in taken : SlotOf[mem[o].key] \in Store!Slots
    BY StoreAssumption DEF StoreInv, EntryIn
  <1>3. UNION {TakenIn(s) : s \in Store!Slots} = taken
    BY <1>2 DEF TakenIn
  <1>4. UNION {Store!ToSet(Store!Chain(s)) : s \in Store!Slots} = taken
    BY <1>1, <1>3
  <1>5. \A s, t \in Store!Slots : s # t => TakenIn(s) \cap TakenIn(t) = {}
    BY DEF TakenIn
  <1> QED
    BY <1>1, <1>4, <1>5, EachChain DEF ChainsHoldTaken, Store!ChainsHoldTaken

\* Every chain in memory ends, and together the chains hold exactly the
\* allocated entries, each once, whatever freed entries still say
\* (dict_store.cpp:145-202).
THEOREM ChainsAreExact == Spec => []ChainsHoldTaken
  <1>1. Spec => []StoreInv
    BY StoreInvInit, StoreInvNext, PTL DEF Spec
  <1> QED
    BY <1>1, ChainsAreTaken, PTL

\* The keys of the slots before n, each once.
KeysBefore(n) == {mem[o].key : o \in {p \in taken : SlotOf[mem[p].key] < n}}

ListsKeys(ks, K) ==
  /\ ks \in Seq(StoreKeys)
  /\ K = {ks[j] : j \in 1 .. Len(ks)}
  /\ \A a, b \in 1 .. Len(ks) : ks[a] = ks[b] => a = b

LEMMA KeysInIs ==
  ASSUME StoreInv, NEW s \in Store!Slots
  PROVE  ListsKeys(Store!KeysIn(s), {mem[o].key : o \in TakenIn(s)})
  <1>1. PICK n \in Nat :
              /\ DOMAIN Store!Chain(s) = 1 .. n
              /\ \A j \in 1 .. n : Store!Chain(s)[j] \in TakenIn(s)
              /\ \A a, b \in 1 .. n : Store!Chain(s)[a] = Store!Chain(s)[b] => a = b
              /\ \A o \in TakenIn(s) : \E j \in 1 .. n : Store!Chain(s)[j] = o
    BY EachChain
  <1> DEFINE ks == Store!KeysIn(s)
  <1>2. ks = [j \in 1 .. n |-> mem[Store!Chain(s)[j]].key]
    BY <1>1 DEF Store!KeysIn
  <1>3. \A o \in TakenIn(s) : mem[o].key \in StoreKeys /\ o \in taken
    BY DEF StoreInv, EntryIn, TakenIn
  <1>4. ks \in [1 .. n -> StoreKeys]
    BY <1>1, <1>2, <1>3
  <1>5. ks \in Seq(StoreKeys) /\ Len(ks) = n
    BY <1>4, LenProperties, SeqDef
  <1>6. \A j \in 1 .. n : ks[j] = mem[Store!Chain(s)[j]].key
    BY <1>2
  <1> HIDE DEF ks
  <1>7. \A a, b \in 1 .. n : ks[a] = ks[b] => a = b
    BY <1>1, <1>3, <1>6 DEF StoreInv
  <1>8. {mem[o].key : o \in TakenIn(s)} = {ks[j] : j \in 1 .. n}
    BY <1>1, <1>6
  <1> QED
    BY <1>5, <1>7, <1>8 DEF ListsKeys, ks

LEMMA ListsAppend ==
  ASSUME NEW ks, NEW K, ListsKeys(ks, K), NEW ls, NEW L, ListsKeys(ls, L), K \cap L = {}
  PROVE  ListsKeys(ks \o ls, K \cup L)
  <1>1. /\ ks \in Seq(StoreKeys) /\ ls \in Seq(StoreKeys) /\ Len(ks) \in Nat /\ Len(ls) \in Nat
        /\ \A a, b \in 1 .. Len(ks) : ks[a] = ks[b] => a = b
        /\ \A a, b \in 1 .. Len(ls) : ls[a] = ls[b] => a = b
        /\ K = {ks[j] : j \in 1 .. Len(ks)} /\ L = {ls[j] : j \in 1 .. Len(ls)}
    BY DEF ListsKeys
  <1> DEFINE r == ks \o ls
  <1>2. /\ r \in Seq(StoreKeys) /\ Len(r) = Len(ks) + Len(ls)
        /\ \A j \in 1 .. Len(ks) + Len(ls) : r[j] = IF j <= Len(ks) THEN ks[j] ELSE ls[j - Len(ks)]
    BY <1>1, ConcatProperties
  <1> HIDE DEF r
  <1>3. ASSUME NEW j \in 1 .. Len(r)
        PROVE  \/ j \in 1 .. Len(ks) /\ r[j] = ks[j] /\ r[j] \in K
               \/ j - Len(ks) \in 1 .. Len(ls) /\ r[j] = ls[j - Len(ks)] /\ r[j] \in L /\ j > Len(ks)
    BY <1>1, <1>2
  <1>4. ASSUME NEW a \in 1 .. Len(r), NEW b \in 1 .. Len(r), r[a] = r[b] PROVE a = b
    <2>1. CASE r[a] \in K
      <3>1. r[a] \notin L /\ r[b] \notin L
        BY <1>4, <2>1
      <3>2. a \in 1 .. Len(ks) /\ b \in 1 .. Len(ks) /\ ks[a] = ks[b]
        BY <1>3, <1>4, <3>1
      <3> QED BY <1>1, <3>2
    <2>2. CASE r[a] \notin K
      <3>1. /\ a - Len(ks) \in 1 .. Len(ls) /\ b - Len(ks) \in 1 .. Len(ls)
            /\ ls[a - Len(ks)] = ls[b - Len(ks)]
        BY <1>3, <1>4, <2>2
      <3>2. a - Len(ks) = b - Len(ks)
        BY <1>1, <3>1
      <3> QED BY <1>1, <3>2
    <2> QED BY <2>1, <2>2
  <1>5. ASSUME NEW x \in K \cup L PROVE \E j \in 1 .. Len(r) : r[j] = x
    <2>1. CASE x \in K
      <3>1. PICK j \in 1 .. Len(ks) : ks[j] = x
        BY <1>1, <2>1
      <3> QED BY <1>1, <1>2, <3>1
    <2>2. CASE x \in L
      <3>1. PICK j \in 1 .. Len(ls) : ls[j] = x
        BY <1>1, <2>2
      <3>2. /\ j + Len(ks) \in 1 .. Len(r) /\ j + Len(ks) - Len(ks) = j
            /\ ~(j + Len(ks) <= Len(ks)) /\ j + Len(ks) \in 1 .. Len(ks) + Len(ls)
        BY <1>1, <1>2
      <3>3. r[j + Len(ks)] = ls[j]
        BY <1>2, <3>2
      <3> QED BY <3>1, <3>2, <3>3
    <2> QED BY <2>1, <2>2
  <1>6. K \cup L = {r[j] : j \in 1 .. Len(r)}
    BY <1>3, <1>5
  <1> QED
    BY <1>2, <1>4, <1>6 DEF ListsKeys, r

LEMMA CollectIs ==
  ASSUME StoreInv
  PROVE  ListsKeys(Store!CollectKeys, KeysBefore(HASH_SLOTS))
  <1> DEFINE V == Seq(StoreKeys)
             g == [k \in 1 .. HASH_SLOTS |-> [ks \in V |-> ks \o Store!KeysIn(k - 1)]]
             Is(w) == w = [k \in 0 .. HASH_SLOTS |->
                             IF k = 0 THEN << >> ELSE w[k - 1] \o Store!KeysIn(k - 1)]
  <1>1. HASH_SLOTS \in Nat /\ << >> \in V
    BY StoreAssumption
  <1>2. \A k \in 1 .. HASH_SLOTS : /\ k - 1 \in Store!Slots
                                   /\ ListsKeys(Store!KeysIn(k - 1), {mem[o].key : o \in TakenIn(k - 1)})
                                   /\ Store!KeysIn(k - 1) \in V
    <2> SUFFICES ASSUME NEW k \in 1 .. HASH_SLOTS
                 PROVE  /\ k - 1 \in Store!Slots
                        /\ ListsKeys(Store!KeysIn(k - 1), {mem[o].key : o \in TakenIn(k - 1)})
                        /\ Store!KeysIn(k - 1) \in V
      OBVIOUS
    <2>1. k - 1 \in Store!Slots
      BY <1>1 DEF Store!Slots
    <2>2. ListsKeys(Store!KeysIn(k - 1), {mem[o].key : o \in TakenIn(k - 1)})
      BY <2>1, KeysInIs
    <2> QED
      BY <2>1, <2>2 DEF ListsKeys
  <1>3. g \in [1 .. HASH_SLOTS -> [V -> V]]
    BY <1>2, ConcatProperties
  <1> HIDE DEF g
  <1>4. PICK f \in [0 .. HASH_SLOTS -> V] : GoesRound(f, HASH_SLOTS, << >>, g)
    BY <1>1, <1>3, RoundsExist
  <1>5. Is(f)
    <2>1. ASSUME NEW k \in 0 .. HASH_SLOTS, k # 0 PROVE f[k] = f[k - 1] \o Store!KeysIn(k - 1)
      <3>1. k \in 1 .. HASH_SLOTS /\ k - 1 \in 0 .. HASH_SLOTS /\ f[k - 1] \in V
        BY <1>1, <1>4, <2>1
      <3>2. f[k] = g[k][f[k - 1]]
        BY <1>4, <3>1 DEF GoesRound
      <3> QED BY <3>1, <3>2 DEF g
    <2>2. f[0] = << >>
      BY <1>4 DEF GoesRound
    <2> QED
      BY <1>4, <2>1, <2>2
  <1>6. PICK w : Is(w) /\ Store!CollectKeys = w[HASH_SLOTS]
    <2> DEFINE u == CHOOSE w : Is(w)
    <2>1. Store!CollectKeys = u[HASH_SLOTS]
      BY DEF Store!CollectKeys
    <2> HIDE DEF Is
    <2>2. Is(u)
      BY <1>5
    <2> QED BY <2>1, <2>2
  <1>7. /\ w[0] = << >>
        /\ \A k \in 1 .. HASH_SLOTS : w[k] = w[k - 1] \o Store!KeysIn(k - 1)
    <2>1. \A k \in 0 .. HASH_SLOTS : w[k] = IF k = 0 THEN << >> ELSE w[k - 1] \o Store!KeysIn(k - 1)
      BY <1>6
    <2>2. w[0] = << >>
      BY <1>1, <2>1
    <2>3. ASSUME NEW k \in 1 .. HASH_SLOTS PROVE w[k] = w[k - 1] \o Store!KeysIn(k - 1)
      <3>1. k \in 0 .. HASH_SLOTS /\ k # 0
        BY <1>1
      <3> QED
        BY <2>1, <3>1
    <2> QED
      BY <2>2, <2>3
  <1> HIDE DEF Is
  <1> DEFINE N == {k \in 0 .. HASH_SLOTS : ListsKeys(w[k], KeysBefore(k))}
  <1>8. \A o \in taken : SlotOf[mem[o].key] \in Nat
    BY StoreAssumption DEF StoreInv, EntryIn, Store!Slots
  <1>9. 0 \in N
    <2>1. KeysBefore(0) = {}
      BY <1>8 DEF KeysBefore
    <2>2. ListsKeys(<< >>, {})
      BY DEF ListsKeys
    <2>3. ListsKeys(w[0], KeysBefore(0))
      BY <1>7, <2>1, <2>2
    <2> QED
      BY <1>1, <2>3
  <1>10. ASSUME NEW k \in 1 .. HASH_SLOTS, k - 1 \in N PROVE k \in N
    <2> DEFINE L == {mem[o].key : o \in TakenIn(k - 1)}
    <2>1. \A o \in taken : SlotOf[mem[o].key] < k <=> SlotOf[mem[o].key] < k - 1 \/ SlotOf[mem[o].key] = k - 1
      BY <1>8
    <2>2. KeysBefore(k) = KeysBefore(k - 1) \cup L
      BY <2>1 DEF KeysBefore, TakenIn
    <2>3. KeysBefore(k - 1) \cap L = {}
      BY <1>8 DEF KeysBefore, TakenIn
    <2>4. ListsKeys(w[k - 1], KeysBefore(k - 1)) /\ ListsKeys(Store!KeysIn(k - 1), L)
      BY <1>2, <1>10
    <2> HIDE DEF L
    <2> DEFINE u == w[k - 1]
               v == Store!KeysIn(k - 1)
    <2>5. ListsKeys(u, KeysBefore(k - 1)) /\ ListsKeys(v, L) /\ w[k] = u \o v
      BY <1>7, <2>4
    <2> HIDE DEF u, v
    <2>6. ListsKeys(u \o v, KeysBefore(k - 1) \cup L)
      BY <2>3, <2>5, ListsAppend
    <2>7. ListsKeys(w[k], KeysBefore(k))
      BY <2>2, <2>5, <2>6
    <2> QED
      BY <1>1, <2>7
  <1> HIDE DEF N
  <1>11. \A k \in 0 .. HASH_SLOTS : k \in N
    BY <1>1, <1>9, <1>10, NumbersUpTo
  <1>12. HASH_SLOTS \in N
    BY <1>1, <1>11
  <1> QED
    BY <1>6, <1>12 DEF N

LEMMA StoreFitsMap == StoreInv => StoreIsMap
  <1> SUFFICES ASSUME StoreInv PROVE StoreIsMap
    OBVIOUS
  <1>1. ASSUME NEW k \in StoreKeys
        PROVE  IF Store!FindKey(k) = 0 THEN map[k] = Store!Absent ELSE map[k] = mem[Store!FindKey(k)].val
    <2>1. Chained(table[SlotOf[k]], mem, TakenIn(SlotOf[k]))
      BY StoreAssumption DEF StoreInv
    <2>2. PICK n \in Nat : \E q : Chains(table[SlotOf[k]], mem, q, n) /\ TakenIn(SlotOf[k]) = OffsetsIn(q, n)
      BY <2>1 DEF Chained
    <2>3. PICK q : Chains(table[SlotOf[k]], mem, q, n) /\ TakenIn(SlotOf[k]) = OffsetsIn(q, n)
      BY <2>2
    <2>4. CASE Store!FindKey(k) = 0 /\ \A o \in taken : mem[o].key # k
      BY <2>4 DEF StoreInv
    <2>5. CASE \E j \in 0 .. n - 1 :
              /\ Store!FindKey(k) = q[j] /\ Store!Min(Store!Meets(k)) = j
              /\ q[j] \in taken /\ mem[q[j]].key = k
              /\ \A i \in 0 .. n - 1 : Store!Hop(SlotOf[k])[i] = q[i]
      <3>1. Store!FindKey(k) \in taken /\ mem[Store!FindKey(k)].key = k
        BY <2>5
      <3> QED
        BY <3>1, OffsetsAre DEF StoreInv
    <2> QED
      BY <2>3, <2>4, <2>5, FindIs
  <1>2. KeysBefore(HASH_SLOTS) = {k \in StoreKeys : map[k] # Store!Absent}
    <2>1. \A o \in taken : /\ mem[o].key \in StoreKeys /\ mem[o].val \in Vals
                           /\ SlotOf[mem[o].key] < HASH_SLOTS
      BY StoreAssumption DEF StoreInv, EntryIn, Store!Slots
    <2>2. \A o \in taken : map[mem[o].key] # Store!Absent
      BY <2>1, StoreAssumption DEF StoreInv
    <2>3. \A k \in StoreKeys : map[k] # Store!Absent => \E o \in taken : mem[o].key = k
      BY DEF StoreInv
    <2> QED
      BY <2>1, <2>2, <2>3 DEF KeysBefore
  <1> DEFINE ks == Store!CollectKeys
  <1>3. ListsKeys(ks, KeysBefore(HASH_SLOTS))
    BY CollectIs
  <1> HIDE DEF ks
  <1>4. DOMAIN ks = 1 .. Len(ks)
    BY <1>3 DEF ListsKeys
  <1>5. Store!ToSet(ks) = KeysBefore(HASH_SLOTS) /\ Store!IsInjective(ks)
    BY <1>3, <1>4, StoreOperators DEF ListsKeys
  <1> QED
    BY <1>1, <1>2, <1>5 DEF StoreIsMap, Store!StoreIsMap, ks

\* A key is found with its last value or not at all, and Keys lists each key
\* once, for any hash function and whatever the freed entries leave in memory
\* (dict_store.cpp:114-223).
THEOREM ChainsKeepMap == Spec => []StoreIsMap
  <1>1. Spec => []StoreInv
    BY StoreInvInit, StoreInvNext, PTL DEF Spec
  <1> QED
    BY <1>1, StoreFitsMap, PTL
=============================================================================
