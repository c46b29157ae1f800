---------------------------- MODULE BoundVector ----------------------------
(***************************************************************************)
(* The methods bind_vector gives a std::vector (stl/bind_vector.h), and    *)
(* the Python list that its users have in mind.  Positions of the vector   *)
(* count from 0, as in the code; sequences here from 1.  A slice comes     *)
(* with start, stop and step; Python's own adjustment of it to a length is *)
(* external, what the methods make of the result is not.  Some calls do    *)
(* not do what a list's do: "parted" says so, and nothing follows them.    *)
(***************************************************************************)
EXTENDS Integers, Sequences, SequencesExt, FiniteSetsExt

CONSTANTS Elems,
          Bounds,     \* start and stop of slices; an end left out is one beyond the vector
          Steps,
          MaxSize     \* bound: length of the vector

VARIABLES vec,     \* the vector
          list,    \* ghost: the list
          got,     \* what the last call returned and what a list's would
          parted   \* ghost: the last call was one that is not a list's

vecVars == <<vec, list, got, parted>>

Error == <<"error">>    \* of some class

Init ==
  vec = << >> /\ list = << >> /\ got = [vector |-> << >>, list |-> << >>] /\ parted = FALSE

-----------------------------------------------------------------------------
(* std::vector; p is a position *)

At(v, p) == v[p + 1]
InsertBefore(v, p, x) == InsertAt(v, p + 1, x)
\* erase of one position, or of those from p to before q
Erase(v, p)      == RemoveAt(v, p + 1)
EraseRange(v, p, q) == SubSeq(v, 1, p) \o SubSeq(v, q + 1, Len(v))

\* detail::wrap throws for what is out of range.
WrapFails(i, n) == LET j == IF i < 0 THEN i + n ELSE i IN j < 0 \/ j >= n
Wrap(i, n) == IF i < 0 THEN i + n ELSE i

\* PySlice_AdjustIndices: the ends within the vector and the number of positions.
Clip(b, n, lo, hi) == LET c == IF b < 0 THEN b + n ELSE b IN
                      IF c < lo THEN lo ELSE IF c > hi THEN hi ELSE c
Compute(s, n) ==
  LET lo    == IF s.step < 0 THEN -1 ELSE 0
      hi    == IF s.step < 0 THEN n - 1 ELSE n
      start == Clip(s.start, n, lo, hi)
      stop  == Clip(s.stop, n, lo, hi)
      size  == IF s.step > 0 THEN (IF start < stop THEN (stop - start - 1) \div s.step + 1 ELSE 0)
               ELSE (IF stop < start THEN (start - stop - 1) \div (-s.step) + 1 ELSE 0)
  IN [start |-> start, step |-> s.step, length |-> size]

SliceOf(v, c) == [i \in 1 .. c.length |-> At(v, c.start + (i - 1) * c.step)]

\* One assignment after the other.
SetSlice(v, c, value) ==
  FoldLeftDomain(LAMBDA w, i : IF i > c.length THEN w
                               ELSE [w EXCEPT ![c.start + (i - 1) * c.step + 1] = value[i]],
                 v, value)

\* The same where the values are the vector's own, read from what is written.
SetSliceOfSelf(v, c) ==
  FoldLeft(LAMBDA w, i : [w EXCEPT ![c.start + (i - 1) * c.step + 1] = w[i]], v,
           [i \in 1 .. c.length |-> i])

\* The positions go from the last to the first, so that an erasure moves none
\* of those still to come; a step of 1 is erased in one go.
DelSlice_FirstToLast(v, c) ==
  LET last  == c.start + (c.length - 1) * c.step
      first == IF c.start > last THEN last ELSE c.start
      step  == IF c.step < 0 THEN -c.step ELSE c.step
  IN IF c.length = 0 THEN v
     ELSE FoldLeft(LAMBDA w, i : Erase(w, first + (i - 1) * step), v,
                   [i \in 1 .. c.length |-> i])

DelSlice(v, c) ==
  LET last  == c.start + (c.length - 1) * c.step
      start == IF c.start > last THEN last ELSE c.start
      stop  == IF c.start > last THEN c.start ELSE last
      step  == IF c.start > last THEN -c.step ELSE c.step
  IN IF c.length = 0 THEN v
     ELSE IF step = 1 THEN EraseRange(v, start, stop + 1)
     ELSE FoldLeft(LAMBDA w, i : Erase(w, stop - (i - 1) * step), v,
                   [i \in 1 .. c.length |-> i])

-----------------------------------------------------------------------------
(* A Python list: which positions a subscript or a slice means *)

\* The numbers of a set in order: the k-th is the one with k - 1 below it.
Ascending(ps) ==
  [k \in 1 .. Cardinality(ps) |-> CHOOSE p \in ps : Cardinality({q \in ps : q < p}) = k - 1]

\* The positions of a slice in its order: those that start, start + step, ...
\* passes before stop, an end below 0 counting from the end of the list.
Meant(s, n) ==
  LET abs(b) == IF b < 0 THEN b + n ELSE b
      inside(p) == IF s.step > 0 THEN abs(s.start) <= p /\ p < abs(s.stop)
                   ELSE abs(s.start) >= p /\ p > abs(s.stop)
      first == IF s.step > 0 THEN Max({0, abs(s.start)}) ELSE Min({n - 1, abs(s.start)})
      width == IF s.step < 0 THEN -s.step ELSE s.step
      up    == Ascending({p \in 0 .. n - 1 : inside(p) /\ (p - first) % width = 0})
  IN IF s.step > 0 THEN up ELSE Reverse(up)

Without(l, ps) ==
  LET kept == Ascending({n \in DOMAIN l : n - 1 \notin ps})
  IN [n \in DOMAIN kept |-> l[kept[n]]]

Meaning(i, n) == IF i < 0 THEN n + i ELSE i
Has(i, n) == -n <= i /\ i < n

\* A position between elements, where one that is out of range means an end.
Between(i, n) == Max({0, Min({n, Meaning(i, n)})})

\* A slice's values are replaced; those of a step of 1 by as many as there are.
Replaced(l, m, w) ==
  [n \in DOMAIN l |-> IF n - 1 \in ToSet(m) THEN w[CHOOSE k \in DOMAIN m : m[k] = n - 1] ELSE l[n]]
Spliced(l, s, w) ==
  LET from == Between(s.start, Len(l))
      upTo == Max({from, Between(s.stop, Len(l))})
  IN SubSeq(l, 1, from) \o w \o SubSeq(l, upTo + 1, Len(l))

-----------------------------------------------------------------------------
(* The methods *)

Returns(v, l) == got' = [vector |-> v, list |-> l]
Becomes(v, l) == vec' = v /\ list' = l
Parts(here)   == parted' = here
Same == UNCHANGED <<vec, list>>
Size == Len(vec)

\* An index that is out of range changes nothing.
Indexed(i) ==
  WrapFails(i, Size) /\ Same /\ Returns(Error, IF Has(i, Len(list)) THEN << >> ELSE Error)

GetItem(i) ==
  \/ Indexed(i)
  \/ /\ ~WrapFails(i, Size) /\ Same
     /\ Returns(<<At(vec, Wrap(i, Size))>>,
                IF Has(i, Len(list)) THEN <<At(list, Meaning(i, Len(list)))>> ELSE Error)

SetItem(i, x) ==
  \/ Indexed(i)
  \/ /\ ~WrapFails(i, Size) /\ Returns(<< >>, << >>)
     /\ Becomes([vec EXCEPT ![Wrap(i, Size) + 1] = x], [list EXCEPT ![Meaning(i, Len(list)) + 1] = x])

DelItem(i) ==
  \/ Indexed(i)
  \/ /\ ~WrapFails(i, Size) /\ Returns(<< >>, << >>)
     /\ Becomes(Erase(vec, Wrap(i, Size)), Without(list, {Meaning(i, Len(list))}))

Pop(i) ==
  \/ Indexed(i)
  \/ LET p == Wrap(i, Size) IN
     /\ ~WrapFails(i, Size)
     /\ Returns(<<At(vec, p)>>, <<At(list, Meaning(i, Len(list)))>>)
     /\ Becomes(Erase(vec, p), Without(list, {Meaning(i, Len(list))}))

Append_(x) ==
  Size < MaxSize /\ Becomes(Append(vec, x), Append(list, x)) /\ Returns(<< >>, << >>)

\* A list takes a position out of range for an end; the vector throws.
Insert(i, x) ==
  LET p == IF i < 0 THEN i + Size ELSE i
      q == Between(i, Len(list))
      listInserted == SubSeq(list, 1, q) \o <<x>> \o SubSeq(list, q + 1, Len(list)) IN
  /\ Size < MaxSize
  /\ IF p < 0 \/ p > Size
     THEN Becomes(vec, listInserted) /\ Returns(Error, << >>) /\ Parts(TRUE)
     ELSE Becomes(InsertBefore(vec, p, x), listInserted) /\ Returns(<< >>, << >>) /\ Parts(FALSE)

Clear == Becomes(<< >>, << >>) /\ Returns(<< >>, << >>)

\* The argument is another vector.
Extend(w) ==
  Size + Len(w) <= MaxSize /\ Becomes(vec \o w, list \o w) /\ Returns(<< >>, << >>)

\* Extending a vector by itself is undefined: the elements may have been moved to
\* new memory by the time they are copied.
ExtendBySelf ==
  /\ 2 * Size <= MaxSize
  /\ \E w \in [1 .. Size -> Elems] : Becomes(vec \o w, list \o list)
  /\ Returns(<< >>, << >>) /\ Parts(Size > 0)

\* std::find
Places(v, x) == {n \in DOMAIN v : v[n] = x}

RemoveValue(x) ==
  IF Places(vec, x) = {}
  THEN Same /\ Returns(Error, IF x \in ToSet(list) THEN << >> ELSE Error)
  ELSE /\ Returns(<< >>, << >>)
       /\ Becomes(Erase(vec, Min(Places(vec, x)) - 1), RemoveFirst(list, x))

\* std::count adds up what it meets; a list counts its places.
Count(x) ==
  /\ Same
  /\ Returns(<<SumFunction([n \in DOMAIN vec |-> IF vec[n] = x THEN 1 ELSE 0])>>,
             <<Cardinality(Places(list, x))>>)

GetSlice(s) ==
  /\ Same
  /\ Returns(SliceOf(vec, Compute(s, Size)), [n \in DOMAIN Meant(s, Len(list)) |-> At(list, Meant(s, Len(list))[n])])

\* Another size is refused, which a list does for steps other than 1 only.
OtherSize(s, w) ==
  /\ IF s.step = 1 THEN Becomes(vec, Spliced(list, s, w)) /\ Returns(Error, << >>)
     ELSE Same /\ Returns(Error, Error)
  /\ Parts(s.step = 1)

\* The values are another vector's.
AssignSlice(s, w) ==
  LET c == Compute(s, Size) IN
  IF c.length # Len(w) THEN OtherSize(s, w)
  ELSE /\ Becomes(SetSlice(vec, c, w), Replaced(list, Meant(s, Len(list)), w))
       /\ Returns(<< >>, << >>) /\ Parts(FALSE)

\* v[s] = v: a list reads all values first, the vector each before it is written.
AssignSelf(s) ==
  LET c == Compute(s, Size) IN
  IF c.length # Size THEN OtherSize(s, list)
  ELSE /\ Becomes(SetSliceOfSelf(vec, c), Replaced(list, Meant(s, Len(list)), list))
       /\ Returns(<< >>, << >>) /\ Parts(s.step < 0 /\ Size > 1)

DeleteSlice(s) ==
  /\ Returns(<< >>, << >>)
  /\ Becomes(DelSlice(vec, Compute(s, Size)), Without(list, ToSet(Meant(s, Len(list)))))

Slices == [start : Bounds, stop : Bounds, step : Steps]

\* Bound: a vector that has parted from its list is not followed further.
Next ==
  /\ ~parted
  /\ \/ /\ Parts(FALSE)
        /\ \/ \E i \in Bounds : GetItem(i) \/ DelItem(i) \/ Pop(i)
           \/ \E i \in Bounds, x \in Elems : SetItem(i, x)
           \/ \E x \in Elems : Append_(x) \/ RemoveValue(x) \/ Count(x)
           \/ \E w \in SeqOf(Elems, 2) : Extend(w)
           \/ \E s \in Slices : GetSlice(s) \/ DeleteSlice(s)
           \/ Clear
     \/ \E i \in Bounds, x \in Elems : Insert(i, x)
     \/ \E s \in Slices, w \in SeqOf(Elems, 2) : AssignSlice(s, w)
     \/ \E s \in Slices : AssignSelf(s)
     \/ ExtendBySelf
-----------------------------------------------------------------------------
\* bind_vector.h:22-30, 71-209: subscripts below 0, slices with any ends and
\* steps, and the erasure of a slice element by element: after any calls the
\* vector is the list its users have in mind, and every call returned what the
\* list's returns; up to a call that inserts out of range, gives a slice of step 1
\* another size, assigns the vector to itself backwards, or extends it by itself.
ActsLikeList == ~parted => vec = list /\ got.vector = got.list
=============================================================================
