---------------------------- MODULE SetInduction ----------------------------
(***************************************************************************)
(* Induction stated with sets: what holds of a natural number or of a      *)
(* finite set is membership in a set, so that no theorem takes an operator *)
(* as a parameter.  With it, that iterating a function is well defined,    *)
(* what the sum of a function over a finite set is, and where the parts of *)
(* a sequence lie that is put together from others.                        *)
(***************************************************************************)
EXTENDS Integers, Sequences, FiniteSets, Functions, SequencesExt, FiniteSetTheorems,
        SequenceTheorems, FunctionTheorems, WellFoundedInduction, TLAPS

LEMMA LeastElement ==
  ASSUME NEW T \in SUBSET Nat, T # {}
  PROVE  \E n \in T : \A m \in T : n <= m
<1>1. PICK n \in T : \A m \in T : <<m, n>> \notin OpToRel(<, Nat)
  BY NatLessThanWellFounded, WFMin
<1>2. ASSUME NEW m \in T PROVE n <= m
  <2>1. <<m, n>> \notin {ss \in Nat \X Nat : ss[1] < ss[2]}
    BY <1>1 DEF OpToRel
  <2> QED BY <2>1
<1> QED BY <1>2

LEMMA NaturalNumbers ==
  ASSUME NEW T, 0 \in T, \A n \in Nat : n \in T => n + 1 \in T
  PROVE  \A n \in Nat : n \in T
<1> SUFFICES ASSUME Nat \ T # {} PROVE FALSE
  OBVIOUS
<1>1. PICK n \in Nat \ T : \A m \in Nat \ T : n <= m
  BY LeastElement
<1>2. n # 0 /\ n - 1 \in Nat
  BY <1>1
<1>3. n - 1 \in T
  BY <1>1, <1>2
<1> QED BY <1>1, <1>2, <1>3

LEMMA NumbersUpTo ==
  ASSUME NEW N \in Nat, NEW T, 0 \in T, \A n \in 1 .. N : n - 1 \in T => n \in T
  PROVE  \A n \in 0 .. N : n \in T
<1> DEFINE U == {n \in Nat : n <= N => n \in T}
<1>1. 0 \in U
  OBVIOUS
<1>2. ASSUME NEW n \in Nat, n \in U PROVE n + 1 \in U
  <2> SUFFICES ASSUME n + 1 <= N PROVE n + 1 \in T
    OBVIOUS
  <2> DEFINE m == n + 1
  <2>1. m \in 1 .. N /\ m - 1 = n /\ n \in T
    BY <1>2
  <2> HIDE DEF m
  <2>2. m \in T
    BY <2>1
  <2> QED BY <2>2 DEF m
<1>3. \A n \in Nat : n \in U
  <2> HIDE DEF U
  <2> QED BY <1>1, <1>2, NaturalNumbers
<1> QED BY <1>3

\* Every set of subsets that has {} and grows by single elements has them all.
LEMMA FiniteSubsets ==
  ASSUME NEW S, IsFiniteSet(S), NEW F, {} \in F,
         \A T \in SUBSET S : \A x \in S \ T : T \in F => T \cup {x} \in F
  PROVE  \A T \in SUBSET S : T \in F
<1>1. \A T \in SUBSET S : IsFiniteSet(T) /\ Cardinality(T) \in Nat
  BY FS_Subset, FS_CardinalityType
<1> DEFINE N == {n \in Nat : \A T \in SUBSET S : Cardinality(T) = n => T \in F}
<1>2. 0 \in N
  BY <1>1, FS_EmptySet
<1>3. ASSUME NEW n \in Nat, n \in N PROVE n + 1 \in N
  <2> SUFFICES ASSUME NEW T \in SUBSET S, Cardinality(T) = n + 1 PROVE T \in F
    OBVIOUS
  <2>1. PICK x \in T : TRUE
    BY <1>1, FS_EmptySet
  <2>2. IsFiniteSet(T) /\ T \ {x} \in SUBSET S
    BY <1>1
  <2>3. Cardinality(T \ {x}) = Cardinality(T) - 1
    BY <2>1, <2>2, FS_RemoveElement
  <2>4. Cardinality(T \ {x}) = n
    BY <2>3
  <2>5. T \ {x} \in F
    BY <1>3, <2>2, <2>4
  <2>6. (T \ {x}) \cup {x} = T /\ x \in S \ (T \ {x})
    BY <2>1
  <2> QED BY <2>2, <2>5, <2>6
<1>4. \A n \in Nat : n \in N
  <2> HIDE DEF N
  <2> QED BY <1>2, <1>3, NaturalNumbers
<1> QED BY <1>1, <1>4

-----------------------------------------------------------------------------
(* Iterating a function on V.                                              *)

Iterates(f, n, a, g) == f[0] = a /\ \A k \in 1 .. n : f[k] = g[f[k - 1]]

LEMMA IterationExists ==
  ASSUME NEW V, NEW a \in V, NEW g \in [V -> V], NEW n \in Nat
  PROVE  \E f \in [0 .. n -> V] : Iterates(f, n, a, g)
<1> DEFINE N == {m \in Nat : \E f \in [0 .. m -> V] : Iterates(f, m, a, g)}
<1>1. 0 \in N
  <2> DEFINE f == [k \in 0 .. 0 |-> a]
  <2>1. f \in [0 .. 0 -> V] /\ Iterates(f, 0, a, g)
    BY DEF Iterates
  <2> QED BY <2>1
<1>2. ASSUME NEW m \in Nat, m \in N PROVE m + 1 \in N
  <2>1. PICK f \in [0 .. m -> V] : Iterates(f, m, a, g)
    BY <1>2
  <2> DEFINE h == [k \in 0 .. m + 1 |-> IF k = m + 1 THEN g[f[m]] ELSE f[k]]
  <2>2. h \in [0 .. m + 1 -> V]
    OBVIOUS
  <2>3. Iterates(h, m + 1, a, g)
    BY <2>1 DEF Iterates
  <2> QED BY <2>2, <2>3
<1>3. \A m \in Nat : m \in N
  <2> HIDE DEF N
  <2> QED BY <1>1, <1>2, NaturalNumbers
<1> QED BY <1>3

\* The same when each round has a function of its own.
GoesRound(f, n, a, g) == f[0] = a /\ \A k \in 1 .. n : f[k] = g[k][f[k - 1]]

LEMMA RoundsExist ==
  ASSUME NEW V, NEW a \in V, NEW n \in Nat, NEW g \in [1 .. n -> [V -> V]]
  PROVE  \E f \in [0 .. n -> V] : GoesRound(f, n, a, g)
<1> DEFINE N == {m \in 0 .. n : \E f \in [0 .. m -> V] : GoesRound(f, m, a, g)}
<1>1. 0 \in N
  <2> DEFINE f == [k \in 0 .. 0 |-> a]
  <2>1. f \in [0 .. 0 -> V] /\ GoesRound(f, 0, a, g)
    BY DEF GoesRound
  <2> QED BY <2>1
<1>2. ASSUME NEW m \in 1 .. n, m - 1 \in N PROVE m \in N
  <2>1. PICK f \in [0 .. m - 1 -> V] : GoesRound(f, m - 1, a, g)
    BY <1>2
  <2> DEFINE h == [k \in 0 .. m |-> IF k = m THEN g[m][f[m - 1]] ELSE f[k]]
  <2>2. g[m] \in [V -> V] /\ f[m - 1] \in V
    BY <2>1
  <2>3. h \in [0 .. m -> V]
    BY <2>1, <2>2
  <2>4. GoesRound(h, m, a, g)
    <3>1. h[0] = a
      BY <2>1 DEF GoesRound
    <3>2. ASSUME NEW k \in 1 .. m PROVE h[k] = g[k][h[k - 1]]
      <4>1. k - 1 \in 0 .. m - 1 /\ h[k - 1] = f[k - 1]
        OBVIOUS
      <4>2. CASE k = m
        BY <4>1, <4>2
      <4>3. CASE k # m
        <5>1. k \in 1 .. m - 1 /\ h[k] = f[k]
          BY <4>3
        <5> QED BY <2>1, <4>1, <5>1 DEF GoesRound
      <4> QED BY <4>2, <4>3
    <3> QED BY <3>1, <3>2 DEF GoesRound
  <2> QED BY <2>3, <2>4
<1>3. \A m \in 0 .. n : m \in N
  <2> HIDE DEF N
  <2> QED BY <1>1, <1>2, NumbersUpTo
<1>4. n \in N
  <2> HIDE DEF N
  <2> QED BY <1>3
<1> QED BY <1>4

-----------------------------------------------------------------------------
(* Sums.                                                                   *)

Pick(s) == CHOOSE x \in s : TRUE

\* h has the sum of f over every subset of S, as the fold computes it.
SumsUp(h, f, S) ==
  h = [s \in SUBSET S |-> IF s = {} THEN 0 ELSE f[Pick(s)] + h[s \ {Pick(s)}]]

LEMMA SumIsFold ==
  ASSUME NEW f, NEW S
  PROVE  SumFunctionOnSet(f, S) = (CHOOSE h : SumsUp(h, f, S))[S]
BY DEF SumFunctionOnSet, FoldFunctionOnSet, MapThenFoldSet, SumsUp, Pick

LEMMA PickIn == ASSUME NEW s, s # {} PROVE Pick(s) \in s
BY DEF Pick

Upto(S, n) == {s \in SUBSET S : Cardinality(s) <= n}

\* The same for the subsets of n elements at most.
SumsUpto(h, f, S, n) ==
  \A s \in Upto(S, n) : h[s] = IF s = {} THEN 0 ELSE f[Pick(s)] + h[s \ {Pick(s)}]

LEMMA SmallerSubset ==
  ASSUME NEW S, IsFiniteSet(S), NEW s \in SUBSET S, s # {}
  PROVE  /\ Cardinality(s) \in Nat
         /\ Cardinality(s \ {Pick(s)}) = Cardinality(s) - 1
         /\ Cardinality(s \ {Pick(s)}) \in Nat
         /\ s \ {Pick(s)} \in SUBSET S
<1>1. IsFiniteSet(s) /\ Pick(s) \in s
  BY FS_Subset, PickIn
<1>2. IsFiniteSet(s \ {Pick(s)}) /\ Cardinality(s \ {Pick(s)}) = Cardinality(s) - 1
  BY <1>1, FS_RemoveElement
<1> QED BY <1>1, <1>2, FS_CardinalityType

LEMMA SumsExist ==
  ASSUME NEW S, IsFiniteSet(S), NEW f, \A x \in S : f[x] \in Int
  PROVE  \E h \in [SUBSET S -> Int] : SumsUp(h, f, S)
<1> DEFINE N == {n \in Nat : \E h \in [Upto(S, n) -> Int] : SumsUpto(h, f, S, n)}
<1>1. 0 \in N
  <2> DEFINE h == [s \in Upto(S, 0) |-> 0]
  <2>1. \A s \in Upto(S, 0) : s = {}
    BY FS_Subset, FS_CardinalityType, FS_EmptySet DEF Upto
  <2>2. h \in [Upto(S, 0) -> Int] /\ SumsUpto(h, f, S, 0)
    BY <2>1 DEF SumsUpto
  <2> QED BY <2>2
<1>2. ASSUME NEW n \in Nat, n \in N PROVE n + 1 \in N
  <2>1. PICK h \in [Upto(S, n) -> Int] : SumsUpto(h, f, S, n)
    BY <1>2
  <2> DEFINE g == [s \in Upto(S, n + 1) |->
                     IF s = {} THEN 0 ELSE f[Pick(s)] + h[s \ {Pick(s)}]]
  <2>2. \A s \in Upto(S, n + 1) : s # {} => s \ {Pick(s)} \in Upto(S, n) /\ f[Pick(s)] \in Int
    BY SmallerSubset, PickIn DEF Upto
  <2>3. g \in [Upto(S, n + 1) -> Int]
    BY <2>2
  <2>4. \A s \in Upto(S, n) : s \in Upto(S, n + 1) /\ g[s] = h[s]
    <3>1. \A s \in Upto(S, n) : s \in Upto(S, n + 1)
      BY FS_Subset, FS_CardinalityType DEF Upto
    <3> QED BY <2>1, <3>1 DEF SumsUpto
  <2>5. SumsUpto(g, f, S, n + 1)
    BY <2>2, <2>4 DEF SumsUpto
  <2>6. \E k \in [Upto(S, n + 1) -> Int] : SumsUpto(k, f, S, n + 1)
    <3> HIDE DEF g
    <3> QED BY <2>3, <2>5
  <2> QED BY <2>6
<1>3. \A n \in Nat : n \in N
  <2> HIDE DEF N
  <2> QED BY <1>1, <1>2, NaturalNumbers
<1>4. Cardinality(S) \in Nat
  BY FS_CardinalityType
<1>5. Upto(S, Cardinality(S)) = SUBSET S
  BY FS_Subset DEF Upto
<1>6. PICK h \in [SUBSET S -> Int] : SumsUpto(h, f, S, Cardinality(S))
  BY <1>3, <1>4, <1>5
<1>7. SumsUp(h, f, S)
  BY <1>5, <1>6 DEF SumsUp, SumsUpto
<1> QED BY <1>7

LEMMA SumsAgree ==
  ASSUME NEW S, IsFiniteSet(S), NEW R \in SUBSET S, NEW f, \A x \in S : f[x] \in Int,
         NEW h, SumsUp(h, f, S), NEW g, SumsUp(g, f, R)
  PROVE  h[R] = g[R]
<1> DEFINE N == {n \in Nat : \A s \in SUBSET R : Cardinality(s) = n => h[s] = g[s]}
<1>1. 0 \in N
  BY FS_Subset, FS_EmptySet DEF SumsUp
<1>2. ASSUME NEW n \in Nat, n \in N PROVE n + 1 \in N
  <2> SUFFICES ASSUME NEW s \in SUBSET R, Cardinality(s) = n + 1 PROVE h[s] = g[s]
    OBVIOUS
  <2>1. s # {}
    BY FS_EmptySet
  <2>2. s \ {Pick(s)} \in SUBSET R /\ Cardinality(s \ {Pick(s)}) = n
    BY <2>1, SmallerSubset
  <2>3. h[s \ {Pick(s)}] = g[s \ {Pick(s)}]
    BY <1>2, <2>2
  <2> QED BY <2>1, <2>3 DEF SumsUp
<1>3. \A n \in Nat : n \in N
  <2> HIDE DEF N
  <2> QED BY <1>1, <1>2, NaturalNumbers
<1>4. Cardinality(R) \in Nat
  BY FS_Subset, FS_CardinalityType
<1> QED BY <1>3, <1>4

\* The function that the fold evaluates.
Sums(f, S) == CHOOSE h : SumsUp(h, f, S)

LEMMA SumIs ==
  ASSUME NEW S, IsFiniteSet(S), NEW f, \A x \in S : f[x] \in Int
  PROVE  /\ Sums(f, S) \in [SUBSET S -> Int]
         /\ SumsUp(Sums(f, S), f, S)
         /\ \A R \in SUBSET S : SumFunctionOnSet(f, R) = Sums(f, S)[R]
<1>1. PICK h \in [SUBSET S -> Int] : SumsUp(h, f, S)
  BY SumsExist
<1>2. SumsUp(Sums(f, S), f, S)
  BY <1>1 DEF Sums
<1>3. ASSUME NEW R \in SUBSET S PROVE SumsUp(Sums(f, R), f, R) /\ IsFiniteSet(R)
  <2>1. IsFiniteSet(R) /\ \A x \in R : f[x] \in Int
    BY FS_Subset
  <2>2. \E g : SumsUp(g, f, R)
    BY <2>1, SumsExist
  <2> QED BY <2>1, <2>2 DEF Sums
<1>4. ASSUME NEW R \in SUBSET S PROVE SumFunctionOnSet(f, R) = Sums(f, S)[R]
  <2>1. SumFunctionOnSet(f, R) = Sums(f, R)[R]
    BY SumIsFold DEF Sums
  <2>2. Sums(f, S)[R] = Sums(f, R)[R]
    BY <1>2, <1>3, SumsAgree
  <2> QED BY <2>1, <2>2
<1>5. ASSUME NEW R \in SUBSET S PROVE Sums(f, S)[R] = h[R]
  <2>1. h[R] = Sums(f, R)[R]
    BY <1>1, <1>3, SumsAgree
  <2>2. Sums(f, S)[R] = Sums(f, R)[R]
    BY <1>2, <1>3, SumsAgree
  <2> QED BY <2>1, <2>2
<1>6. Sums(f, S) \in [SUBSET S -> Int]
  BY <1>2, <1>5 DEF SumsUp
<1> QED BY <1>2, <1>4, <1>6

LEMMA SumEmpty == ASSUME NEW f PROVE SumFunctionOnSet(f, {}) = 0
<1>1. IsFiniteSet({})
  BY FS_EmptySet
<1>2. SumsUp(Sums(f, {}), f, {}) /\ SumFunctionOnSet(f, {}) = Sums(f, {})[{}]
  BY <1>1, SumIs
<1> QED BY <1>2 DEF SumsUp

LEMMA SumType ==
  ASSUME NEW S, IsFiniteSet(S), NEW f, \A x \in S : f[x] \in Int
  PROVE  SumFunctionOnSet(f, S) \in Int
<1>1. Sums(f, S) \in [SUBSET S -> Int] /\ SumFunctionOnSet(f, S) = Sums(f, S)[S]
  BY SumIs
<1> QED BY <1>1

\* Any element can be taken out, not only the one the fold takes.
LEMMA SumRemove ==
  ASSUME NEW S, IsFiniteSet(S), NEW f, \A x \in S : f[x] \in Int, NEW e \in S
  PROVE  SumFunctionOnSet(f, S) = f[e] + SumFunctionOnSet(f, S \ {e})
<1> DEFINE h == Sums(f, S)
<1>1. /\ h \in [SUBSET S -> Int] /\ SumsUp(h, f, S)
      /\ \A R \in SUBSET S : SumFunctionOnSet(f, R) = h[R]
  BY SumIs
<1> HIDE DEF h
<1> DEFINE F == {T \in SUBSET S : \A x \in T : h[T] = f[x] + h[T \ {x}]}
           N == {n \in Nat : \A T \in SUBSET S : Cardinality(T) = n => T \in F}
<1>2. 0 \in N
  BY FS_Subset, FS_EmptySet
<1>3. ASSUME NEW n \in Nat, n \in N PROVE n + 1 \in N
  <2> SUFFICES ASSUME NEW T \in SUBSET S, Cardinality(T) = n + 1, NEW x \in T
               PROVE  h[T] = f[x] + h[T \ {x}]
    OBVIOUS
  <2> DEFINE c == Pick(T)
  <2>0. c \in T /\ IsFiniteSet(T)
    BY PickIn, FS_Subset
  <2>1. Cardinality(T \ {c}) = n /\ Cardinality(T \ {x}) = n
    <3> HIDE DEF c, N, F
    <3>1. Cardinality(T \ {c}) = Cardinality(T) - 1 /\ Cardinality(T \ {x}) = Cardinality(T) - 1
      BY <2>0, FS_RemoveElement
    <3> QED BY <3>1
  <2> HIDE DEF c
  <2>2. h[T] = f[c] + h[T \ {c}]
    BY <1>1 DEF SumsUp, c
  <2>3. CASE x = c
    BY <2>2, <2>3
  <2>4. CASE x # c
    <3>1. h[T \ {c}] = f[x] + h[(T \ {c}) \ {x}]
      BY <1>3, <2>0, <2>1, <2>4
    <3>2. h[T \ {x}] = f[c] + h[(T \ {x}) \ {c}]
      BY <1>3, <2>0, <2>1, <2>4
    <3>3. (T \ {c}) \ {x} = (T \ {x}) \ {c}
      OBVIOUS
    <3>4. f[c] \in Int /\ f[x] \in Int /\ h[(T \ {x}) \ {c}] \in Int
      BY <1>1, <2>0
    <3>5. \A a, b, d \in Int : a + (b + d) = b + (a + d)
      OBVIOUS
    <3>6. /\ h[T] = f[c] + (f[x] + h[(T \ {x}) \ {c}])
          /\ f[x] + h[T \ {x}] = f[x] + (f[c] + h[(T \ {x}) \ {c}])
      BY <2>2, <3>1, <3>2, <3>3, Zenon
    <3> QED BY <3>4, <3>5, <3>6, Zenon
  <2> QED BY <2>3, <2>4
<1>4. \A n \in Nat : n \in N
  <2> HIDE DEF N
  <2> QED BY <1>2, <1>3, NaturalNumbers
<1>5. S \in F
  BY <1>4, FS_CardinalityType
<1> QED BY <1>1, <1>5

\* Only the values on S matter.
LEMMA SumSame ==
  ASSUME NEW S, IsFiniteSet(S), NEW f, NEW g,
         \A x \in S : f[x] \in Int /\ f[x] = g[x]
  PROVE  SumFunctionOnSet(f, S) = SumFunctionOnSet(g, S)
<1> DEFINE F == {T \in SUBSET S : SumFunctionOnSet(f, T) = SumFunctionOnSet(g, T)}
<1>1. {} \in F
  BY SumEmpty
<1>2. ASSUME NEW T \in SUBSET S, NEW x \in S \ T, T \in F PROVE T \cup {x} \in F
  <2>1. IsFiniteSet(T \cup {x}) /\ (T \cup {x}) \ {x} = T
    BY FS_Subset
  <2>2. /\ SumFunctionOnSet(f, T \cup {x}) = f[x] + SumFunctionOnSet(f, T)
        /\ SumFunctionOnSet(g, T \cup {x}) = g[x] + SumFunctionOnSet(g, T)
    BY <2>1, SumRemove
  <2> QED BY <1>2, <2>2
<1>3. S \in F
  <2> HIDE DEF F
  <2> QED BY <1>1, <1>2, FiniteSubsets
<1> QED BY <1>3

LEMMA SumNat ==
  ASSUME NEW S, IsFiniteSet(S), NEW f, \A x \in S : f[x] \in Nat
  PROVE  SumFunctionOnSet(f, S) \in Nat
<1> DEFINE F == {T \in SUBSET S : SumFunctionOnSet(f, T) \in Nat}
<1>1. {} \in F
  BY SumEmpty
<1>2. ASSUME NEW T \in SUBSET S, NEW x \in S \ T, T \in F PROVE T \cup {x} \in F
  <2>1. IsFiniteSet(T \cup {x}) /\ (T \cup {x}) \ {x} = T
    BY FS_Subset
  <2>2. SumFunctionOnSet(f, T \cup {x}) = f[x] + SumFunctionOnSet(f, T)
    BY <2>1, SumRemove
  <2> QED BY <1>2, <2>2
<1>3. S \in F
  <2> HIDE DEF F
  <2> QED BY <1>1, <1>2, FiniteSubsets
<1> QED BY <1>3

\* A function that differs at e only.
LEMMA SumChange ==
  ASSUME NEW S, IsFiniteSet(S), NEW f, NEW g, NEW e \in S,
         \A x \in S : f[x] \in Int /\ g[x] \in Int,
         \A x \in S \ {e} : g[x] = f[x]
  PROVE  SumFunctionOnSet(g, S) = SumFunctionOnSet(f, S) + g[e] - f[e]
<1>1. IsFiniteSet(S \ {e})
  BY FS_Subset
<1>2. SumFunctionOnSet(g, S \ {e}) = SumFunctionOnSet(f, S \ {e})
  BY <1>1, SumSame
<1>3. SumFunctionOnSet(f, S \ {e}) \in Int
  BY <1>1, SumType
<1>4. /\ SumFunctionOnSet(f, S) = f[e] + SumFunctionOnSet(f, S \ {e})
      /\ SumFunctionOnSet(g, S) = g[e] + SumFunctionOnSet(g, S \ {e})
  BY SumRemove
<1> QED BY <1>2, <1>3, <1>4

\* Zeroes add nothing.
LEMMA SumSupport ==
  ASSUME NEW S, IsFiniteSet(S), NEW f, \A x \in S : f[x] \in Int,
         NEW R \in SUBSET S, \A x \in S \ R : f[x] = 0
  PROVE  SumFunctionOnSet(f, S) = SumFunctionOnSet(f, R)
<1> DEFINE D == S \ R
           F == {T \in SUBSET D : SumFunctionOnSet(f, R \cup T) = SumFunctionOnSet(f, R)}
<1>1. {} \in F
  BY R \cup {} = R
<1>2. ASSUME NEW T \in SUBSET D, NEW x \in D \ T, T \in F
      PROVE  T \cup {x} \in F
  <2>1. /\ IsFiniteSet(R \cup (T \cup {x})) /\ x \in R \cup (T \cup {x})
        /\ (R \cup (T \cup {x})) \ {x} = R \cup T
    BY FS_Subset
  <2>2. SumFunctionOnSet(f, R \cup (T \cup {x})) = f[x] + SumFunctionOnSet(f, R \cup T)
    BY <2>1, SumRemove
  <2>3. SumFunctionOnSet(f, R) \in Int
    BY FS_Subset, SumType
  <2> QED BY <1>2, <2>2, <2>3
<1>3. IsFiniteSet(D)
  BY FS_Subset
<1>4. D \in F
  <2> HIDE DEF F, D
  <2> QED BY <1>1, <1>2, <1>3, FiniteSubsets
<1> QED BY <1>4, R \cup (S \ R) = S

\* Renaming the elements changes nothing.
LEMMA SumRenamed ==
  ASSUME NEW S, IsFiniteSet(S), NEW f, \A x \in S : f[x] \in Int,
         NEW b, \A x, y \in S : b[x] = b[y] => x = y,
         NEW g, \A x \in S : g[b[x]] = f[x]
  PROVE  SumFunctionOnSet(g, {b[x] : x \in S}) = SumFunctionOnSet(f, S)
<1> DEFINE To(T) == {b[x] : x \in T}
           F == {T \in SUBSET S : /\ IsFiniteSet(To(T))
                                  /\ SumFunctionOnSet(g, To(T)) = SumFunctionOnSet(f, T)}
<1>1. {} \in F
  BY SumEmpty, FS_EmptySet, To({}) = {}
<1>2. ASSUME NEW T \in SUBSET S, NEW x \in S \ T, T \in F PROVE T \cup {x} \in F
  <2>1. IsFiniteSet(T \cup {x}) /\ (T \cup {x}) \ {x} = T
    BY FS_Subset
  <2>2. To(T \cup {x}) = To(T) \cup {b[x]} /\ To(T \cup {x}) \ {b[x]} = To(T)
    OBVIOUS
  <2>3. IsFiniteSet(To(T \cup {x}))
    <3>1. \A A : IsFiniteSet(A) => IsFiniteSet(A \cup {b[x]})
      BY FS_AddElement
    <3> QED BY <1>2, <2>2, <3>1
  <2>4. \A y \in To(T \cup {x}) : g[y] \in Int
    OBVIOUS
  <2>5. SumFunctionOnSet(f, T \cup {x}) = f[x] + SumFunctionOnSet(f, T)
    BY <2>1, SumRemove
  <2>6. b[x] \in To(T \cup {x})
    OBVIOUS
  <2>7. SumFunctionOnSet(g, To(T \cup {x})) = g[b[x]] + SumFunctionOnSet(g, To(T))
    <3>1. \A A : IsFiniteSet(A) /\ (\A y \in A : g[y] \in Int) /\ b[x] \in A =>
                 SumFunctionOnSet(g, A) = g[b[x]] + SumFunctionOnSet(g, A \ {b[x]})
      BY SumRemove
    <3> HIDE DEF To
    <3> QED BY <2>2, <2>3, <2>4, <2>6, <3>1, Zenon
  <2> QED BY <1>2, <2>3, <2>5, <2>7
<1>3. S \in F
  <2> HIDE DEF F
  <2> QED BY <1>1, <1>2, FiniteSubsets
<1> QED BY <1>3

\* A set has as many elements as one that it is mapped onto, one to one.
LEMMA AsMany ==
  ASSUME NEW S, IsFiniteSet(S), NEW T, NEW f, \A x \in S : f[x] \in T,
         \A x, y \in S : f[x] = f[y] => x = y, \A t \in T : \E x \in S : f[x] = t
  PROVE  IsFiniteSet(T) /\ Cardinality(T) = Cardinality(S)
  <1> DEFINE g == [x \in S |-> f[x]]
  <1>1. g \in [S -> T]
    OBVIOUS
  <1>2. \A x, y \in DOMAIN g : g[x] = g[y] => x = y
    OBVIOUS
  <1>3. \A t \in T : \E x \in S : g[x] = t
    OBVIOUS
  <1> HIDE DEF g
  <1>4. g \in Bijection(S, T)
    BY <1>1, <1>2, <1>3 DEF Bijection, Injection, Surjection, IsInjective
  <1> QED BY <1>4, FS_Bijection DEF ExistsBijection
-----------------------------------------------------------------------------
(* Sequences that are put one after the other.                             *)

\* The length of the first n parts.
Before(ls, n) == SumFunctionOnSet(ls, 1 .. n)

LEMMA BeforeIs ==
  ASSUME NEW N \in Nat, NEW ls, \A n \in 1 .. N : ls[n] \in Nat
  PROVE  /\ Before(ls, 0) = 0
         /\ \A n \in 0 .. N : Before(ls, n) \in Nat
         /\ \A n \in 1 .. N : Before(ls, n) = Before(ls, n - 1) + ls[n]
  <1>1. Before(ls, 0) = 0
    <2>1. 1 .. 0 = {}
      OBVIOUS
    <2> QED BY <2>1, SumEmpty DEF Before
  <1>2. ASSUME NEW n \in 0 .. N PROVE IsFiniteSet(1 .. n) /\ \A i \in 1 .. n : ls[i] \in Nat /\ ls[i] \in Int
    <2>1. IsFiniteSet(1 .. n)
      BY FS_Interval
    <2>2. \A i \in 1 .. n : i \in 1 .. N
      OBVIOUS
    <2> QED BY <2>1, <2>2
  <1>3. ASSUME NEW n \in 0 .. N PROVE Before(ls, n) \in Nat
    BY <1>2, SumNat DEF Before
  <1>4. ASSUME NEW n \in 1 .. N PROVE Before(ls, n) = Before(ls, n - 1) + ls[n]
    <2>1. n \in 1 .. n /\ (1 .. n) \ {n} = 1 .. n - 1 /\ n \in 0 .. N /\ n - 1 \in 0 .. N
      OBVIOUS
    <2>2. SumFunctionOnSet(ls, 1 .. n) = ls[n] + SumFunctionOnSet(ls, (1 .. n) \ {n})
      BY <1>2, <2>1, SumRemove
    <2>3. Before(ls, n) = ls[n] + Before(ls, n - 1)
      BY <2>1, <2>2 DEF Before
    <2>4. Before(ls, n - 1) \in Nat /\ ls[n] \in Nat
      BY <1>3, <2>1
    <2> QED BY <2>3, <2>4
  <1> QED BY <1>1, <1>3, <1>4

LEMMA BeforeGrows ==
  ASSUME NEW N \in Nat, NEW ls, \A n \in 1 .. N : ls[n] \in Nat
  PROVE  \A m, n \in 0 .. N : m <= n => Before(ls, m) <= Before(ls, n)
  <1> SUFFICES ASSUME NEW m \in 0 .. N PROVE \A n \in 0 .. N : m <= n => Before(ls, m) <= Before(ls, n)
    OBVIOUS
  <1> DEFINE T == {n \in 0 .. N : m <= n => Before(ls, m) <= Before(ls, n)}
  <1>1. \A n \in 0 .. N : Before(ls, n) \in Nat
    BY BeforeIs
  <1>2. 0 \in T
    BY <1>1
  <1>3. ASSUME NEW n \in 1 .. N, n - 1 \in T PROVE n \in T
    <2>1. Before(ls, n) = Before(ls, n - 1) + ls[n] /\ ls[n] \in Nat /\ n - 1 \in 0 .. N /\ n \in 0 .. N
      BY BeforeIs
    <2> QED BY <1>1, <1>3, <2>1
  <1> HIDE DEF T
  <1>4. \A n \in 0 .. N : n \in T
    BY <1>2, <1>3, NumbersUpTo
  <1> QED BY <1>4 DEF T

\* Every place is in a part, and in one.
LEMMA BeforeMeets ==
  ASSUME NEW N \in Nat, NEW ls, \A n \in 1 .. N : ls[n] \in Nat,
         NEW i \in 1 .. Before(ls, N)
  PROVE  \E n \in 1 .. N : \E e \in 1 .. ls[n] : i = Before(ls, n - 1) + e
  <1> DEFINE T == {n \in 0 .. N : i > Before(ls, n)}
  <1>1. /\ Before(ls, 0) = 0 /\ \A n \in 0 .. N : Before(ls, n) \in Nat
        /\ \A n \in 1 .. N : Before(ls, n) = Before(ls, n - 1) + ls[n]
    BY BeforeIs
  <1>2. N \notin T
    BY <1>1
  <1>3. 0 \in T
    BY <1>1
  <1>4. PICK n \in 1 .. N : n - 1 \in T /\ n \notin T
    <2> SUFFICES ASSUME \A n \in 1 .. N : n - 1 \in T => n \in T PROVE FALSE
      OBVIOUS
    <2> HIDE DEF T
    <2>1. \A n \in 0 .. N : n \in T
      BY <1>3, NumbersUpTo
    <2> QED BY <1>2, <2>1
  <1>5. n - 1 \in 0 .. N /\ n \in 0 .. N
    OBVIOUS
  <1>6. i - Before(ls, n - 1) \in 1 .. ls[n] /\ i = Before(ls, n - 1) + (i - Before(ls, n - 1))
    BY <1>1, <1>4, <1>5
  <1> QED BY <1>6

LEMMA OnePlace ==
  ASSUME NEW N \in Nat, NEW ls, \A n \in 1 .. N : ls[n] \in Nat,
         NEW n \in 1 .. N, NEW e \in 1 .. ls[n]
  PROVE  /\ Before(ls, n - 1) + e \in 1 .. Before(ls, N)
         /\ \A m \in 1 .. N : \A d \in 1 .. ls[m] :
              Before(ls, n - 1) + e = Before(ls, m - 1) + d => m = n /\ d = e
  <1>1. /\ \A m \in 0 .. N : Before(ls, m) \in Nat
        /\ \A m \in 1 .. N : Before(ls, m) = Before(ls, m - 1) + ls[m] /\ m - 1 \in 0 .. N /\ m \in 0 .. N
    BY BeforeIs
  <1>2. \A m, k \in 0 .. N : m <= k => Before(ls, m) <= Before(ls, k)
    BY BeforeGrows
  <1>3. Before(ls, n - 1) + e \in 1 .. Before(ls, N)
    <2>1. Before(ls, n) <= Before(ls, N) /\ Before(ls, n) = Before(ls, n - 1) + ls[n]
          /\ Before(ls, n - 1) \in Nat /\ Before(ls, N) \in Nat /\ ls[n] \in Nat
      BY <1>1, <1>2
    <2> QED BY <2>1
  <1>4. ASSUME NEW m \in 1 .. N, NEW d \in 1 .. ls[m],
               Before(ls, n - 1) + e = Before(ls, m - 1) + d
        PROVE  m = n /\ d = e
    <2>1. /\ Before(ls, n - 1) \in Nat /\ Before(ls, m - 1) \in Nat
          /\ Before(ls, n - 1) + e <= Before(ls, n) /\ Before(ls, m - 1) + d <= Before(ls, m)
          /\ Before(ls, n) \in Nat /\ Before(ls, m) \in Nat
      BY <1>1
    <2>2. CASE m < n
      <3>1. Before(ls, m) <= Before(ls, n - 1)
        BY <1>1, <1>2, <2>2
      <3> QED BY <1>4, <2>1, <3>1
    <2>3. CASE n < m
      <3>1. Before(ls, n) <= Before(ls, m - 1)
        BY <1>1, <1>2, <2>3
      <3> QED BY <1>4, <2>1, <3>1
    <2>4. CASE m = n
      BY <1>4, <2>1, <2>4
    <2> QED BY <2>2, <2>3, <2>4
  <1> QED BY <1>3, <1>4

\* FlattenSeq of the community modules.
Flat(seqs) ==
  IF Len(seqs) = 0 THEN seqs ELSE
  LET flatten[i \in 1 .. Len(seqs)] == IF i = 1 THEN seqs[i] ELSE flatten[i - 1] \o seqs[i]
  IN flatten[Len(seqs)]

Lens(seqs) == [n \in DOMAIN seqs |-> Len(seqs[n])]

\* q has the elements of the first n sequences in their places.
InPlaces(q, S, seqs, n) ==
  /\ q \in Seq(S) /\ Len(q) = Before(Lens(seqs), n)
  /\ \A m \in 1 .. n : \A e \in 1 .. Len(seqs[m]) : q[Before(Lens(seqs), m - 1) + e] = seqs[m][e]

LEMMA PlacesNext ==
  ASSUME NEW S, NEW seqs \in Seq(Seq(S)), NEW n \in 1 .. Len(seqs), NEW q, InPlaces(q, S, seqs, n - 1)
  PROVE  InPlaces(q \o seqs[n], S, seqs, n)
  <1> DEFINE N == Len(seqs)
             ls == Lens(seqs)
             r == q \o seqs[n]
  <1>1. N \in Nat /\ DOMAIN seqs = 1 .. N /\ \A m \in 1 .. N : seqs[m] \in Seq(S)
    BY ElementOfSeq, LenProperties
  <1>2. \A m \in 1 .. N : ls[m] = Len(seqs[m]) /\ ls[m] \in Nat
    BY <1>1, LenProperties DEF Lens
  <1>3. /\ q \in Seq(S) /\ Len(q) = Before(ls, n - 1) /\ Len(q) \in Nat
        /\ \A m \in 1 .. n - 1 : \A e \in 1 .. Len(seqs[m]) : q[Before(ls, m - 1) + e] = seqs[m][e]
    BY LenProperties DEF InPlaces
  <1>4. /\ r \in Seq(S) /\ Len(r) = Len(q) + Len(seqs[n])
        /\ \A j \in 1 .. Len(q) + Len(seqs[n]) : r[j] = IF j <= Len(q) THEN q[j] ELSE seqs[n][j - Len(q)]
    BY <1>1, <1>3, ConcatProperties
  <1> HIDE DEF r, ls
  <1>5. Before(ls, n) = Before(ls, n - 1) + ls[n]
    BY <1>1, <1>2, BeforeIs
  <1>6. ASSUME NEW m \in 1 .. n, NEW e \in 1 .. Len(seqs[m]) PROVE r[Before(ls, m - 1) + e] = seqs[m][e]
    <2>1. CASE m < n
      <3> DEFINE M == n - 1
      <3>3. (\A k \in 1 .. M : k \in 1 .. N) /\ m \in 1 .. M /\ M \in Nat /\ m \in 1 .. N
        BY <1>1, <2>1
      <3>1. m \in 1 .. M /\ M \in Nat /\ (\A k \in 1 .. M : ls[k] \in Nat) /\ e \in 1 .. ls[m]
        <4> HIDE DEF M, N
        <4> QED BY <1>2, <3>3
      <3> HIDE DEF M
      <3>2. Before(ls, m - 1) + e \in 1 .. Before(ls, M)
        BY <3>1, OnePlace
      <3> QED BY SMTT(30), <1>2, <1>3, <1>4, <3>1, <3>2 DEF M
    <2>2. CASE m = n
      <3>1. Len(q) + e \in 1 .. Len(q) + Len(seqs[n]) /\ ~(Len(q) + e <= Len(q)) /\ Len(q) + e - Len(q) = e
        BY <1>2, <1>3, <2>2
      <3> QED BY <1>3, <1>4, <2>2, <3>1
    <2> QED BY <2>1, <2>2
  <1>7. Len(r) = Before(ls, n)
    BY <1>2, <1>3, <1>4, <1>5
  <1> QED BY <1>4, <1>6, <1>7 DEF InPlaces, r, ls

LEMMA FlatIs ==
  ASSUME NEW S, NEW seqs \in Seq(Seq(S))
  PROVE  InPlaces(Flat(seqs), S, seqs, Len(seqs))
  <1> DEFINE N == Len(seqs)
  <1>1. N \in Nat /\ DOMAIN seqs = 1 .. N /\ \A m \in 1 .. N : seqs[m] \in Seq(S)
    BY ElementOfSeq, LenProperties
  <1>2. \A m \in 1 .. N : Lens(seqs)[m] \in Nat /\ Lens(seqs)[m] = Len(seqs[m])
    BY <1>1, LenProperties DEF Lens
  <1>3. InPlaces(<< >>, S, seqs, 0)
    <2>1. Before(Lens(seqs), 0) = 0
      BY <1>1, <1>2, BeforeIs
    <2>2. << >> \in Seq(S) /\ Len(<< >>) = 0
      OBVIOUS
    <2> QED BY <2>1, <2>2 DEF InPlaces
  <1>4. CASE N = 0
    <2>1. seqs = << >>
      BY <1>4, EmptySeq
    <2> QED BY <1>3, <1>4, <2>1 DEF Flat
  <1>5. CASE N # 0
    <2> DEFINE V == Seq(S)
               g == [k \in 1 .. N |-> [q \in V |-> q \o seqs[k]]]
               Is(w) == w = [i \in 1 .. N |-> IF i = 1 THEN seqs[i] ELSE w[i - 1] \o seqs[i]]
    <2>1. << >> \in V /\ g \in [1 .. N -> [V -> V]]
      BY <1>1, ConcatProperties
    <2> HIDE DEF g
    <2>2. PICK f \in [0 .. N -> V] : GoesRound(f, N, << >>, g)
      BY <1>1, <2>1, RoundsExist
    <2>3. \A k \in 1 .. N : f[k] = f[k - 1] \o seqs[k]
      <3> SUFFICES ASSUME NEW k \in 1 .. N PROVE f[k] = f[k - 1] \o seqs[k]
        OBVIOUS
      <3>1. f[k] = g[k][f[k - 1]] /\ f[k - 1] \in V
        <4>1. k - 1 \in 0 .. N
          BY <1>1
        <4>2. f[k - 1] \in V
          BY <2>2, <4>1
        <4> HIDE DEF V
        <4> QED BY <2>2, <4>2 DEF GoesRound
      <3> QED BY <3>1 DEF g
    <2>4. f[0] = << >>
      BY <2>2 DEF GoesRound
    <2> DEFINE h == [i \in 1 .. N |-> f[i]]
    <2>5. Is(h)
      <3>1. ASSUME NEW i \in 1 .. N PROVE h[i] = IF i = 1 THEN seqs[i] ELSE h[i - 1] \o seqs[i]
        <4>1. CASE i = 1
          <5>1. h[i] = f[0] \o seqs[1] /\ seqs[1] \in Seq(S)
            BY <1>1, <2>3, <4>1
          <5>2. << >> \o seqs[1] = seqs[1]
            BY <5>1, ConcatEmptySeq
          <5> QED BY <2>4, <4>1, <5>1, <5>2
        <4>2. CASE i # 1
          <5>1. i - 1 \in 1 .. N
            BY <1>1, <4>2
          <5> QED BY <2>3, <4>2, <5>1
        <4> QED BY <4>1, <4>2
      <3> QED BY <3>1
    <2> HIDE DEF h
    <2>6. PICK w : Is(w) /\ Flat(seqs) = w[N]
      <3> DEFINE u == CHOOSE w : Is(w)
      <3>1. Flat(seqs) = u[N]
        BY <1>5 DEF Flat
      <3> HIDE DEF Is
      <3>2. Is(u)
        BY <2>5
      <3> QED BY <3>1, <3>2
    <2>7. \A i \in 1 .. N : w[i] = IF i = 1 THEN seqs[i] ELSE w[i - 1] \o seqs[i]
      BY <2>6
    <2> HIDE DEF Is
    <2> DEFINE T == {i \in 0 .. N : i # 0 => InPlaces(w[i], S, seqs, i)}
    <2>8. 0 \in T
      BY <1>1
    <2>9. ASSUME NEW i \in 1 .. N, i - 1 \in T PROVE i \in T
      <3>1. CASE i = 1
        <4>1. InPlaces(<< >> \o seqs[i], S, seqs, i)
          <5>1. i \in 1 .. Len(seqs) /\ i - 1 = 0
            BY <1>1, <3>1
          <5>2. InPlaces(<< >>, S, seqs, i - 1)
            BY <1>3, <5>1
          <5> QED BY <5>1, <5>2, PlacesNext
        <4>2. << >> \o seqs[i] = seqs[i]
          BY <1>1, ConcatEmptySeq
        <4>3. InPlaces(w[i], S, seqs, i)
          BY <2>7, <3>1, <4>1, <4>2
        <4> QED BY <1>1, <4>3
      <3>2. CASE i # 1
        <4>1. InPlaces(w[i - 1], S, seqs, i - 1)
          BY <2>9, <3>2
        <4> DEFINE q == w[i - 1]
        <4>2. InPlaces(q, S, seqs, i - 1) /\ w[i] = q \o seqs[i]
          BY <2>7, <3>2, <4>1
        <4> HIDE DEF q
        <4>3. InPlaces(w[i], S, seqs, i)
          BY <4>2, PlacesNext
        <4> QED BY <1>1, <4>3
      <3> QED BY <3>1, <3>2
    <2> HIDE DEF T
    <2>10. \A i \in 0 .. N : i \in T
      BY <1>1, <2>8, <2>9, NumbersUpTo
    <2>11. N \in T /\ N # 0
      BY <1>1, <1>5, <2>10
    <2> QED BY <2>6, <2>11 DEF T
  <1> QED BY <1>4, <1>5

\* Two sequences of the same parts are the same.
LEMMA PlacesTell ==
  ASSUME NEW S, NEW seqs \in Seq(Seq(S)), NEW q \in Seq(S), InPlaces(q, S, seqs, Len(seqs))
  PROVE  q = Flat(seqs)
  <1> DEFINE N == Len(seqs)
             ls == Lens(seqs)
             f == Flat(seqs)
  <1>1. N \in Nat /\ DOMAIN seqs = 1 .. N /\ \A m \in 1 .. N : seqs[m] \in Seq(S)
    BY ElementOfSeq, LenProperties
  <1>2. \A m \in 1 .. N : ls[m] \in Nat /\ ls[m] = Len(seqs[m])
    BY <1>1, LenProperties DEF Lens
  <1>3. InPlaces(f, S, seqs, N)
    BY FlatIs
  <1> HIDE DEF f
  <1>4. f \in Seq(S) /\ Len(f) = Before(ls, N) /\ Len(q) = Before(ls, N)
    BY <1>3 DEF InPlaces
  <1> HIDE DEF ls
  <1>5. ASSUME NEW i \in 1 .. Len(q) PROVE q[i] = f[i]
    <2>1. PICK n \in 1 .. N : \E e \in 1 .. ls[n] : i = Before(ls, n - 1) + e
      <3>1. i \in 1 .. Before(ls, N) /\ \A n \in 1 .. N : ls[n] \in Nat
        BY <1>2, <1>4
      <3> HIDE DEF N
      <3> QED BY <1>1, <3>1, BeforeMeets
    <2>2. PICK e \in 1 .. ls[n] : i = Before(ls, n - 1) + e
      BY <2>1
    <2> QED BY <1>2, <1>3, <2>2 DEF InPlaces, ls
  <1>6. q = f
    BY <1>4, <1>5, SeqEqual
  <1> QED BY <1>6 DEF f
=============================================================================
