--------------------------- MODULE FreeListProofs ---------------------------
(***************************************************************************)
(* The allocator for any number of blocks, any block size and any requests *)
(* that do not wrap, when the last word of a run never looks free, as in   *)
(* the entries of the dictionary.                                          *)
(***************************************************************************)
EXTENDS FreeList, SetInduction

-----------------------------------------------------------------------------
(* Walking a list                                                          *)

ListType == [first : Links, next : [Blocks -> Links]]

LEMMA LinksAre == /\ \A x : x \in Links <=> x = -1 \/ x \in Blocks
                  /\ \A x \in Links : x < 0 <=> x = -1
                  /\ \A x \in Blocks : x \in Int /\ x >= 0 /\ x < TotalBlocks
                  /\ -1 \notin Blocks /\ 0 \in Blocks
  BY FreeListAssumption DEF Links, Blocks

LEMMA WalkIs ==
  ASSUME NEW l \in ListType
  PROVE  /\ Walk(l) \in [0 .. TotalBlocks -> Links]
         /\ Walk(l)[0] = l.first
         /\ \A k \in 1 .. TotalBlocks :
              Walk(l)[k] = IF Walk(l)[k - 1] = -1 THEN -1 ELSE l.next[Walk(l)[k - 1]]
  <1> DEFINE g == [x \in Links |-> IF x = -1 THEN -1 ELSE l.next[x]]
             Is(w) == w = [k \in 0 .. TotalBlocks |->
                             IF k = 0 THEN l.first
                             ELSE LET n == w[k - 1] IN IF n < 0 THEN -1 ELSE l.next[n]]
  <1>1. /\ l.first \in Links /\ l.next \in [Blocks -> Links] /\ TotalBlocks \in Nat
        /\ g \in [Links -> Links]
    BY LinksAre, FreeListAssumption DEF ListType
  <1> HIDE DEF g
  <1>2. PICK f \in [0 .. TotalBlocks -> Links] : Iterates(f, TotalBlocks, l.first, g)
    BY <1>1, IterationExists
  <1> USE DEF g
  <1>3. f[0] = l.first /\ \A k \in 1 .. TotalBlocks : f[k] = g[f[k - 1]]
    BY <1>2 DEF Iterates
  <1>4. Is(f)
    <2>1. ASSUME NEW k \in 0 .. TotalBlocks, k # 0
          PROVE  f[k] = IF f[k - 1] < 0 THEN -1 ELSE l.next[f[k - 1]]
      <3>1. k \in 1 .. TotalBlocks /\ k - 1 \in 0 .. TotalBlocks /\ f[k - 1] \in Links
        BY <1>1, <1>2, <2>1
      <3>2. f[k] = g[f[k - 1]]
        BY <1>3, <3>1
      <3> QED
        BY <3>1, <3>2, LinksAre
    <2> QED
      BY <1>2, <1>3, <2>1
  <1>5. Is(Walk(l))
    BY <1>4 DEF Walk
  <1>6. ASSUME NEW w, Is(w)
        PROVE  /\ w[0] = l.first
               /\ \A k \in 1 .. TotalBlocks :
                    w[k] = IF w[k - 1] < 0 THEN -1 ELSE l.next[w[k - 1]]
    BY <1>1, <1>6
  <1>7. Walk(l) = f
    <2> DEFINE w == Walk(l)
               N == {k \in 0 .. TotalBlocks : w[k] = f[k]}
    <2>1. 0 \in N
      BY <1>1, <1>3, <1>5, <1>6
    <2>2. ASSUME NEW k \in 1 .. TotalBlocks, k - 1 \in N PROVE k \in N
      <3>1. k \in 0 .. TotalBlocks /\ f[k - 1] = w[k - 1]
        BY <1>1, <2>2
      <3>2. /\ w[k] = IF w[k - 1] < 0 THEN -1 ELSE l.next[w[k - 1]]
            /\ f[k] = IF f[k - 1] < 0 THEN -1 ELSE l.next[f[k - 1]]
        BY <1>4, <1>5, <1>6
      <3> QED
        BY <3>1, <3>2
    <2> HIDE DEF N
    <2>3. \A k \in 0 .. TotalBlocks : k \in N
      BY <1>1, <2>1, <2>2, NumbersUpTo
    <2> USE DEF N
    <2>4. w = [k \in 0 .. TotalBlocks |-> w[k]] /\ f = [k \in 0 .. TotalBlocks |-> f[k]]
      BY <1>2, <1>5
    <2> QED
      BY <2>3, <2>4
  <1>8. ASSUME NEW k \in 1 .. TotalBlocks
        PROVE  f[k] = IF f[k - 1] = -1 THEN -1 ELSE l.next[f[k - 1]]
    <2>1. f[k] = IF f[k - 1] < 0 THEN -1 ELSE l.next[f[k - 1]]
      BY <1>4, <1>6
    <2>2. f[k - 1] \in Links
      BY <1>1, <1>2
    <2> QED
      BY <2>1, <2>2, LinksAre
  <1> QED
    BY <1>2, <1>3, <1>7, <1>8

-----------------------------------------------------------------------------
(* The nodes of a list, in order.                                          *)

At(s, n, k) == IF k < n THEN s[k] ELSE -1

InOrder(l, s, n) ==
  /\ s \in [0 .. n - 1 -> Blocks]
  /\ \A j, k \in 0 .. n - 1 : s[j] = s[k] => j = k
  /\ l.first = At(s, n, 0)
  /\ \A k \in 1 .. n : l.next[s[k - 1]] = At(s, n, k)

NodesOf(s, n) == {s[k] : k \in 0 .. n - 1}

\* The list l ends and has the nodes F, each once.
Has(l, F) == \E n \in Nat : \E s : InOrder(l, s, n) /\ F = NodesOf(s, n)

\* A walk meets the nodes in order, and there are not more than blocks.
LEMMA WalkMeets ==
  ASSUME NEW l \in ListType, NEW n \in Nat, NEW s, InOrder(l, s, n)
  PROVE  n <= TotalBlocks /\ \A k \in 0 .. TotalBlocks : Walk(l)[k] = At(s, n, k)
  <1>1. TotalBlocks \in Nat
    BY FreeListAssumption
  <1>2. n <= TotalBlocks
    <2>1. s \in Injection(0 .. n - 1, Blocks)
      BY DEF InOrder, Injection, IsInjective
    <2>2. IsFiniteSet(Blocks) /\ Cardinality(Blocks) = TotalBlocks
      BY <1>1, FS_Interval DEF Blocks
    <2>3. Cardinality(0 .. n - 1) = n
      BY FS_Interval
    <2> QED
      BY <2>1, <2>2, <2>3, FS_Injection
  <1> DEFINE N == {k \in 0 .. TotalBlocks : Walk(l)[k] = At(s, n, k)}
  <1>3. 0 \in N
    BY <1>1, WalkIs DEF InOrder
  <1>4. ASSUME NEW k \in 1 .. TotalBlocks, k - 1 \in N PROVE k \in N
    <2>1. /\ Walk(l)[k] = IF Walk(l)[k - 1] = -1 THEN -1 ELSE l.next[Walk(l)[k - 1]]
          /\ Walk(l)[k - 1] = At(s, n, k - 1)
      BY <1>4, WalkIs
    <2>2. CASE k - 1 < n
      <3>1. k \in 1 .. n /\ k - 1 \in 0 .. n - 1
        BY <2>2
      <3>2. At(s, n, k - 1) = s[k - 1] /\ s[k - 1] \in Blocks /\ l.next[s[k - 1]] = At(s, n, k)
        BY <2>2, <3>1 DEF InOrder, At
      <3> QED
        BY <2>1, <3>2, LinksAre
    <2>3. CASE ~(k - 1 < n)
      BY <2>1, <2>3 DEF At
    <2> QED
      BY <2>2, <2>3
  <1> HIDE DEF N
  <1>5. \A k \in 0 .. TotalBlocks : k \in N
    BY <1>1, <1>3, <1>4, NumbersUpTo
  <1> QED
    BY <1>2, <1>5 DEF N

LEMMA HasWalk ==
  ASSUME NEW l \in ListType, NEW F, Has(l, F)
  PROVE  /\ F = {Walk(l)[k] : k \in 0 .. TotalBlocks} \ {-1}
         /\ F \subseteq Blocks
         /\ Walk(l)[TotalBlocks] = -1
         /\ \A j, k \in 0 .. TotalBlocks :
              Walk(l)[j] = Walk(l)[k] /\ Walk(l)[j] # -1 => j = k
  <1>1. PICK n \in Nat : \E s : InOrder(l, s, n) /\ F = NodesOf(s, n)
    BY DEF Has
  <1>2. PICK s : InOrder(l, s, n) /\ F = NodesOf(s, n)
    BY <1>1
  <1>3. n <= TotalBlocks /\ \A k \in 0 .. TotalBlocks : Walk(l)[k] = At(s, n, k)
    BY <1>2, WalkMeets
  <1>4. TotalBlocks \in Nat /\ \A k \in 0 .. n - 1 : s[k] \in Blocks
    BY <1>2, FreeListAssumption DEF InOrder
  <1>5. \A k \in 0 .. TotalBlocks : Walk(l)[k] # -1 <=> k \in 0 .. n - 1
    BY <1>3, <1>4, LinksAre DEF At
  <1>6. \A k \in 0 .. n - 1 : k \in 0 .. TotalBlocks /\ Walk(l)[k] = s[k]
    BY <1>3, <1>4 DEF At
  <1>7. F = {Walk(l)[k] : k \in 0 .. TotalBlocks} \ {-1}
    BY <1>2, <1>4, <1>5, <1>6, LinksAre DEF NodesOf
  <1>8. Walk(l)[TotalBlocks] = -1
    BY <1>3, <1>4 DEF At
  <1>9. \A j, k \in 0 .. TotalBlocks :
              Walk(l)[j] = Walk(l)[k] /\ Walk(l)[j] # -1 => j = k
    BY <1>2, <1>5, <1>6 DEF InOrder
  <1> QED
    BY <1>2, <1>4, <1>7, <1>8, <1>9 DEF NodesOf

\* The list after the node t, met at position j, is taken out.
CutAt(l, j, t) ==
  IF j = 0 THEN [l EXCEPT !.first = l.next[t]]
  ELSE [l EXCEPT !.next[Walk(l)[j - 1]] = l.next[t]]

LEMMA ListIs ==
  ASSUME NEW l \in ListType
  PROVE  l.first \in Links /\ l.next \in [Blocks -> Links] /\ l = [first |-> l.first, next |-> l.next]
  BY DEF ListType

LEMMA HasCut ==
  ASSUME NEW l \in ListType, NEW F, Has(l, F), NEW j \in 0 .. TotalBlocks,
         NEW t \in Blocks, Walk(l)[j] = t
  PROVE  /\ CutAt(l, j, t) \in ListType
         /\ Has(CutAt(l, j, t), F \ {t})
         /\ t \in F
         /\ \A b \in Blocks \ F : CutAt(l, j, t).next[b] = l.next[b]
         /\ CutAt(l, j, t).next[t] = l.next[t]
  <1>1. PICK n \in Nat : \E s : InOrder(l, s, n) /\ F = NodesOf(s, n)
    BY DEF Has
  <1>2. PICK s : InOrder(l, s, n) /\ F = NodesOf(s, n)
    BY <1>1
  <1>3. n <= TotalBlocks /\ \A k \in 0 .. TotalBlocks : Walk(l)[k] = At(s, n, k)
    BY <1>2, WalkMeets
  <1>4. j \in 0 .. n - 1 /\ s[j] = t /\ TotalBlocks \in Nat
    BY <1>3, LinksAre, FreeListAssumption DEF At
  <1>5. /\ s \in [0 .. n - 1 -> Blocks]
        /\ \A i, k \in 0 .. n - 1 : s[i] = s[k] => i = k
        /\ l.first = At(s, n, 0)
        /\ \A k \in 1 .. n : l.next[s[k - 1]] = At(s, n, k)
    BY <1>2 DEF InOrder
  <1> DEFINE m == CutAt(l, j, t)
             r == [k \in 0 .. n - 2 |-> IF k < j THEN s[k] ELSE s[k + 1]]
  <1>6. l.first \in Links /\ l.next \in [Blocks -> Links] /\ l.next[t] \in Links
    BY ListIs
  <1>7. /\ j = 0 => m.first = l.next[t] /\ m.next = l.next
        /\ j # 0 => /\ m.first = l.first
                    /\ m.next = [l.next EXCEPT ![s[j - 1]] = l.next[t]]
                    /\ j - 1 \in 0 .. n - 1 /\ s[j - 1] \in Blocks
    <2>1. CASE j = 0
      BY <2>1, ListIs DEF CutAt
    <2>2. CASE j # 0
      <3>1. j - 1 \in 0 .. n - 1 /\ j - 1 \in 0 .. TotalBlocks /\ j - 1 < n
        BY <1>3, <1>4, <2>2
      <3>2. Walk(l)[j - 1] = s[j - 1] /\ s[j - 1] \in Blocks
        BY <1>3, <1>5, <3>1 DEF At
      <3> QED
        BY <2>2, <3>1, <3>2, ListIs DEF CutAt
    <2> QED
      BY <2>1, <2>2
  <1>8. m \in ListType
    <2>1. CASE j = 0
      BY <1>6, <2>1, ListIs DEF CutAt, ListType
    <2>2. CASE j # 0
      <3>1. Walk(l)[j - 1] = s[j - 1]
        BY <1>3, <1>4, <2>2 DEF At
      <3> QED
        BY <1>6, <1>7, <2>2, <3>1 DEF CutAt, ListType
    <2> QED
      BY <2>1, <2>2
  <1>9. r \in [0 .. n - 2 -> Blocks] /\ n - 1 \in Nat /\ n - 2 = n - 1 - 1
    BY <1>4, <1>5
  <1> HIDE DEF m, r
  <1>10. \A k \in 0 .. n - 2 : r[k] = IF k < j THEN s[k] ELSE s[k + 1]
    BY DEF r
  <1>11. \A i, k \in 0 .. n - 2 : r[i] = r[k] => i = k
    BY <1>4, <1>5, <1>10
  <1>12. NodesOf(r, n - 1) = F \ {t}
    <2>1. ASSUME NEW k \in 0 .. n - 2 PROVE r[k] \in NodesOf(s, n) /\ r[k] # t
      BY <1>4, <1>5, <1>10 DEF NodesOf
    <2>2. ASSUME NEW k \in 0 .. n - 1, s[k] # t PROVE \E i \in 0 .. n - 2 : r[i] = s[k]
      <3>1. CASE k < j
        BY <1>4, <1>10, <3>1
      <3>2. CASE k > j
        <4>1. k - 1 \in 0 .. n - 2 /\ ~(k - 1 < j) /\ k - 1 + 1 = k
          BY <1>4, <3>2
        <4> QED
          BY <1>10, <4>1
      <3> QED
        BY <1>4, <2>2, <3>1, <3>2
    <2> QED
      BY <1>2, <1>9, <2>1, <2>2 DEF NodesOf
  <1>13. m.first = At(r, n - 1, 0)
    <2>1. CASE j = 0
      <3>1. 1 \in 1 .. n /\ l.next[s[0]] = At(s, n, 1)
        BY <1>4, <1>5
      <3>2. m.first = At(s, n, 1)
        BY <1>4, <1>7, <2>1, <3>1
      <3> QED
        BY <1>10, <2>1, <3>2 DEF At
    <2>2. CASE j # 0
      BY <1>4, <1>5, <1>7, <1>10, <2>2 DEF At
    <2> QED
      BY <2>1, <2>2
  <1>14. ASSUME NEW k \in 1 .. n - 1 PROVE m.next[r[k - 1]] = At(r, n - 1, k)
    <2>1. CASE k < j
      <3>1. r[k - 1] = s[k - 1] /\ s[k - 1] # s[j - 1] /\ s[k - 1] \in Blocks
        BY <1>4, <1>5, <1>7, <1>10, <2>1
      <3>2. m.next[r[k - 1]] = At(s, n, k)
        BY <1>4, <1>5, <1>6, <1>7, <2>1, <3>1
      <3> QED
        BY <1>4, <1>10, <2>1, <3>2 DEF At
    <2>2. CASE k = j
      <3>1. r[k - 1] = s[j - 1] /\ m.next[s[j - 1]] = l.next[t]
        BY <1>4, <1>6, <1>7, <1>10, <2>2
      <3>2. j + 1 \in 1 .. n /\ j + 1 - 1 = j
        BY <1>4
      <3>3. l.next[t] = At(s, n, j + 1)
        BY <1>4, <1>5, <3>2
      <3> QED
        BY <1>4, <1>10, <2>2, <3>1, <3>3 DEF At
    <2>3. CASE k > j
      <3>1. r[k - 1] = s[k] /\ k \in 0 .. n - 1 /\ s[k] \in Blocks
        BY <1>4, <1>5, <1>10, <2>3
      <3>2. j # 0 => s[k] # s[j - 1]
        BY <1>5, <1>7, <2>3, <3>1
      <3>3. m.next[s[k]] = l.next[s[k]]
        BY <1>6, <1>7, <3>1, <3>2
      <3>4. k + 1 \in 1 .. n /\ k + 1 - 1 = k
        BY <3>1
      <3>5. l.next[s[k]] = At(s, n, k + 1)
        BY <1>5, <3>4
      <3> QED
        BY <1>10, <2>3, <3>1, <3>3, <3>5 DEF At
    <2> QED
      BY <1>4, <2>1, <2>2, <2>3
  <1>15. InOrder(m, r, n - 1)
    BY <1>9, <1>11, <1>13, <1>14 DEF InOrder
  <1>16. \A b \in Blocks \ F : m.next[b] = l.next[b]
    BY <1>2, <1>6, <1>7 DEF NodesOf
  <1>17. m.next[t] = l.next[t]
    BY <1>4, <1>5, <1>6, <1>7
  <1>18. t \in F
    BY <1>2, <1>4 DEF NodesOf
  <1> QED
    BY <1>8, <1>9, <1>12, <1>15, <1>16, <1>17, <1>18 DEF m, Has

LEMMA MinIs ==
  ASSUME NEW T \in SUBSET Nat, T # {}
  PROVE  Min(T) \in T
  <1>1. PICK n \in T : \A m \in T : n <= m
    BY LeastElement
  <1>2. Min(T) = CHOOSE x \in T : \A y \in T : x <= y
    BY DEF Min
  <1> QED
    BY <1>1, <1>2

LEMMA HasUnlink ==
  ASSUME NEW l \in ListType, NEW F, Has(l, F), NEW t \in F
  PROVE  /\ Unlink(l, t) \in ListType
         /\ Has(Unlink(l, t), F \ {t})
         /\ \A b \in Blocks \ F : Unlink(l, t).next[b] = l.next[b]
  <1> DEFINE at == {k \in 0 .. TotalBlocks : Walk(l)[k] = t}
  <1>1. F = {Walk(l)[k] : k \in 0 .. TotalBlocks} \ {-1} /\ F \subseteq Blocks
    BY HasWalk
  <1>2. at # {} /\ at \in SUBSET Nat
    BY <1>1
  <1>3. Min(at) \in at
    BY <1>2, MinIs
  <1>4. PICK j \in 0 .. TotalBlocks : j = Min(at) /\ Walk(l)[j] = t
    BY <1>3
  <1>5. Unlink(l, t) = CutAt(l, j, t)
    <2>1. Unlink(l, t) = IF at = {} THEN l
                         ELSE IF Min(at) = 0 THEN [l EXCEPT !.first = l.next[t]]
                         ELSE [l EXCEPT !.next[Walk(l)[Min(at) - 1]] = l.next[t]]
      BY Zenon DEF Unlink
    <2> HIDE DEF at
    <2> QED
      BY <1>2, <1>4, <2>1, Zenon DEF CutAt
  <1> HIDE DEF at
  <1>6. /\ CutAt(l, j, t) \in ListType /\ Has(CutAt(l, j, t), F \ {t})
        /\ \A b \in Blocks \ F : CutAt(l, j, t).next[b] = l.next[b]
    BY <1>1, <1>4, HasCut
  <1> QED
    BY <1>5, <1>6

\* The list with x in the place of the node t, met at position j.
PutAt(l, j, t, x) ==
  [first |-> IF j = 0 THEN x ELSE l.first,
   next  |-> [(IF j = 0 THEN l.next ELSE [l.next EXCEPT ![Walk(l)[j - 1]] = x])
                EXCEPT ![x] = l.next[t]]]

LEMMA HasPut ==
  ASSUME NEW l \in ListType, NEW F, Has(l, F), NEW j \in 0 .. TotalBlocks,
         NEW t \in Blocks, Walk(l)[j] = t, NEW x \in Blocks \ F
  PROVE  /\ PutAt(l, j, t, x) \in ListType
         /\ Has(PutAt(l, j, t, x), (F \ {t}) \cup {x})
         /\ t \in F
  <1>1. PICK n \in Nat : \E s : InOrder(l, s, n) /\ F = NodesOf(s, n)
    BY DEF Has
  <1>2. PICK s : InOrder(l, s, n) /\ F = NodesOf(s, n)
    BY <1>1
  <1>3. n <= TotalBlocks /\ \A k \in 0 .. TotalBlocks : Walk(l)[k] = At(s, n, k)
    BY <1>2, WalkMeets
  <1>4. j \in 0 .. n - 1 /\ s[j] = t /\ TotalBlocks \in Nat
    BY <1>3, LinksAre, FreeListAssumption DEF At
  <1>5. /\ s \in [0 .. n - 1 -> Blocks]
        /\ \A i, k \in 0 .. n - 1 : s[i] = s[k] => i = k
        /\ l.first = At(s, n, 0)
        /\ \A k \in 1 .. n : l.next[s[k - 1]] = At(s, n, k)
        /\ \A k \in 0 .. n - 1 : s[k] # x
    BY <1>2 DEF InOrder, NodesOf
  <1> DEFINE m == PutAt(l, j, t, x)
             r == [s EXCEPT ![j] = x]
  <1>6. l.first \in Links /\ l.next \in [Blocks -> Links] /\ l.next[t] \in Links /\ x \in Links
    BY ListIs, LinksAre
  <1>7. j # 0 => j - 1 \in 0 .. n - 1 /\ Walk(l)[j - 1] = s[j - 1] /\ s[j - 1] \in Blocks
    BY <1>3, <1>4, <1>5 DEF At
  <1>8. /\ m.first = IF j = 0 THEN x ELSE l.first
        /\ m.next \in [Blocks -> Links]
        /\ m.next[x] = l.next[t]
        /\ j # 0 => m.next[s[j - 1]] = x
        /\ \A b \in Blocks \ {x} : j = 0 \/ b # s[j - 1] => m.next[b] = l.next[b]
    BY <1>4, <1>5, <1>6, <1>7 DEF PutAt
  <1>9. m \in ListType
    BY <1>6, <1>8 DEF PutAt, ListType
  <1>10. /\ r \in [0 .. n - 1 -> Blocks] /\ r[j] = x
         /\ \A k \in 0 .. n - 1 : k # j => r[k] = s[k]
    BY <1>4, <1>5
  <1> HIDE DEF m, r
  <1>11. \A i, k \in 0 .. n - 1 : r[i] = r[k] => i = k
    BY <1>5, <1>10
  <1>12. NodesOf(r, n) = (F \ {t}) \cup {x}
    BY <1>2, <1>4, <1>5, <1>10 DEF NodesOf
  <1>13. m.first = At(r, n, 0)
    BY <1>4, <1>5, <1>8, <1>10 DEF At
  <1>14. ASSUME NEW k \in 1 .. n PROVE m.next[r[k - 1]] = At(r, n, k)
    <2>1. k - 1 \in 0 .. n - 1 /\ k - 1 # k
      OBVIOUS
    <2>2. CASE k - 1 = j
      <3>1. m.next[r[k - 1]] = l.next[s[k - 1]]
        BY <1>4, <1>8, <1>10, <2>2
      <3> QED
        BY <1>5, <1>10, <2>1, <2>2, <3>1 DEF At
    <2>3. CASE k = j
      <3>1. r[k - 1] = s[j - 1] /\ m.next[s[j - 1]] = x
        BY <1>8, <1>10, <2>1, <2>3
      <3> QED
        BY <1>4, <1>10, <2>3, <3>1 DEF At
    <2>4. CASE k - 1 # j /\ k # j
      <3>1. r[k - 1] = s[k - 1] /\ s[k - 1] \in Blocks \ {x}
        BY <1>5, <1>10, <2>1, <2>4
      <3>2. j # 0 => s[k - 1] # s[j - 1]
        BY <1>5, <1>7, <2>1, <2>4
      <3>3. m.next[s[k - 1]] = At(s, n, k)
        BY <1>5, <1>8, <3>1, <3>2
      <3> QED
        BY <1>10, <2>4, <3>1, <3>3 DEF At
    <2> QED
      BY <2>2, <2>3, <2>4
  <1>15. InOrder(m, r, n)
    BY <1>10, <1>11, <1>13, <1>14 DEF InOrder
  <1>16. t \in F
    BY <1>2, <1>4 DEF NodesOf
  <1> QED
    BY <1>9, <1>12, <1>15, <1>16 DEF m, Has

\* A new first node.
LEMMA HasPush ==
  ASSUME NEW l \in ListType, NEW F, Has(l, F), NEW x \in Blocks \ F
  PROVE  /\ [first |-> x, next |-> [l.next EXCEPT ![x] = l.first]] \in ListType
         /\ Has([first |-> x, next |-> [l.next EXCEPT ![x] = l.first]], F \cup {x})
  <1>1. PICK n \in Nat : \E s : InOrder(l, s, n) /\ F = NodesOf(s, n)
    BY DEF Has
  <1>2. PICK s : InOrder(l, s, n) /\ F = NodesOf(s, n)
    BY <1>1
  <1>3. /\ s \in [0 .. n - 1 -> Blocks]
        /\ \A i, k \in 0 .. n - 1 : s[i] = s[k] => i = k
        /\ l.first = At(s, n, 0)
        /\ \A k \in 1 .. n : l.next[s[k - 1]] = At(s, n, k)
        /\ \A k \in 0 .. n - 1 : s[k] # x
    BY <1>2 DEF InOrder, NodesOf
  <1> DEFINE m == [first |-> x, next |-> [l.next EXCEPT ![x] = l.first]]
             r == [k \in 0 .. n |-> IF k = 0 THEN x ELSE s[k - 1]]
  <1>4. /\ m \in ListType /\ m.first = x /\ m.next[x] = l.first
        /\ \A b \in Blocks \ {x} : m.next[b] = l.next[b]
    BY ListIs, LinksAre DEF ListType
  <1>5. /\ r \in [0 .. n -> Blocks] /\ n + 1 \in Nat /\ n + 1 - 1 = n /\ r[0] = x
        /\ \A k \in 1 .. n : r[k] = s[k - 1] /\ k - 1 \in 0 .. n - 1
    BY <1>3
  <1> HIDE DEF m, r
  <1>6. \A i, k \in 0 .. n : r[i] = r[k] => i = k
    <2> SUFFICES ASSUME NEW i \in 0 .. n, NEW k \in 0 .. n, r[i] = r[k] PROVE i = k
      OBVIOUS
    <2>1. CASE i = 0 \/ k = 0
      BY <1>3, <1>5, <2>1
    <2>2. CASE i # 0 /\ k # 0
      <3>1. i - 1 \in 0 .. n - 1 /\ k - 1 \in 0 .. n - 1 /\ s[i - 1] = s[k - 1]
        BY <1>5, <2>2
      <3>2. i - 1 = k - 1
        BY <1>3, <3>1
      <3> QED
        BY <3>2
    <2> QED
      BY <2>1, <2>2
  <1>7. NodesOf(r, n + 1) = F \cup {x}
    <2>1. NodesOf(r, n + 1) = {r[k] : k \in 0 .. n}
      BY <1>5 DEF NodesOf
    <2>2. ASSUME NEW k \in 0 .. n PROVE r[k] \in F \cup {x}
      BY <1>2, <1>5 DEF NodesOf
    <2>3. ASSUME NEW i \in 0 .. n - 1 PROVE \E k \in 0 .. n : r[k] = s[i]
      <3>1. i + 1 \in 1 .. n /\ i + 1 - 1 = i /\ i + 1 \in 0 .. n
        OBVIOUS
      <3> QED
        BY <1>5, <3>1
    <2>4. \A b \in F : \E k \in 0 .. n : r[k] = b
      BY <1>2, <2>3 DEF NodesOf
    <2>5. 0 \in 0 .. n
      OBVIOUS
    <2> QED
      BY <1>5, <2>1, <2>2, <2>4, <2>5
  <1>8. ASSUME NEW k \in 1 .. n + 1 PROVE m.next[r[k - 1]] = At(r, n + 1, k)
    <2>1. CASE k = 1
      <3>1. m.next[r[k - 1]] = At(s, n, 0)
        BY <1>3, <1>4, <1>5, <2>1
      <3> QED
        BY <1>5, <2>1, <3>1 DEF At
    <2>2. CASE k # 1
      <3> DEFINE i == k - 1
      <3>1. i \in 1 .. n /\ k = i + 1 /\ i - 1 \in 0 .. n - 1 /\ s[i - 1] \in Blocks \ {x}
        BY <1>3, <2>2
      <3>2. m.next[r[i]] = At(s, n, i)
        BY <1>3, <1>4, <1>5, <3>1
      <3>3. k < n + 1 => r[k] = s[i]
        BY <1>5, <3>1
      <3> QED
        BY <3>1, <3>2, <3>3 DEF At
    <2> QED
      BY <2>1, <2>2
  <1>9. m.first = At(r, n + 1, 0)
    BY <1>4, <1>5 DEF At
  <1>10. InOrder(m, r, n + 1)
    BY <1>5, <1>6, <1>8, <1>9 DEF InOrder
  <1> QED
    BY <1>4, <1>5, <1>7, <1>10 DEF m, Has

\* The words of blocks that are not nodes do not matter.
LEMMA HasSame ==
  ASSUME NEW l \in ListType, NEW m \in ListType, NEW F, Has(l, F), m.first = l.first,
         \A b \in F : m.next[b] = l.next[b]
  PROVE  Has(m, F)
  <1>1. PICK n \in Nat : \E s : InOrder(l, s, n) /\ F = NodesOf(s, n)
    BY DEF Has
  <1>2. PICK s : InOrder(l, s, n) /\ F = NodesOf(s, n)
    BY <1>1
  <1>3. \A k \in 1 .. n : s[k - 1] \in F
    BY <1>2 DEF NodesOf
  <1> QED
    BY <1>2, <1>3 DEF InOrder, Has

\* The list of one node.
LEMMA HasOne ==
  ASSUME NEW l \in ListType, l.first = 0, l.next[0] = -1
  PROVE  Has(l, {0})
  <1> DEFINE s == [k \in 0 .. 0 |-> 0]
  <1>1. s \in [0 .. 1 - 1 -> Blocks] /\ s[0] = 0
    BY LinksAre
  <1> HIDE DEF s
  <1>2. InOrder(l, s, 1) /\ {0} = NodesOf(s, 1)
    BY <1>1 DEF InOrder, NodesOf, At
  <1> QED
    BY <1>2 DEF Has

-----------------------------------------------------------------------------
(* Tilings: the runs that start at S and have the lengths m.               *)

Tiles(S, m) ==
  /\ S \subseteq Blocks
  /\ \A i \in S : m[i] \in Nat /\ m[i] >= 1 /\ i + m[i] <= TotalBlocks
  /\ \A b \in Blocks : \E i \in S : i <= b /\ b < i + m[i]
  /\ \A i, j \in S : i < j => i + m[i] <= j

LEMMA TileEnds ==
  ASSUME NEW S, NEW m, Tiles(S, m), NEW i \in S
  PROVE  i + m[i] = TotalBlocks \/ i + m[i] \in S
  <1> SUFFICES ASSUME i + m[i] # TotalBlocks PROVE i + m[i] \in S
    OBVIOUS
  <1>1. i \in Nat /\ m[i] \in Nat /\ m[i] >= 1 /\ i + m[i] \in Blocks
    <2>1. i \in Nat /\ m[i] \in Nat /\ m[i] >= 1 /\ i + m[i] <= TotalBlocks
      BY DEF Tiles, Blocks
    <2> QED
      BY <2>1, FreeListAssumption DEF Blocks
  <1>2. PICK j \in S : j <= i + m[i] /\ i + m[i] < j + m[j]
    BY <1>1 DEF Tiles
  <1>3. j \in Nat /\ m[j] \in Nat
    BY DEF Tiles, Blocks
  <1>4. ~(j < i) /\ j # i
    BY <1>1, <1>2, <1>3 DEF Tiles
  <1>5. i + m[i] <= j
    BY <1>1, <1>3, <1>4 DEF Tiles
  <1> QED
    BY <1>1, <1>2, <1>3, <1>5

LEMMA TileBefore ==
  ASSUME NEW S, NEW m, Tiles(S, m), NEW i \in S, i # 0
  PROVE  \E j \in S : j + m[j] = i
  <1>1. i \in Nat /\ m[i] \in Nat /\ m[i] >= 1 /\ i - 1 \in Blocks
    BY FreeListAssumption DEF Tiles, Blocks
  <1>2. PICK j \in S : j <= i - 1 /\ i - 1 < j + m[j]
    BY <1>1 DEF Tiles
  <1>3. j \in Nat /\ m[j] \in Nat
    BY DEF Tiles, Blocks
  <1>4. j + m[j] <= i
    BY <1>1, <1>2, <1>3 DEF Tiles
  <1> QED
    BY <1>1, <1>2, <1>3, <1>4

LEMMA TileSame ==
  ASSUME NEW S, NEW m, Tiles(S, m), NEW r, \A i \in S : r[i] = m[i]
  PROVE  Tiles(S, r)
  BY DEF Tiles

LEMMA TileSplit ==
  ASSUME NEW S, NEW m, Tiles(S, m), NEW c \in S, NEW x \in Nat, x >= 1, x < m[c],
         NEW r, r[c] = x, r[c + x] = m[c] - x, \A i \in S \ {c} : r[i] = m[i]
  PROVE  c + x \in Blocks \ S /\ Tiles(S \cup {c + x}, r)
  <1>1. /\ c \in Nat /\ m[c] \in Nat /\ c + m[c] <= TotalBlocks /\ TotalBlocks \in Nat
        /\ \A i \in S : i \in Nat /\ m[i] \in Nat /\ m[i] >= 1
    BY FreeListAssumption DEF Tiles, Blocks
  <1> DEFINE d == c + x
  <1>2. d \in Blocks /\ d \notin S /\ d > c /\ d < c + m[c]
    BY <1>1 DEF Tiles, Blocks
  <1>3. r[d] = m[c] - x /\ d + r[d] = c + m[c] /\ c + r[c] = d /\ r[d] >= 1 /\ r[d] \in Nat
    BY <1>1
  <1> HIDE DEF d
  <1>4. \A i \in S \ {c} : (i < c => i + m[i] <= c) /\ (c < i => c + m[c] <= i)
    BY DEF Tiles
  <1>5. ASSUME NEW i \in S \cup {d}
        PROVE  r[i] \in Nat /\ r[i] >= 1 /\ i + r[i] <= TotalBlocks
    <2>1. CASE i \in S \ {c}
      BY <2>1 DEF Tiles
    <2>2. CASE i = c
      BY <1>1, <1>3, <2>2
    <2>3. CASE i = d
      BY <1>1, <1>3, <2>3
    <2> QED
      BY <2>1, <2>2, <2>3
  <1>6. ASSUME NEW b \in Blocks PROVE \E i \in S \cup {d} : i <= b /\ b < i + r[i]
    <2>1. PICK i \in S : i <= b /\ b < i + m[i]
      BY DEF Tiles
    <2>2. CASE i # c
      BY <2>1, <2>2
    <2>3. CASE i = c
      <3>1. b \in Nat
        BY DEF Blocks
      <3> QED
        BY <1>1, <1>2, <1>3, <2>1, <2>3, <3>1
    <2> QED
      BY <2>2, <2>3
  <1>7. ASSUME NEW i \in S \cup {d}, NEW j \in S \cup {d}, i < j PROVE i + r[i] <= j
    <2>1. CASE i \in S \ {c} /\ j \in S
      BY <1>1, <1>7, <2>1 DEF Tiles
    <2>2. CASE i \in S \ {c} /\ j = d
      BY <1>1, <1>2, <1>4, <1>7, <2>2
    <2>3. CASE i = c
      BY <1>1, <1>2, <1>3, <1>4, <1>7, <2>3
    <2>4. CASE i = d
      BY <1>1, <1>2, <1>3, <1>4, <1>7, <2>4
    <2> QED
      BY <1>7, <2>1, <2>2, <2>3, <2>4
  <1>8. S \cup {d} \subseteq Blocks
    BY <1>2 DEF Tiles
  <1> QED
    BY <1>2, <1>5, <1>6, <1>7, <1>8 DEF d, Tiles

LEMMA TileJoin ==
  ASSUME NEW S, NEW m, Tiles(S, m), NEW a \in S, NEW b \in S, a + m[a] = b,
         NEW r, r[a] = m[a] + m[b], \A i \in S \ {a, b} : r[i] = m[i]
  PROVE  Tiles(S \ {b}, r)
  <1>1. /\ \A i \in S : i \in Nat /\ m[i] \in Nat /\ m[i] >= 1 /\ i + m[i] <= TotalBlocks
        /\ S \subseteq Blocks
    BY DEF Tiles, Blocks
  <1>2. a < b /\ a \in S \ {b} /\ a + r[a] = b + m[b]
    BY <1>1
  <1>3. \A i \in S \ {b} : r[i] \in Nat /\ r[i] >= 1 /\ i + r[i] <= TotalBlocks
    BY <1>1, <1>2
  <1>4. ASSUME NEW y \in Blocks PROVE \E i \in S \ {b} : i <= y /\ y < i + r[i]
    <2>1. PICK i \in S : i <= y /\ y < i + m[i]
      BY DEF Tiles
    <2>2. y \in Nat
      BY DEF Blocks
    <2>3. CASE i \notin {a, b}
      BY <2>1, <2>3
    <2>4. CASE i \in {a, b}
      <3>1. a <= y /\ y < a + r[a]
        BY <1>1, <1>2, <2>1, <2>2, <2>4
      <3> QED
        BY <1>2, <3>1
    <2> QED
      BY <2>3, <2>4
  <1>5. ASSUME NEW i \in S \ {b}, NEW j \in S \ {b}, i < j PROVE i + r[i] <= j
    <2>1. CASE i # a
      BY <1>5, <2>1 DEF Tiles
    <2>2. CASE i = a
      <3>1. b <= j /\ j # b
        BY <1>5, <2>2 DEF Tiles
      <3>2. b + m[b] <= j
        BY <1>1, <3>1 DEF Tiles
      <3> QED
        BY <1>2, <2>2, <3>2
    <2> QED
      BY <2>1, <2>2
  <1> QED
    BY <1>1, <1>3, <1>4, <1>5 DEF Tiles

LEMMA Lasts ==
  ASSUME NEW S, NEW m, Tiles(S, m)
  PROVE  /\ \A i \in S : /\ i \in Nat /\ m[i] \in Nat /\ m[i] >= 1 /\ i \in Blocks
                         /\ i + m[i] <= TotalBlocks /\ i + m[i] - 1 \in Blocks
         /\ \A i, j \in S : i # j => i + m[i] # j + m[j] /\ i + m[i] - 1 # j + m[j] - 1
  <1>1. \A i \in S : /\ i \in Nat /\ m[i] \in Nat /\ m[i] >= 1 /\ i \in Blocks
                     /\ i + m[i] <= TotalBlocks
    BY DEF Tiles, Blocks
  <1>2. \A i \in S : i + m[i] - 1 \in Blocks
    BY <1>1, FreeListAssumption DEF Blocks
  <1>3. ASSUME NEW i \in S, NEW j \in S, i < j
        PROVE  i + m[i] # j + m[j] /\ i + m[i] - 1 # j + m[j] - 1
    <2>1. i + m[i] <= j
      BY <1>3 DEF Tiles
    <2> QED
      BY <1>1, <2>1
  <1>4. ASSUME NEW i \in S, NEW j \in S, i # j
        PROVE  i + m[i] # j + m[j] /\ i + m[i] - 1 # j + m[j] - 1
    <2>1. i < j \/ j < i
      BY <1>1, <1>4
    <2> QED
      BY <1>3, <2>1
  <1> QED
    BY <1>1, <1>2, <1>4

-----------------------------------------------------------------------------
(* What is known of the runs: F are free and L are not.                    *)

LenOf(h) == [b \in Blocks |-> h[b].blocks]

Memory == [Blocks -> Word]

Shape(F, L, h, f) ==
  /\ Tiles(F \cup L, LenOf(h))
  /\ F \cap L = {}
  /\ \A i \in F : f[i + h[i].blocks - 1] = h[i] /\ h[i].free
  /\ \A i \in L : ~f[i + h[i].blocks - 1].free /\ ~h[i].free
  /\ \A i \in F : i + h[i].blocks \notin F

LEMMA WordsAre ==
  ASSUME NEW n \in 0 .. TotalBlocks
  PROVE  /\ FreeWord(n) \in Word /\ FreeWord(n).free /\ FreeWord(n).blocks = n
         /\ UsedWord(n) \in Word /\ ~UsedWord(n).free /\ UsedWord(n).blocks = n
  BY DEF FreeWord, UsedWord, Word

\* The runs that start at S, as the words h of the memory tell them.
Laid(S, h) ==
  /\ \A i \in S : /\ i \in Nat /\ i \in Blocks /\ LenOf(h)[i] = h[i].blocks
                  /\ h[i].blocks \in Nat /\ h[i].blocks >= 1 /\ h[i].blocks <= TotalBlocks
                  /\ i + h[i].blocks <= TotalBlocks /\ i + h[i].blocks - 1 \in Blocks
                  /\ i + h[i].blocks = TotalBlocks \/ i + h[i].blocks \in S
  /\ \A i, j \in S : i # j => i + h[i].blocks - 1 # j + h[j].blocks - 1
  /\ \A i, j \in S : i < j => i + h[i].blocks <= j

LEMMA ShapeRuns ==
  ASSUME NEW F, NEW L, NEW h \in Memory, NEW f, Shape(F, L, h, f)
  PROVE  F \subseteq Blocks /\ L \subseteq Blocks /\ F \cap L = {} /\ Laid(F \cup L, h)
  <1>1. /\ Tiles(F \cup L, LenOf(h))
        /\ F \subseteq Blocks /\ L \subseteq Blocks /\ F \cap L = {}
    BY DEF Shape, Tiles
  <1>2. \A i \in F \cup L : i \in Blocks /\ LenOf(h)[i] = h[i].blocks
    BY <1>1 DEF LenOf
  <1>3. \A i \in F \cup L :
          /\ i \in Nat /\ h[i].blocks \in Nat /\ h[i].blocks >= 1
          /\ i + h[i].blocks <= TotalBlocks /\ i + h[i].blocks - 1 \in Blocks
    BY <1>1, <1>2, Lasts
  <1>4. \A i \in F \cup L : i + h[i].blocks = TotalBlocks \/ i + h[i].blocks \in F \cup L
    BY <1>1, <1>2, TileEnds
  <1>5. \A i, j \in F \cup L : i # j => i + h[i].blocks - 1 # j + h[j].blocks - 1
    BY <1>1, <1>2, Lasts
  <1>6. \A i, j \in F \cup L : i < j => i + h[i].blocks <= j
    BY <1>1, <1>2 DEF Tiles
  <1>7. \A i \in F \cup L : h[i].blocks <= TotalBlocks
    BY <1>3, FreeListAssumption
  <1>8. Laid(F \cup L, h)
    BY <1>2, <1>3, <1>4, <1>5, <1>6, <1>7 DEF Laid
  <1> QED
    BY <1>1, <1>8

\* The first x blocks of the free run c are taken.
LEMMA ShapeSplit ==
  ASSUME NEW F, NEW L, NEW h \in Memory, NEW f \in Memory, Shape(F, L, h, f),
         NEW c \in F, NEW x \in Nat, x >= 1, x < h[c].blocks
  PROVE  LET d == c + x
             r == h[c].blocks - x
             g == [h EXCEPT ![c] = UsedWord(x), ![d] = FreeWord(r)]
             e == WriteFooter(WriteFooter(f, c, UsedWord(x)), d, FreeWord(r))
         IN  /\ d \in Blocks \ (F \cup L)
             /\ g \in Memory /\ e \in Memory
             /\ Shape((F \ {c}) \cup {d}, L \cup {c}, g, e)
  <1> DEFINE d == c + x
             r == h[c].blocks - x
             g == [h EXCEPT ![c] = UsedWord(x), ![d] = FreeWord(r)]
             e == WriteFooter(WriteFooter(f, c, UsedWord(x)), d, FreeWord(r))
             S == F \cup L
  <1>1. /\ \A i \in S : /\ i \in Nat /\ i \in Blocks /\ LenOf(h)[i] = h[i].blocks
                        /\ h[i].blocks \in Nat /\ h[i].blocks >= 1 /\ h[i].blocks <= TotalBlocks
                        /\ i + h[i].blocks <= TotalBlocks
        /\ \A i, j \in S : i < j => i + h[i].blocks <= j
        /\ F \cap L = {}
    <2>1. F \cap L = {} /\ Laid(S, h)
      BY ShapeRuns
    <2> QED
      BY <2>1 DEF Laid
  <1>2. x \in 0 .. TotalBlocks /\ r \in 0 .. TotalBlocks /\ r >= 1 /\ d > c /\ d # c
    BY <1>1, FreeListAssumption
  <1>3. Tiles(S, LenOf(h)) /\ LenOf(h)[c] = h[c].blocks
    BY <1>1 DEF Shape
  <1>4. ASSUME NEW m, m[c] = x, m[d] = r, \A i \in S \ {c} : m[i] = LenOf(h)[i]
        PROVE  d \in Blocks \ S /\ Tiles(S \cup {d}, m)
    BY <1>3, <1>4, TileSplit
  <1>5. d \in Blocks \ S
    <2>1. d \in Blocks
      BY <1>1, <1>2, FreeListAssumption DEF Blocks
    <2>2. d \notin S
      <3> SUFFICES ASSUME d \in S PROVE FALSE
        OBVIOUS
      <3>1. c + h[c].blocks <= d
        BY <1>1, <1>2
      <3> QED
        BY <1>1, <3>1
    <2> QED
      BY <2>1, <2>2
  <1>6. /\ g \in Memory /\ g[c] = UsedWord(x) /\ g[d] = FreeWord(r)
        /\ \A i \in S \ {c} : g[i] = h[i]
    BY <1>1, <1>2, <1>5, WordsAre DEF Memory
  <1>7. LenOf(g)[c] = x /\ LenOf(g)[d] = r /\ \A i \in S \ {c} : LenOf(g)[i] = LenOf(h)[i]
    BY <1>1, <1>2, <1>5, <1>6, WordsAre DEF LenOf
  <1>8. Tiles(S \cup {d}, LenOf(g))
    BY <1>4, <1>7
  <1>9. S \cup {d} = ((F \ {c}) \cup {d}) \cup (L \cup {c})
    OBVIOUS
  <1>10. /\ g[c].blocks = x /\ ~g[c].free /\ g[d].blocks = r /\ g[d].free
         /\ UsedWord(x) \in Word /\ FreeWord(r) \in Word
    BY <1>2, <1>6, WordsAre
  <1>11. /\ c + x - 1 \in Blocks /\ d + r - 1 \in Blocks /\ c + x - 1 # d + r - 1
         /\ \A i \in S \ {c} : /\ i + h[i].blocks - 1 \in Blocks
                               /\ i + h[i].blocks - 1 # c + x - 1
                               /\ i + h[i].blocks - 1 # d + r - 1
    <2>1. /\ \A i \in S \cup {d} : i + LenOf(g)[i] - 1 \in Blocks
          /\ \A i, j \in S \cup {d} : i # j => i + LenOf(g)[i] - 1 # j + LenOf(g)[j] - 1
      <3> HIDE DEF d, r, g, e, S
      <3> QED
        BY <1>8, Lasts
    <2>2. c \in S \cup {d} /\ d \in S \cup {d}
      OBVIOUS
    <2> HIDE DEF d, r, g, e, S
    <2> QED
      BY <1>1, <1>2, <1>5, <1>7, <2>1, <2>2
  <1>12. e = [[f EXCEPT ![c + x - 1] = UsedWord(x)] EXCEPT ![d + r - 1] = FreeWord(r)]
    BY <1>2, WordsAre DEF WriteFooter
  <1> HIDE DEF d, r, g, e
  <1>13. /\ e \in Memory /\ e[c + x - 1] = UsedWord(x) /\ e[d + r - 1] = FreeWord(r)
         /\ \A i \in S \ {c} : e[i + h[i].blocks - 1] = f[i + h[i].blocks - 1]
    BY <1>10, <1>11, <1>12 DEF Memory
  <1>14. \A i \in (F \ {c}) \cup {d} : e[i + g[i].blocks - 1] = g[i] /\ g[i].free
    BY <1>6, <1>10, <1>13 DEF Shape
  <1>15. \A i \in L \cup {c} : ~e[i + g[i].blocks - 1].free /\ ~g[i].free
    <2>1. ASSUME NEW i \in L PROVE ~e[i + g[i].blocks - 1].free /\ ~g[i].free
      <3>1. i \in S \ {c}
        BY <1>1
      <3> QED
        BY <1>6, <1>13, <3>1 DEF Shape
    <2>2. e[c + g[c].blocks - 1] = UsedWord(x) /\ ~UsedWord(x).free
      BY <1>2, <1>10, <1>13, WordsAre
    <2> QED
      BY <1>10, <2>1, <2>2
  <1>16. ASSUME NEW i \in (F \ {c}) \cup {d} PROVE i + g[i].blocks \notin (F \ {c}) \cup {d}
    <2>1. CASE i = d
      <3>1. d + r = c + h[c].blocks /\ r >= 1
        BY <1>1, <1>2 DEF d, r
      <3>2. c + h[c].blocks \notin F
        BY DEF Shape
      <3>3. d + r # d
        BY <1>1, <1>2, <1>5 DEF Blocks
      <3> QED
        BY <1>10, <2>1, <3>1, <3>2, <3>3
    <2>2. CASE i \in F \ {c}
      <3>1. g[i] = h[i] /\ i + h[i].blocks \notin F
        BY <1>6, <2>2 DEF Shape
      <3>2. i + h[i].blocks # d
        <4>1. c + LenOf(g)[c] = d
          BY <1>7 DEF d
        <4>2. i + LenOf(g)[i] # c + LenOf(g)[c]
          BY <1>8, <2>2, Lasts
        <4> QED
          BY <1>1, <1>7, <2>2, <4>1, <4>2
      <3> QED
        BY <3>1, <3>2
    <2> QED
      BY <1>16, <2>1, <2>2
  <1>17. ((F \ {c}) \cup {d}) \cap (L \cup {c}) = {}
    BY <1>1, <1>2, <1>5
  <1>18. Shape((F \ {c}) \cup {d}, L \cup {c}, g, e)
    BY <1>8, <1>9, <1>14, <1>15, <1>16, <1>17 DEF Shape
  <1> QED
    BY <1>5, <1>6, <1>13, <1>18 DEF d, r, g, e
\* All of the free run c is taken.
LEMMA ShapeTake ==
  ASSUME NEW F, NEW L, NEW h \in Memory, NEW f \in Memory, Shape(F, L, h, f), NEW c \in F
  PROVE  LET g == [h EXCEPT ![c] = UsedWord(h[c].blocks)]
             e == WriteFooter(f, c, UsedWord(h[c].blocks))
         IN  /\ g \in Memory /\ e \in Memory
             /\ Shape(F \ {c}, L \cup {c}, g, e)
  <1> DEFINE x == h[c].blocks
             g == [h EXCEPT ![c] = UsedWord(x)]
             e == WriteFooter(f, c, UsedWord(x))
             S == F \cup L
  <1>1. F \cap L = {} /\ Laid(S, h)
    BY ShapeRuns
  <1>2. /\ c \in Blocks /\ x \in 0 .. TotalBlocks /\ c + x - 1 \in Blocks
        /\ \A i \in S \ {c} : /\ i \in Blocks /\ i + h[i].blocks - 1 \in Blocks
                              /\ i + h[i].blocks - 1 # c + x - 1
    <2>1. /\ c \in S /\ c \in Blocks /\ x \in Nat /\ x <= TotalBlocks /\ c + x - 1 \in Blocks
      BY <1>1 DEF Laid
    <2>2. ASSUME NEW i \in S \ {c}
          PROVE  /\ i \in Blocks /\ i + h[i].blocks - 1 \in Blocks
                 /\ i + h[i].blocks - 1 # c + x - 1
      BY <1>1, <2>1 DEF Laid
    <2> QED
      BY <2>1, <2>2, FreeListAssumption
  <1>3. UsedWord(x) \in Word /\ ~UsedWord(x).free /\ UsedWord(x).blocks = x
    BY <1>2, WordsAre
  <1>4. /\ g \in Memory /\ g[c] = UsedWord(x) /\ \A i \in S \ {c} : g[i] = h[i]
    BY <1>2, <1>3 DEF Memory
  <1>5. e = [f EXCEPT ![c + x - 1] = UsedWord(x)]
    BY <1>3 DEF WriteFooter
  <1> HIDE DEF x, g, e
  <1>6. /\ e \in Memory /\ e[c + x - 1] = UsedWord(x)
        /\ \A i \in S \ {c} : e[i + h[i].blocks - 1] = f[i + h[i].blocks - 1]
    BY <1>2, <1>3, <1>5 DEF Memory
  <1>7. \A i \in S : g[i].blocks = h[i].blocks
    BY <1>3, <1>4 DEF x
  <1>8. Tiles(S, LenOf(g))
    <2>1. \A i \in S : LenOf(g)[i] = LenOf(h)[i]
      BY <1>2, <1>7 DEF LenOf
    <2>2. Tiles(S, LenOf(h))
      BY DEF Shape
    <2> QED
      BY <2>1, <2>2, TileSame
  <1>9. S = (F \ {c}) \cup (L \cup {c})
    OBVIOUS
  <1>10. \A i \in F \ {c} : e[i + g[i].blocks - 1] = g[i] /\ g[i].free
    BY <1>4, <1>6 DEF Shape
  <1>11. \A i \in L \cup {c} : ~e[i + g[i].blocks - 1].free /\ ~g[i].free
    <2>1. ASSUME NEW i \in L PROVE ~e[i + g[i].blocks - 1].free /\ ~g[i].free
      <3>1. i \in S \ {c}
        BY <1>1
      <3> QED
        BY <1>4, <1>6, <3>1 DEF Shape
    <2>2. e[c + g[c].blocks - 1] = UsedWord(x)
      BY <1>3, <1>4, <1>6
    <2> QED
      BY <1>3, <1>4, <2>1, <2>2
  <1>12. \A i \in F \ {c} : i + g[i].blocks \notin F \ {c}
    BY <1>4 DEF Shape
  <1>13. (F \ {c}) \cap (L \cup {c}) = {}
    BY <1>1
  <1>14. Shape(F \ {c}, L \cup {c}, g, e)
    BY <1>8, <1>9, <1>10, <1>11, <1>12, <1>13 DEF Shape
  <1> QED
    BY <1>4, <1>6, <1>14 DEF x, g, e

\* What a client writes stays inside its run i and does not mark it free.
Inside(h, f, g, e, i) ==
  /\ \A b \in Blocks : b \notin i + 1 .. i + h[i].blocks - 1 => g[b] = h[b]
  /\ \A b \in Blocks : b \notin i .. i + h[i].blocks - 1 => e[b] = f[b]
  /\ ~e[i + h[i].blocks - 1].free

LEMMA ShapeFill ==
  ASSUME NEW F, NEW L, NEW h \in Memory, NEW f \in Memory, Shape(F, L, h, f),
         NEW i \in L, NEW g \in Memory, NEW e \in Memory, Inside(h, f, g, e, i)
  PROVE  Shape(F, L, g, e) /\ \A j \in F \cup L : g[j] = h[j]
  <1> USE DEF Inside
  <1> DEFINE S == F \cup L
  <1>1. F \cap L = {} /\ Laid(S, h)
    BY ShapeRuns
  <1>2. /\ \A j \in S : j \in Nat /\ j \in Blocks /\ h[j].blocks \in Nat /\ h[j].blocks >= 1
                     /\ j + h[j].blocks - 1 \in Blocks
        /\ \A j, k \in S : j < k => j + h[j].blocks <= k
    BY <1>1 DEF Laid
  <1>3. ASSUME NEW j \in S, j # i
        PROVE  j \notin i .. i + h[i].blocks - 1
               /\ j + h[j].blocks - 1 \notin i .. i + h[i].blocks - 1
    <2>1. i \in S
      OBVIOUS
    <2>2. CASE j < i
      <3>1. j + h[j].blocks <= i
        BY <1>2, <2>1, <2>2
      <3> QED
        BY <1>2, <2>1, <2>2, <3>1
    <2>3. CASE i < j
      <3>1. i + h[i].blocks <= j
        BY <1>2, <2>1, <2>3
      <3> QED
        BY <1>2, <2>1, <2>3, <3>1
    <2> QED
      BY <1>2, <1>3, <2>1, <2>2, <2>3
  <1>4. ASSUME NEW j \in S PROVE g[j] = h[j]
    <2>1. j \notin i + 1 .. i + h[i].blocks - 1
      BY <1>2, <1>3
    <2> QED
      BY <1>2, <2>1
  <1>5. ASSUME NEW j \in S, j # i PROVE e[j + h[j].blocks - 1] = f[j + h[j].blocks - 1]
    BY <1>2, <1>3, <1>5
  <1>6. Tiles(S, LenOf(g))
    <2>1. \A j \in S : LenOf(g)[j] = LenOf(h)[j]
      BY <1>2, <1>4 DEF LenOf
    <2>2. Tiles(S, LenOf(h))
      BY DEF Shape
    <2> QED
      BY <2>1, <2>2, TileSame
  <1>7. \A j \in F : e[j + g[j].blocks - 1] = g[j] /\ g[j].free
    BY <1>1, <1>4, <1>5 DEF Shape
  <1>8. ASSUME NEW j \in L PROVE ~e[j + g[j].blocks - 1].free /\ ~g[j].free
    <2>1. g[j] = h[j] /\ ~h[j].free /\ ~f[j + h[j].blocks - 1].free
      BY <1>4 DEF Shape
    <2> QED
      BY <1>5, <2>1
  <1>9. \A j \in F : j + g[j].blocks \notin F
    BY <1>4 DEF Shape
  <1> QED
    BY <1>1, <1>4, <1>6, <1>7, <1>8, <1>9 DEF Shape

\* The region is one free run.
LEMMA ShapeOne ==
  ASSUME NEW h, NEW f, h[0] = FreeWord(TotalBlocks), f[TotalBlocks - 1] = FreeWord(TotalBlocks)
  PROVE  Shape({0}, {}, h, f)
  <1>1. /\ 0 \in Blocks /\ TotalBlocks \in Nat /\ TotalBlocks >= 1
        /\ FreeWord(TotalBlocks).free /\ FreeWord(TotalBlocks).blocks = TotalBlocks
    BY FreeListAssumption, WordsAre DEF Blocks
  <1>2. LenOf(h)[0] = TotalBlocks
    BY <1>1 DEF LenOf
  <1>3. \A b \in Blocks : 0 <= b /\ b < 0 + TotalBlocks
    BY <1>1 DEF Blocks
  <1>4. Tiles({0}, LenOf(h))
    BY <1>1, <1>2, <1>3 DEF Tiles
  <1> QED
    BY <1>1, <1>4 DEF Shape
\* Freeing i: what its neighbours are, in the words h and f.
Backs(f, i)     == i > 0 /\ f[i - 1].free
StartOf(f, i)   == IF Backs(f, i) THEN i - f[i - 1].blocks ELSE i
EndOf(h, i)     == i + h[i].blocks
Ons(h, n)       == n < TotalBlocks /\ h[n].free
TotalOf(h, f, i) ==
  (EndOf(h, i) - StartOf(f, i)) + (IF Ons(h, EndOf(h, i)) THEN h[EndOf(h, i)].blocks ELSE 0)

\* The footer before a run and the header after it tell the truth.
LEMMA Neighbours ==
  ASSUME NEW F, NEW L, NEW h \in Memory, NEW f \in Memory, Shape(F, L, h, f), NEW i \in L
  PROVE  /\ Backs(f, i) => /\ StartOf(f, i) \in F /\ StartOf(f, i) < i
                           /\ StartOf(f, i) + h[StartOf(f, i)].blocks = i
         /\ ~Backs(f, i) => StartOf(f, i) = i /\ \A j \in F : j + h[j].blocks # i
         /\ Ons(h, EndOf(h, i)) => EndOf(h, i) \in F
         /\ ~Ons(h, EndOf(h, i)) => EndOf(h, i) \notin F
         /\ EndOf(h, i) > i
  <1> DEFINE S == F \cup L
  <1>1. F \cap L = {} /\ Laid(S, h) /\ Tiles(S, LenOf(h)) /\ i \in S
    BY ShapeRuns DEF Shape
  <1>2. /\ \A j \in S : /\ j \in Nat /\ h[j].blocks \in Nat /\ h[j].blocks >= 1 /\ j < TotalBlocks
                        /\ LenOf(h)[j] = h[j].blocks
                        /\ j + h[j].blocks = TotalBlocks \/ j + h[j].blocks \in S
    BY <1>1, FreeListAssumption DEF Laid, Blocks
  <1>3. /\ \A j \in F : f[j + h[j].blocks - 1] = h[j] /\ h[j].free
        /\ \A j \in L : ~f[j + h[j].blocks - 1].free /\ ~h[j].free
    BY DEF Shape
  <1>4. ASSUME Backs(f, i)
        PROVE  /\ StartOf(f, i) \in F /\ StartOf(f, i) < i
               /\ StartOf(f, i) + h[StartOf(f, i)].blocks = i
    <2>1. PICK j \in S : j + LenOf(h)[j] = i
      BY <1>1, <1>4, TileBefore DEF Backs
    <2>2. j + h[j].blocks = i /\ j + h[j].blocks - 1 = i - 1
      BY <1>2, <2>1
    <2>3. j \in F
      BY <1>3, <1>4, <2>2 DEF Backs
    <2>4. f[i - 1].blocks = h[j].blocks
      BY <1>3, <2>2, <2>3
    <2>5. StartOf(f, i) = j
      BY <1>2, <1>4, <2>2, <2>4 DEF StartOf
    <2> QED
      BY <1>2, <2>2, <2>3, <2>5
  <1>5. ASSUME ~Backs(f, i) PROVE StartOf(f, i) = i /\ \A j \in F : j + h[j].blocks # i
    <2>1. StartOf(f, i) = i
      BY <1>5 DEF StartOf
    <2>2. ASSUME NEW j \in F, j + h[j].blocks = i PROVE FALSE
      <3>1. f[i - 1].free /\ i > 0
        BY <1>2, <1>3, <2>2
      <3> QED
        BY <1>5, <3>1 DEF Backs
    <2> QED
      BY <2>1, <2>2
  <1>6. EndOf(h, i) = TotalBlocks \/ EndOf(h, i) \in S
    BY <1>1, <1>2 DEF EndOf
  <1>7. Ons(h, EndOf(h, i)) => EndOf(h, i) \in F
    BY <1>3, <1>6, FreeListAssumption DEF Ons
  <1>8. ~Ons(h, EndOf(h, i)) => EndOf(h, i) \notin F
    BY <1>2, <1>3 DEF Ons
  <1>9. EndOf(h, i) > i
    BY <1>1, <1>2 DEF EndOf
  <1> QED
    BY <1>4, <1>5, <1>7, <1>8, <1>9

LEMMA ShapeFree ==
  ASSUME NEW F, NEW L, NEW h \in Memory, NEW f \in Memory, Shape(F, L, h, f), NEW i \in L
  PROVE  LET ri == StartOf(f, i)
             ni == EndOf(h, i)
             n  == TotalOf(h, f, i)
             g  == [h EXCEPT ![ri] = FreeWord(n)]
             e  == WriteFooter(f, ri, FreeWord(n))
         IN  /\ ri \in Blocks /\ ri # ni /\ g \in Memory /\ e \in Memory
             /\ Shape((F \ {ri, ni}) \cup {ri}, L \ {i}, g, e)
  <1> DEFINE ri == StartOf(f, i)
             ni == EndOf(h, i)
             n  == TotalOf(h, f, i)
             g  == [h EXCEPT ![ri] = FreeWord(n)]
             e  == WriteFooter(f, ri, FreeWord(n))
             S  == F \cup L
             A  == (S \ {i}) \cup {ri}
             G  == (F \ {ri, ni}) \cup {ri}
             Z  == G \cup (L \ {i})
  <1>1. F \cap L = {} /\ Laid(S, h) /\ Tiles(S, LenOf(h)) /\ i \in S
    BY ShapeRuns DEF Shape
  <1>2. /\ \A j \in S : /\ j \in Nat /\ j \in Blocks /\ h[j].blocks \in Nat /\ h[j].blocks >= 1
                        /\ LenOf(h)[j] = h[j].blocks /\ j + h[j].blocks - 1 \in Blocks
    BY <1>1 DEF Laid
  <1>3. /\ Backs(f, i) => ri \in F /\ ri < i /\ ri + h[ri].blocks = i
        /\ ~Backs(f, i) => ri = i /\ \A j \in F : j + h[j].blocks # i
        /\ Ons(h, ni) => ni \in F
        /\ ~Ons(h, ni) => ni \notin F
        /\ ni > i
    BY Neighbours
  <1>4. ni = i + h[i].blocks /\ n = (ni - ri) + (IF Ons(h, ni) THEN h[ni].blocks ELSE 0)
    BY DEF EndOf, TotalOf
  <1> HIDE DEF ri, ni, n
  <1>5. ri \in S /\ ri <= i /\ ri < ni /\ ri # ni /\ ri \in Nat /\ ni \in Nat
    BY <1>1, <1>2, <1>3, <1>4
  <1> DEFINE m == [LenOf(h) EXCEPT ![ri] = ni - ri]
  <1>6. m[ri] = ni - ri /\ \A j \in S \ {ri} : m[j] = LenOf(h)[j]
    BY <1>2, <1>5 DEF LenOf
  <1> HIDE DEF m
  <1>7. Tiles(A, m)
    <2>1. CASE Backs(f, i)
      <3>1. /\ ri \in S /\ i \in S /\ ri + LenOf(h)[ri] = i
            /\ m[ri] = LenOf(h)[ri] + LenOf(h)[i]
            /\ \A j \in S \ {ri, i} : m[j] = LenOf(h)[j]
        BY <1>1, <1>2, <1>3, <1>4, <1>5, <1>6, <2>1
      <3>2. Tiles(S \ {i}, m)
        BY <1>1, <3>1, TileJoin
      <3>3. A = S \ {i}
        BY <1>2, <1>3, <1>5, <2>1
      <3> QED
        BY <3>2, <3>3
    <2>2. CASE ~Backs(f, i)
      <3>1. A = S
        BY <1>1, <1>3, <2>2
      <3>2. m[ri] = LenOf(h)[ri]
        BY <1>1, <1>2, <1>3, <1>4, <1>6, <2>2
      <3>3. \A j \in S : m[j] = LenOf(h)[j]
        BY <1>6, <3>2
      <3> QED
        BY <1>1, <3>1, <3>3, TileSame
    <2> QED
      BY <2>1, <2>2
  <1>8. n \in 1 .. TotalBlocks
    <2>1. ri \in A /\ ri + m[ri] = ni
      BY <1>5, <1>6
    <2>2. ni <= TotalBlocks
      BY <1>7, <2>1 DEF Tiles
    <2>3. Ons(h, ni) => ni + h[ni].blocks <= TotalBlocks /\ h[ni].blocks \in Nat
      BY <1>1, <1>3 DEF Laid
    <2> QED
      BY <1>4, <1>5, <2>2, <2>3, FreeListAssumption
  <1>9. FreeWord(n) \in Word /\ FreeWord(n).free /\ FreeWord(n).blocks = n
    BY <1>8, WordsAre
  <1>10. g \in Memory /\ g[ri] = FreeWord(n) /\ \A j \in S \ {ri} : g[j] = h[j]
    BY <1>2, <1>5, <1>9 DEF Memory
  <1>11. LenOf(g)[ri] = n /\ \A j \in S \ {ri} : LenOf(g)[j] = m[j]
    BY <1>2, <1>5, <1>6, <1>9, <1>10 DEF LenOf
  <1>12. e = [f EXCEPT ![ri + n - 1] = FreeWord(n)]
    BY <1>9 DEF WriteFooter
  <1> HIDE DEF g, e
  <1>13. Tiles(Z, LenOf(g))
    <2>1. CASE Ons(h, ni)
      <3>1. /\ ri \in A /\ ni \in A /\ ri + m[ri] = ni
            /\ LenOf(g)[ri] = m[ri] + m[ni]
            /\ \A j \in A \ {ri, ni} : LenOf(g)[j] = m[j]
        BY <1>1, <1>2, <1>3, <1>4, <1>5, <1>6, <1>11, <2>1
      <3>2. Tiles(A \ {ni}, LenOf(g))
        BY <1>7, <3>1, TileJoin
      <3>3. A \ {ni} = Z
        BY <1>1, <1>3, <1>5, <2>1
      <3> QED
        BY <3>2, <3>3
    <2>2. CASE ~Ons(h, ni)
      <3>1. A = Z
        BY <1>1, <1>3, <1>5, <2>2
      <3>2. LenOf(g)[ri] = m[ri]
        BY <1>4, <1>5, <1>6, <1>11, <2>2
      <3>3. \A j \in A : LenOf(g)[j] = m[j]
        BY <1>11, <3>2
      <3> QED
        BY <1>7, <3>1, <3>3, TileSame
    <2> QED
      BY <2>1, <2>2
  <1>14. /\ ri + n - 1 \in Blocks
         /\ \A j \in Z \ {ri} : j \in S \ {ri} /\ j + h[j].blocks - 1 # ri + n - 1
    <2>1. /\ \A j \in Z : j + LenOf(g)[j] - 1 \in Blocks
          /\ \A j, k \in Z : j # k => j + LenOf(g)[j] - 1 # k + LenOf(g)[k] - 1
      <3> HIDE DEF Z
      <3> QED
        BY <1>13, Lasts
    <2>2. ri \in Z
      OBVIOUS
    <2>3. ASSUME NEW j \in Z \ {ri}
          PROVE  j \in S \ {ri} /\ LenOf(g)[j] = h[j].blocks
      <3>1. j \in S \ {ri}
        OBVIOUS
      <3> QED
        BY <1>2, <1>6, <1>11, <3>1
    <2> HIDE DEF Z
    <2> QED
      BY <1>11, <2>1, <2>2, <2>3
  <1>15. /\ e \in Memory /\ e[ri + n - 1] = FreeWord(n)
         /\ \A j \in Z \ {ri} : e[j + h[j].blocks - 1] = f[j + h[j].blocks - 1]
    <2>1. \A j \in Z \ {ri} : j + h[j].blocks - 1 \in Blocks
      BY <1>2, <1>14
    <2> HIDE DEF Z
    <2> QED
      BY <1>9, <1>12, <1>14, <2>1 DEF Memory
  <1>16. \A j \in G : e[j + g[j].blocks - 1] = g[j] /\ g[j].free
    <2>1. ASSUME NEW j \in G, j # ri PROVE e[j + g[j].blocks - 1] = g[j] /\ g[j].free
      <3>1. j \in Z \ {ri} /\ j \in F /\ j \in S \ {ri}
        BY <2>1
      <3> QED
        BY <1>10, <1>15, <3>1 DEF Shape
    <2> QED
      BY <1>9, <1>10, <1>15, <2>1
  <1>17. \A j \in L \ {i} : ~e[j + g[j].blocks - 1].free /\ ~g[j].free
    <2>1. ASSUME NEW j \in L \ {i} PROVE ~e[j + g[j].blocks - 1].free /\ ~g[j].free
      <3>1. j \in Z \ {ri} /\ j \in S \ {ri}
        BY <1>1, <1>3
      <3> QED
        BY <1>10, <1>15, <3>1 DEF Shape
    <2> QED
      BY <2>1
  <1>18. ASSUME NEW j \in G PROVE j + g[j].blocks \notin G
    <2>1. CASE j = ri
      <3>1. Ons(h, ni) => ri + n = ni + h[ni].blocks /\ ni + h[ni].blocks \notin F
        BY <1>2, <1>3, <1>4, <1>5 DEF Shape
      <3>2. ~Ons(h, ni) => ri + n = ni
        BY <1>4, <1>5
      <3>3. ri + n \notin F
        BY <1>3, <3>1, <3>2
      <3>4. ri + n # ri
        BY <1>5, <1>8
      <3> QED
        BY <1>9, <1>10, <2>1, <3>3, <3>4
    <2>2. CASE j # ri
      <3>1. j \in F /\ j \in S \ {ri} /\ j # ni
        BY <2>2
      <3>2. g[j] = h[j] /\ j + h[j].blocks \notin F
        BY <1>10, <3>1 DEF Shape
      <3>3. j + h[j].blocks # ri
        BY <1>3, <3>1, <3>2
      <3> QED
        BY <3>2, <3>3
    <2> QED
      BY <2>1, <2>2
  <1>19. G \cap (L \ {i}) = {}
    BY <1>1, <1>3
  <1>20. Shape(G, L \ {i}, g, e)
    BY <1>13, <1>16, <1>17, <1>18, <1>19 DEF Shape
  <1> QED
    BY <1>2, <1>5, <1>10, <1>15, <1>20 DEF ri, ni, n, g, e
-----------------------------------------------------------------------------
(* The inductive invariant                                                 *)

\* What clients write is words, and the last word of a run does not look free.
EntriesOnly ==
  /\ InnerWords \subseteq Word /\ TailWords \subseteq Word
  /\ \A t \in TailWords : ~t.free

Inv ==
  /\ TypeOK
  /\ Has(List, FreeRuns)
  /\ Shape(FreeRuns, DOMAIN live, head, foot)

LEMMA InvIs ==
  ASSUME Inv
  PROVE  /\ List \in ListType /\ List.first = freeHead /\ List.next = next
         /\ head \in Memory /\ foot \in Memory
         /\ Has(List, FreeRuns) /\ Shape(FreeRuns, DOMAIN live, head, foot)
         /\ FreeRuns \subseteq Blocks /\ DOMAIN live \subseteq Blocks
         /\ FreeRuns \cap DOMAIN live = {}
         /\ Laid(FreeRuns \cup DOMAIN live, head)
         /\ \A i \in DOMAIN live : live[i] \in Requests
  <1>1. /\ List \in ListType /\ List.first = freeHead /\ List.next = next
        /\ head \in Memory /\ foot \in Memory
        /\ \A i \in DOMAIN live : live[i] \in Requests
    BY DEF Inv, TypeOK, List, ListType, Memory
  <1>2. Has(List, FreeRuns) /\ Shape(FreeRuns, DOMAIN live, head, foot)
    BY DEF Inv
  <1> QED
    BY <1>1, <1>2, ShapeRuns

\* What a step has to show.
LEMMA Kept ==
  ASSUME NEW F, NEW L, List' \in ListType, Has(List', F), head' \in Memory, foot' \in Memory,
         Shape(F, L, head', foot'), DOMAIN live' = L, \A i \in L : live'[i] \in Requests
  PROVE  Inv' /\ FreeRuns' = F
  <1>1. FreeRuns' = F
    <2>1. F = {Walk(List')[k] : k \in 0 .. TotalBlocks} \ {-1}
      BY HasWalk
    <2> QED
      BY <2>1 DEF FreeRuns
  <1>2. L \subseteq Blocks
    BY ShapeRuns
  <1>3. TypeOK'
    BY <1>2 DEF TypeOK, List, ListType, Memory
  <1> QED
    BY <1>1, <1>3 DEF Inv

LEMMA MaxOfTwo ==
  ASSUME NEW n \in Nat
  PROVE  Max({1, n}) \in Nat /\ Max({1, n}) >= 1 /\ Max({1, n}) >= n
  <1> DEFINE S == {1, n}
  <1>1. \E x \in S : \A y \in S : x >= y
    BY n >= 1 \/ 1 >= n
  <1>2. Max(S) = CHOOSE x \in S : \A y \in S : x >= y
    BY DEF Max
  <1>3. Max(S) \in S /\ \A y \in S : Max(S) >= y
    BY <1>1, <1>2
  <1> QED
    BY <1>3

LEMMA NeedIs ==
  ASSUME NEW bytes \in Requests
  PROVE  Need(bytes) \in Nat /\ Need(bytes) >= 1 /\ Need(bytes) >= BlocksNeeded(bytes)
  <1>1. BLOCK_SIZE \in Nat /\ BLOCK_SIZE >= 1 /\ WordSize \in Nat /\ WordSize >= 1 /\ bytes \in Nat
    BY FreeListAssumption
  <1>2. bytes + 4 + BLOCK_SIZE - 1 \in Int
    BY <1>1
  <1>3. (bytes + 4 + BLOCK_SIZE - 1) % WordSize \in Nat
    BY <1>1, <1>2, Z3
  <1>4. BlocksNeeded(bytes) \in Nat
    BY <1>1, <1>3, Z3 DEF BlocksNeeded
  <1> QED
    BY <1>4, MaxOfTwo DEF Need

LEMMA FirstFit ==
  ASSUME Inv, NEW bytes \in Requests, Fits(bytes) # {}
  PROVE  LET k  == Min(Fits(bytes))
             cu == Walk(List)[k]
         IN  /\ k \in 0 .. TotalBlocks /\ cu \in FreeRuns /\ cu \in Blocks
             /\ head[cu].blocks \in Nat /\ head[cu].blocks >= Need(bytes)
  <1>1. Fits(bytes) \in SUBSET Nat
    BY FreeListAssumption DEF Fits
  <1>2. Min(Fits(bytes)) \in Fits(bytes)
    BY <1>1, MinIs
  <1> DEFINE k  == Min(Fits(bytes))
             cu == Walk(List)[k]
  <1> HIDE DEF k
  <1>3. k \in 0 .. TotalBlocks /\ cu >= 0 /\ head[cu].blocks >= Need(bytes)
    BY <1>2 DEF Fits, k
  <1>4. cu # -1
    BY <1>3
  <1>5. cu \in FreeRuns
    BY <1>3, <1>4 DEF FreeRuns
  <1>6. cu \in Blocks /\ head[cu].blocks \in Nat
    BY <1>5, InvIs DEF Laid
  <1> QED
    BY <1>3, <1>5, <1>6 DEF k

-----------------------------------------------------------------------------
(* The steps                                                               *)

\* A buffer is made of the first blocks of the free run c.
Takes(c, bytes) ==
  /\ c \in FreeRuns
  /\ live' = [j \in DOMAIN live \cup {c} |-> IF j = c THEN bytes ELSE live[j]]
  /\ head'[c].blocks = Need(bytes)
  /\ \A j \in DOMAIN live : head'[j] = head[j]

\* The buffer i is no more.
Gives(i) ==
  /\ i \in DOMAIN live
  /\ live' = [j \in DOMAIN live \ {i} |-> live[j]]
  /\ \A j \in DOMAIN live \ {i} : head'[j] = head[j]

LEMMA Split ==
  ASSUME Inv, NEW bytes \in Requests, AllocSplit(bytes)
  PROVE  Inv' /\ \E c \in Blocks : Takes(c, bytes)
  <1> DEFINE k    == Min(Fits(bytes))
             cu   == Walk(List)[k]
             need == Need(bytes)
             ri   == cu + need
             rem  == head[cu].blocks - need
  <1>1. /\ k \in 0 .. TotalBlocks /\ cu \in FreeRuns /\ cu \in Blocks
        /\ head[cu].blocks \in Nat /\ head[cu].blocks >= need
    BY FirstFit DEF AllocSplit
  <1>2. need \in Nat /\ need >= 1
    BY NeedIs
  <1>3. /\ rem >= 1
        /\ head' = [head EXCEPT ![cu] = UsedWord(need), ![ri] = FreeWord(rem)]
        /\ foot' = WriteFooter(WriteFooter(foot, cu, UsedWord(need)), ri, FreeWord(rem))
        /\ freeHead' = Replace(k, ri).first
        /\ next' = [Replace(k, ri).next EXCEPT ![ri] = next[cu]]
        /\ live' = [j \in DOMAIN live \cup {cu} |-> IF j = cu THEN bytes ELSE live[j]]
    BY DEF AllocSplit, RestOf, NewBuffer
  <1> DEFINE F == FreeRuns
             L == DOMAIN live
  <1> HIDE DEF k, cu, need, F, L
  <1>4. /\ List \in ListType /\ List.first = freeHead /\ List.next = next
        /\ head \in Memory /\ foot \in Memory /\ Has(List, F) /\ Shape(F, L, head, foot)
        /\ F \cap L = {} /\ L \subseteq Blocks /\ \A i \in L : live[i] \in Requests
    BY InvIs DEF F, L
  <1>5. cu \in F /\ need < head[cu].blocks
    BY <1>1, <1>2, <1>3 DEF F
  <1>6. /\ ri \in Blocks \ (F \cup L)
        /\ head' \in Memory /\ foot' \in Memory
        /\ Shape((F \ {cu}) \cup {ri}, L \cup {cu}, head', foot')
    BY <1>2, <1>3, <1>4, <1>5, ShapeSplit
  <1> HIDE DEF ri, rem
  <1>7. List' = PutAt(List, k, cu, ri)
    BY <1>3, <1>4 DEF List, Replace, PutAt, cu
  <1>8. Walk(List)[k] = cu
    BY DEF cu
  <1>9. List' \in ListType /\ Has(List', (F \ {cu}) \cup {ri})
    BY <1>1, <1>4, <1>6, <1>7, <1>8, HasPut
  <1>10. DOMAIN live' = L \cup {cu} /\ \A i \in L \cup {cu} : live'[i] \in Requests
    BY <1>3, <1>4 DEF L
  <1>11. Inv'
    BY <1>6, <1>9, <1>10, Kept
  <1>12. Takes(cu, bytes)
    <2>1. UsedWord(need).blocks = need
      BY DEF UsedWord
    <2>2. head'[cu] = UsedWord(need)
      BY <1>3, <1>4, <1>5, <1>6, <1>1 DEF Memory
    <2>3. \A j \in L : head'[j] = head[j]
      BY <1>3, <1>4, <1>5, <1>6, <1>1 DEF Memory
    <2> QED
      BY <1>1, <1>3, <2>1, <2>2, <2>3 DEF Takes, need, L
  <1> QED
    BY <1>1, <1>11, <1>12

LEMMA Whole ==
  ASSUME Inv, NEW bytes \in Requests, AllocWhole(bytes)
  PROVE  Inv' /\ \E c \in Blocks : Takes(c, bytes)
  <1> DEFINE k    == Min(Fits(bytes))
             cu   == Walk(List)[k]
             need == Need(bytes)
  <1>1. k \in 0 .. TotalBlocks /\ cu \in FreeRuns /\ cu \in Blocks
    BY FirstFit DEF AllocWhole
  <1>2. /\ head[cu].blocks = need
        /\ head' = [head EXCEPT ![cu] = UsedWord(need)]
        /\ foot' = WriteFooter(foot, cu, UsedWord(need))
        /\ freeHead' = Replace(k, next[cu]).first
        /\ next' = Replace(k, next[cu]).next
        /\ live' = [j \in DOMAIN live \cup {cu} |-> IF j = cu THEN bytes ELSE live[j]]
    BY DEF AllocWhole, NewBuffer
  <1> DEFINE F == FreeRuns
             L == DOMAIN live
  <1> HIDE DEF k, cu, need, F, L
  <1>3. /\ List \in ListType /\ List.first = freeHead /\ List.next = next
        /\ head \in Memory /\ foot \in Memory /\ Has(List, F) /\ Shape(F, L, head, foot)
        /\ F \cap L = {} /\ L \subseteq Blocks /\ \A i \in L : live[i] \in Requests
    BY InvIs DEF F, L
  <1>4. cu \in F
    BY <1>1 DEF F
  <1>5. /\ head' \in Memory /\ foot' \in Memory
        /\ Shape(F \ {cu}, L \cup {cu}, head', foot')
    BY <1>2, <1>3, <1>4, ShapeTake
  <1>6. List' = CutAt(List, k, cu)
    BY <1>2, <1>3 DEF List, Replace, CutAt
  <1>7. Walk(List)[k] = cu
    BY DEF cu
  <1>8. List' \in ListType /\ Has(List', F \ {cu})
    BY <1>1, <1>3, <1>6, <1>7, HasCut
  <1>9. DOMAIN live' = L \cup {cu} /\ \A i \in L \cup {cu} : live'[i] \in Requests
    BY <1>2, <1>3 DEF L
  <1>10. Inv'
    BY <1>5, <1>8, <1>9, Kept
  <1>11. Takes(cu, bytes)
    <2>1. UsedWord(need).blocks = need
      BY DEF UsedWord
    <2>2. head'[cu] = UsedWord(need) /\ \A j \in L : head'[j] = head[j]
      BY <1>1, <1>2, <1>3, <1>4 DEF Memory
    <2> QED
      BY <1>1, <1>2, <2>1, <2>2 DEF Takes, need, L
  <1> QED
    BY <1>1, <1>10, <1>11
LEMMA Freed ==
  ASSUME Inv, NEW i \in Blocks, Free(i)
  PROVE  Inv' /\ Gives(i)
  <1> DEFINE F     == FreeRuns
             L     == DOMAIN live
             ri    == StartOf(foot, i)
             ni    == EndOf(head, i)
             back  == IF Backs(foot, i) THEN Unlink(List, ri) ELSE List
             l     == IF Ons(head, ni) THEN Unlink(back, ni) ELSE back
             total == TotalOf(head, foot, i)
  <1>1. /\ i \in L
        /\ head' = [head EXCEPT ![ri] = FreeWord(total)]
        /\ next' = [l.next EXCEPT ![ri] = l.first]
        /\ foot' = WriteFooter(foot, ri, FreeWord(total))
        /\ freeHead' = ri
        /\ live' = [j \in DOMAIN live \ {i} |-> live[j]]
    <2>1. MergesBack(i) <=> Backs(foot, i)
      BY DEF MergesBack, Backs
    <2>2. \A n : MergesOn(n) <=> Ons(head, n)
      BY DEF MergesOn, Ons
    <2>3. ri = IF MergesBack(i) THEN i - foot[i - 1].blocks ELSE i
      BY <2>1 DEF StartOf
    <2>4. ni = i + head[i].blocks
      BY DEF EndOf
    <2>5. total = (ni - ri) + (IF MergesOn(ni) THEN head[ni].blocks ELSE 0)
      BY <2>2 DEF TotalOf
    <2> HIDE DEF ri, ni, total
    <2> QED
      BY <2>1, <2>2, <2>3, <2>4, <2>5 DEF Free
  <1> HIDE DEF F, L
  <1>2. /\ List \in ListType /\ List.first = freeHead /\ List.next = next
        /\ head \in Memory /\ foot \in Memory /\ Has(List, F) /\ Shape(F, L, head, foot)
        /\ F \subseteq Blocks
        /\ F \cap L = {} /\ L \subseteq Blocks /\ \A j \in L : live[j] \in Requests
    BY InvIs DEF F, L
  <1>3. /\ Backs(foot, i) => ri \in F /\ ri < i
        /\ ~Backs(foot, i) => ri = i
        /\ Ons(head, ni) => ni \in F
        /\ ~Ons(head, ni) => ni \notin F
    BY <1>1, <1>2, Neighbours
  <1>4. /\ ri \in Blocks /\ ri # ni
        /\ head' \in Memory /\ foot' \in Memory
        /\ Shape((F \ {ri, ni}) \cup {ri}, L \ {i}, head', foot')
    BY <1>1, <1>2, ShapeFree
  <1> HIDE DEF ri, ni, total
  <1>5. back \in ListType /\ Has(back, F \ {ri})
    <2>1. CASE Backs(foot, i)
      BY <1>2, <1>3, <2>1, HasUnlink
    <2>2. CASE ~Backs(foot, i)
      <3>1. F \ {ri} = F
        BY <1>1, <1>2, <1>3, <2>2
      <3> QED
        BY <1>2, <2>2, <3>1
    <2> QED
      BY <2>1, <2>2
  <1> HIDE DEF back
  <1>6. l \in ListType /\ Has(l, F \ {ri, ni})
    <2>1. CASE Ons(head, ni)
      <3>1. ni \in F \ {ri}
        BY <1>3, <1>4, <2>1
      <3>2. Unlink(back, ni) \in ListType /\ Has(Unlink(back, ni), (F \ {ri}) \ {ni})
        BY <1>5, <3>1, HasUnlink
      <3>3. (F \ {ri}) \ {ni} = F \ {ri, ni}
        OBVIOUS
      <3> QED
        BY <2>1, <3>2, <3>3
    <2>2. CASE ~Ons(head, ni)
      <3>1. F \ {ri, ni} = F \ {ri}
        BY <1>3, <2>2
      <3> QED
        BY <1>5, <2>2, <3>1
    <2> QED
      BY <2>1, <2>2
  <1> HIDE DEF l
  <1>7. List' \in ListType /\ Has(List', (F \ {ri, ni}) \cup {ri})
    <2>1. List' = [first |-> ri, next |-> [l.next EXCEPT ![ri] = l.first]]
      BY <1>1 DEF List
    <2>2. ri \in Blocks \ (F \ {ri, ni})
      BY <1>4
    <2> QED
      BY <1>6, <2>1, <2>2, HasPush
  <1>8. DOMAIN live' = L \ {i} /\ \A j \in L \ {i} : live'[j] \in Requests
    BY <1>1, <1>2 DEF L
  <1>9. Inv'
    BY <1>4, <1>7, <1>8, Kept
  <1>10. Gives(i)
    <2>1. \A j \in L \ {i} : j # ri /\ j \in Blocks
      BY <1>1, <1>2, <1>3
    <2>2. \A j \in L \ {i} : head'[j] = head[j]
      BY <1>1, <1>2, <2>1 DEF Memory
    <2> QED
      BY <1>1, <2>2 DEF Gives, L
  <1> QED
    BY <1>9, <1>10

LEMMA Filled ==
  ASSUME EntriesOnly, Inv,
         NEW i \in Blocks, NEW w \in InnerWords, NEW t \in TailWords, Fill(i, w, t)
  PROVE  /\ Inv' /\ live' = live /\ FreeRuns' = FreeRuns
         /\ \A j \in FreeRuns \cup DOMAIN live : head'[j] = head[j]
  <1> DEFINE F    == FreeRuns
             L    == DOMAIN live
             n    == head[i].blocks
             last == i + n - 1
  <1>1. /\ i \in L
        /\ head' = [b \in Blocks |-> IF b \in i + 1 .. last THEN w ELSE head[b]]
        /\ next' = [b \in Blocks |-> IF b \in i .. last THEN w.blocks - 1 ELSE next[b]]
        /\ foot' = [b \in Blocks |->
                      IF b = last THEN LastWord(foot[b], t, live[i], n)
                      ELSE IF b \in i .. last THEN w ELSE foot[b]]
        /\ freeHead' = freeHead /\ live' = live
    BY DEF Fill
  <1> HIDE DEF F, L
  <1>2. /\ List \in ListType /\ List.first = freeHead /\ List.next = next
        /\ head \in Memory /\ foot \in Memory /\ Has(List, F) /\ Shape(F, L, head, foot)
        /\ F \subseteq Blocks /\ F \cap L = {} /\ Laid(F \cup L, head)
        /\ \A j \in L : live[j] \in Requests
    BY InvIs DEF F, L
  <1>3. w \in Word /\ t \in Word /\ ~t.free
    BY DEF EntriesOnly
  <1>4. i \in F \cup L /\ last \in Blocks /\ foot[last] \in Word /\ ~foot[last].free
    <2>1. i \in F \cup L
      BY <1>1
    <2>2. last \in Blocks
      BY <1>2, <2>1 DEF Laid
    <2>3. ~foot[last].free
      BY <1>1, <1>2 DEF Shape
    <2> QED
      BY <1>2, <2>1, <2>2, <2>3 DEF Memory
  <1>5. LastWord(foot[last], t, live[i], n) \in Word /\ ~LastWord(foot[last], t, live[i], n).free
    BY <1>3, <1>4 DEF LastWord, Word
  <1> DEFINE lw == LastWord(foot[last], t, live[i], n)
  <1>6. /\ foot'[last] = lw
        /\ \A b \in Blocks : b \notin i .. last => head'[b] = head[b]
        /\ \A b \in Blocks : b \notin i + 1 .. last => head'[b] = head[b]
        /\ \A b \in Blocks : b \notin i .. last => next'[b] = next[b]
        /\ \A b \in Blocks : b \notin i .. last => foot'[b] = foot[b]
    <2>1. i <= last /\ i \in Int /\ last \in Int
      BY <1>2, <1>4 DEF Laid
    <2> HIDE DEF n, last
    <2> QED
      BY <1>1, <1>4, <2>1 DEF Blocks
  <1>7. head' \in Memory /\ foot' \in Memory /\ next' \in [Blocks -> Links]
    <2>1. w.blocks - 1 \in Links
      BY <1>3, FreeListAssumption DEF Word, Links
    <2>2. next \in [Blocks -> Links]
      BY <1>2, ListIs
    <2>3. head' \in [Blocks -> Word] /\ foot' \in [Blocks -> Word]
      <3> HIDE DEF n, last
      <3> QED
        BY <1>1, <1>2, <1>3, <1>5 DEF Memory
    <2> QED
      BY <1>1, <2>1, <2>2, <2>3 DEF Memory
  <1> HIDE DEF lw
  <1>8. Shape(F, L, head', foot') /\ \A j \in F \cup L : head'[j] = head[j]
    <2>1. Inside(head, foot, head', foot', i)
      BY <1>5, <1>6 DEF Inside, lw
    <2>2. /\ head \in Memory /\ foot \in Memory /\ Shape(F, L, head, foot) /\ i \in L
          /\ head' \in Memory /\ foot' \in Memory
      BY <1>1, <1>2, <1>7
    <2>3. Shape(F, L, head', foot')
      BY <2>1, <2>2, ShapeFill
    <2>4. ASSUME NEW j \in F \cup L PROVE head'[j] = head[j]
      BY <2>1, <2>2, ShapeFill
    <2> QED
      BY <2>3, <2>4
  <1>9. List' \in ListType /\ Has(List', F)
    <2>1. List' \in ListType /\ List'.first = List.first /\ List'.next = next'
      BY <1>1, <1>2, <1>7, ListIs DEF List, ListType
    <2>2. ASSUME NEW b \in F PROVE b \notin i .. last
      <3>1. b # i /\ i \in L
        BY <1>1, <1>2
      <3>2. CASE b < i
        BY <1>2, <3>1, <3>2 DEF Laid
      <3>3. CASE i < b
        <4>1. i + n <= b /\ n \in Nat /\ i \in Nat /\ b \in Nat
          BY <1>2, <3>1, <3>3 DEF Laid
        <4> QED
          BY <4>1
      <3> QED
        BY <1>2, <1>4, <3>1, <3>2, <3>3 DEF Laid
    <2>3. \A b \in F : List'.next[b] = List.next[b]
      BY <1>2, <1>6, <2>1, <2>2
    <2> QED
      BY <1>2, <2>1, <2>3, HasSame
  <1>10. DOMAIN live' = L /\ \A j \in L : live'[j] \in Requests
    BY <1>1, <1>2 DEF L
  <1>11. Inv' /\ FreeRuns' = F
    BY <1>7, <1>8, <1>9, <1>10, Kept
  <1> QED
    BY <1>1, <1>8, <1>11 DEF F, L

\* The region becomes one free run, whatever it held.
LEMMA OneRun ==
  ASSUME NEW h \in Memory, NEW f \in Memory, NEW n \in [Blocks -> Links], Reset(h, n, f)
  PROVE  Inv'
  <1> DEFINE T == FreeWord(TotalBlocks)
  <1>1. T \in Word /\ T.blocks = TotalBlocks /\ 0 \in Blocks /\ TotalBlocks - 1 \in Blocks
    BY WordsAre, FreeListAssumption DEF Blocks
  <1>2. /\ head' = [h EXCEPT ![0] = T]
        /\ next' = [n EXCEPT ![0] = -1]
        /\ foot' = WriteFooter(f, 0, T)
        /\ freeHead' = 0
        /\ live' = << >>
    BY DEF Reset
  <1>3. foot' = [f EXCEPT ![TotalBlocks - 1] = T]
    <2>1. 0 + T.blocks - 1 = TotalBlocks - 1
      BY <1>1, FreeListAssumption
    <2> QED
      BY <1>2, <2>1 DEF WriteFooter
  <1> HIDE DEF T
  <1>4. head' \in Memory /\ foot' \in Memory /\ head'[0] = T /\ foot'[TotalBlocks - 1] = T
    BY <1>1, <1>2, <1>3 DEF Memory
  <1>5. List' \in ListType /\ List'.first = 0 /\ List'.next[0] = -1
    <2>1. next' \in [Blocks -> Links] /\ next'[0] = -1
      BY <1>1, <1>2, LinksAre
    <2>2. freeHead' \in Links
      BY <1>1, <1>2, LinksAre
    <2> QED
      BY <1>2, <2>1, <2>2 DEF List, ListType
  <1>6. Has(List', {0})
    BY <1>5, HasOne
  <1>7. Shape({0}, {}, head', foot')
    BY <1>4, ShapeOne DEF T
  <1>8. DOMAIN live' = {}
    BY <1>2
  <1>9. \A i \in {} : live'[i] \in Requests
    OBVIOUS
  <1> QED
    BY <1>4, <1>5, <1>6, <1>7, <1>8, <1>9, Kept

LEMMA Started == Init => Inv
  <1> SUFFICES ASSUME Init PROVE Inv
    OBVIOUS
  <1> DEFINE T == FreeWord(TotalBlocks)
  <1>1. T \in Word /\ T.blocks = TotalBlocks /\ 0 \in Blocks /\ TotalBlocks - 1 \in Blocks
    BY WordsAre, FreeListAssumption DEF Blocks
  <1>2. /\ head = [[b \in Blocks |-> UsedWord(0)] EXCEPT ![0] = T]
        /\ next = [[b \in Blocks |-> 0] EXCEPT ![0] = -1]
        /\ foot = WriteFooter([b \in Blocks |-> UsedWord(0)], 0, T)
        /\ freeHead = 0
        /\ live = << >>
    BY DEF Init
  <1>3. foot = [[b \in Blocks |-> UsedWord(0)] EXCEPT ![TotalBlocks - 1] = T]
    <2>1. 0 + T.blocks - 1 = TotalBlocks - 1
      BY <1>1, FreeListAssumption
    <2> QED
      BY <1>2, <2>1 DEF WriteFooter
  <1> HIDE DEF T
  <1>4. UsedWord(0) \in Word
    BY WordsAre, FreeListAssumption
  <1>5. head \in Memory /\ foot \in Memory /\ head[0] = T /\ foot[TotalBlocks - 1] = T
    BY <1>1, <1>2, <1>3, <1>4 DEF Memory
  <1>6. List \in ListType /\ List.first = 0 /\ List.next[0] = -1
    <2>1. next \in [Blocks -> Links] /\ next[0] = -1
      BY <1>1, <1>2, LinksAre
    <2>2. freeHead \in Links
      BY <1>1, <1>2, LinksAre
    <2> QED
      BY <1>2, <2>1, <2>2 DEF List, ListType
  <1>7. Has(List, {0})
    BY <1>6, HasOne
  <1>8. FreeRuns = {0}
    BY <1>6, <1>7, HasWalk DEF FreeRuns
  <1>9. Shape({0}, {}, head, foot)
    BY <1>5, ShapeOne DEF T
  <1>10. DOMAIN live = {}
    BY <1>2
  <1>11. TypeOK
    BY <1>2, <1>5, <1>6, <1>10 DEF TypeOK, Memory, List, ListType
  <1> QED
    BY <1>7, <1>8, <1>9, <1>10, <1>11 DEF Inv

\* One step per action.
LEMMA Steps == ASSUME EntriesOnly PROVE Inv /\ [Next]_vars => Inv'
  <1> SUFFICES ASSUME Inv, [Next]_vars PROVE Inv'
    OBVIOUS
  <1>1. ASSUME NEW bytes \in Requests, AllocSplit(bytes) PROVE Inv'
    BY <1>1, Split
  <1>2. ASSUME NEW bytes \in Requests, AllocWhole(bytes) PROVE Inv'
    BY <1>2, Whole
  <1>3. ASSUME UNCHANGED vars PROVE Inv'
    BY <1>3 DEF Inv, TypeOK, vars, FreeRuns, List
  <1>4. ASSUME NEW bytes \in Requests, AllocFails(bytes) PROVE Inv'
    BY <1>3, <1>4 DEF AllocFails
  <1>5. ASSUME NEW i \in Blocks, Free(i) PROVE Inv'
    BY <1>5, Freed
  <1>6. ASSUME NEW i \in Blocks, NEW w \in InnerWords, NEW t \in TailWords, Fill(i, w, t)
        PROVE  Inv'
    BY <1>6, Filled
  <1>7. ASSUME Clear PROVE Inv'
    <2>1. head \in Memory /\ foot \in Memory /\ next \in [Blocks -> Links]
      BY DEF Inv, TypeOK, Memory
    <2> QED
      BY <1>7, <2>1, OneRun DEF Clear
  <1> QED
    BY <1>1, <1>2, <1>3, <1>4, <1>5, <1>6, <1>7 DEF Next

\* Clients that write entries leave the invariant as it is.
LEMMA Invariant == ASSUME EntriesOnly PROVE Spec => []Inv
  <1>1. Init => Inv
    BY Started
  <1>2. Inv /\ [Next]_vars => Inv'
    BY Steps
  <1> QED
    BY <1>1, <1>2, PTL DEF Spec
-----------------------------------------------------------------------------
(* The theorems                                                            *)

\* The words of the allocator keep their types: no run is longer than the
\* region and no link leads out of it, whatever clients write into buffers.
THEOREM TypeCorrect == ASSUME EntriesOnly PROVE Spec => []TypeOK
  <1>1. Inv => TypeOK
    BY DEF Inv
  <1>2. Spec => []Inv
    BY Invariant
  <1> QED
    BY <1>1, <1>2, PTL

\* The last word of every run tells whether it is free, which is what Free goes by.
THEOREM FootersTell == ASSUME EntriesOnly PROVE Spec => []FooterMarksFree
  <1>1. Inv => FooterMarksFree
    BY DEF Inv, Shape, FooterMarksFree
  <1>2. Spec => []Inv
    BY Invariant
  <1> QED
    BY <1>1, <1>2, PTL

\* The spans of the runs, from the invariant.
LEMMA Spans ==
  ASSUME Inv
  PROVE  /\ \A b \in Blocks : \E i \in Starts : b \in Span(i)
         /\ \A i, j \in Starts : i # j => Span(i) \cap Span(j) = {}
         /\ \A i \in Starts : i \in Span(i) /\ Span(i) \subseteq Blocks
         /\ FreeRuns \cap DOMAIN live = {}
         /\ Starts = FreeRuns \cup DOMAIN live
  <1> DEFINE S == FreeRuns \cup DOMAIN live
  <1>1. Starts = S
    BY DEF Starts
  <1>2. Laid(S, head) /\ Tiles(S, LenOf(head)) /\ FreeRuns \cap DOMAIN live = {}
    BY InvIs DEF Shape
  <1> HIDE DEF S
  <1>3. /\ \A i \in S : /\ i \in Nat /\ head[i].blocks \in Nat /\ head[i].blocks >= 1
                      /\ i + head[i].blocks <= TotalBlocks
        /\ \A i, j \in S : i < j => i + head[i].blocks <= j
    BY <1>2 DEF Laid
  <1>4. ASSUME NEW b \in Blocks PROVE \E i \in S : b \in Span(i)
    <2>1. PICK i \in S : i <= b /\ b < i + LenOf(head)[i]
      BY <1>2 DEF Tiles
    <2>2. LenOf(head)[i] = head[i].blocks
      BY <1>2 DEF Laid
    <2> QED
      BY <1>3, <2>1, <2>2 DEF Span, Blocks
  <1>5. ASSUME NEW i \in S, NEW j \in S, i < j PROVE Span(i) \cap Span(j) = {}
    BY <1>3, <1>5 DEF Span
  <1>6. ASSUME NEW i \in S, NEW j \in S, i # j PROVE Span(i) \cap Span(j) = {}
    <2>1. i < j \/ j < i
      BY <1>3, <1>6
    <2> QED
      BY <1>5, <2>1
  <1>7. ASSUME NEW i \in S PROVE i \in Span(i) /\ Span(i) \subseteq Blocks
    BY <1>3, FreeListAssumption DEF Span, Blocks
  <1> QED
    BY <1>1, <1>2, <1>4, <1>6, <1>7 DEF S

\* The list has as many nodes as there are free runs.
LEMMA OneNodeEach ==
  ASSUME Inv
  PROVE  /\ Walk(List)[TotalBlocks] = -1
         /\ IsFiniteSet(Nodes) /\ IsFiniteSet(FreeRuns)
         /\ Cardinality(FreeRuns) = Cardinality(Nodes)
         /\ FreeRuns = {Walk(List)[k] : k \in Nodes}
         /\ \A j, k \in Nodes : Walk(List)[j] = Walk(List)[k] => j = k
         /\ \A k \in Nodes : Walk(List)[k] \in FreeRuns
  <1> DEFINE w == Walk(List)
             f == [k \in Nodes |-> w[k]]
  <1>1. List \in ListType /\ Has(List, FreeRuns)
    BY InvIs
  <1>2. /\ w[TotalBlocks] = -1
        /\ \A j, k \in 0 .. TotalBlocks : w[j] = w[k] /\ w[j] # -1 => j = k
        /\ w \in [0 .. TotalBlocks -> Links]
    BY <1>1, HasWalk, WalkIs
  <1>3. Nodes = {k \in 0 .. TotalBlocks : w[k] >= 0} /\ FreeRuns = {w[k] : k \in 0 .. TotalBlocks} \ {-1}
    BY DEF Nodes, FreeRuns
  <1> HIDE DEF w
  <1>4. \A k \in 0 .. TotalBlocks : k \in Nodes <=> w[k] # -1
    BY <1>2, <1>3 DEF Links
  <1>5. Nodes \subseteq 0 .. TotalBlocks /\ FreeRuns = {w[k] : k \in Nodes}
    BY <1>3, <1>4
  <1>6. IsFiniteSet(Nodes)
    <2>1. IsFiniteSet(0 .. TotalBlocks)
      BY FS_Interval, FreeListAssumption
    <2> QED
      BY <1>5, <2>1, FS_Subset
  <1>7. \A j, k \in Nodes : w[j] = w[k] => j = k
    BY <1>2, <1>4, <1>5
  <1>8. f \in Bijection(Nodes, FreeRuns)
    <2>1. f \in [Nodes -> FreeRuns]
      BY <1>5
    <2>2. \A j, k \in Nodes : f[j] = f[k] => j = k
      BY <1>7
    <2>3. \A x \in FreeRuns : \E k \in Nodes : f[k] = x
      BY <1>5
    <2> HIDE DEF f
    <2> QED
      BY <2>1, <2>2, <2>3 DEF Bijection, Injection, Surjection, IsInjective
  <1>9. ExistsBijection(Nodes, FreeRuns)
    BY <1>8 DEF ExistsBijection
  <1>10. IsFiniteSet(FreeRuns) /\ Cardinality(FreeRuns) = Cardinality(Nodes)
    BY <1>6, <1>9, FS_Bijection
  <1> QED
    BY <1>2, <1>5, <1>6, <1>7, <1>10 DEF w

\* No block is lost, and none is handed out while it is in use.
THEOREM EveryBlockOnce == ASSUME EntriesOnly PROVE Spec => []Tiling
  <1>1. Inv => Tiling
    BY Spans, OneNodeEach DEF Tiling
  <1>2. Spec => []Inv
    BY Invariant
  <1> QED
    BY <1>1, <1>2, PTL

\* What is not in the span of a live buffer is in that of a free run.
LEMMA UnusedIs ==
  ASSUME Inv
  PROVE  /\ \A b \in Blocks : b \in Unused <=> \E i \in FreeRuns : b \in Span(i)
         /\ \A b \in Unused : b \in Blocks
  BY Spans DEF Unused

\* A gap between live buffers is never split over two free runs, so whoever
\* asks for no more than it has gets it.
THEOREM GapIsFound == ASSUME EntriesOnly PROVE Spec => []AllocFindsGap
  <1>1. ASSUME Inv PROVE AllocFindsGap
    <2> SUFFICES ASSUME NEW bytes \in Requests, NEW s \in Blocks,
                        s .. s + Need(bytes) - 1 \subseteq Unused
                 PROVE  Fits(bytes) # {}
      BY DEF AllocFindsGap
    <2>1. Need(bytes) \in Nat /\ Need(bytes) >= 1 /\ s \in Nat
      BY NeedIs DEF Blocks
    <2> DEFINE need == Need(bytes)
    <2> HIDE DEF need
    <2>2. need \in Nat /\ need >= 1 /\ s .. s + need - 1 \subseteq Unused
      BY <2>1 DEF need
    <2>3. s \in Unused
      BY <2>1, <2>2
    <2>4. PICK i \in FreeRuns : s \in Span(i)
      BY <1>1, <2>3, UnusedIs
    <2> DEFINE e == i + head[i].blocks
    <2>5. /\ i \in Nat /\ head[i].blocks \in Nat
          /\ e = TotalBlocks \/ e \in FreeRuns \cup DOMAIN live
      BY <1>1, InvIs DEF Laid
    <2>6. e \notin FreeRuns
      BY <1>1, InvIs DEF Shape
    <2>7. i <= s /\ s < e
      BY <2>1, <2>4, <2>5 DEF Span
    <2>8. e \notin Unused
      <3>1. CASE e = TotalBlocks
        <4>1. e \notin Blocks
          BY <3>1, FreeListAssumption DEF Blocks
        <4> QED
          BY <1>1, <4>1, UnusedIs
      <3>2. CASE e \in DOMAIN live
        BY <1>1, <3>2, Spans DEF Unused
      <3> QED
        BY <2>5, <2>6, <3>1, <3>2
    <2>9. s + need <= e
      <3> SUFFICES ASSUME e < s + need PROVE FALSE
        BY <2>1, <2>2, <2>5
      <3>1. e \in s .. s + need - 1
        BY <2>1, <2>2, <2>5, <2>7
      <3> QED
        BY <2>2, <2>8, <3>1
    <2>10. need <= head[i].blocks
      BY <2>1, <2>2, <2>5, <2>7, <2>9
    <2>11. PICK k \in Nodes : Walk(List)[k] = i
      BY <1>1, OneNodeEach
    <2>12. k \in Fits(bytes)
      BY <2>10, <2>11 DEF Fits, Nodes, need
    <2> QED
      BY <2>12
  <1>2. Inv => AllocFindsGap
    BY <1>1
  <1>3. Spec => []Inv
    BY Invariant
  <1> QED
    BY <1>2, <1>3, PTL
\* Requests so large that rounding up would wrap are not made.
NoWrap == \A bytes \in Requests : bytes + 4 + BLOCK_SIZE - 1 < WordSize

LEMMA RoundedUp ==
  ASSUME NEW b \in Nat \ {0}, NEW n \in Nat
  PROVE  n + 4 <= ((n + 4 + b - 1) \div b) * b
  <1> DEFINE m == n + 4 + b - 1
             q == m \div b
             r == m % b
  <1>1. m = q * b + r /\ r <= b - 1 /\ q \in Int /\ r \in Int
    BY Z3
  <1> DEFINE p == q * b
  <1>2. p \in Int /\ m = p + r
    BY <1>1, Z3
  <1> HIDE DEF q, r, p
  <1>3. n + 4 <= p
    BY <1>1, <1>2
  <1> QED
    BY <1>3 DEF p, q

LEMMA Product ==
  ASSUME NEW x \in Nat, NEW y \in Nat, NEW b \in Nat, x <= y
  PROVE  x * b <= y * b
  <1>1. y * b = x * b + (y - x) * b /\ (y - x) * b >= 0
    BY Z3
  <1> QED
    BY <1>1

LEMMA NeedFits ==
  ASSUME NoWrap, NEW bytes \in Requests
  PROVE  bytes + 4 <= Need(bytes) * BLOCK_SIZE
  <1>1. /\ BLOCK_SIZE \in Nat \ {0} /\ WordSize \in Nat \ {0} /\ bytes \in Nat
        /\ bytes + 4 + BLOCK_SIZE - 1 < WordSize
    BY FreeListAssumption DEF NoWrap
  <1>2. (bytes + 4 + BLOCK_SIZE - 1) % WordSize = bytes + 4 + BLOCK_SIZE - 1
    BY <1>1, Z3
  <1>3. BlocksNeeded(bytes) = (bytes + 4 + BLOCK_SIZE - 1) \div BLOCK_SIZE
    BY <1>2 DEF BlocksNeeded
  <1>4. bytes + 4 <= BlocksNeeded(bytes) * BLOCK_SIZE
    BY <1>1, <1>3, RoundedUp
  <1>5. BlocksNeeded(bytes) \in Nat
    BY <1>1, <1>3, Z3
  <1>6. BlocksNeeded(bytes) * BLOCK_SIZE <= Need(bytes) * BLOCK_SIZE
    BY <1>1, <1>5, NeedIs, Product
  <1>7. BlocksNeeded(bytes) * BLOCK_SIZE \in Int /\ Need(bytes) * BLOCK_SIZE \in Int
    BY <1>1, <1>5, NeedIs, Z3
  <1> QED
    BY <1>1, <1>4, <1>6, <1>7

\* The run of a live buffer has room for its size word and all its bytes, so a
\* client that stays in its buffer stays in its run.
THEOREM BuffersFit == ASSUME EntriesOnly, NoWrap PROVE Spec => []BufferFits
  <1>1. Init => BufferFits
    BY DEF Init, BufferFits
  <1>2. ASSUME Inv, BufferFits, NEW bytes \in Requests, NEW c \in Blocks, Takes(c, bytes)
        PROVE  BufferFits'
    <2>1. /\ DOMAIN live' = DOMAIN live \cup {c} /\ live'[c] = bytes
          /\ \A j \in DOMAIN live : j # c => live'[j] = live[j]
          /\ head'[c].blocks = Need(bytes)
          /\ \A j \in DOMAIN live : head'[j] = head[j]
      BY <1>2 DEF Takes
    <2>2. live'[c] + 4 <= head'[c].blocks * BLOCK_SIZE
      BY <2>1, NeedFits
    <2>3. ASSUME NEW j \in DOMAIN live, j # c PROVE live'[j] + 4 <= head'[j].blocks * BLOCK_SIZE
      BY <1>2, <2>1, <2>3 DEF BufferFits
    <2> QED
      BY <2>1, <2>2, <2>3 DEF BufferFits
  <1>3. ASSUME NEW i \in Blocks, BufferFits, Gives(i) PROVE BufferFits'
    BY <1>3 DEF Gives, BufferFits
  <1>4. ASSUME Inv, BufferFits, [Next]_vars PROVE BufferFits'
    <2>1. ASSUME NEW bytes \in Requests, AllocSplit(bytes) \/ AllocWhole(bytes) PROVE BufferFits'
      <3>1. \E c \in Blocks : Takes(c, bytes)
        BY <1>4, <2>1, Split, Whole
      <3> QED
        BY <1>2, <1>4, <3>1
    <2>2. ASSUME UNCHANGED vars PROVE BufferFits'
      BY <1>4, <2>2 DEF vars, BufferFits
    <2>3. ASSUME NEW bytes \in Requests, AllocFails(bytes) PROVE BufferFits'
      BY <2>2, <2>3 DEF AllocFails
    <2>4. ASSUME NEW i \in Blocks, Free(i) PROVE BufferFits'
      BY <1>3, <1>4, <2>4, Freed
    <2>5. ASSUME NEW i \in Blocks, NEW w \in InnerWords, NEW t \in TailWords, Fill(i, w, t)
          PROVE  BufferFits'
      <3>1. live' = live /\ \A j \in DOMAIN live : head'[j] = head[j]
        BY <1>4, <2>5, Filled
      <3> QED
        BY <1>4, <3>1 DEF BufferFits
    <2>6. ASSUME Clear PROVE BufferFits'
      BY <2>6 DEF Clear, Reset, BufferFits
    <2> QED
      BY <1>4, <2>1, <2>2, <2>3, <2>4, <2>5, <2>6 DEF Next
  <1>5. Inv /\ BufferFits /\ [Next]_vars => BufferFits'
    BY <1>4
  <1>6. Spec => []Inv
    BY Invariant
  <1> QED
    BY <1>1, <1>5, <1>6, PTL DEF Spec
-----------------------------------------------------------------------------
(* Status                                                                  *)

Lengths == [i \in FreeRuns |-> head[i].blocks]

Covered(G) == UNION {Span(i) : i \in G}

\* The blocks of some free runs are as many as their lengths add up to.
LEMMA BlocksAdd ==
  ASSUME Inv
  PROVE  \A G \in SUBSET FreeRuns :
           IsFiniteSet(Covered(G)) /\ Cardinality(Covered(G)) = SumFunctionOnSet(Lengths, G)
  <1> DEFINE Q == {G \in SUBSET FreeRuns : /\ IsFiniteSet(Covered(G))
                                          /\ Cardinality(Covered(G)) = SumFunctionOnSet(Lengths, G)}
  <1>1. IsFiniteSet(FreeRuns)
    BY OneNodeEach
  <1>2. \A i \in FreeRuns : i \in Nat /\ head[i].blocks \in Nat /\ head[i].blocks >= 1
    BY InvIs DEF Laid
  <1>3. {} \in Q
    <2>1. Covered({}) = {}
      BY DEF Covered
    <2> QED
      BY <2>1, FS_EmptySet, SumEmpty
  <1>4. ASSUME NEW G \in SUBSET FreeRuns, NEW i \in FreeRuns \ G, G \in Q PROVE G \cup {i} \in Q
    <2> DEFINE H == G \cup {i}
    <2>1. Covered(H) = Covered(G) \cup Span(i)
      BY DEF Covered
    <2>2. Covered(G) \cap Span(i) = {}
      <3>1. \A j \in G : Span(j) \cap Span(i) = {}
        BY Spans
      <3> QED
        BY <3>1 DEF Covered
    <2>3. IsFiniteSet(Span(i)) /\ Cardinality(Span(i)) = head[i].blocks
      <3> DEFINE n == head[i].blocks
                 e == i + n - 1
      <3>1. i \in Int /\ e \in Int /\ n \in Nat /\ i <= e /\ e - i + 1 = n
        BY <1>2
      <3> HIDE DEF e
      <3>2. IsFiniteSet(i .. e) /\ Cardinality(i .. e) = IF i > e THEN 0 ELSE e - i + 1
        BY <3>1, FS_Interval
      <3>3. Cardinality(i .. e) = n
        BY <3>1, <3>2
      <3> QED
        BY <3>2, <3>3 DEF e, Span
    <2>4. IsFiniteSet(Covered(G)) /\ Cardinality(Covered(G)) = SumFunctionOnSet(Lengths, G)
      BY <1>4
    <2>5. /\ IsFiniteSet(Covered(H))
          /\ Cardinality(Covered(H)) = Cardinality(Covered(G)) + head[i].blocks
      <3>1. /\ IsFiniteSet(Covered(G) \cup Span(i))
            /\ Cardinality(Covered(G) \cup Span(i))
                 = Cardinality(Covered(G)) + Cardinality(Span(i)) - Cardinality(Covered(G) \cap Span(i))
        BY <2>3, <2>4, FS_Union
      <3>2. Cardinality(Covered(G) \cap Span(i)) = 0
        BY <2>2, FS_EmptySet, Zenon
      <3>3. Cardinality(Covered(G)) \in Nat /\ head[i].blocks \in Nat
        BY <1>2, <2>4, FS_CardinalityType
      <3>4. Cardinality(Covered(H)) = Cardinality(Covered(G)) + head[i].blocks - 0
        BY <2>1, <2>3, <3>1, <3>2, Zenon
      <3>5. IsFiniteSet(Covered(H))
        BY <2>1, <3>1, Zenon
      <3> QED
        BY <3>3, <3>4, <3>5
    <2>6. SumFunctionOnSet(Lengths, H) = head[i].blocks + SumFunctionOnSet(Lengths, G)
      <3>1. /\ IsFiniteSet(H) /\ i \in H /\ H \ {i} = G
            /\ \A j \in H : Lengths[j] \in Int
        BY <1>1, <1>2, FS_Subset DEF Lengths
      <3>2. SumFunctionOnSet(Lengths, H) = Lengths[i] + SumFunctionOnSet(Lengths, H \ {i})
        BY <3>1, SumRemove
      <3> QED
        BY <3>1, <3>2 DEF Lengths
    <2>7. Cardinality(Covered(G)) \in Nat
      BY <2>4, FS_CardinalityType
    <2>8. Cardinality(Covered(H)) = SumFunctionOnSet(Lengths, H)
      BY <1>2, <2>4, <2>5, <2>6, <2>7
    <2> QED
      BY <2>5, <2>8
  <1> HIDE DEF Q
  <1>5. \A G \in SUBSET FreeRuns : G \in Q
    BY <1>1, <1>3, <1>4, FiniteSubsets
  <1> QED
    BY <1>5 DEF Q

\* The blocks that the walk of Status leaves are those of the live buffers.
LEMMA UsedIs ==
  ASSUME Inv
  PROVE  UsedBlocks = Cardinality(Blocks \ Unused)
  <1> DEFINE w == Walk(List)
             f == [k \in Nodes |-> head[w[k]].blocks]
  <1>1. /\ IsFiniteSet(Nodes) /\ FreeRuns = {w[k] : k \in Nodes}
        /\ \A j, k \in Nodes : w[j] = w[k] => j = k
        /\ \A k \in Nodes : w[k] \in FreeRuns
    BY OneNodeEach
  <1>2. \A i \in FreeRuns : head[i].blocks \in Nat
    BY InvIs DEF Laid
  <1>3. UsedBlocks = TotalBlocks - SumFunctionOnSet(f, Nodes)
    BY DEF UsedBlocks, SumFunction
  <1>4. /\ \A k \in Nodes : f[k] \in Int
        /\ \A k \in Nodes : Lengths[w[k]] = f[k]
    BY <1>1, <1>2 DEF Lengths
  <1> HIDE DEF w, f
  <1>5. SumFunctionOnSet(Lengths, FreeRuns) = SumFunctionOnSet(f, Nodes)
    BY <1>1, <1>4, SumRenamed
  <1>6. IsFiniteSet(Blocks) /\ Cardinality(Blocks) = TotalBlocks
    BY FS_Interval, FreeListAssumption DEF Blocks
  <1>7. Unused = Covered(FreeRuns)
    <2>1. \A i \in FreeRuns : Span(i) \subseteq Blocks
      BY Spans
    <2> QED
      BY <2>1, UnusedIs DEF Covered
  <1>8. Cardinality(Unused) = SumFunctionOnSet(Lengths, FreeRuns)
    BY <1>7, BlocksAdd
  <1>9. Blocks \cap Unused = Unused
    BY DEF Unused
  <1>10. Cardinality(Blocks \ Unused) = TotalBlocks - Cardinality(Unused)
    BY <1>6, <1>9, FS_Difference
  <1> QED
    BY <1>3, <1>5, <1>8, <1>10

LEMMA GapsAre ==
  ASSUME Inv
  PROVE  Gaps = FreeRuns
  <1>1. /\ \A i \in FreeRuns \cup DOMAIN live : i \in Nat /\ head[i].blocks \in Nat /\ i \in Span(i)
        /\ FreeRuns \subseteq Blocks
    BY InvIs, Spans DEF Laid
  <1>2. ASSUME NEW i \in FreeRuns PROVE i \in Unused /\ i - 1 \notin Unused
    <2>1. i \in Unused
      BY <1>1, UnusedIs
    <2>2. CASE i = 0
      <3>1. i - 1 \notin Blocks
        BY <2>2 DEF Blocks
      <3> QED
        BY <2>1, <3>1, UnusedIs
    <2>3. CASE i # 0
      <3>1. Tiles(FreeRuns \cup DOMAIN live, LenOf(head))
        BY DEF Inv, Shape
      <3>2. PICK j \in FreeRuns \cup DOMAIN live : j + LenOf(head)[j] = i
        BY <2>3, <3>1, TileBefore
      <3>3. j + head[j].blocks = i /\ head[j].blocks >= 1
        BY <3>2, InvIs DEF Laid
      <3>4. j \notin FreeRuns
        BY <3>3, InvIs DEF Shape
      <3>5. i - 1 \in Span(j)
        BY <1>1, <3>3 DEF Span
      <3> QED
        BY <2>1, <3>4, <3>5 DEF Unused
    <2> QED
      BY <2>2, <2>3
  <1>3. ASSUME NEW b \in Unused, b - 1 \notin Unused PROVE b \in FreeRuns
    <2>1. PICK i \in FreeRuns : b \in Span(i)
      BY UnusedIs
    <2>2. CASE b = i
      BY <2>2
    <2>3. CASE b # i
      <3>1. b - 1 \in Span(i)
        BY <1>1, <2>1, <2>3 DEF Span
      <3>2. b - 1 \in Blocks
        BY <3>1, Spans
      <3> QED
        BY <1>3, <3>1, <3>2, UnusedIs
    <2> QED
      BY <2>2, <2>3
  <1> QED
    BY <1>2, <1>3 DEF Gaps

\* Status counts the blocks in use and the gaps between them exactly: what was
\* freed next to each other has become one run.
THEOREM StatusIsExact == ASSUME EntriesOnly PROVE Spec => []StatusExact
  <1>1. Inv => StatusExact
    BY UsedIs, GapsAre, OneNodeEach DEF StatusExact, FreeFragments
  <1>2. Spec => []Inv
    BY Invariant
  <1> QED
    BY <1>1, <1>2, PTL

-----------------------------------------------------------------------------
(* The heap                                                                *)

allocs == [i \in DOMAIN live |-> head[i].blocks]

LEMMA HeapAlloc ==
  ASSUME Inv, Inv', NEW bytes \in Requests, NEW c \in Blocks, Takes(c, bytes)
  PROVE  \E n \in 1 .. TotalBlocks : Abstract!Alloc(c, n)
  <1> DEFINE n == Need(bytes)
             S == FreeRuns' \cup DOMAIN live'
  <1>1. /\ c \in FreeRuns /\ head'[c].blocks = n
        /\ DOMAIN live' = DOMAIN live \cup {c}
        /\ \A j \in DOMAIN live : head'[j] = head[j]
    BY DEF Takes
  <1>2. c \notin DOMAIN live
    BY <1>1, InvIs
  <1>3. Laid(S, head')
    <2>1. head' \in Memory /\ Shape(FreeRuns', DOMAIN live', head', foot')
      BY DEF Inv, TypeOK, Memory
    <2> QED
      BY <2>1, ShapeRuns
  <1> HIDE DEF n
  <1>4. /\ \A j \in S : j \in Nat /\ head'[j].blocks \in Nat /\ j + head'[j].blocks <= TotalBlocks
        /\ n >= 1 /\ n <= TotalBlocks
        /\ \A j, k \in S : j < k => j + head'[j].blocks <= k
    BY <1>1, <1>3 DEF Laid
  <1>5. c \in S /\ \A j \in DOMAIN live : j \in S /\ j # c
    BY <1>1, <1>2
  <1> HIDE DEF S
  <1>6. c .. c + n - 1 \subseteq Blocks /\ n \in 1 .. TotalBlocks
    BY <1>1, <1>4, <1>5, FreeListAssumption DEF Blocks
  <1>7. ASSUME NEW j \in DOMAIN live
        PROVE  (c .. c + n - 1) \cap (j .. j + head[j].blocks - 1) = {}
    <2>1. /\ c \in Nat /\ j \in Nat /\ c # j /\ n \in Nat /\ head[j].blocks \in Nat
          /\ c < j => c + n <= j
          /\ j < c => j + head[j].blocks <= c
      BY <1>1, <1>4, <1>5
    <2> QED
      BY <2>1
  <1>8. allocs' = [j \in DOMAIN live \cup {c} |-> IF j = c THEN n ELSE head[j].blocks]
    BY <1>1, <1>2 DEF allocs
  <1>9. Abstract!Alloc(c, n)
    BY <1>2, <1>6, <1>7, <1>8 DEF Abstract!Alloc, Abstract!Span, Abstract!Blocks, Blocks, allocs
  <1> QED
    BY <1>6, <1>9

LEMMA HeapSame ==
  ASSUME live' = live, \A j \in DOMAIN live : head'[j] = head[j]
  PROVE  UNCHANGED allocs
  BY DEF allocs

\* Splitting, merging, relinking and what clients write are invisible from
\* outside: live buffers are disjoint intervals which only Free and Clear end.
THEOREM Refinement == ASSUME EntriesOnly PROVE Spec => ImplementsHeap
  <1>1. Init => Abstract!Init
    BY DEF Init, Abstract!Init
  <1>2. ASSUME Inv, Inv', [Next]_vars PROVE Abstract!Next \/ UNCHANGED allocs
    <2>1. ASSUME NEW bytes \in Requests, AllocSplit(bytes) \/ AllocWhole(bytes)
          PROVE  Abstract!Next
      <3>1. PICK c \in Blocks : Takes(c, bytes)
        BY <1>2, <2>1, Split, Whole
      <3>2. PICK n \in 1 .. TotalBlocks : Abstract!Alloc(c, n)
        BY <1>2, <3>1, HeapAlloc
      <3> QED
        BY <3>2 DEF Abstract!Next, Abstract!Blocks, Blocks
    <2>2. ASSUME UNCHANGED vars PROVE UNCHANGED allocs
      BY <2>2 DEF vars, allocs
    <2>3. ASSUME NEW bytes \in Requests, AllocFails(bytes) PROVE UNCHANGED allocs
      BY <2>2, <2>3 DEF AllocFails
    <2>4. ASSUME NEW i \in Blocks, Free(i) PROVE Abstract!Next
      <3>1. Gives(i)
        BY <1>2, <2>4, Freed
      <3>2. Abstract!Free(i)
        BY <3>1 DEF Gives, Abstract!Free
      <3> QED
        BY <3>2 DEF Abstract!Next, Abstract!Blocks, Blocks
    <2>5. ASSUME NEW i \in Blocks, NEW w \in InnerWords, NEW t \in TailWords, Fill(i, w, t)
          PROVE  UNCHANGED allocs
      <3>1. live' = live /\ \A j \in DOMAIN live : head'[j] = head[j]
        BY <1>2, <2>5, Filled
      <3> QED
        BY <3>1, HeapSame
    <2>6. ASSUME Clear PROVE Abstract!Next
      BY <2>6 DEF Clear, Reset, Abstract!Next, Abstract!Reset
    <2> QED
      BY <1>2, <2>1, <2>2, <2>3, <2>4, <2>5, <2>6 DEF Next
  <1>3. Inv /\ Inv' /\ [Next]_vars => [Abstract!Next]_allocs
    BY <1>2
  <1>4. Spec => []Inv
    BY Invariant
  <1> QED
    BY <1>1, <1>3, <1>4, PTL DEF Spec, ImplementsHeap, Abstract!Spec, allocs
=============================================================================
