-------------------------- MODULE ObjectRefsProofs --------------------------
(***************************************************************************)
(* Reference counts are exact for any number of variables, objects and     *)
(* nested finalizers.                                                      *)
(***************************************************************************)
EXTENDS ObjectRefs, FiniteSetTheorems, TLAPS

\* Null is neither a holder nor an object, and no list element is a variable.
Wellformed ==
  /\ IsFiniteSet(Holders)
  /\ Null \notin Holders \cup Objs
  /\ Items \cap Vars = {}

Targets == Objs \cup {Null}

FrameType ==
  [obj : Objs, var : Vars \cup {Null}, from : Vars \cup {Null}, moves : BOOLEAN,
   uses : SUBSET Vars]

FrameOK(f) ==
  /\ f \in FrameType
  /\ f.uses = {f.var, f.from} \ {Null}
  /\ f.from # Null => f.var # Null

\* No two operations that wait for a finalizer use the same variable.
StackOK ==
  /\ stack \in Seq(FrameType)
  /\ \A i \in DOMAIN stack : FrameOK(stack[i])
  /\ \A i, j \in DOMAIN stack : i # j => stack[i].uses \cap stack[j].uses = {}

RefInv ==
  /\ ptr \in [Holders -> Targets]
  /\ refs \in [Objs -> Nat]
  /\ StackOK
  /\ RefsExact

-----------------------------------------------------------------------------
(* The same for any pointers p and any set F of frames.                    *)

Frames(s) == {s[i] : i \in DOMAIN s}

UsedIn(F) == UNION {f.uses : f \in F}
VarsOf(F) == {f.var : f \in F}

\* The variable of f will get o, which is already counted.
Promises(p, f, o) == f.from # Null /\ ~f.moves /\ p[f.from] = o

OwesIn(p, F, o) ==
  {h \in Holders : \/ h \notin VarsOf(F) /\ p[h] = o
                   \/ \E f \in F : f.var = h /\ Promises(p, f, o)}

LEMMA OwesIs ==
  ASSUME StackOK, Wellformed, NEW o
  PROVE  Held(o) \cup InFlight(o) = OwesIn(ptr, Frames(stack), o)
  <1>1. Resetting = VarsOf(Frames(stack))
    BY DEF Resetting, VarsOf, Frames
  <1>2. InFlight(o) = {f.var : f \in {g \in Frames(stack) : Promises(ptr, g, o)}}
    BY DEF InFlight, Frames, Promises
  <1>3. \A f \in Frames(stack) : f.from # Null => f.var \in Holders
    BY DEF StackOK, Frames, FrameOK, FrameType, Holders
  <1>4. InFlight(o) = {h \in Holders : \E f \in Frames(stack) : f.var = h /\ Promises(ptr, f, o)}
    BY <1>2, <1>3 DEF Promises
  <1> QED
    BY <1>1, <1>4 DEF Held, OwesIn

LEMMA OwesIsNext ==
  ASSUME StackOK', Wellformed, NEW o
  PROVE  (Held(o) \cup InFlight(o))' = OwesIn(ptr', Frames(stack'), o)
  <1>1. Resetting' = VarsOf(Frames(stack'))
    BY DEF Resetting, VarsOf, Frames
  <1>2. InFlight(o)' = {f.var : f \in {g \in Frames(stack') : Promises(ptr', g, o)}}
    BY DEF InFlight, Frames, Promises
  <1>3. \A f \in Frames(stack') : f.from # Null => f.var \in Holders
    BY DEF StackOK, Frames, FrameOK, FrameType, Holders
  <1>4. InFlight(o)' = {h \in Holders : \E f \in Frames(stack') : f.var = h /\ Promises(ptr', f, o)}
    BY <1>2, <1>3 DEF Promises
  <1> QED
    BY <1>1, <1>4 DEF Held, OwesIn

LEMMA OwesFinite ==
  ASSUME Wellformed, NEW p, NEW F, NEW o
  PROVE  IsFiniteSet(OwesIn(p, F, o))
  BY FS_Subset DEF OwesIn, Wellformed

\* B is A but for members of S.
SameBut(A, B, S) == B \ S = A \ S

\* A set that changes at v alone.
LEMMA OneMoves ==
  ASSUME NEW A, NEW B, NEW v, IsFiniteSet(A), SameBut(A, B, {v})
  PROVE  /\ IsFiniteSet(B)
         /\ Cardinality(B) = Cardinality(A) + (IF v \in B THEN 1 ELSE 0)
                                            - (IF v \in A THEN 1 ELSE 0)
  <1> DEFINE C == A \ {v}
  <1>1. IsFiniteSet(C) /\ Cardinality(A) \in Nat
        /\ Cardinality(C) = IF v \in A THEN Cardinality(A) - 1 ELSE Cardinality(A)
    BY FS_RemoveElement, FS_CardinalityType
  <1>2. IsFiniteSet(C \cup {v}) /\ Cardinality(C \cup {v}) = Cardinality(C) + 1
    BY <1>1, FS_AddElement
  <1>3. B = IF v \in B THEN C \cup {v} ELSE C
    BY DEF SameBut
  <1> HIDE DEF C
  <1>4. CASE v \in B
    <2>1. B = C \cup {v}
      BY <1>3, <1>4
    <2> QED
      BY <1>1, <1>2, <1>4, <2>1
  <1>5. CASE v \notin B
    <2>1. B = C
      BY <1>3, <1>5
    <2> QED
      BY <1>1, <1>5, <2>1
  <1> QED
    BY <1>4, <1>5

\* A set that changes at v and w.
LEMMA TwoMove ==
  ASSUME NEW A, NEW B, NEW v, NEW w, v # w, IsFiniteSet(A), SameBut(A, B, {v, w})
  PROVE  Cardinality(B) = Cardinality(A)
            + (IF v \in B THEN 1 ELSE 0) + (IF w \in B THEN 1 ELSE 0)
            - (IF v \in A THEN 1 ELSE 0) - (IF w \in A THEN 1 ELSE 0)
  <1> DEFINE C == IF v \in B THEN A \cup {v} ELSE A \ {v}
  <1>1. SameBut(A, C, {v}) /\ (v \in C <=> v \in B)
    BY DEF SameBut
  <1>2. SameBut(C, B, {w}) /\ (w \in C <=> w \in A)
    BY DEF SameBut
  <1> HIDE DEF C
  <1>3. /\ IsFiniteSet(C)
        /\ Cardinality(C) = Cardinality(A) + (IF v \in B THEN 1 ELSE 0)
                                           - (IF v \in A THEN 1 ELSE 0)
    BY <1>1, OneMoves
  <1>4. Cardinality(B) = Cardinality(C) + (IF w \in B THEN 1 ELSE 0)
                                        - (IF w \in A THEN 1 ELSE 0)
    BY <1>2, <1>3, OneMoves
  <1>5. Cardinality(A) \in Nat
    BY FS_CardinalityType
  <1> QED
    BY <1>3, <1>4, <1>5
-----------------------------------------------------------------------------
(* What a change of the pointers or of the frames does to these sets.      *)

FramesOK(F) == \A f \in F : FrameOK(f)

LEMMA FrameFacts ==
  ASSUME Wellformed, NEW F, FramesOK(F), NEW f \in F
  PROVE  /\ f.from # Null => f.from \in Holders /\ f.from \in UsedIn(F) /\ f.var \in Holders
         /\ f.var # Null => f.var \in Holders /\ f.var \in UsedIn(F)
         /\ f.obj \in Objs /\ f.moves \in BOOLEAN
  <1>1. f \in FrameType /\ f.uses = {f.var, f.from} \ {Null} /\ (f.from # Null => f.var # Null)
    BY DEF FramesOK, FrameOK
  <1>2. f.var \in Vars \cup {Null} /\ f.from \in Vars \cup {Null} /\ f.obj \in Objs
        /\ f.moves \in BOOLEAN
    BY <1>1 DEF FrameType
  <1>3. f.uses \subseteq UsedIn(F)
    BY DEF UsedIn
  <1> QED
    BY <1>1, <1>2, <1>3 DEF Holders

\* The pointers change only at the holders of S, which no frame uses.
Moved(p, q, S, F) ==
  /\ S \subseteq Holders
  /\ S \cap UsedIn(F) = {}
  /\ \A h \in Holders \ S : q[h] = p[h]

\* Holders that no frame uses are what they point to.
LEMMA PointersMove ==
  ASSUME Wellformed, NEW F, FramesOK(F), NEW S, NEW p, NEW q, Moved(p, q, S, F),
         NEW o \in Objs
  PROVE  /\ SameBut(OwesIn(p, F, o), OwesIn(q, F, o), S)
         /\ \A h \in S : (h \in OwesIn(q, F, o) <=> q[h] = o) /\ (h \in OwesIn(p, F, o) <=> p[h] = o)
  <1>1. \A f \in F : Promises(q, f, o) <=> Promises(p, f, o)
    BY FrameFacts DEF Promises, Moved
  <1>2. \A f \in F : f.var \notin S
    BY FrameFacts DEF Wellformed, Moved
  <1>3. S \cap VarsOf(F) = {}
    BY <1>2 DEF VarsOf
  <1> QED
    BY <1>1, <1>2, <1>3 DEF OwesIn, Moved, SameBut

\* A finalizer that nothing waits for.
LEMMA FreeFrame ==
  ASSUME Wellformed, NEW F, NEW f, f.var = Null, f.from = Null, NEW p, NEW o
  PROVE  OwesIn(p, F \cup {f}, o) = OwesIn(p, F, o)
  <1>1. \A h \in Holders : h \in VarsOf(F \cup {f}) <=> h \in VarsOf(F)
    BY DEF VarsOf, Wellformed
  <1>2. ~Promises(p, f, o)
    BY DEF Promises
  <1> QED
    BY <1>1, <1>2 DEF OwesIn

\* The variable of a new frame has what the frame promises.
LEMMA FrameComes ==
  ASSUME Wellformed, NEW F, FramesOK(F), NEW f, f.var \in Holders, f.var \notin UsedIn(F),
         NEW p, NEW o \in Objs
  PROVE  /\ SameBut(OwesIn(p, F, o), OwesIn(p, F \cup {f}, o), {f.var})
         /\ f.var \in OwesIn(p, F \cup {f}, o) <=> Promises(p, f, o)
         /\ f.var \in OwesIn(p, F, o) <=> p[f.var] = o
  <1>1. \A g \in F : g.var # f.var
    BY FrameFacts DEF Wellformed
  <1>2. VarsOf(F \cup {f}) = VarsOf(F) \cup {f.var} /\ f.var \notin VarsOf(F)
    BY <1>1 DEF VarsOf
  <1> QED
    BY <1>1, <1>2 DEF OwesIn, SameBut

-----------------------------------------------------------------------------
(* The stack                                                               *)

LEMMA Busies == Busy = UsedIn(Frames(stack)) /\ (StackOK => FramesOK(Frames(stack)))
  BY DEF Busy, UsedIn, Frames, FramesOK, StackOK

LEMMA Pushed ==
  ASSUME StackOK, NEW f, FrameOK(f), f.uses \cap Busy = {}, stack' = <<f>> \o stack
  PROVE  StackOK' /\ Frames(stack') = Frames(stack) \cup {f}
  <1>1. stack \in Seq(FrameType) /\ f \in FrameType
    BY DEF StackOK, FrameOK
  <1>2. /\ stack' \in Seq(FrameType) /\ Len(stack') = Len(stack) + 1 /\ stack'[1] = f
        /\ \A i \in 2 .. Len(stack') : i - 1 \in DOMAIN stack /\ stack'[i] = stack[i - 1]
        /\ \A i \in DOMAIN stack : i + 1 \in DOMAIN stack' /\ stack'[i + 1] = stack[i]
    BY <1>1
  <1>3. \A i \in DOMAIN stack' : i = 1 \/ i \in 2 .. Len(stack')
    BY <1>2
  <1>4. \A i \in DOMAIN stack' : FrameOK(stack'[i])
    BY <1>2, <1>3 DEF StackOK
  <1>5. \A i \in DOMAIN stack : stack[i].uses \cap f.uses = {}
    BY DEF Busy
  <1>6. ASSUME NEW i \in DOMAIN stack', NEW j \in DOMAIN stack', i # j
        PROVE  stack'[i].uses \cap stack'[j].uses = {}
    <2>1. CASE i = 1
      BY <1>2, <1>3, <1>5, <1>6, <2>1
    <2>2. CASE j = 1
      BY <1>2, <1>3, <1>5, <1>6, <2>2
    <2>3. CASE i # 1 /\ j # 1
      <3>1. i - 1 \in DOMAIN stack /\ j - 1 \in DOMAIN stack /\ i - 1 # j - 1
        BY <1>2, <1>3, <1>6, <2>3
      <3> QED
        BY <1>2, <1>3, <2>3, <3>1 DEF StackOK
    <2> QED
      BY <2>1, <2>2, <2>3
  <1>7. Frames(stack') = Frames(stack) \cup {f}
    <2>1. \A i \in DOMAIN stack' : stack'[i] \in Frames(stack) \cup {f}
      BY <1>2, <1>3 DEF Frames
    <2>2. \A i \in DOMAIN stack : stack[i] \in Frames(stack')
      BY <1>2 DEF Frames
    <2>3. 1 \in DOMAIN stack'
      BY <1>1, <1>2
    <2> QED
      BY <1>2, <2>1, <2>2, <2>3 DEF Frames
  <1> QED
    BY <1>2, <1>4, <1>6, <1>7 DEF StackOK

LEMMA Popped ==
  ASSUME StackOK, stack # << >>, stack' = Tail(stack)
  PROVE  /\ StackOK' /\ FrameOK(Head(stack))
         /\ Frames(stack) = Frames(stack') \cup {Head(stack)}
         /\ Head(stack).uses \cap UsedIn(Frames(stack')) = {}
  <1>1. stack \in Seq(FrameType)
    BY DEF StackOK
  <1>2. /\ stack' \in Seq(FrameType) /\ Len(stack) = Len(stack') + 1 /\ Head(stack) = stack[1]
        /\ 1 \in DOMAIN stack
        /\ \A i \in DOMAIN stack' : i + 1 \in DOMAIN stack /\ stack'[i] = stack[i + 1] /\ i + 1 # 1
        /\ \A i \in DOMAIN stack : i # 1 => i - 1 \in DOMAIN stack' /\ stack[i] = stack'[i - 1]
    BY <1>1
  <1>3. \A i \in DOMAIN stack' : FrameOK(stack'[i])
    BY <1>2 DEF StackOK
  <1>4. ASSUME NEW i \in DOMAIN stack', NEW j \in DOMAIN stack', i # j
        PROVE  stack'[i].uses \cap stack'[j].uses = {}
    <2>1. i + 1 # j + 1
      BY <1>1, <1>2, <1>4
    <2> QED
      BY <1>2, <2>1 DEF StackOK
  <1>5. \A i \in DOMAIN stack' : Head(stack).uses \cap stack'[i].uses = {}
    BY <1>2 DEF StackOK
  <1>6. Frames(stack) = Frames(stack') \cup {Head(stack)}
    <2>1. \A i \in DOMAIN stack : stack[i] \in Frames(stack') \cup {Head(stack)}
      BY <1>2 DEF Frames
    <2>2. \A i \in DOMAIN stack' : stack'[i] \in Frames(stack)
      BY <1>2 DEF Frames
    <2>3. Head(stack) \in Frames(stack)
      BY <1>2 DEF Frames
    <2>4. Frames(stack) \subseteq Frames(stack') \cup {Head(stack)}
      BY <2>1 DEF Frames
    <2>5. Frames(stack') \subseteq Frames(stack)
      BY <2>2 DEF Frames
    <2> QED
      BY <2>3, <2>4, <2>5
  <1> QED
    BY SMTT(30), <1>2, <1>3, <1>4, <1>5, <1>6 DEF StackOK, UsedIn, Frames

-----------------------------------------------------------------------------
(* Kinds of steps                                                          *)

Exact(p, F, r) ==
  /\ r \in [Objs -> Nat]
  /\ \A o \in Objs : r[o] = Cardinality(OwesIn(p, F, o))
  /\ \A f \in F : r[f.obj] = 0

LEMMA Exactness ==
  ASSUME Wellformed, RefInv
  PROVE  /\ Exact(ptr, Frames(stack), refs) /\ FramesOK(Frames(stack))
         /\ Busy = UsedIn(Frames(stack)) /\ ptr \in [Holders -> Targets]
  <1>1. \A o \in Objs : refs[o] = Cardinality(OwesIn(ptr, Frames(stack), o))
    BY OwesIs DEF RefInv, RefsExact
  <1>2. \A f \in Frames(stack) : refs[f.obj] = 0
    BY DEF RefInv, RefsExact, Frames
  <1> QED
    BY <1>1, <1>2, Busies DEF RefInv, Exact

LEMMA Established ==
  ASSUME Wellformed, ptr' \in [Holders -> Targets], StackOK',
         Exact(ptr', Frames(stack'), refs')
  PROVE  RefInv'
  <1>1. \A o \in Objs : refs'[o] = Cardinality((Held(o) \cup InFlight(o))')
    BY OwesIsNext DEF Exact
  <1>2. \A i \in DOMAIN stack' : refs'[stack'[i].obj] = 0
    BY DEF Exact, Frames
  <1>3. RefsExact'
    BY <1>1, <1>2 DEF RefsExact
  <1> QED
    BY <1>3 DEF RefInv, Exact

\* What an idle holder points to is not being finalized.
LEMMA Alive ==
  ASSUME Wellformed, RefInv, NEW w \in Holders, Idle(w)
  PROVE  \A f \in Frames(stack) : f.obj # ptr[w]
  <1> SUFFICES ASSUME NEW f \in Frames(stack), f.obj = ptr[w] PROVE FALSE
    OBVIOUS
  <1> DEFINE A == OwesIn(ptr, Frames(stack), ptr[w])
  <1>1. /\ Exact(ptr, Frames(stack), refs) /\ FramesOK(Frames(stack))
        /\ w \notin UsedIn(Frames(stack))
    BY Exactness DEF Idle
  <1>2. f.obj \in Objs
    BY <1>1, FrameFacts
  <1>3. w \in A
    <2>1. Moved(ptr, ptr, {w}, Frames(stack))
      BY <1>1 DEF Moved
    <2> QED
      BY <1>1, <1>2, <2>1, PointersMove
  <1>4. IsFiniteSet(A) /\ Cardinality(A) = 0
    BY <1>1, <1>2, OwesFinite DEF Exact
  <1> HIDE DEF A
  <1> QED
    BY <1>3, <1>4, FS_EmptySet

\* From p and F to q and G, plus gains one that owes it and minus loses one.
Changes(p, F, q, G, plus, minus) ==
  \A o \in Objs : Cardinality(OwesIn(q, G, o)) = Cardinality(OwesIn(p, F, o))
                     + (IF o = plus THEN 1 ELSE 0) - (IF o = minus THEN 1 ELSE 0)

\* refs after Counts, when the sets change with it.
LEMMA Counted ==
  ASSUME Wellformed, NEW p, NEW F, NEW q, NEW G, Exact(p, F, refs), FramesOK(F),
         NEW plus, NEW minus, Counts(plus, minus),
         \A f \in F : f.obj # plus,
         \A f \in G \ F : f.obj \in Objs /\ f.obj = minus /\ Dies(plus, minus),
         Changes(p, F, q, G, plus, minus)
  PROVE  Exact(q, G, refs')
  <1>1. \A o \in Objs : refs'[o] = refs[o] + (IF o = plus THEN 1 ELSE 0)
                                           - (IF o = minus THEN 1 ELSE 0)
    BY DEF Counts
  <1>2. \A o \in Objs : refs'[o] = Cardinality(OwesIn(q, G, o))
    BY <1>1 DEF Exact, Changes
  <1>3. \A o \in Objs : refs'[o] \in Nat
    BY <1>2, OwesFinite, FS_CardinalityType
  <1>4. refs' \in [Objs -> Nat]
    BY <1>3 DEF Counts
  <1>5. ASSUME NEW f \in G, f \in F PROVE refs'[f.obj] = 0
    <2>1. f.obj \in Objs /\ f.obj # plus /\ refs[f.obj] = 0
      BY <1>5, FrameFacts DEF Exact
    <2> QED
      BY <1>1, <1>3, <2>1
  <1>6. ASSUME NEW f \in G, f \notin F PROVE refs'[f.obj] = 0
    <2>1. f.obj \in Objs /\ f.obj = minus /\ minus # plus /\ refs[minus] = 1
      BY <1>6 DEF Dies
    <2> QED
      BY <1>1, <2>1
  <1> QED
    BY <1>2, <1>4, <1>5, <1>6 DEF Exact

\* Py_DECREF is last, or there is none.
LEMMA LastStep ==
  ASSUME Wellformed, RefInv, NEW plus, NEW minus \in Targets,
         CountsLast(plus, minus) \/ (Counts(plus, minus) /\ stack' = stack),
         ptr' \in [Holders -> Targets],
         \A f \in Frames(stack) : f.obj # plus,
         Changes(ptr, Frames(stack), ptr', Frames(stack), plus, minus)
  PROVE  RefInv'
  <1>1. Counts(plus, minus)
    BY DEF CountsLast
  <1>2. Exact(ptr, Frames(stack), refs) /\ FramesOK(Frames(stack)) /\ StackOK
    BY Exactness DEF RefInv
  <1>3. CASE stack' = stack
    <2>1. StackOK'
      BY <1>2, <1>3 DEF StackOK
    <2>2. Exact(ptr', Frames(stack), refs')
      BY <1>1, <1>2, Counted
    <2> QED
      BY <1>3, <2>1, <2>2, Established
  <1>4. CASE stack' # stack
    <2> DEFINE f == Frame(minus, Null, Null, FALSE)
    <2>1. Dies(plus, minus) /\ stack' = <<f>> \o stack
      BY <1>4 DEF CountsLast
    <2>2. minus \in Objs
      BY <2>1 DEF Dies, Targets
    <2>3. /\ f.obj = minus /\ f.var = Null /\ f.from = Null
          /\ f.uses = {} /\ FrameOK(f)
      BY <2>2 DEF Frame, FrameOK, FrameType
    <2> HIDE DEF f
    <2>4. StackOK' /\ Frames(stack') = Frames(stack) \cup {f}
      BY <1>2, <2>1, <2>3, Pushed
    <2>5. \A o : OwesIn(ptr', Frames(stack) \cup {f}, o) = OwesIn(ptr', Frames(stack), o)
      BY <2>3, FreeFrame
    <2> DEFINE G == Frames(stack) \cup {f}
    <2>6. \A g \in G \ Frames(stack) : g.obj \in Objs /\ g.obj = minus /\ Dies(plus, minus)
      BY <2>1, <2>2, <2>3
    <2>7. Changes(ptr, Frames(stack), ptr', G, plus, minus)
      BY <2>5 DEF Changes
    <2> HIDE DEF G
    <2>8. Exact(ptr', G, refs')
      BY <1>1, <1>2, <2>6, <2>7, Counted
    <2> QED
      BY <2>4, <2>8, Established DEF G
  <1> QED
    BY <1>3, <1>4

GivesTarget(v, x) == ptr' = [ptr EXCEPT ![v] = x]
MovesTarget(v, w) == ptr' = [ptr EXCEPT ![v] = ptr[w], ![w] = Null]

\* One idle holder gets another target.
LEMMA OneTarget ==
  ASSUME Wellformed, RefInv, NEW v \in Holders, Idle(v), NEW x \in Targets,
         \A f \in Frames(stack) : f.obj # x,
         GivesTarget(v, x),
         CountsLast(x, ptr[v]) \/ (Counts(x, ptr[v]) /\ stack' = stack)
  PROVE  RefInv'
  <1> DEFINE F == Frames(stack)
  <1>1. /\ FramesOK(F) /\ ptr \in [Holders -> Targets] /\ {v} \cap UsedIn(F) = {}
    BY Exactness DEF Idle
  <1>2. /\ ptr' \in [Holders -> Targets] /\ ptr[v] \in Targets /\ ptr'[v] = x
        /\ Moved(ptr, ptr', {v}, F)
    BY <1>1 DEF Moved, GivesTarget
  <1> HIDE DEF F
  <1>3. ASSUME NEW o \in Objs
        PROVE  Cardinality(OwesIn(ptr', F, o)) = Cardinality(OwesIn(ptr, F, o))
                  + (IF o = x THEN 1 ELSE 0) - (IF o = ptr[v] THEN 1 ELSE 0)
    <2>1. /\ SameBut(OwesIn(ptr, F, o), OwesIn(ptr', F, o), {v})
          /\ v \in OwesIn(ptr', F, o) <=> x = o
          /\ v \in OwesIn(ptr, F, o) <=> ptr[v] = o
      BY <1>1, <1>2, PointersMove
    <2>2. IsFiniteSet(OwesIn(ptr, F, o))
      BY OwesFinite
    <2> QED
      BY <2>1, <2>2, OneMoves
  <1>4. Changes(ptr, F, ptr', F, x, ptr[v])
    BY <1>3 DEF Changes
  <1> QED
    BY <1>2, <1>4, LastStep DEF F

\* One idle holder's target moves to another.
LEMMA TargetMoves ==
  ASSUME Wellformed, RefInv, NEW v \in Holders, Idle(v), NEW w \in Holders, Idle(w), v # w,
         MovesTarget(v, w),
         CountsLast(Null, ptr[v]) \/ (Counts(Null, ptr[v]) /\ stack' = stack)
  PROVE  RefInv'
  <1> DEFINE F == Frames(stack)
  <1>1. /\ FramesOK(F) /\ ptr \in [Holders -> Targets] /\ {v, w} \cap UsedIn(F) = {}
    BY Exactness DEF Idle
  <1>2. /\ ptr' \in [Holders -> Targets] /\ ptr[v] \in Targets
        /\ ptr'[v] = ptr[w] /\ ptr'[w] = Null
        /\ Moved(ptr, ptr', {v, w}, F)
    BY <1>1 DEF Targets, Moved, MovesTarget
  <1>3. \A f \in F : f.obj # Null
    BY <1>1, FrameFacts DEF Wellformed
  <1> HIDE DEF F
  <1>4. ASSUME NEW o \in Objs
        PROVE  Cardinality(OwesIn(ptr', F, o)) = Cardinality(OwesIn(ptr, F, o))
                  + (IF o = Null THEN 1 ELSE 0) - (IF o = ptr[v] THEN 1 ELSE 0)
    <2>1. /\ SameBut(OwesIn(ptr, F, o), OwesIn(ptr', F, o), {v, w})
          /\ v \in OwesIn(ptr', F, o) <=> ptr[w] = o
          /\ w \in OwesIn(ptr', F, o) <=> Null = o
          /\ v \in OwesIn(ptr, F, o) <=> ptr[v] = o
          /\ w \in OwesIn(ptr, F, o) <=> ptr[w] = o
      BY <1>1, <1>2, PointersMove
    <2>2. IsFiniteSet(OwesIn(ptr, F, o)) /\ o # Null
      BY OwesFinite DEF Wellformed
    <2>3. Cardinality(OwesIn(ptr, F, o)) \in Nat
      BY <2>2, FS_CardinalityType
    <2>4. Cardinality(OwesIn(ptr', F, o)) = Cardinality(OwesIn(ptr, F, o))
            + (IF v \in OwesIn(ptr', F, o) THEN 1 ELSE 0) + (IF w \in OwesIn(ptr', F, o) THEN 1 ELSE 0)
            - (IF v \in OwesIn(ptr, F, o) THEN 1 ELSE 0) - (IF w \in OwesIn(ptr, F, o) THEN 1 ELSE 0)
      BY <2>1, <2>2, TwoMove
    <2> QED
      BY <2>1, <2>2, <2>3, <2>4
  <1>5. Changes(ptr, F, ptr', F, Null, ptr[v])
    BY <1>4 DEF Changes
  <1> QED
    BY <1>2, <1>3, <1>5, LastStep DEF F

\* A finalizer interrupts an assignment to v from the variable from, if any.
LEMMA Waits ==
  ASSUME Wellformed, RefInv, NEW v \in Vars, Idle(v), NEW from \in Vars \cup {Null},
         from # Null => Idle(from), NEW moves \in BOOLEAN, NEW plus \in Targets,
         plus = IF from = Null \/ moves THEN Null ELSE ptr[from],
         Counts(plus, ptr[v]), Dies(plus, ptr[v]), ptr' = ptr,
         stack' = <<Frame(ptr[v], v, from, moves)>> \o stack
  PROVE  RefInv'
  <1> DEFINE F == Frames(stack)
  <1> DEFINE f == Frame(ptr[v], v, from, moves)
  <1> DEFINE G == F \cup {f}
  <1>1. /\ Exact(ptr, F, refs) /\ FramesOK(F) /\ ptr \in [Holders -> Targets]
        /\ v \notin UsedIn(F) /\ StackOK /\ v \in Holders /\ v # Null
    BY Exactness DEF Idle, RefInv, Holders, Wellformed
  <1>2. ptr[v] \in Objs
    BY <1>1 DEF Dies, Targets
  <1>3. /\ f.obj = ptr[v] /\ f.var = v /\ f.from = from /\ f.moves = moves
        /\ f.uses = {v, from} \ {Null}
    BY DEF Frame
  <1>4. FrameOK(f)
    BY <1>1, <1>2 DEF Frame, FrameOK, FrameType
  <1>5. f.uses \cap Busy = {}
    BY <1>3 DEF Idle
  <1> HIDE DEF f
  <1>6. StackOK' /\ Frames(stack') = G
    BY <1>1, <1>4, <1>5, Pushed DEF f
  <1>7. \A g \in F : g.obj # plus
    <2>1. CASE plus = Null
      BY <1>1, <2>1, FrameFacts DEF Wellformed
    <2>2. CASE plus # Null
      BY <2>2, Alive DEF Holders
    <2> QED
      BY <2>1, <2>2
  <1>8. \A g \in G \ F : g.obj \in Objs /\ g.obj = ptr[v] /\ Dies(plus, ptr[v])
    BY <1>2, <1>3
  <1> HIDE DEF F
  <1>9. ASSUME NEW o \in Objs
        PROVE  Cardinality(OwesIn(ptr, G, o)) = Cardinality(OwesIn(ptr, F, o))
                  + (IF o = plus THEN 1 ELSE 0) - (IF o = ptr[v] THEN 1 ELSE 0)
    <2>1. Promises(ptr, f, o) <=> plus = o
      BY <1>3 DEF Promises, Wellformed
    <2>2. /\ SameBut(OwesIn(ptr, F, o), OwesIn(ptr, G, o), {v})
          /\ v \in OwesIn(ptr, G, o) <=> plus = o
          /\ v \in OwesIn(ptr, F, o) <=> ptr[v] = o
      BY ZenonT(40), <1>1, <1>3, <2>1, FrameComes
    <2>3. IsFiniteSet(OwesIn(ptr, F, o))
      BY OwesFinite
    <2> QED
      BY <2>2, <2>3, OneMoves
  <1> HIDE DEF G
  <1>10. Changes(ptr, F, ptr, G, plus, ptr[v])
    BY <1>9 DEF Changes
  <1>11. Exact(ptr, G, refs')
    BY <1>1, <1>7, <1>8, <1>10, Counted
  <1> QED
    BY <1>1, <1>6, <1>11, Established

-----------------------------------------------------------------------------
(* One lemma for each operation                                            *)

LEMMA CopyStep ==
  ASSUME Wellformed, RefInv, NEW v \in Holders, NEW w \in Holders, Copy(v, w)
  PROVE  RefInv'
  <1>1. ptr[w] \in Targets
    BY DEF RefInv
  <1>2. GivesTarget(v, ptr[w]) /\ Counts(ptr[w], ptr[v]) /\ stack' = stack
    BY DEF Copy, GivesTarget
  <1>3. Idle(v) /\ \A f \in Frames(stack) : f.obj # ptr[w]
    BY Alive DEF Copy
  <1> QED
    BY <1>1, <1>2, <1>3, OneTarget

LEMMA NobodyIsNull ==
  ASSUME Wellformed, RefInv
  PROVE  \A f \in Frames(stack) : f.obj # Null
  BY Exactness, FrameFacts DEF Wellformed

\* A target goes and none comes.
LEMMA Emptied ==
  ASSUME Wellformed, RefInv, NEW v \in Holders, Idle(v), GivesTarget(v, Null),
         CountsLast(Null, ptr[v]) \/ (Counts(Null, ptr[v]) /\ stack' = stack)
  PROVE  RefInv'
  <1>1. Null \in Targets
    BY DEF Targets
  <1> QED
    BY <1>1, NobodyIsNull, OneTarget

LEMMA MoveStep ==
  ASSUME Wellformed, RefInv, NEW v \in Holders, NEW w \in Holders, Move(v, w)
  PROVE  RefInv'
  <1>1. refs \in [Objs -> Nat]
    BY DEF RefInv
  <1>2. Counts(Null, Null)
    BY <1>1 DEF Move, Counts, Wellformed
  <1>3. /\ Idle(v) /\ Idle(w) /\ v # w /\ MovesTarget(v, w)
        /\ Counts(Null, ptr[v]) /\ stack' = stack
    BY <1>2 DEF Move, MovesTarget
  <1> QED
    BY <1>3, TargetMoves

LEMMA DestroyStep ==
  ASSUME Wellformed, RefInv, NEW v \in Holders, Destroy(v)
  PROVE  RefInv'
  BY Emptied DEF Destroy, GivesTarget

LEMMA CopyAssignStep ==
  ASSUME Wellformed, RefInv, NEW v \in Holders, NEW w \in Holders, CopyAssign(v, w)
  PROVE  RefInv'
  <1>1. ptr[w] \in Targets
    BY DEF RefInv
  <1>2. GivesTarget(v, ptr[w]) /\ CountsLast(ptr[w], ptr[v])
    BY DEF CopyAssign, GivesTarget
  <1>3. Idle(v) /\ \A f \in Frames(stack) : f.obj # ptr[w]
    BY Alive DEF CopyAssign
  <1> QED
    BY <1>1, <1>2, <1>3, OneTarget

LEMMA MoveAssignStep ==
  ASSUME Wellformed, RefInv, NEW v \in Holders, NEW w \in Holders, MoveAssign(v, w)
  PROVE  RefInv'
  <1>1. ptr \in [Holders -> Targets] /\ Idle(v) /\ Idle(w) /\ CountsLast(Null, ptr[v])
    BY DEF RefInv, MoveAssign
  <1>2. CASE v = w
    <2>1. GivesTarget(v, Null)
      BY <1>1, <1>2 DEF MoveAssign, GivesTarget
    <2> QED
      BY <1>1, <2>1, Emptied
  <1>3. CASE v # w
    <2>1. MovesTarget(v, w)
      BY DEF MoveAssign, MovesTarget
    <2> QED
      BY <1>1, <1>3, <2>1, TargetMoves
  <1> QED
    BY <1>2, <1>3

\* The pointers after an assignment of an array or a reset.
LEMMA RestIs ==
  ASSUME Wellformed, RefInv, NEW v \in Holders, NEW w \in Holders
  PROVE  /\ Rest(v, Null, FALSE) = [ptr EXCEPT ![v] = Null]
         /\ Rest(v, w, FALSE) = [ptr EXCEPT ![v] = ptr[w]]
         /\ Rest(v, v, TRUE) = [ptr EXCEPT ![v] = Null]
         /\ v # w => Rest(v, w, TRUE) = [ptr EXCEPT ![v] = ptr[w], ![w] = Null]
  <1>1. ptr \in [Holders -> Targets] /\ v # Null /\ w # Null
    BY DEF RefInv, Wellformed
  <1> QED
    BY <1>1 DEF Rest

LEMMA ResetStep ==
  ASSUME Wellformed, RefInv, NEW v \in Vars, Reset(v)
  PROVE  RefInv'
  <1>1. v \in Holders /\ Idle(v) /\ Counts(Null, ptr[v]) /\ Null \in Targets
    BY DEF Reset, CountsFirst, Holders, Targets
  <1>2. CASE Dies(Null, ptr[v])
    <2>1. stack' = <<Frame(ptr[v], v, Null, FALSE)>> \o stack /\ ptr' = ptr
      BY <1>2 DEF Reset, CountsFirst
    <2> QED
      BY <1>1, <1>2, <2>1, Waits
  <1>3. CASE ~Dies(Null, ptr[v])
    <2>1. GivesTarget(v, Null) /\ stack' = stack
      BY <1>1, <1>3, RestIs DEF Reset, CountsFirst, GivesTarget
    <2> QED
      BY <1>1, <2>1, Emptied
  <1> QED
    BY <1>2, <1>3

LEMMA CopyArrayStep ==
  ASSUME Wellformed, RefInv, NEW v \in Vars, NEW w \in Vars, CopyArray(v, w)
  PROVE  RefInv'
  <1>1. /\ v \in Holders /\ w \in Holders /\ w # Null
        /\ Idle(v) /\ Idle(w) /\ Counts(ptr[w], ptr[v]) /\ ptr[w] \in Targets
    BY DEF CopyArray, CountsFirst, Holders, RefInv, Wellformed
  <1>2. CASE Dies(ptr[w], ptr[v])
    <2>1. stack' = <<Frame(ptr[v], v, w, FALSE)>> \o stack /\ ptr' = ptr
      BY <1>2 DEF CopyArray, CountsFirst
    <2> QED
      BY <1>1, <1>2, <2>1, Waits
  <1>3. CASE ~Dies(ptr[w], ptr[v])
    <2>1. GivesTarget(v, ptr[w]) /\ stack' = stack
      BY <1>1, <1>3, RestIs DEF CopyArray, CountsFirst, GivesTarget
    <2> QED
      BY <1>1, <2>1, Alive, OneTarget
  <1> QED
    BY <1>2, <1>3

LEMMA MoveArrayStep ==
  ASSUME Wellformed, RefInv, NEW v \in Vars, NEW w \in Vars, MoveArray(v, w)
  PROVE  RefInv'
  <1>1. /\ v \in Holders /\ w \in Holders /\ w # Null /\ Null \in Targets
        /\ Idle(v) /\ Idle(w) /\ Counts(Null, ptr[v])
    BY DEF MoveArray, CountsFirst, Holders, Wellformed, Targets
  <1>2. CASE Dies(Null, ptr[v])
    <2>1. stack' = <<Frame(ptr[v], v, w, TRUE)>> \o stack /\ ptr' = ptr
      BY <1>2 DEF MoveArray, CountsFirst
    <2> QED
      BY <1>1, <1>2, <2>1, Waits
  <1>3. CASE ~Dies(Null, ptr[v]) /\ v = w
    <2>1. GivesTarget(v, Null) /\ stack' = stack
      BY <1>1, <1>3, RestIs DEF MoveArray, CountsFirst, GivesTarget
    <2> QED
      BY <1>1, <2>1, Emptied
  <1>4. CASE ~Dies(Null, ptr[v]) /\ v # w
    <2>1. MovesTarget(v, w) /\ stack' = stack
      BY <1>1, <1>4, RestIs DEF MoveArray, CountsFirst, MovesTarget
    <2> QED
      BY <1>1, <1>4, <2>1, TargetMoves
  <1> QED
    BY <1>2, <1>3, <1>4

LEMMA SetItemStep ==
  ASSUME Wellformed, RefInv, NEW i \in Items, NEW w \in Holders, SetItem(i, w)
  PROVE  RefInv'
  <1>1. i \in Holders /\ i \notin Vars /\ ptr[w] \in Targets
    BY DEF Holders, Wellformed, RefInv
  <1>2. \A f \in Frames(stack) : f.uses \subseteq Vars
    BY DEF RefInv, StackOK, Frames, FrameOK, FrameType
  <1>3. Idle(i)
    BY <1>1, <1>2, Busies DEF Idle, UsedIn
  <1>4. GivesTarget(i, ptr[w]) /\ CountsLast(ptr[w], ptr[i])
    BY DEF SetItem, GivesTarget
  <1>5. \A f \in Frames(stack) : f.obj # ptr[w]
    BY Alive DEF SetItem
  <1> QED
    BY <1>1, <1>3, <1>4, <1>5, OneTarget

LEMMA NewStep ==
  ASSUME Wellformed, RefInv, NEW h \in Holders, NEW o \in Objs, New(h, o)
  PROVE  RefInv'
  <1>1. o \in Targets /\ Idle(h) /\ GivesTarget(h, o) /\ Counts(o, ptr[h]) /\ stack' = stack
    BY DEF New, Targets, GivesTarget
  <1>2. \A f \in Frames(stack) : f.obj # o
    BY DEF New, Frames
  <1> QED
    BY <1>1, <1>2, OneTarget

LEMMA SameBy ==
  ASSUME NEW A, NEW B, NEW C, NEW v, SameBut(C, A, {v}), SameBut(C, B, {v}),
         v \in A <=> v \in B
  PROVE  A = B
  BY DEF SameBut

\* The variable gets what its frame has promised.
LEMMA PromiseKept ==
  ASSUME Wellformed, NEW F, FramesOK(F), NEW f, f.var \in Holders, f.var \notin UsedIn(F),
         NEW p, NEW q, Moved(p, q, {f.var}, F), NEW o \in Objs,
         Promises(p, f, o) <=> q[f.var] = o
  PROVE  OwesIn(q, F, o) = OwesIn(p, F \cup {f}, o)
  <1>1. /\ SameBut(OwesIn(p, F, o), OwesIn(q, F, o), {f.var})
        /\ f.var \in OwesIn(q, F, o) <=> q[f.var] = o
    BY PointersMove
  <1>2. /\ SameBut(OwesIn(p, F, o), OwesIn(p, F \cup {f}, o), {f.var})
        /\ f.var \in OwesIn(p, F \cup {f}, o) <=> Promises(p, f, o)
    BY FrameComes
  <1> QED
    BY <1>1, <1>2, SameBy

\* A moving assignment lets its variable have what it empties another of.
LEMMA MoveFinished ==
  ASSUME Wellformed, NEW F, FramesOK(F), NEW f, f.moves, NEW v, NEW w, f.var = v, f.from = w,
         v \in Holders, w \in Holders, v # w, v \notin UsedIn(F), w \notin UsedIn(F),
         NEW p, NEW q, Moved(p, q, {v, w}, F), q[v] = p[w], q[w] = Null, NEW o \in Objs
  PROVE  Cardinality(OwesIn(q, F, o)) = Cardinality(OwesIn(p, F \cup {f}, o))
  <1> DEFINE A == OwesIn(p, F \cup {f}, o)
  <1> DEFINE B == OwesIn(q, F, o)
  <1> DEFINE C == OwesIn(p, F, o)
  <1>1. /\ SameBut(C, B, {v, w})
        /\ v \in B <=> p[w] = o
        /\ w \in B <=> Null = o
        /\ w \in C <=> p[w] = o
    BY PointersMove
  <1>2. SameBut(C, A, {v}) /\ (v \in A <=> Promises(p, f, o))
    BY FrameComes
  <1>3. IsFiniteSet(A)
    BY OwesFinite
  <1> HIDE DEF A, B, C
  <1>4. SameBut(A, B, {v, w}) /\ v \notin A /\ w \notin B /\ (w \in A <=> v \in B)
    BY <1>1, <1>2 DEF SameBut, Promises, Wellformed
  <1>5. Cardinality(B) = Cardinality(A)
            + (IF v \in B THEN 1 ELSE 0) + (IF w \in B THEN 1 ELSE 0)
            - (IF v \in A THEN 1 ELSE 0) - (IF w \in A THEN 1 ELSE 0)
    BY <1>3, <1>4, TwoMove
  <1>6. Cardinality(A) \in Nat
    BY <1>3, FS_CardinalityType
  <1>7. Cardinality(B) = Cardinality(A)
    BY <1>4, <1>5, <1>6
  <1> QED
    BY <1>7 DEF A, B

LEMMA FinalizedStep ==
  ASSUME Wellformed, RefInv, Finalized
  PROVE  RefInv'
  <1> DEFINE f == Head(stack)
  <1> DEFINE G == Frames(stack')
  <1>1. /\ StackOK' /\ FrameOK(f) /\ Frames(stack) = G \cup {f}
        /\ f.uses \cap UsedIn(G) = {}
    BY Popped DEF RefInv, Finalized
  <1>2. Exact(ptr, G \cup {f}, refs) /\ ptr \in [Holders -> Targets] /\ FramesOK(G)
    BY <1>1, Exactness DEF FramesOK
  <1>3. ptr' = Rest(f.var, f.from, f.moves) /\ refs' = refs
    BY DEF Finalized
  <1>4. /\ f.var \in Vars \cup {Null} /\ f.from \in Vars \cup {Null} /\ f.moves \in BOOLEAN
        /\ f.from # Null => f.var # Null
        /\ f.uses = {f.var, f.from} \ {Null}
    BY <1>1 DEF FrameOK, FrameType
  <1> HIDE DEF f, G
  <1>5. /\ f.var # Null => f.var \in Holders /\ f.var \notin UsedIn(G)
        /\ f.from # Null => f.from \in Holders /\ f.from \notin UsedIn(G)
    BY <1>1, <1>4 DEF Holders
  <1>6. ptr' \in [Holders -> Targets]
    BY <1>2, <1>3, <1>5 DEF Rest, Targets
  <1>7. ASSUME NEW o \in Objs
        PROVE  Cardinality(OwesIn(ptr', G, o)) = Cardinality(OwesIn(ptr, G \cup {f}, o))
    <2>1. o # Null
      BY DEF Wellformed
    <2>2. CASE f.var = Null
      <3>1. ptr' = ptr
        BY <1>2, <1>3, <1>4, <2>2 DEF Rest, Wellformed
      <3> QED
        BY <1>4, <2>2, <3>1, FreeFrame
    <2>3. CASE f.var # Null /\ ~(f.moves /\ f.from # Null /\ f.from # f.var)
      <3>1. Moved(ptr, ptr', {f.var}, G)
        BY <1>3, <1>4, <1>5, <2>3 DEF Moved, Rest, Wellformed
      <3>2. Promises(ptr, f, o) <=> ptr'[f.var] = o
        BY <1>3, <1>4, <1>5, <2>1, <2>3 DEF Promises, Rest
      <3> QED
        BY <1>2, <1>5, <2>3, <3>1, <3>2, PromiseKept
    <2>4. CASE f.var # Null /\ f.moves /\ f.from # Null /\ f.from # f.var
      <3>1. /\ Moved(ptr, ptr', {f.var, f.from}, G)
            /\ ptr'[f.var] = ptr[f.from] /\ ptr'[f.from] = Null
        BY <1>3, <1>5, <2>4 DEF Moved, Rest
      <3> QED
        BY <1>2, <1>5, <2>4, <3>1, MoveFinished
    <2> QED
      BY <2>2, <2>3, <2>4
  <1>8. Exact(ptr', G, refs')
    BY <1>2, <1>3, <1>7 DEF Exact
  <1> QED
    BY <1>1, <1>6, <1>8, Established DEF G

-----------------------------------------------------------------------------
LEMMA RefInvInit ==
  ASSUME Wellformed, Init
  PROVE  RefInv
  <1>1. ptr \in [Holders -> Targets] /\ refs \in [Objs -> Nat] /\ StackOK
    BY DEF Init, Targets, StackOK
  <1>2. DOMAIN stack = {}
    BY DEF Init
  <1>3. ASSUME NEW o \in Objs PROVE refs[o] = Cardinality(Held(o) \cup InFlight(o))
    <2>1. InFlight(o) = {}
      BY <1>2 DEF InFlight
    <2>2. Held(o) = {}
      BY DEF Init, Held, Wellformed
    <2> QED
      BY <2>1, <2>2, FS_EmptySet DEF Init
  <1> QED
    BY <1>1, <1>2, <1>3 DEF RefInv, RefsExact

LEMMA RefInvNext ==
  ASSUME Wellformed, RefInv, [Next]_refVars
  PROVE  RefInv'
  <1>1. CASE Copies
    BY <1>1, CopyStep DEF Copies
  <1>2. CASE Moves
    BY <1>2, MoveStep DEF Moves, Holders
  <1>3. CASE Destroys
    BY <1>3, DestroyStep DEF Destroys
  <1>4. CASE Resets
    BY <1>4, ResetStep DEF Resets, Vars
  <1>5. CASE Assigns
    BY <1>5, CopyAssignStep DEF Assigns, Holders, Vars
  <1>6. CASE Advances
    BY <1>6, MoveAssignStep DEF Advances, Holders, Vars
  <1>7. CASE ArrayAssigns
    BY <1>7, CopyArrayStep, MoveArrayStep DEF ArrayAssigns, Vars
  <1>8. CASE SetItems
    BY <1>8, SetItemStep DEF SetItems, Holders, Vars
  <1>9. CASE News
    BY <1>9, NewStep DEF News, Holders, Vars
  <1>10. CASE Finalized
    BY <1>10, FinalizedStep
  <1>11. CASE UNCHANGED refVars
    <2>1. Frames(stack') = Frames(stack) /\ StackOK'
      BY <1>11 DEF refVars, RefInv, StackOK
    <2> QED
      BY <1>11, <2>1, Exactness, Established DEF refVars
  <1> QED
    BY <1>1, <1>2, <1>3, <1>4, <1>5, <1>6, <1>7, <1>8, <1>9, <1>10, <1>11 DEF Next

\* Whatever finalizers do in the middle of an assignment, and however deep they
\* nest, a count is the number of references to be given back
\* (nb_types.h:210-241, nb_accessor.h:126-136, ndarray.h:265-293).
THEOREM CountsAreExact == ASSUME Wellformed PROVE Spec => []RefsExact
  <1>1. Init => RefInv
    BY RefInvInit
  <1>2. RefInv /\ [Next]_refVars => RefInv'
    BY RefInvNext
  <1>3. RefInv => RefsExact
    BY DEF RefInv
  <1> QED
    BY <1>1, <1>2, <1>3, PTL DEF Spec
=============================================================================
