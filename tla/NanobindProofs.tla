---------------------------- MODULE NanobindProofs ----------------------------
\* Theorems about the components of nanobind in Python, laid out as PythonProofs
\* is.
EXTENDS Python, SetInduction

\* A step of the whole is a step of each component, or leaves it alone.
LEMMA ComponentSteps ==
  ASSUME [Next]_vars
  PROVE  /\ [Refs!Next]_refsV /\ [Cast!Next]_castV /\ [Call!Next]_callV
         /\ [Vec!Next]_vecV /\ [Iter!Next]_iterV /\ [Own!Next]_ownV
  BY DEF Next, vars

LEMMA ComponentInits ==
  ASSUME Init
  PROVE  /\ Refs!Init /\ Cast!Init /\ Call!Init
         /\ Vec!Init /\ Iter!Init /\ Own!Init
  BY DEF Init
-----------------------------------------------------------------------------
(* Ownership of C++ objects                                                *)

LEMMA OwnCardinality == \A S : Own!Cardinality(S) = Cardinality(S)
  BY DEF Cardinality, Own!Cardinality

OwnTypes ==
  /\ life \in {"none", "alive", "deleted"}
  /\ inst \in {"none", "ready", "relinquished"}
  /\ destroys \in BOOLEAN /\ kept \in BOOLEAN
  /\ pyrefs \in Nat /\ pyShared \in Nat /\ cppShared \in Nat
  /\ unique \in [Own!Uniques -> {"null", "cpp", "python"}]
  /\ taking \subseteq Own!Uniques

\* No unique_ptr holds a reference to the instance.
NoPython == \A u \in Own!Uniques : unique[u] # "python"

\* One unique_ptr at most has the object, and the instance is not ready then.
\* One that deletes the object is alone.
UniqueOK ==
  /\ \A u, w \in Own!Uniques : unique[u] # "null" /\ unique[w] # "null" => u = w
  /\ \A u \in Own!Uniques :
       /\ unique[u] # "null"   => inst # "ready"
       /\ unique[u] = "python" => inst = "relinquished"
       /\ unique[u] = "cpp"    => /\ life = "alive" /\ ~destroys /\ ~kept /\ cppShared = 0

\* The instance is there while somebody refers to it, and while somebody gets at
\* the object through it, it deletes the object or keeps a share.  A shared_ptr is
\* no such one where a unique_ptr has taken the object from the instance.
InstanceOK ==
  /\ inst = "none" <=> pyrefs = 0 /\ pyShared = 0 /\ NoPython
  /\ inst = "none" => ~destroys /\ ~kept
  /\ life = "none" => inst = "none"
  /\ inst = "ready" \/ ~NoPython => destroys \/ kept
  /\ pyShared > 0 => destroys \/ kept \/ inst = "relinquished"

OwnersOK ==
  /\ destroys => life = "alive" /\ ~kept /\ cppShared = 0
  /\ kept \/ cppShared > 0 => life = "alive"
  /\ life = "alive" => \/ destroys \/ kept \/ cppShared > 0
                       \/ \E u \in Own!Uniques : unique[u] = "cpp"

OwnInv == OwnTypes /\ UniqueOK /\ InstanceOK /\ OwnersOK

-----------------------------------------------------------------------------
LEMMA LastRefIs ==
  ASSUME OwnInv
  PROVE  Own!LastRef <=> \/ pyrefs = 1 /\ pyShared = 0 /\ NoPython
                         \/ pyrefs = 0 /\ pyShared = 1 /\ NoPython
                         \/ pyrefs = 0 /\ pyShared = 0 /\ ~NoPython
  <1>1. pyrefs \in Nat /\ pyShared \in Nat
    BY DEF OwnInv, OwnTypes
  <1>2. CASE NoPython
    <2>1. Own!By("python") = {}
      BY <1>2 DEF NoPython, Own!By
    <2>2. Own!Cardinality(Own!By("python")) = 0
      BY <2>1, FS_EmptySet, OwnCardinality
    <2> QED
      BY <1>1, <1>2, <2>2 DEF Own!LastRef, Own!InstRefs
  <1>3. CASE ~NoPython
    <2>1. PICK u \in Own!Uniques : unique[u] = "python"
      BY <1>3 DEF NoPython
    <2>2. Own!By("python") = {u}
      BY <2>1 DEF OwnInv, UniqueOK, Own!By
    <2>3. Own!Cardinality(Own!By("python")) = 1
      BY <2>2, FS_Singleton, OwnCardinality
    <2> QED
      BY <1>1, <1>3, <2>3 DEF Own!LastRef, Own!InstRefs
  <1> QED
    BY <1>2, <1>3

\* The object is deleted while it is alive.
LEMMA DeleteIs ==
  ASSUME life = "alive", Own!Delete
  PROVE  life' = "deleted"
  BY DEF Own!Delete

LEMMA OwnInvInit ==
  ASSUME Own!Init
  PROVE  OwnInv
  <1>1. destroys \in BOOLEAN /\ kept \in BOOLEAN /\ ~destroys /\ ~kept
    BY DEF Own!Init
  <1>2. \A u \in Own!Uniques : unique[u] = "null"
    BY DEF Own!Init
  <1>3. OwnTypes
    BY <1>1 DEF Own!Init, OwnTypes
  <1> QED
    BY <1>1, <1>2, <1>3 DEF Own!Init, OwnInv, UniqueOK, InstanceOK, OwnersOK, NoPython

-----------------------------------------------------------------------------
(* Creation                                                                *)

LEMMA NewStep ==
  ASSUME OwnInv, Own!New
  PROVE  OwnInv'
  <1> USE DEF OwnInv, Own!New, Own!NewInstance
  <1>1. OwnTypes'
    BY DEF OwnTypes
  <1>2. UniqueOK'
    BY DEF OwnTypes, UniqueOK, InstanceOK, OwnersOK, NoPython
  <1>3. InstanceOK' /\ OwnersOK'
    BY DEF OwnTypes, UniqueOK, InstanceOK, OwnersOK, NoPython
  <1> QED
    BY <1>1, <1>2, <1>3

LEMMA MakeUniqueStep ==
  ASSUME OwnInv, NEW u \in Own!Uniques, Own!MakeUnique(u)
  PROVE  OwnInv'
  <1> USE DEF OwnInv, Own!MakeUnique
  <1>1. \A w \in Own!Uniques : unique[w] = "null" /\ unique'[w] = IF w = u THEN "cpp" ELSE "null"
    BY DEF OwnTypes, UniqueOK, InstanceOK, OwnersOK, NoPython
  <1>2. OwnTypes'
    BY DEF OwnTypes
  <1>3. UniqueOK' /\ InstanceOK' /\ OwnersOK'
    BY <1>1 DEF OwnTypes, UniqueOK, InstanceOK, OwnersOK, NoPython
  <1> QED
    BY <1>2, <1>3

LEMMA MakeSharedStep ==
  ASSUME OwnInv, Own!MakeShared
  PROVE  OwnInv'
  BY DEF Own!MakeShared, OwnInv, OwnTypes, UniqueOK, InstanceOK, OwnersOK, NoPython

-----------------------------------------------------------------------------
(* References of Python code                                               *)

LEMMA DropRefStep ==
  ASSUME OwnInv, Own!DropRef
  PROVE  OwnInv'
  <1> USE DEF OwnInv, Own!DropRef, Own!RefGone
  <1>1. CASE Own!LastRef
    <2>1. pyrefs = 1 /\ pyShared = 0 /\ NoPython
      BY <1>1, LastRefIs DEF OwnTypes
    <2>2. inst' = "none" /\ pyrefs' = 0
      BY <1>1, <2>1 DEF Own!InstanceDies
    <2>3. destroys' \in BOOLEAN /\ kept' \in BOOLEAN /\ ~destroys' /\ ~kept'
      BY <1>1 DEF Own!InstanceDies
    <2>4. life' = IF destroys \/ (kept /\ cppShared = 0) THEN "deleted" ELSE life
      BY <1>1, DeleteIs DEF Own!InstanceDies, OwnersOK
    <2>5. OwnTypes'
      BY <2>1, <2>2, <2>3, <2>4 DEF OwnTypes
    <2>6. UniqueOK'
      BY <2>1, <2>2, <2>3, <2>4 DEF OwnTypes, UniqueOK, NoPython
    <2>7. InstanceOK'
      BY <2>1, <2>2, <2>3 DEF InstanceOK, NoPython
    <2>8. OwnersOK'
      BY <2>1, <2>2, <2>3, <2>4 DEF OwnTypes, InstanceOK, OwnersOK
    <2> QED
      BY <2>5, <2>6, <2>7, <2>8
  <1>2. CASE ~Own!LastRef
    <2>1. pyrefs' # 0 \/ pyShared # 0 \/ ~NoPython
      BY <1>2, LastRefIs DEF OwnTypes
    <2> QED
      BY <1>2, <2>1 DEF OwnTypes, UniqueOK, InstanceOK, OwnersOK, NoPython
  <1> QED
    BY <1>1, <1>2

LEMMA CopyRefStep ==
  ASSUME OwnInv, Own!CopyRef
  PROVE  OwnInv'
  BY DEF Own!CopyRef, OwnInv, OwnTypes, UniqueOK, InstanceOK, OwnersOK, NoPython

-----------------------------------------------------------------------------
(* unique_ptr                                                              *)

LEMMA FromPythonStep ==
  ASSUME OwnInv, NEW u \in Own!Uniques, Own!FromPython(u)
  PROVE  OwnInv'
  BY DEF Own!FromPython, OwnInv, OwnTypes, UniqueOK, InstanceOK, OwnersOK, NoPython

LEMMA CastStep ==
  ASSUME OwnInv, NEW u \in Own!Uniques, Own!Cast(u)
  PROVE  OwnInv'
  <1> USE DEF OwnInv, Own!Cast
  <1>1. CASE ~Own!MayRelinquish(u)
    BY <1>1 DEF OwnTypes, UniqueOK, InstanceOK, OwnersOK, NoPython
  <1>2. CASE Own!MayRelinquish(u)
    <2>1. inst = "ready" /\ inst' = "relinquished" /\ \A w \in Own!Uniques : unique[w] = "null"
      BY <1>2 DEF Own!MayRelinquish, UniqueOK
    <2>2. CASE u \in Defaults
      <3>1. /\ destroys /\ ~destroys'
            /\ \A w \in Own!Uniques : unique'[w] = IF w = u THEN "cpp" ELSE "null"
            /\ unique' \in [Own!Uniques -> {"null", "cpp", "python"}]
        BY <1>2, <2>1, <2>2 DEF Own!MayRelinquish, OwnTypes
      <3> QED
        BY <1>2, <2>1, <3>1 DEF OwnTypes, UniqueOK, InstanceOK, OwnersOK, NoPython
    <2>3. CASE u \notin Defaults
      <3>1. /\ destroys' = destroys
            /\ \A w \in Own!Uniques : unique'[w] = IF w = u THEN "python" ELSE "null"
            /\ unique' \in [Own!Uniques -> {"null", "cpp", "python"}]
        BY <1>2, <2>1, <2>3 DEF OwnTypes
      <3> QED
        BY <1>2, <2>1, <3>1 DEF OwnTypes, UniqueOK, InstanceOK, OwnersOK, NoPython
    <2> QED
      BY <2>2, <2>3
  <1> QED
    BY <1>1, <1>2

\* The unique_ptr that had the object was the only one.
LEMMA NoneLeft ==
  ASSUME OwnInv, NEW u \in Own!Uniques, unique[u] # "null", unique' = [unique EXCEPT ![u] = "null"]
  PROVE  /\ \A w \in Own!Uniques : unique'[w] = "null" /\ (w # u => unique[w] = "null")
         /\ unique' \in [Own!Uniques -> {"null", "cpp", "python"}]
         /\ NoPython'
  BY DEF OwnInv, OwnTypes, UniqueOK, NoPython

LEMMA UniqueToPythonStep ==
  ASSUME OwnInv, NEW u \in Own!Uniques, Own!UniqueToPython(u)
  PROVE  OwnInv'
  <1>1. /\ \A w \in Own!Uniques : unique'[w] = "null" /\ (w # u => unique[w] = "null")
        /\ unique' \in [Own!Uniques -> {"null", "cpp", "python"}]
        /\ NoPython'
    BY NoneLeft DEF Own!UniqueToPython, Own!Released
  <1>2. life' = life /\ destroys' \in BOOLEAN /\ (destroys' <=> destroys \/ unique[u] = "cpp")
    BY DEF Own!UniqueToPython, Own!Released, Own!OwnedByCpp, OwnInv, OwnTypes
  <1> QED
    BY <1>1, <1>2 DEF Own!UniqueToPython, OwnInv, OwnTypes, UniqueOK, InstanceOK, OwnersOK, NoPython

LEMMA DropUniqueStep ==
  ASSUME OwnInv, NEW u \in Own!Uniques, Own!DropUnique(u)
  PROVE  OwnInv'
  <1>1. /\ \A w \in Own!Uniques : unique'[w] = "null" /\ (w # u => unique[w] = "null")
        /\ unique' \in [Own!Uniques -> {"null", "cpp", "python"}]
        /\ NoPython'
    BY NoneLeft DEF Own!DropUnique
  <1>2. CASE unique[u] = "cpp"
    <2>1. life = "alive" /\ life' = "deleted" /\ NoPython
      BY <1>1, <1>2, DeleteIs DEF Own!DropUnique, Own!OwnedByCpp, OwnInv, UniqueOK, NoPython
    <2> QED
      BY <1>1, <1>2, <2>1 DEF Own!DropUnique, Own!OwnedByCpp, OwnInv, OwnTypes, UniqueOK, InstanceOK,
                              OwnersOK, NoPython
  <1>3. CASE unique[u] = "python"
    <2>1. Own!RefGone /\ ~NoPython /\ \A w \in Own!Uniques : unique[w] # "cpp"
      BY <1>1, <1>3 DEF Own!DropUnique, Own!OwnedByCpp, NoPython
    <2>2. CASE Own!LastRef
      <3>1. pyrefs = 0 /\ pyShared = 0
        BY <2>1, <2>2, LastRefIs
      <3>2. inst' = "none" /\ ~destroys' /\ ~kept' /\ destroys' \in BOOLEAN /\ kept' \in BOOLEAN
        BY <2>1, <2>2 DEF Own!RefGone, Own!InstanceDies
      <3>3. life' = IF destroys \/ (kept /\ cppShared = 0) THEN "deleted" ELSE life
        BY <2>1, <2>2, DeleteIs DEF Own!RefGone, Own!InstanceDies, OwnInv, OwnersOK
      <3> QED
        BY <1>1, <1>3, <2>1, <3>1, <3>2, <3>3
           DEF Own!DropUnique, OwnInv, OwnTypes, UniqueOK, InstanceOK, OwnersOK, NoPython
    <2>3. CASE ~Own!LastRef
      <3>1. pyrefs # 0 \/ pyShared # 0
        BY <2>1, <2>3, LastRefIs DEF OwnInv, OwnTypes
      <3> QED
        BY <1>1, <1>3, <2>1, <2>3, <3>1
           DEF Own!RefGone, Own!DropUnique, OwnInv, OwnTypes, UniqueOK, InstanceOK, OwnersOK, NoPython
    <2> QED
      BY <2>2, <2>3
  <1> QED
    BY <1>2, <1>3 DEF Own!DropUnique, OwnInv, OwnTypes

-----------------------------------------------------------------------------
(* shared_ptr                                                              *)

LEMMA SharedFromPythonStep ==
  ASSUME OwnInv, Own!SharedFromPython
  PROVE  OwnInv'
  BY DEF Own!SharedFromPython, OwnInv, OwnTypes, UniqueOK, InstanceOK, OwnersOK, NoPython

LEMMA DropPySharedStep ==
  ASSUME OwnInv, Own!DropPyShared
  PROVE  OwnInv'
  <1> USE DEF OwnInv, Own!DropPyShared, Own!RefGone
  <1>1. CASE Own!LastRef
    <2>1. pyrefs = 0 /\ pyShared = 1 /\ NoPython
      BY <1>1, LastRefIs DEF OwnTypes
    <2>2. inst' = "none" /\ pyShared' = 0
      BY <1>1, <2>1 DEF Own!InstanceDies
    <2>3. destroys' \in BOOLEAN /\ kept' \in BOOLEAN /\ ~destroys' /\ ~kept'
      BY <1>1 DEF Own!InstanceDies
    <2>4. life' = IF destroys \/ (kept /\ cppShared = 0) THEN "deleted" ELSE life
      BY <1>1, DeleteIs DEF Own!InstanceDies, OwnersOK
    <2>5. OwnTypes'
      BY <2>1, <2>2, <2>3, <2>4 DEF OwnTypes
    <2>6. UniqueOK'
      BY <2>1, <2>2, <2>3, <2>4 DEF OwnTypes, UniqueOK, NoPython
    <2>7. InstanceOK'
      BY <2>1, <2>2, <2>3 DEF InstanceOK, NoPython
    <2>8. OwnersOK'
      BY <2>1, <2>2, <2>3, <2>4 DEF OwnTypes, InstanceOK, OwnersOK
    <2> QED
      BY <2>5, <2>6, <2>7, <2>8
  <1>2. CASE ~Own!LastRef
    <2>1. pyrefs # 0 \/ pyShared' # 0 \/ ~NoPython
      BY <1>2, LastRefIs DEF OwnTypes
    <2> QED
      BY <1>2, <2>1 DEF OwnTypes, UniqueOK, InstanceOK, OwnersOK, NoPython
  <1> QED
    BY <1>1, <1>2

LEMMA CopySharedStep ==
  ASSUME OwnInv, Own!CopyShared
  PROVE  OwnInv'
  BY DEF Own!CopyShared, OwnInv, OwnTypes, UniqueOK, InstanceOK, OwnersOK, NoPython

LEMMA DropSharedStep ==
  ASSUME OwnInv, Own!DropShared
  PROVE  OwnInv'
  <1>1. cppShared > 0 /\ cppShared \in Nat /\ life = "alive" /\ cppShared' = cppShared - 1
    BY DEF Own!DropShared, OwnInv, OwnTypes, OwnersOK
  <1>2. CASE Own!Shares = 1
    <2>1. cppShared = 1 /\ ~kept /\ life' = "deleted"
      BY <1>1, <1>2, DeleteIs DEF Own!Shares, Own!DropShared
    <2> QED
      BY <1>1, <2>1 DEF Own!DropShared, OwnInv, OwnTypes, UniqueOK, InstanceOK, OwnersOK, NoPython
  <1>3. CASE Own!Shares # 1
    <2>1. kept \/ cppShared' > 0
      BY <1>1, <1>3 DEF Own!Shares
    <2> QED
      BY <1>1, <1>3, <2>1 DEF Own!DropShared, OwnInv, OwnTypes, UniqueOK, InstanceOK, OwnersOK, NoPython
  <1> QED
    BY <1>2, <1>3

LEMMA SharedToPythonStep ==
  ASSUME OwnInv, Own!SharedToPython
  PROVE  OwnInv'
  <1>1. CASE inst = "none"
    <2>1. /\ inst' = "ready" /\ pyShared = 0 /\ cppShared > 0 /\ NoPython
          /\ destroys' \in BOOLEAN /\ kept' \in BOOLEAN /\ ~destroys' /\ kept' /\ ~destroys
      BY <1>1 DEF Own!SharedToPython, Own!NewInstance, OwnInv, OwnTypes, InstanceOK
    <2> QED
      BY <2>1 DEF Own!SharedToPython, OwnInv, OwnTypes, UniqueOK, InstanceOK, OwnersOK, NoPython
  <1>2. CASE inst # "none"
    BY <1>2 DEF Own!SharedToPython, OwnInv, OwnTypes, UniqueOK, InstanceOK, OwnersOK, NoPython
  <1> QED
    BY <1>1, <1>2

-----------------------------------------------------------------------------
LEMMA OwnInvNext ==
  ASSUME OwnInv, [Own!Next]_ownV
  PROVE  OwnInv'
  <1>1. CASE Own!New \/ Own!MakeShared \/ Own!DropRef \/ Own!CopyRef
    BY <1>1, NewStep, MakeSharedStep, DropRefStep, CopyRefStep
  <1>2. CASE Own!SharedFromPython \/ Own!DropPyShared \/ Own!CopyShared \/ Own!DropShared \/ Own!SharedToPython
    BY <1>2, SharedFromPythonStep, DropPySharedStep, CopySharedStep, DropSharedStep,
       SharedToPythonStep
  <1>3. ASSUME NEW u \in Own!Uniques,
               \/ Own!MakeUnique(u) \/ Own!FromPython(u) \/ Own!Cast(u) \/ Own!UniqueToPython(u) \/ Own!DropUnique(u)
        PROVE  OwnInv'
    BY <1>3, MakeUniqueStep, FromPythonStep, CastStep, UniqueToPythonStep, DropUniqueStep
  <1>4. CASE UNCHANGED ownV
    BY <1>4 DEF ownV, OwnInv, OwnTypes, UniqueOK, InstanceOK, OwnersOK, NoPython
  <1> QED
    BY <1>1, <1>2, <1>3, <1>4 DEF Own!Next

\* The parts of the invariant that concern the owners make them one.
LEMMA OwnersAreOne ==
  ASSUME OwnInv
  PROVE  Own!OneOwner
  <1>1. Own!Shares > 0 <=> kept \/ cppShared > 0
    BY DEF Own!Shares, OwnInv, OwnTypes
  <1>2. ASSUME life = "alive" PROVE Own!Cardinality(Own!Owners) = 1
    <2>1. \E x : Own!Owners = {x}
      <3>1. CASE destroys
        <4>1. Own!By("cpp") = {} /\ ~(Own!Shares > 0)
          BY <1>1, <3>1 DEF Own!By, OwnInv, OwnTypes, UniqueOK, OwnersOK
        <4>2. Own!Owners = {"instance"}
          BY <3>1, <4>1 DEF Own!Owners
        <4> QED
          BY <4>2
      <3>2. CASE ~destroys /\ (kept \/ cppShared > 0)
        <4>1. Own!By("cpp") = {}
          BY <3>2 DEF Own!By, OwnInv, OwnTypes, UniqueOK
        <4>2. Own!Owners = {"shares"}
          BY <1>1, <3>2, <4>1 DEF Own!Owners
        <4> QED
          BY <4>2
      <3>3. CASE ~destroys /\ ~(kept \/ cppShared > 0)
        <4>1. PICK u \in Own!Uniques : unique[u] = "cpp"
          BY <1>2, <3>3 DEF OwnInv, OwnersOK
        <4>2. Own!By("cpp") = {u}
          BY <4>1 DEF Own!By, OwnInv, UniqueOK
        <4>3. Own!Owners = {u}
          BY <1>1, <3>3, <4>2 DEF Own!Owners
        <4> QED
          BY <4>3
      <3> QED
        BY <3>1, <3>2, <3>3
    <2> QED
      BY <2>1, FS_Singleton, OwnCardinality
  <1>3. ASSUME life # "alive" PROVE Own!Owners = {}
    <2>1. Own!By("cpp") = {}
      BY <1>3 DEF Own!By, OwnInv, UniqueOK
    <2> QED
      BY <1>1, <1>3, <2>1 DEF Own!Owners, OwnInv, OwnersOK
  <1>4. ASSUME inst = "ready" \/ (\E u \in Own!Uniques : unique[u] # "null")
        PROVE  life = "alive"
    BY <1>4 DEF OwnInv, OwnTypes, UniqueOK, InstanceOK, OwnersOK, NoPython
  <1>5. ASSUME pyShared > 0, life # "alive"
        PROVE  Own!TakenAndDeleted
    BY <1>5 DEF Own!TakenAndDeleted, OwnInv, OwnTypes, InstanceOK, OwnersOK
  <1> QED
    BY <1>2, <1>3, <1>4, <1>5 DEF Own!OneOwner, OwnInv, OwnTypes

\* However often the object goes back and forth, and with any number of pointers
\* of each kind, one of them deletes it and no other, and only a std::unique_ptr
\* that took it from an instance deletes it under shared_ptrs (unique_ptr.h:92-135,
\* shared_ptr.h:27-51, 93-129).
THEOREM OneOwnerAlways == Spec => []OneOwner
  <1>1. Init => OwnInv
    BY ComponentInits, OwnInvInit
  <1>2. OwnInv /\ [Next]_vars => OwnInv'
    BY ComponentSteps, OwnInvNext
  <1>3. OwnInv => OneOwner
    BY OwnersAreOne DEF OneOwner
  <1> QED
    BY <1>1, <1>2, <1>3, PTL DEF Spec
-----------------------------------------------------------------------------
(* Iterators over a bound map, and what keeps the map alive                *)

IterTypes ==
  /\ keys \subseteq Iter!Keys /\ steady \subseteq keys
  /\ it \in 1 .. Iter!End
  /\ seen \in Seq(Iter!Keys)
  /\ lost \in BOOLEAN /\ broken \in BOOLEAN

\* The iterator is at the key it returned last, and of those that have been
\* there all along, the ones it has passed are those it has returned.
IterInv ==
  /\ IterTypes
  /\ \A n \in 1 .. Len(seen) - 1 : seen[n] < seen[n + 1]
  /\ firstOrDone  => seen = << >> \/ it = Iter!End
  /\ ~firstOrDone => seen # << >> /\ seen[Len(seen)] = it /\ it # Iter!End
  /\ \A k \in steady : k < it \/ (k = it /\ ~firstOrDone) => \E n \in DOMAIN seen : seen[n] = k
  /\ done => it = Iter!End
  /\ broken => lost

\* Objects keep those they need, the iterator what has made it.
KeepInv ==
  /\ exist \subseteq Iter!Wraps /\ held \subseteq exist
  /\ maker \in {"map", "view"}
  /\ \A w \in exist : Iter!KeptBy(w) \in exist

\* The next key is the least of those that follow.
LEMMA AfterIs ==
  ASSUME keys \subseteq Iter!Keys, NEW p \in 0 .. Iter!End
  PROVE  /\ Iter!After(p) \in 1 .. Iter!End
         /\ Iter!After(p) # Iter!End => Iter!After(p) \in keys /\ p < Iter!After(p)
         /\ \A k \in keys : p < k => Iter!After(p) <= k
  <1> DEFINE T == {k \in keys : k > p} \cup {Iter!End}
  <1>1. Iter!End \in Nat /\ Iter!End \in 1 .. Iter!End
    BY KeyAssumption DEF Iter!End
  <1>2. \A k \in keys : k \in 1 .. Iter!End
    BY KeyAssumption DEF Iter!Keys, Iter!End
  <1>3. T \subseteq 1 .. Iter!End /\ Iter!End \in Nat
    BY <1>1, <1>2
  <1> HIDE DEF T
  <1>4. T \in SUBSET Nat
    BY <1>3
  <1>5. T # {}
    BY DEF T
  <1>6. PICK n \in T : \A m \in T : n <= m
    BY <1>4, <1>5, LeastElement
  <1>7. Iter!After(p) = CHOOSE x \in T : \A y \in T : x <= y
    BY DEF Iter!After, Iter!Min, T
  <1>8. Iter!After(p) \in T /\ \A m \in T : Iter!After(p) <= m
    BY <1>6, <1>7
  <1> QED
    BY <1>3, <1>8 DEF T

LEMMA IterInvInit == Iter!Init => IterInv /\ KeepInv
  <1> SUFFICES ASSUME Iter!Init PROVE IterInv /\ KeepInv
    OBVIOUS
  <1>0. lost \in BOOLEAN /\ broken \in BOOLEAN /\ ~broken
    BY DEF Iter!Init
  <1>1. IterTypes
    BY <1>0, KeyAssumption DEF Iter!Init, IterTypes, Iter!End
  <1>2. IterInv
    BY <1>0, <1>1 DEF Iter!Init, IterInv, IterTypes
  <1>3. KeepInv
    BY DEF Iter!Init, KeepInv, Iter!Wraps, Iter!KeptBy
  <1> QED
    BY <1>2, <1>3

\* __iter__ starts before the first key.
LEMMA MakeIteratorStep ==
  ASSUME IterInv, ~broken, Iter!MakeIterator
  PROVE  IterInv'
  <1>0. lost' \in BOOLEAN /\ broken' \in BOOLEAN /\ ~broken'
    BY DEF Iter!MakeIterator, IterInv, IterTypes
  <1>1. /\ Iter!After(0) \in 1 .. Iter!End
        /\ \A k \in keys : Iter!After(0) <= k
    BY AfterIs, KeyAssumption DEF IterInv, IterTypes, Iter!Keys, Iter!End
  <1>2. IterTypes'
    BY <1>0, <1>1 DEF Iter!MakeIterator, IterInv, IterTypes
  <1>3. \A k \in steady' : ~(k < it') /\ firstOrDone'
    BY <1>1, <1>2 DEF Iter!MakeIterator, IterTypes, Iter!Keys, Iter!End
  <1> QED
    BY <1>0, <1>2, <1>3 DEF Iter!MakeIterator, IterInv

\* Nothing but the flag changes when the element is gone.
LEMMA IterNextLost ==
  ASSUME IterInv, Iter!IterNext, lost
  PROVE  IterInv'
  <1>1. UNCHANGED <<keys, it, firstOrDone, seen, steady, done, lost>> /\ broken' \in BOOLEAN
    BY DEF Iter!IterNext, IterInv, IterTypes
  <1> QED
    BY <1>1 DEF IterInv, IterTypes

LEMMA IterNextStep ==
  ASSUME IterInv, Iter!IterNext, ~lost
  PROVE  IterInv'
  <1> DEFINE a == Iter!Advanced
  <1>1. /\ a \in 1 .. Iter!End
        /\ a # Iter!End /\ ~firstOrDone => it < a
        /\ \A k \in keys : firstOrDone \/ it < k => a <= k \/ (firstOrDone /\ k < it)
    <2>1. CASE firstOrDone
      BY <2>1, KeyAssumption DEF Iter!Advanced, IterInv, IterTypes, Iter!Keys, Iter!End
    <2>2. CASE ~firstOrDone
      <3>1. it \in 0 .. Iter!End /\ keys \subseteq Iter!Keys
        BY KeyAssumption DEF IterInv, IterTypes, Iter!End
      <3>2. a = Iter!After(it)
        BY <2>2 DEF Iter!Advanced
      <3> QED
        BY <2>2, <3>1, <3>2, AfterIs
    <2> QED
      BY <2>1, <2>2
  <1>2. it' = a /\ UNCHANGED <<keys, steady, lost>> /\ ~broken' /\ broken' \in BOOLEAN
    BY DEF Iter!IterNext, IterInv, IterTypes
  <1>3. CASE a = Iter!End
    <2>1. firstOrDone' = TRUE /\ done' = TRUE /\ seen' = seen
      BY <1>3 DEF Iter!IterNext, Iter!StopsHere
    <2>2. IterTypes'
      BY <1>1, <1>2, <2>1 DEF IterInv, IterTypes
    <2>3. ASSUME NEW k \in steady PROVE \E n \in DOMAIN seen : seen[n] = k
      <3>1. k \in keys /\ k \in Iter!Keys /\ k < Iter!End
        BY KeyAssumption DEF IterInv, IterTypes, Iter!Keys, Iter!End
      <3>2. k < it \/ (k = it /\ ~firstOrDone)
        BY <1>1, <1>3, <3>1, KeyAssumption DEF IterInv, IterTypes, Iter!Keys, Iter!End
      <3> QED
        BY <3>2 DEF IterInv
    <2> QED
      BY <1>2, <1>3, <2>1, <2>2, <2>3 DEF IterInv
  <1>4. CASE a # Iter!End
    <2>1. firstOrDone' = FALSE /\ done' = done /\ seen' = Append(seen, a)
      BY <1>4 DEF Iter!IterNext
    <2>2. a \in Iter!Keys
      BY <1>1, <1>4, KeyAssumption DEF Iter!Keys, Iter!End
    <2>3. IterTypes'
      BY <1>1, <1>2, <2>1, <2>2 DEF IterInv, IterTypes
    <2>4. /\ Len(seen') = Len(seen) + 1 /\ seen'[Len(seen')] = a
          /\ \A n \in 1 .. Len(seen) : seen'[n] = seen[n]
          /\ seen \in Seq(Iter!Keys) /\ Len(seen) \in Nat
      BY <2>1, <2>2 DEF IterInv, IterTypes
    <2>5. ASSUME NEW n \in 1 .. Len(seen') - 1 PROVE seen'[n] < seen'[n + 1]
      <3>1. CASE n < Len(seen)
        BY <2>4, <3>1 DEF IterInv
      <3>2. CASE n = Len(seen)
        <4>1. ~firstOrDone /\ seen[n] = it
          BY <1>4, <2>4, <3>2 DEF IterInv, Iter!Advanced
        <4> QED
          BY <1>1, <1>4, <2>4, <3>2, <4>1
      <3> QED
        BY <2>4, <3>1, <3>2
    <2>6. ASSUME NEW k \in steady, k < a \/ k = a
          PROVE  \E n \in DOMAIN seen' : seen'[n] = k
      <3>1. CASE k = a
        BY <2>4, <3>1
      <3>2. CASE k # a
        <4>1. k < it \/ (k = it /\ ~firstOrDone)
          BY <1>1, <2>6, <3>2, KeyAssumption DEF IterInv, IterTypes, Iter!Keys, Iter!End
        <4>2. PICK n \in DOMAIN seen : seen[n] = k
          BY <4>1 DEF IterInv
        <4> QED
          BY <2>4, <4>2
      <3> QED
        BY <3>1, <3>2
    <2>7. ~done
      BY <1>1, <1>4, KeyAssumption DEF IterInv, IterTypes, Iter!End, Iter!Advanced
    <2> QED
      BY <1>2, <1>4, <2>1, <2>3, <2>4, <2>5, <2>6, <2>7 DEF IterInv
  <1> QED
    BY <1>3, <1>4

LEMMA IterInvNext ==
  ASSUME IterInv, [Iter!Next]_iterV
  PROVE  IterInv'
  <1>1. CASE UNCHANGED <<keys, it, firstOrDone, seen, steady, done, lost, broken>>
    BY <1>1 DEF IterInv, IterTypes
  <1>2. CASE Iter!Clear
    BY <1>2 DEF Iter!Clear, Iter!Erased, IterInv, IterTypes
  <1>3. ASSUME NEW ks \in SUBSET Iter!Keys, Iter!SetItems(ks) PROVE IterInv'
    BY <1>3 DEF Iter!SetItems, Iter!Erased, IterInv, IterTypes
  <1>4. ASSUME NEW k \in Iter!Keys, Iter!DelItem(k) PROVE IterInv'
    BY <1>4 DEF Iter!DelItem, Iter!Erased, IterInv, IterTypes
  <1>6. CASE Iter!UpdateBySelf
    BY <1>6 DEF Iter!UpdateBySelf, IterInv, IterTypes
  <1>5. CASE Iter!MakeView \/ (\E w \in Iter!Wraps : Iter!Drop(w)) \/ UNCHANGED iterV
    BY <1>1, <1>5 DEF Iter!MakeView, Iter!Drop, iterV
  <1> QED
    BY <1>2, <1>3, <1>4, <1>5, <1>6, MakeIteratorStep, IterNextLost, IterNextStep DEF Iter!Next

\* An iterator visits each key once and stops at the end, and only an element that
\* was erased under it breaks it (make_iterator.h:55-68, bind_map.h:26-35, 66-168).
THEOREM EachKeyOnce == Spec => []VisitsOnce
  <1>1. Init => IterInv
    BY ComponentInits, IterInvInit
  <1>2. IterInv /\ [Next]_vars => IterInv'
    BY ComponentSteps, IterInvNext
  <1>3. IterInv => VisitsOnce
    <2> SUFFICES ASSUME IterInv PROVE VisitsOnce
      OBVIOUS
    <2>1. ASSUME done, NEW k \in steady PROVE k \in Iter!ToSet(seen)
      <3>1. k < it
        BY <2>1, KeyAssumption DEF IterInv, IterTypes, Iter!Keys, Iter!End
      <3> QED
        BY <2>1, <3>1 DEF IterInv, Iter!ToSet
    <2> QED
      BY <2>1 DEF IterInv, VisitsOnce, Iter!VisitsOnce
  <1> QED
    BY <1>1, <1>2, <1>3, PTL DEF Spec

-----------------------------------------------------------------------------
\* What three steps reach keeps what it needs.
LEMMA ReachedCloses ==
  ASSUME KeepInv, NEW ws \in SUBSET exist
  PROVE  /\ ws \subseteq Iter!Reached(ws) /\ Iter!Reached(ws) \subseteq exist
         /\ \A w \in Iter!Reached(ws) : Iter!KeptBy(w) \in Iter!Reached(ws)
  <1> DEFINE K(ss) == ss \cup {Iter!KeptBy(w) : w \in ss}
             one == K(ws)  two == K(one)  three == K(two)
  <1>1. Iter!Reached(ws) = three
    BY DEF Iter!Reached
  <1>2. ASSUME NEW ss \in SUBSET exist PROVE K(ss) \in SUBSET exist
    BY DEF KeepInv
  <1>3. one \in SUBSET exist
    BY <1>2
  <1>4. two \in SUBSET exist
    BY <1>2, <1>3
  <1>5. three \in SUBSET exist
    BY <1>2, <1>4
  <1>6. ASSUME NEW w \in exist
        PROVE  LET v == Iter!KeptBy(Iter!KeptBy(Iter!KeptBy(w))) IN v = "map"
    BY DEF KeepInv, Iter!Wraps, Iter!KeptBy
  <1>7. ASSUME NEW w \in three PROVE Iter!KeptBy(w) \in three
    <2>1. CASE w \in two
      BY <2>1
    <2>2. CASE w \notin two
      <3>1. PICK a \in ws : w = Iter!KeptBy(Iter!KeptBy(Iter!KeptBy(a)))
        BY <2>2
      <3>2. w = "map"
        BY <1>6, <3>1
      <3> QED
        BY <3>2 DEF Iter!KeptBy
    <2> QED
      BY <2>1, <2>2
  <1> QED
    BY <1>1, <1>5, <1>7

LEMMA KeepInvNext ==
  ASSUME KeepInv, [Iter!Next]_iterV
  PROVE  KeepInv'
  <1>1. ASSUME NEW w \in Iter!Wraps, Iter!Drop(w) PROVE KeepInv'
    <2>1. held \ {w} \in SUBSET exist
      BY DEF KeepInv
    <2> QED
      BY <1>1, <2>1, ReachedCloses DEF KeepInv, Iter!Drop, Iter!KeptBy
  <1>2. CASE Iter!MakeView
    BY <1>2 DEF Iter!MakeView, Iter!Make, KeepInv, Iter!Wraps, Iter!KeptBy
  <1>3. CASE Iter!MakeIterator
    BY <1>3 DEF Iter!MakeIterator, Iter!Make, KeepInv, Iter!Wraps, Iter!KeptBy
  <1>4. CASE Iter!IterNext
    BY <1>4 DEF Iter!IterNext, Iter!Make, KeepInv, Iter!Wraps, Iter!KeptBy
  <1>5. CASE Iter!Clear \/ Iter!UpdateBySelf \/ (\E k \in Iter!Keys : Iter!DelItem(k))
              \/ (\E ks \in SUBSET Iter!Keys : Iter!SetItems(ks)) \/ UNCHANGED iterV
    BY <1>5 DEF Iter!Clear, Iter!UpdateBySelf, Iter!SetItems, Iter!DelItem, iterV, KeepInv, Iter!KeptBy
  <1> QED
    BY <1>1, <1>2, <1>3, <1>4, <1>5 DEF Iter!Next

\* Whatever Python keeps of a map keeps the map (bind_map.h:66-71, 132-166).
THEOREM ViewsKeepMaps == Spec => []MapOutlivesViews
  <1>1. Init => KeepInv
    BY ComponentInits, IterInvInit
  <1>2. KeepInv /\ [Next]_vars => KeepInv'
    BY ComponentSteps, KeepInvNext
  <1>3. KeepInv => MapOutlivesViews
    <2> SUFFICES ASSUME KeepInv, NEW w \in held PROVE "map" \in exist
      BY DEF MapOutlivesViews, Iter!MapOutlivesViews
    <2>1. Iter!KeptBy(w) \in exist /\ Iter!KeptBy(Iter!KeptBy(w)) \in exist
          /\ Iter!KeptBy(Iter!KeptBy(Iter!KeptBy(w))) \in exist
      BY DEF KeepInv
    <2> QED
      BY <2>1 DEF KeepInv, Iter!Wraps, Iter!KeptBy
  <1> QED
    BY <1>1, <1>2, <1>3, PTL DEF Spec
-----------------------------------------------------------------------------
(* Reference counts: ObjectRefsProofs has the invariant                    *)

RefsProofs == INSTANCE ObjectRefsProofs WITH Null <- NullRef

\* Both instances say the same.
LEMMA RefsSame ==
  /\ RefsProofs!Wellformed
  /\ Refs!Init <=> RefsProofs!Init
  /\ [Refs!Next]_refsV <=> [RefsProofs!Next]_RefsProofs!refVars
  /\ Refs!RefsExact <=> RefsProofs!RefsExact
  <1>1. RefsProofs!Wellformed
    BY RefsAssumption
       DEF RefsProofs!Wellformed, RefsProofs!Holders, RefsProofs!Vars, RefsProofs!Objs,
           RefsProofs!IsFiniteSet, IsFiniteSet
  <1>2. Refs!Init <=> RefsProofs!Init
    BY DEF Refs!Init, Refs!Holders, Refs!Vars, Refs!Objs,
           RefsProofs!Init, RefsProofs!Holders, RefsProofs!Vars, RefsProofs!Objs
  <1>3. Refs!RefsExact <=> RefsProofs!RefsExact
    BY DEF Refs!RefsExact, Refs!Held, Refs!InFlight, Refs!Resetting, Refs!Objs, Refs!Holders,
           Refs!Vars, Refs!Cardinality,
           RefsProofs!RefsExact, RefsProofs!Held, RefsProofs!InFlight, RefsProofs!Resetting,
           RefsProofs!Objs, RefsProofs!Holders, RefsProofs!Vars, RefsProofs!Cardinality
  <1>4. [Refs!Next]_refsV <=> [RefsProofs!Next]_RefsProofs!refVars
    BY DEF refsV, RefsProofs!refVars,
           Refs!Next, Refs!Copies, Refs!Moves, Refs!Destroys, Refs!Resets, Refs!Assigns,
           Refs!Advances, Refs!ArrayAssigns, Refs!SetItems, Refs!News, Refs!Finalized,
           Refs!Copy, Refs!Move, Refs!Destroy, Refs!Reset, Refs!CopyAssign, Refs!MoveAssign,
           Refs!CopyArray, Refs!MoveArray, Refs!SetItem, Refs!New, Refs!Alike,
           Refs!CountsFirst, Refs!CountsLast, Refs!Rest, Refs!Frame, Refs!Counts, Refs!Dies,
           Refs!Idle, Refs!Busy, Refs!MayHold, Refs!Objs, Refs!Holders, Refs!Vars,
           RefsProofs!Next, RefsProofs!Copies, RefsProofs!Moves, RefsProofs!Destroys,
           RefsProofs!Resets, RefsProofs!Assigns, RefsProofs!Advances,
           RefsProofs!ArrayAssigns, RefsProofs!SetItems, RefsProofs!News,
           RefsProofs!Finalized, RefsProofs!Copy, RefsProofs!Move, RefsProofs!Destroy,
           RefsProofs!Reset, RefsProofs!CopyAssign, RefsProofs!MoveAssign,
           RefsProofs!CopyArray, RefsProofs!MoveArray, RefsProofs!SetItem, RefsProofs!New,
           RefsProofs!Alike, RefsProofs!CountsFirst, RefsProofs!CountsLast,
           RefsProofs!Rest, RefsProofs!Frame, RefsProofs!Counts, RefsProofs!Dies,
           RefsProofs!Idle, RefsProofs!Busy, RefsProofs!MayHold, RefsProofs!Objs,
           RefsProofs!Holders, RefsProofs!Vars
  <1> QED
    BY <1>1, <1>2, <1>3, <1>4

\* Whatever finalizers do in the middle of an assignment, and however deep they
\* nest, a count is the number of references to be given back
\* (nb_types.h:210-241, nb_accessor.h:126-136, ndarray.h:265-293).
THEOREM CountsAreExact == Spec => []RefsExact
  <1>1. Init => RefsProofs!RefInv
    BY ComponentInits, RefsSame, RefsProofs!RefInvInit
  <1>2. RefsProofs!RefInv /\ [Next]_vars => RefsProofs!RefInv'
    BY ComponentSteps, RefsSame, RefsProofs!RefInvNext
  <1>3. RefsProofs!RefInv => RefsExact
    BY RefsSame DEF RefsProofs!RefInv, RefsExact
  <1> QED
    BY <1>1, <1>2, <1>3, PTL DEF Spec
-----------------------------------------------------------------------------
(* Conversions of containers                                               *)

CastTypes ==
  /\ job \in [dir : {"none", "from_cpp", "from_python"}, kind : Cast!Kinds \cup {"none"},
              n : 0 .. MaxElems]
  /\ idx \in 1 .. job.n + 1

\* Parts of the elements up to k.
PartsUpto(k) == UNION {Cast!PartsOf(e) : e \in 1 .. k}

\* A conversion holds one reference to each part it has put into the container,
\* which are those of the elements up to idx; make_tuple leaves some out.
CppInv ==
  /\ CastTypes
  /\ partRefs \in [Cast!Parts -> Int]
  /\ \A p \in Cast!Parts : partRefs[p] = IF p \in within THEN 1 ELSE 0
  /\ job.dir # "from_cpp" \/ at \in {"new", "null"} => within = {}
  /\ job.dir = "from_cpp" => at \notin {"idle", "close", "loaded", "refused"}
  /\ job.dir # "from_cpp" => at \notin {"object", "null", "crashed"}
  /\ job.dir = "none" <=> at = "idle"
  /\ at \in {"idle", "new"} => idx = 1
  /\ at = "fill" /\ job.dir = "from_cpp" =>
       IF job.kind = "make_tuple" THEN within \subseteq PartsUpto(idx - 1) ELSE within = PartsUpto(idx - 1)
  /\ at = "object" => within = Cast!AllParts

Loaded(k) == [n \in 1 .. k |-> n]

\* A conversion from Python has taken the elements before idx; an array or a
\* tuple may start with what was there before, which the first element replaces.
PythonInv ==
  /\ CastTypes
  /\ at \in {"idle", "new", "fill", "close", "loaded", "refused", "object", "null", "crashed"}
  /\ job.dir = "from_cpp" => at \notin {"close", "loaded", "refused"}
  /\ at = "idle" => job.dir = "none" /\ idx = 1 /\ job.n = 0
  /\ at \in {"new", "idle"} => idx = 1
  /\ at \in {"new", "idle", "fill", "refused", "loaded"} => error = FALSE
  /\ at \in {"new", "idle", "refused", "loaded"} => temp = 0
  /\ at = "new" => value \in {<< >>, <<0>>}
  /\ at \in {"fill", "close"} /\ job.dir = "from_python" =>
       /\ job.kind \in Cast!Fixed => job.n = ArraySize
       /\ \/ value = Loaded(idx - 1)
          \/ job.kind \in Cast!Fixed /\ idx = 1 /\ value = <<0>>
  /\ at = "loaded" => value = Loaded(job.n)

-----------------------------------------------------------------------------
LEMMA UptoIs ==
  ASSUME NEW k \in Nat
  PROVE  /\ \A p : p \in PartsUpto(k) <=> \E e \in 1 .. k : p \in Cast!PartsOf(e)
         /\ PartsUpto(0) = {}
         /\ PartsUpto(k + 1) = PartsUpto(k) \cup Cast!PartsOf(k + 1)
         /\ PartsUpto(k) \cap Cast!PartsOf(k + 1) = {}
         /\ k <= MaxElems => PartsUpto(k) \subseteq Cast!Parts
  <1>1. \A p : p \in PartsUpto(k) <=> \E e \in 1 .. k : p \in Cast!PartsOf(e)
    BY DEF PartsUpto
  <1>2. PartsUpto(0) = {}
    BY DEF PartsUpto
  <1>3. PartsUpto(k + 1) = PartsUpto(k) \cup Cast!PartsOf(k + 1)
    <2>1. 1 .. k + 1 = (1 .. k) \cup {k + 1}
      OBVIOUS
    <2> QED
      BY <2>1 DEF PartsUpto
  <1>4. \A e, p : p \in Cast!PartsOf(e) => p[1] = e
    BY DEF Cast!PartsOf
  <1>5. PartsUpto(k) \cap Cast!PartsOf(k + 1) = {}
    BY <1>1, <1>4
  <1>6. ASSUME k <= MaxElems, NEW e \in 1 .. k PROVE Cast!PartsOf(e) \subseteq Cast!Parts
    BY <1>6, SizeAssumption DEF Cast!PartsOf, Cast!Parts
  <1> QED
    BY <1>1, <1>2, <1>3, <1>5, <1>6

\* One more part of each, or none left.
LEMMA GainOne ==
  ASSUME CppInv, NEW parts, parts \cap within = {}, parts \subseteq Cast!Parts,
         Cast!Gain(parts, 1), within' = within \cup parts
  PROVE  /\ partRefs' \in [Cast!Parts -> Int]
         /\ \A p \in Cast!Parts : partRefs'[p] = IF p \in within' THEN 1 ELSE 0
  BY DEF CppInv, Cast!Gain

LEMMA GivesUpAll ==
  ASSUME CppInv, Cast!GivesUp(within), job.dir = "from_cpp"
  PROVE  CppInv'
  <1>1. /\ partRefs' \in [Cast!Parts -> Int] /\ within' = {} /\ at' = "null"
        /\ \A p \in Cast!Parts : partRefs'[p] = 0
        /\ UNCHANGED <<job, idx>>
    BY DEF Cast!GivesUp, Cast!Gain, CppInv
  <1> QED
    BY <1>1 DEF CppInv, CastTypes

\* The parts of element idx go into the container, or only if made has them.
LEMMA PutsElement ==
  ASSUME CppInv, Cast!Filling, Cast!Gain(Cast!PartsOf(idx), 1),
         within' = within \cup Cast!PartsOf(idx), Cast!NextElement
  PROVE  CppInv'
  <1>1. /\ idx \in Nat /\ idx - 1 \in Nat /\ idx <= job.n /\ job.n \in 0 .. MaxElems /\ idx <= MaxElems
        /\ at = "fill" /\ job.dir = "from_cpp" /\ within \subseteq PartsUpto(idx - 1)
    BY SizeAssumption DEF CppInv, CastTypes, Cast!Filling, Cast!Goes
  <1>2. /\ PartsUpto(idx) = PartsUpto(idx - 1) \cup Cast!PartsOf(idx)
        /\ PartsUpto(idx - 1) \cap Cast!PartsOf(idx) = {}
        /\ PartsUpto(idx) \subseteq Cast!Parts
    <2>1. idx - 1 + 1 = idx
      BY <1>1
    <2> QED
      BY <1>1, <2>1, UptoIs
  <1>3. /\ partRefs' \in [Cast!Parts -> Int]
        /\ \A p \in Cast!Parts : partRefs'[p] = IF p \in within' THEN 1 ELSE 0
    BY <1>1, <1>2, GainOne
  <1>4. UNCHANGED <<job, at>> /\ idx' = idx + 1 /\ idx' - 1 = idx
    BY <1>1 DEF Cast!NextElement
  <1>5. PartsUpto(idx - 1)' = PartsUpto(idx)
    BY <1>4 DEF PartsUpto, Cast!PartsOf
  <1>6. CastTypes'
    BY <1>1, <1>4 DEF CppInv, CastTypes
  <1> QED
    BY <1>1, <1>2, <1>3, <1>4, <1>5, <1>6 DEF CppInv

\* Nothing but the place changes.
LEMMA CppMoves ==
  ASSUME CppInv, UNCHANGED <<job, idx, partRefs, within>>
  PROVE  /\ CastTypes'
         /\ partRefs' \in [Cast!Parts -> Int]
         /\ \A p \in Cast!Parts : partRefs'[p] = IF p \in within' THEN 1 ELSE 0
         /\ PartsUpto(idx - 1)' = PartsUpto(idx - 1) /\ Cast!AllParts' = Cast!AllParts
  BY DEF CppInv, CastTypes, PartsUpto, Cast!AllParts, Cast!PartsOf

LEMMA CppInvInit == Cast!Init => CppInv /\ PythonInv
  BY SizeAssumption DEF Cast!Init, CppInv, PythonInv, CastTypes

LEMMA CppInvNext ==
  ASSUME CppInv, [Cast!Next]_castV
  PROVE  CppInv'
  <1>1. ASSUME NEW dir \in {"from_cpp", "from_python"}, NEW kind \in Cast!Kinds,
               NEW n \in 0 .. MaxElems, Cast!Begin(dir, kind, n)
        PROVE  CppInv'
    <2>1. /\ job' = [dir |-> dir, kind |-> kind, n |-> n] /\ at' \in {"new", "fill"}
          /\ at' = "fill" => dir = "from_cpp" /\ kind = "tuple"
          /\ UNCHANGED <<idx, partRefs, within>>
          /\ job.dir = "none" /\ idx = 1 /\ within = {}
      BY <1>1 DEF Cast!Begin, CppInv, CastTypes
    <2>2. PartsUpto(idx - 1)' = {}
      BY <2>1 DEF PartsUpto
    <2>3. job'.dir = dir /\ job'.kind = kind /\ job'.n = n /\ CastTypes'
      BY <2>1 DEF CastTypes
    <2> QED
      BY <2>1, <2>2, <2>3 DEF CppInv
  <1>2. CASE Cast!NewContainer
    <2>1. PartsUpto(idx - 1)' = {}
      BY <1>2 DEF Cast!NewContainer, Cast!Goes, CppInv, PartsUpto
    <2> QED
      BY <1>2, <2>1, CppMoves DEF Cast!NewContainer, Cast!Goes, CppInv
  <1>3. CASE Cast!StealElement \/ Cast!AddElement \/ Cast!MakeLocal
    BY <1>3, PutsElement, GivesUpAll
       DEF Cast!StealElement, Cast!AddElement, Cast!MakeLocal, Cast!Filling, Cast!Goes
  <1>4. CASE Cast!SetOrNull
    <2>1. CASE Cast!NextElement /\ UNCHANGED <<partRefs, within>>
      <3>1. /\ idx \in Nat /\ idx - 1 \in Nat /\ idx <= job.n /\ at = "fill" /\ job.dir = "from_cpp"
            /\ job.kind = "make_tuple"
        BY <1>4 DEF Cast!SetOrNull, Cast!Filling, Cast!Goes, CppInv, CastTypes
      <3>2. UNCHANGED <<job, at, partRefs, within>> /\ idx' = idx + 1 /\ CastTypes'
        BY <2>1, <3>1 DEF Cast!NextElement, CppInv, CastTypes
      <3>3. PartsUpto(idx) = PartsUpto(idx - 1) \cup Cast!PartsOf(idx)
        <4>1. idx - 1 + 1 = idx
          BY <3>1
        <4> QED
          BY <3>1, <4>1, UptoIs
      <3>4. PartsUpto(idx - 1)' = PartsUpto(idx)
        BY <3>1, <3>2 DEF PartsUpto, Cast!PartsOf
      <3> QED
        BY <3>1, <3>2, <3>3, <3>4 DEF CppInv
    <2> QED
      BY <1>4, <2>1, PutsElement DEF Cast!SetOrNull
  <1>5. CASE Cast!ReturnContainer \/ Cast!ReturnTuple
    <2>1. idx - 1 = job.n
      BY <1>5 DEF Cast!ReturnContainer, Cast!ReturnTuple, Cast!Filled, Cast!Goes, CppInv, CastTypes
    <2>2. within = Cast!AllParts
      BY <1>5, <2>1
         DEF Cast!ReturnContainer, Cast!ReturnTuple, Cast!Filled, Cast!Goes, CppInv, PartsUpto, Cast!AllParts
    <2> QED
      BY <1>5, <2>2, CppMoves DEF Cast!ReturnContainer, Cast!ReturnTuple, Cast!Filled, Cast!Goes, CppInv
  <1>6. CASE Cast!CheckTuple
    BY <1>6, CppMoves, GivesUpAll DEF Cast!CheckTuple, Cast!Filled, Cast!Goes, CppInv
  <1>7. CASE Cast!Open \/ Cast!NextRaises \/ Cast!LoadedAll \/ Cast!CloseTemp
    BY <1>7, CppMoves DEF Cast!Open, Cast!NextRaises, Cast!LoadedAll, Cast!CloseTemp, Cast!Goes, CppInv
  <1>8. CASE Cast!LoadElement
    BY <1>8 DEF Cast!LoadElement, Cast!Loading, Cast!Goes, CppInv, CastTypes
  <1>9. CASE UNCHANGED castV
    BY <1>9, CppMoves DEF castV, CppInv
  <1> QED
    BY <1>1, <1>2, <1>3, <1>4, <1>5, <1>6, <1>7, <1>8, <1>9 DEF Cast!Next

\* Whichever call fails, a conversion to Python ends with the whole container
\* or with no reference left (nb_list.h:55-75, nb_dict.h:63-83, nb_set.h:55-72,
\* pair.h:70-87, tuple.h:68-87, nb_cast.h:372-388).
THEOREM NoPartLeaks == Spec => []NoReferenceLost
  <1>1. Init => CppInv
    BY ComponentInits, CppInvInit
  <1>2. CppInv /\ [Next]_vars => CppInv'
    BY ComponentSteps, CppInvNext
  <1>3. CppInv => NoReferenceLost
    BY DEF CppInv, NoReferenceLost, Cast!NoReferenceLost
  <1> QED
    BY <1>1, <1>2, <1>3, PTL DEF Spec

-----------------------------------------------------------------------------
\* An element is appended, or put in the place of what was there.
LEMMA StoreNext ==
  ASSUME PythonInv, Cast!Loading
  PROVE  Cast!Store(idx) = Loaded(idx)
  <1>1. /\ idx \in Nat \ {0} /\ idx - 1 \in Nat /\ at = "fill" /\ job.dir = "from_python"
        /\ \/ value = Loaded(idx - 1)
           \/ job.kind \in Cast!Fixed /\ idx = 1 /\ value = <<0>>
    BY DEF Cast!Loading, Cast!Goes, PythonInv, CastTypes
  <1>2. CASE value = Loaded(idx - 1)
    <2>1. value \in Seq(Nat) /\ Len(value) = idx - 1 /\ \A n \in 1 .. idx - 1 : value[n] = n
      BY <1>1, <1>2 DEF Loaded
    <2>2. Cast!Store(idx) = Append(value, idx)
      BY <1>1, <2>1 DEF Cast!Store
    <2>3. Append(value, idx) \in Seq(Nat) /\ Len(Append(value, idx)) = idx
      BY <1>1, <2>1
    <2>4. \A n \in 1 .. idx : Append(value, idx)[n] = n
      BY <1>1, <2>1
    <2>5. Append(value, idx) = [n \in 1 .. idx |-> n]
      <3>1. Append(value, idx) \in [1 .. idx -> Nat]
        BY <2>3, LenProperties
      <3> QED
        BY <2>4, <3>1
    <2> QED
      BY <2>2, <2>5 DEF Loaded
  <1>3. CASE job.kind \in Cast!Fixed /\ idx = 1 /\ value = <<0>>
    <2>1. Cast!Store(idx) = [value EXCEPT ![1] = 1]
      BY <1>3 DEF Cast!Store
    <2>2. [value EXCEPT ![1] = 1] = [n \in 1 .. 1 |-> 1]
      BY <1>3
    <2>3. Loaded(idx) = [n \in 1 .. 1 |-> 1]
      BY <1>3 DEF Loaded
    <2> QED
      BY <2>1, <2>2, <2>3
  <1> QED
    BY <1>1, <1>2, <1>3

LEMMA PythonInvNext ==
  ASSUME PythonInv, [Cast!Next]_castV
  PROVE  PythonInv'
  <1>1. ASSUME NEW dir \in {"from_cpp", "from_python"}, NEW kind \in Cast!Kinds,
               NEW n \in 0 .. MaxElems, Cast!Begin(dir, kind, n)
        PROVE  PythonInv'
    <2>1. /\ job' = [dir |-> dir, kind |-> kind, n |-> n] /\ at' \in {"new", "fill"}
          /\ at' = "fill" => dir = "from_cpp"
          /\ UNCHANGED <<idx, temp, error>> /\ value' \in {<< >>, <<0>>}
          /\ idx = 1 /\ temp = 0 /\ error = FALSE
      BY <1>1 DEF Cast!Begin, PythonInv
    <2>2. job'.dir = dir /\ job'.kind = kind /\ job'.n = n /\ CastTypes'
      BY <2>1 DEF CastTypes
    <2> QED
      BY <2>1, <2>2 DEF PythonInv
  <1>2. CASE \/ Cast!NewContainer \/ Cast!StealElement \/ Cast!AddElement \/ Cast!MakeLocal
             \/ Cast!SetOrNull \/ Cast!ReturnContainer \/ Cast!ReturnTuple \/ Cast!CheckTuple
    <2>1. job.dir = "from_cpp" /\ at \in {"new", "fill"} /\ error = FALSE
      BY <1>2 DEF Cast!NewContainer, Cast!StealElement, Cast!AddElement, Cast!MakeLocal,
                  Cast!SetOrNull, Cast!ReturnContainer, Cast!ReturnTuple, Cast!CheckTuple,
                  Cast!Filled, Cast!Filling, Cast!Goes, PythonInv
    <2>2. /\ UNCHANGED <<job, temp, error, value>>
          /\ at' \in {"fill", "object", "null", "crashed"}
          /\ idx' = idx \/ (idx' = idx + 1 /\ idx <= job.n)
      BY <1>2 DEF Cast!NewContainer, Cast!StealElement, Cast!AddElement, Cast!MakeLocal,
                  Cast!SetOrNull, Cast!ReturnContainer, Cast!ReturnTuple, Cast!CheckTuple,
                  Cast!Filled, Cast!Filling, Cast!Goes, Cast!NextElement, Cast!GivesUp
    <2>3. CastTypes'
      BY <2>2 DEF PythonInv, CastTypes
    <2> QED
      BY <2>1, <2>2, <2>3 DEF PythonInv
  <1>3. CASE Cast!Open
    <2>1. /\ job.dir = "from_python" /\ at = "new" /\ idx = 1 /\ UNCHANGED <<job, idx, error>>
          /\ error = FALSE /\ value \in {<< >>, <<0>>} /\ CastTypes'
      BY <1>3 DEF Cast!Open, Cast!Goes, PythonInv, CastTypes
    <2>2. Loaded(idx - 1) = << >>
      BY <2>1 DEF Loaded
    <2>3. \/ value' = Loaded(idx - 1)
          \/ job.kind \in Cast!Fixed /\ value' = <<0>>
      BY <1>3, <2>1, <2>2 DEF Cast!Open
    <2>4. \/ at' = "fill" /\ (job.kind \in Cast!Fixed => job.n = ArraySize)
          \/ at' = "refused" /\ temp' = 0
      BY <1>3 DEF Cast!Open
    <2> QED
      BY <2>1, <2>3, <2>4 DEF PythonInv, Loaded
  <1>4. CASE Cast!LoadElement
    <2>1. /\ job.dir = "from_python" /\ at = "fill" /\ idx <= job.n /\ error = FALSE
          /\ UNCHANGED <<job, error, temp>> /\ CastTypes
          /\ job.kind \in Cast!Fixed => job.n = ArraySize
      BY <1>4 DEF Cast!LoadElement, Cast!Loading, Cast!Goes, PythonInv
    <2>2. CASE value' = Cast!Store(idx) /\ idx' = idx + 1 /\ UNCHANGED at
      <3>1. CastTypes' /\ idx' - 1 = idx
        BY <2>1, <2>2 DEF CastTypes
      <3>2. value' = Loaded(idx' - 1)
        BY <1>4, <2>2, <3>1, StoreNext DEF Cast!LoadElement
      <3> QED
        BY <2>1, <2>2, <3>1, <3>2 DEF PythonInv, Loaded
    <2>3. CASE at' = "close" /\ UNCHANGED <<value, idx>>
      BY <2>1, <2>3 DEF PythonInv, Loaded, CastTypes
    <2> QED
      BY <1>4, <2>2, <2>3 DEF Cast!LoadElement
  <1>5. CASE Cast!NextRaises \/ Cast!LoadedAll
    BY <1>5 DEF Cast!NextRaises, Cast!LoadedAll, Cast!Goes, PythonInv, CastTypes, Loaded
  <1>6. CASE Cast!CloseTemp
    <2>1. /\ job.dir = "from_python" /\ at = "close" /\ CastTypes /\ temp' = 0 /\ error' = FALSE
          /\ UNCHANGED <<job, idx, value>> /\ at' \in {"loaded", "refused"}
      BY <1>6 DEF Cast!CloseTemp, Cast!Goes, PythonInv
    <2>2. ASSUME at' = "loaded" PROVE value' = Loaded(job.n)
      <3>1. idx > job.n /\ idx - 1 = job.n
        BY <1>6, <2>1, <2>2 DEF Cast!CloseTemp, CastTypes
      <3>2. job.kind \in Cast!Fixed => idx # 1
        BY <2>1, <3>1, SizeAssumption DEF PythonInv
      <3> QED
        BY <2>1, <3>1, <3>2 DEF PythonInv
    <2> QED
      BY <2>1, <2>2 DEF PythonInv, CastTypes, Loaded
  <1>7. CASE UNCHANGED castV
    BY <1>7 DEF castV, PythonInv, CastTypes, Loaded
  <1> QED
    BY <1>1, <1>2, <1>3, <1>4, <1>5, <1>6, <1>7 DEF Cast!Next

\* A conversion from Python takes all elements and nothing else, or says no, and
\* leaves no temporary and no exception (nb_list.h:25-53, nb_dict.h:25-61,
\* nb_set.h:22-53, nb_array.h:14-37).
THEOREM LoadsAll == Spec => []LoadsAllOrNothing
  <1>1. Init => PythonInv
    BY ComponentInits, CppInvInit
  <1>2. PythonInv /\ [Next]_vars => PythonInv'
    BY ComponentSteps, PythonInvNext
  <1>3. PythonInv => LoadsAllOrNothing
    BY DEF PythonInv, LoadsAllOrNothing, Cast!LoadsAllOrNothing, Loaded
  <1> QED
    BY <1>1, <1>2, <1>3, PTL DEF Spec
-----------------------------------------------------------------------------
(* Overloads                                                               *)

\* While the arguments of an overload are cast, those that it takes have been
\* taken or are still there to take.
CastingOK ==
  /\ called = 0 /\ overload # 0 /\ casting \subseteq Call!Arguments
  /\ \A n \in Call!Arguments :
       Call!Param(overload, n) = "takes" =>
         IF n \in casting THEN \A t \in takenArgs : t.arg # n
         ELSE [arg |-> n, by |-> overload] \in takenArgs

CalledOK ==
  /\ casting = {} /\ overload \in {0, called}
  /\ Call!Takes(called, Call!Arguments) \subseteq takenArgs

TakenOK ==
  /\ \A t \in takenArgs : \/ t.by \in skipped
                          \/ casting # {} /\ t.by = overload
                          \/ called # 0 /\ t.by = called
  /\ \A t, u \in takenArgs : t.arg = u.arg => t = u

InInv ==
  /\ passed = << >> => casting = {} /\ called = 0 /\ takenArgs = {}
  /\ casting # {} => CastingOK
  /\ called # 0 => CalledOK
  /\ TakenOK

\* What has been taken stays so when next_overload is thrown.
LEMMA ThrowKeeps ==
  ASSUME InInv, Call!Trying, Call!Throw
  PROVE  InInv'
  <1>1. /\ casting' = {} /\ called' = 0 /\ skipped' = skipped \cup {overload}
        /\ takenArgs' = takenArgs /\ passed' = passed /\ passed # << >>
    BY DEF Call!Throw, Call!Trying
  <1>2. called # 0 => called = overload
    BY DEF InInv, CalledOK, Call!Trying
  <1>3. TakenOK'
    BY <1>1, <1>2 DEF InInv, TakenOK
  <1> QED
    BY <1>1, <1>3 DEF InInv

LEMMA CastArgumentKeeps ==
  ASSUME InInv, NEW n \in casting, Call!CastArgument(n)
  PROVE  InInv'
  <1> DEFINE new == [arg |-> n, by |-> overload]
  <1>1. /\ CastingOK /\ n \in Call!Arguments /\ passed # << >>
        /\ casting' = casting \ {n} /\ UNCHANGED <<passed, overload, skipped>>
        /\ called' = IF casting' = {} THEN overload ELSE 0
        /\ takenArgs' = takenArgs \cup Call!Takes(overload, {n})
    BY DEF InInv, CastingOK, Call!CastArgument
  <1>2. /\ new.arg = n /\ new.by = overload
        /\ Call!Takes(overload, {n}) = IF Call!Param(overload, n) = "takes" THEN {new} ELSE {}
    BY DEF Call!Takes
  <1>3. /\ Call!Arguments' = Call!Arguments /\ \A o, m : Call!Param(o, m)' = Call!Param(o, m)
        /\ Call!Takes(overload, Call!Arguments)' = Call!Takes(overload, Call!Arguments)
    BY <1>1 DEF Call!Arguments, Call!Param, Call!Takes
  <1>4. \A m \in Call!Arguments : Call!Param(overload, m) = "takes" =>
          IF m \in casting' THEN \A t \in takenArgs' : t.arg # m
          ELSE [arg |-> m, by |-> overload] \in takenArgs'
    <2> HIDE DEF new
    <2> SUFFICES ASSUME NEW m \in Call!Arguments, Call!Param(overload, m) = "takes"
                 PROVE  IF m \in casting' THEN \A t \in takenArgs' : t.arg # m
                        ELSE [arg |-> m, by |-> overload] \in takenArgs'
      OBVIOUS
    <2>1. CASE m = n
      BY <1>1, <1>2, <2>1 DEF new
    <2>2. CASE m # n
      BY <1>1, <1>2, <2>2 DEF CastingOK
    <2> QED
      BY <2>1, <2>2
  <1> HIDE DEF new
  <1>5. TakenOK'
    <2>1. \A t \in takenArgs' : t.by \in skipped \/ t.by = overload
      BY <1>1, <1>2 DEF InInv, TakenOK, CastingOK
    <2>2. \A t, u \in takenArgs : t.arg = u.arg => t = u
      BY DEF InInv, TakenOK
    <2>3. \A t, u \in takenArgs' : t.arg = u.arg => t = u
      <3>1. CASE Call!Param(overload, n) = "takes"
        <4>1. \A t \in takenArgs : t.arg # n
          BY <1>1, <3>1 DEF CastingOK
        <4>2. takenArgs' = takenArgs \cup {new}
          BY <1>1, <1>2, <3>1
        <4> QED
          BY <1>2, <2>2, <4>1, <4>2
      <3>2. CASE Call!Param(overload, n) # "takes"
        BY <1>1, <1>2, <2>2, <3>2
      <3> QED
        BY <3>1, <3>2
    <2> QED
      BY <1>1, <2>1, <2>3 DEF TakenOK, CastingOK
  <1>6. CASE casting' = {}
    <2>1. called' = overload /\ Call!Takes(overload, Call!Arguments) \subseteq takenArgs'
      BY <1>1, <1>4, <1>6 DEF Call!Takes
    <2>2. CalledOK'
      BY <1>1, <1>3, <1>6, <2>1 DEF CalledOK
    <2> QED
      BY <1>1, <1>5, <1>6, <2>2 DEF InInv
  <1>7. CASE casting' # {}
    <2>1. CastingOK'
      BY <1>1, <1>3, <1>4, <1>7 DEF CastingOK
    <2> QED
      BY <1>1, <1>5, <1>7, <2>1 DEF InInv
  <1> QED
    BY <1>6, <1>7

LEMMA InInvNext ==
  ASSUME InInv, [Call!Next]_callV
  PROVE  InInv'
  <1>1. CASE UNCHANGED <<passed, overload, casting, called, skipped, takenArgs>>
    BY <1>1 DEF InInv, TakenOK, CastingOK, CalledOK, Call!Arguments, Call!Param, Call!Takes
  <1>2. CASE Call!Analyze \/ Call!CallInit \/ Call!SpreadRaises \/ Call!VectorCall \/ UNCHANGED callV
    BY <1>1, <1>2 DEF Call!Analyze, Call!CallInit, Call!SpreadRaises, Call!VectorCall, Call!inVars, callV
  <1>3. CASE Call!Receive
    <2>1. passed = << >> /\ UNCHANGED <<casting, called, skipped, takenArgs>>
      BY <1>3 DEF Call!Receive
    <2> QED
      BY <2>1 DEF InInv, TakenOK
  <1>4. CASE Call!NextOverload
    <2>1. casting = {} /\ called = 0 /\ passed # << >> /\ UNCHANGED <<passed, casting, called, skipped, takenArgs>>
      BY <1>4 DEF Call!NextOverload, Call!Trying, Call!FromPython
    <2> QED
      BY <2>1 DEF InInv, TakenOK
  <1>5. CASE Call!Match
    <2>1. /\ casting = {} /\ called = 0 /\ overload # 0 /\ passed # << >> /\ casting' = Call!Arguments
          /\ UNCHANGED <<passed, overload, called, skipped, takenArgs>>
          /\ \A n \in Call!Arguments : Call!Accepts(overload, n)
      BY <1>5 DEF Call!Match, Call!Trying, Call!FromPython
    <2>2. \A n \in Call!Arguments : Call!Param(overload, n) = "takes" => \A t \in takenArgs : t.arg # n
      BY <2>1 DEF Call!Accepts
    <2>3. CastingOK'
      BY <2>1, <2>2 DEF CastingOK, Call!Arguments, Call!Param
    <2>4. TakenOK'
      BY <2>1 DEF InInv, TakenOK
    <2> QED
      BY <2>1, <2>3, <2>4 DEF InInv
  <1>6. CASE Call!Return
    <2>1. called # 0 /\ overload' = 0 /\ UNCHANGED <<passed, casting, called, skipped, takenArgs>>
      BY <1>6 DEF Call!Return
    <2>2. CalledOK' /\ TakenOK'
      BY <2>1 DEF InInv, CalledOK, TakenOK, Call!Takes, Call!Arguments, Call!Param
    <2> QED
      BY <2>1, <2>2 DEF InInv, CalledOK
  <1>7. CASE Call!Skip
    BY <1>7, ThrowKeeps DEF Call!Skip
  <1>8. ASSUME NEW n \in casting, Call!CastThrows(n) PROVE InInv'
    <2>1. Call!Throw /\ CastingOK /\ passed # << >>
      BY <1>8 DEF Call!CastThrows, InInv
    <2>2. /\ casting' = {} /\ called' = 0 /\ skipped' = skipped \cup {overload}
          /\ takenArgs' = takenArgs /\ passed' = passed
      BY <2>1 DEF Call!Throw
    <2>3. TakenOK'
      BY <2>1, <2>2 DEF InInv, TakenOK, CastingOK
    <2> QED
      BY <2>1, <2>2, <2>3 DEF InInv
  <1> QED
    BY <1>2, <1>3, <1>4, <1>5, <1>6, <1>7, <1>8, CastArgumentKeeps DEF Call!Next

\* Each argument is taken by one overload that matched: the one that is called,
\* or one that next_overload was thrown from (nb_func.h:118-131, nb_cast.h:203-207).
THEOREM MatchTakes == Spec => []TakenOnlyByMatch
  <1>1. Init => InInv
    BY ComponentInits DEF Call!Init, InInv, TakenOK
  <1>2. InInv /\ [Next]_vars => InInv'
    BY ComponentSteps, InInvNext
  <1>3. InInv => TakenOnlyByMatch
    BY DEF InInv, TakenOK, CalledOK, TakenOnlyByMatch, Call!TakenOnlyByMatch
  <1> QED
    BY <1>1, <1>2, <1>3, PTL DEF Spec
-----------------------------------------------------------------------------
(* Arrays that are filled part by part (Calls).                            *)

LEMMA CallLibrary ==
  /\ \A S : Call!Cardinality(S) = Cardinality(S)
  /\ \A f : Call!SumFunction(f) = SumFunctionOnSet(f, DOMAIN f)
  /\ \A s : Call!FlattenSeq(s) = Flat(s)
  /\ \A s : Call!ToSet(s) = {s[j] : j \in DOMAIN s}
  <1>1. \A S : Call!Cardinality(S) = Cardinality(S)
    BY DEF Cardinality, Call!Cardinality
  <1>2. \A f : Call!SumFunction(f) = SumFunctionOnSet(f, DOMAIN f)
    BY DEF Call!SumFunction, Call!SumFunctionOnSet, Call!FoldFunctionOnSet, Call!MapThenFoldSet,
           SumFunctionOnSet, FoldFunctionOnSet, MapThenFoldSet
  <1>3. \A s : Call!FlattenSeq(s) = Flat(s)
    BY DEF Call!FlattenSeq, Flat
  <1>4. \A s : Call!ToSet(s) = {s[j] : j \in DOMAIN s}
    BY DEF Call!ToSet
  <1> QED BY <1>1, <1>2, <1>3, <1>4

\* The elements of the first n parts are in q after place p, and the places of
\* the other parts are not set.
Placed(q, p, parts, ls, n) ==
  \A m \in 1 .. n : \A e \in 1 .. ls[m] : q[p + Before(ls, m - 1) + e] = parts[m][e]
Vacant(q, p, ls, n, N) ==
  \A j \in p + Before(ls, n) + 1 .. p + Before(ls, N) : q[j] = Call!Unset
PartsIn(q, p, parts, ls, n, N) == Placed(q, p, parts, ls, n) /\ Vacant(q, p, ls, n, N)

LEMMA PartsKept ==
  ASSUME NEW N \in Nat, NEW ls, \A m \in 1 .. N : ls[m] \in Nat, NEW n \in 0 .. N, NEW p \in Nat,
         NEW parts, NEW q, NEW r, PartsIn(q, p, parts, ls, n, N),
         \A j \in p + 1 .. p + Before(ls, N) : r[j] = q[j]
  PROVE  PartsIn(r, p, parts, ls, n, N)
  <1>1. \A m \in 0 .. N : Before(ls, m) \in Nat
    BY BeforeIs
  <1>2. ASSUME NEW m \in 1 .. n, NEW e \in 1 .. ls[m]
        PROVE  r[p + Before(ls, m - 1) + e] = parts[m][e]
    <2>1. m \in 1 .. N /\ ls[m] \in Nat /\ m - 1 \in 0 .. N
      OBVIOUS
    <2>2. Before(ls, m - 1) + e \in 1 .. Before(ls, N)
      BY <2>1, OnePlace
    <2> DEFINE b == Before(ls, m - 1)
               j == p + b + e
    <2>3. b \in Nat /\ j \in p + 1 .. p + Before(ls, N)
      BY <1>1, <2>1, <2>2
    <2>4. q[j] = parts[m][e]
      BY DEF PartsIn, Placed
    <2> HIDE DEF j
    <2>5. r[j] = parts[m][e]
      BY <2>3, <2>4
    <2> QED BY <2>5 DEF j
  <1>3. ASSUME NEW j \in p + Before(ls, n) + 1 .. p + Before(ls, N) PROVE r[j] = Call!Unset
    <2>1. j \in p + 1 .. p + Before(ls, N)
      BY <1>1
    <2>2. q[j] = Call!Unset
      BY DEF PartsIn, Vacant
    <2> QED BY <2>1, <2>2
  <1> QED BY <1>2, <1>3 DEF PartsIn, Placed, Vacant

\* An empty part has no places.
Skips(q, p, parts, ls, n, N) ==
  /\ N \in Nat /\ \A m \in 1 .. N : ls[m] \in Nat
  /\ n \in 1 .. N /\ ls[n] = 0 /\ PartsIn(q, p, parts, ls, n - 1, N)

LEMMA PartsSkip ==
  ASSUME NEW N, NEW ls, NEW n, NEW p, NEW parts, NEW q, Skips(q, p, parts, ls, n, N)
  PROVE  PartsIn(q, p, parts, ls, n, N) /\ Before(ls, n) = Before(ls, n - 1)
  <1>0. /\ N \in Nat /\ \A m \in 1 .. N : ls[m] \in Nat
        /\ n \in 1 .. N /\ ls[n] = 0 /\ PartsIn(q, p, parts, ls, n - 1, N)
    BY DEF Skips
  <1>1. Before(ls, n) = Before(ls, n - 1)
    BY <1>0, BeforeIs
  <1>2. ASSUME NEW m \in 1 .. n, NEW e \in 1 .. ls[m]
        PROVE  q[p + Before(ls, m - 1) + e] = parts[m][e]
    <2>1. m # n
      BY <1>0
    <2>2. m \in 1 .. n - 1
      BY <1>0, <2>1
    <2> QED BY <1>0, <2>2 DEF PartsIn, Placed
  <1> QED BY <1>0, <1>1, <1>2 DEF PartsIn, Placed, Vacant

LEMMA OwnedCounts ==
  ASSUME NEW S, NEW q \in Seq(S)
  PROVE  Cardinality(Call!Owned(q)) \in Nat
  <1>1. DOMAIN q = 1 .. Len(q) /\ Len(q) \in Int /\ 1 \in Int
    BY LenProperties
  <1>2. IsFiniteSet(1 .. Len(q))
    BY <1>1, FS_Interval
  <1>3. Call!Owned(q) \subseteq 1 .. Len(q)
    BY <1>1 DEF Call!Owned
  <1> QED BY <1>2, <1>3, FS_Subset, FS_CardinalityType

Fill(q, f, v) == [j \in DOMAIN q |-> IF j - f \in DOMAIN v THEN v[j - f] ELSE q[j]]

Fills(r, S, q, v, p, parts, ls, n, N) ==
  /\ N \in Nat /\ \A m \in 1 .. N : ls[m] \in Nat
  /\ n \in 1 .. N /\ p \in Nat /\ q \in Seq(S) /\ v \in Seq(S)
  /\ PartsIn(q, p, parts, ls, n - 1, N) /\ p + Before(ls, N) <= Len(q)
  /\ Len(v) = ls[n] /\ \A e \in 1 .. ls[n] : v[e] = parts[n][e]
  /\ r = Fill(q, p + Before(ls, n - 1), v)

\* The next part goes behind those before, and no other place changes.
LEMMA FillNext ==
  ASSUME NEW N, NEW ls, NEW n, NEW p, NEW parts, NEW S, NEW q, NEW v, NEW r,
         Fills(r, S, q, v, p, parts, ls, n, N)
  PROVE  /\ r \in Seq(S) /\ Len(r) = Len(q)
         /\ PartsIn(r, p, parts, ls, n, N)
         /\ \A j \in 1 .. Len(q) : j <= p \/ j > p + Before(ls, N) => r[j] = q[j]
         /\ Cardinality(Call!Owned(r)) = Cardinality(Call!Owned(q)) + Cardinality(Call!Owned(v))
         /\ Cardinality(Call!Owned(r)) \in Nat
  <1>0. /\ N \in Nat /\ \A m \in 1 .. N : ls[m] \in Nat
        /\ n \in 1 .. N /\ p \in Nat /\ q \in Seq(S) /\ v \in Seq(S)
        /\ PartsIn(q, p, parts, ls, n - 1, N) /\ p + Before(ls, N) <= Len(q)
        /\ Len(v) = ls[n] /\ \A e \in 1 .. ls[n] : v[e] = parts[n][e]
        /\ r = Fill(q, p + Before(ls, n - 1), v)
    BY DEF Fills
  <1> USE <1>0
  <1> DEFINE b == Before(ls, n - 1)
             c == Before(ls, n)
             B == Before(ls, N)
             L == Len(q)
             f == p + b
  <1>1. /\ b \in Nat /\ c \in Nat /\ B \in Nat /\ c = b + ls[n] /\ c <= B /\ ls[n] \in Nat
        /\ n - 1 \in 0 .. N /\ n \in 0 .. N /\ p + B <= L
    <2>1. n - 1 \in 0 .. N /\ n \in 0 .. N /\ N \in 0 .. N /\ n <= N /\ ls[n] \in Nat
      OBVIOUS
    <2>2. /\ \A m \in 0 .. N : Before(ls, m) \in Nat
          /\ \A m \in 1 .. N : Before(ls, m) = Before(ls, m - 1) + ls[m]
      BY BeforeIs
    <2>3. \A k, m \in 0 .. N : k <= m => Before(ls, k) <= Before(ls, m)
      BY BeforeGrows
    <2>4. c <= B
      BY <2>1, <2>3
    <2> QED BY <2>1, <2>2, <2>4
  <1>2. /\ L \in Nat /\ q \in [1 .. L -> S] /\ DOMAIN q = 1 .. L
        /\ DOMAIN v = 1 .. ls[n] /\ v \in [1 .. ls[n] -> S]
    BY LenProperties
  <1>3. /\ r = [j \in 1 .. L |-> IF j - f \in 1 .. ls[n] THEN v[j - f] ELSE q[j]]
        /\ f \in Nat /\ f + ls[n] <= L /\ L \in Nat /\ f = p + b
    BY <1>1, <1>2 DEF Fill
  <1>4. PartsIn(q, p, parts, ls, n - 1, N) /\ \A j \in f + 1 .. p + B : q[j] = Call!Unset
    BY DEF PartsIn, Vacant
  <1>5. \A j \in 1 .. L : r[j] = IF j - f \in 1 .. ls[n] THEN v[j - f] ELSE q[j]
    BY <1>3
  <1>6. r \in [1 .. L -> S]
    BY <1>2, <1>3
  <1>7. r \in Seq(S) /\ Len(r) = L /\ DOMAIN r = 1 .. L
    BY SMTT(30), <1>2, <1>6
  <1> HIDE DEF b, c, B, L, f
  <1>8. \A j \in 1 .. L : j <= p \/ j > p + B => r[j] = q[j]
    <2> SUFFICES ASSUME NEW j \in 1 .. L, j <= p \/ j > p + B PROVE r[j] = q[j]
      OBVIOUS
    <2>1. j - f \notin 1 .. ls[n]
      BY <1>1, <1>2 DEF f
    <2> QED BY <1>5, <2>1
  <1>9. PartsIn(r, p, parts, ls, n, N)
    <2>1. ASSUME NEW m \in 1 .. n, NEW e \in 1 .. ls[m]
          PROVE  r[p + Before(ls, m - 1) + e] = parts[m][e]
      <3> DEFINE d == Before(ls, m - 1)
                 j == p + d + e
      <3>1. CASE m < n
        <4> DEFINE M == n - 1
        <4>1. M \in Nat /\ m \in 1 .. M /\ (\A k \in 1 .. M : k \in 1 .. N) /\ m - 1 \in 0 .. N /\ m \in 1 .. N
          BY <3>1
        <4> HIDE DEF M
        <4>2. \A k \in 1 .. M : ls[k] \in Nat
          BY <4>1
        <4>3. d + e \in 1 .. Before(ls, M)
          BY <4>1, <4>2, OnePlace
        <4>4. d \in Nat /\ e \in Nat /\ j \in 1 .. L /\ j - f \notin 1 .. ls[n]
          <5>1. d \in Nat
            BY <4>1, BeforeIs
          <5>2. d + e \in 1 .. b
            BY <4>3 DEF M, b
          <5>3. e \in Nat
            BY <4>1
          <5> HIDE DEF d
          <5> QED BY <1>1, <1>2, <1>3, <5>1, <5>2, <5>3 DEF f, L, B
        <4>5. q[j] = parts[m][e]
          BY <1>4, <4>1 DEF PartsIn, Placed, M
        <4> HIDE DEF j
        <4>6. r[j] = parts[m][e]
          BY <1>5, <4>4, <4>5
        <4> QED BY <4>6 DEF j
      <3>2. CASE m = n
        <4>1. j = f + e /\ j - f = e /\ j \in 1 .. L
          <5>1. d = b /\ e \in 1 .. ls[n]
            BY <3>2 DEF b
          <5> HIDE DEF d
          <5>2. f + e = p + d + e /\ f + e - f = e /\ f + e <= L
            BY <1>1, <1>3, <5>1
          <5>3. j = f + e
            BY <5>2
          <5> HIDE DEF j
          <5>4. j - f = e /\ j \in 1 .. L
            BY SMTT(30), <1>3, <5>1, <5>2, <5>3
          <5> QED BY <5>3, <5>4
        <4> HIDE DEF j
        <4>2. r[j] = v[e]
          BY <1>5, <3>2, <4>1
        <4> QED BY <3>2, <4>2 DEF j
      <3> QED BY <3>1, <3>2
    <2>2. ASSUME NEW j \in p + c + 1 .. p + B PROVE r[j] = Call!Unset
      <3>1. j \in f + 1 .. p + B /\ j \in 1 .. L /\ j - f \notin 1 .. ls[n]
        BY SMTT(30), <1>1, <1>2, <1>3 DEF f
      <3> QED BY <1>4, <1>5, <3>1
    <2> QED BY <2>1, <2>2 DEF PartsIn, Placed, Vacant, c, B
  <1>10. /\ Cardinality(Call!Owned(r)) = Cardinality(Call!Owned(q)) + Cardinality(Call!Owned(v))
         /\ Cardinality(Call!Owned(r)) \in Nat
    <2> DEFINE V == Call!Owned(v)
               Q == Call!Owned(q)
               moved == {f + e : e \in V}
               g == [e \in V |-> f + e]
    <2>1. IsFiniteSet(1 .. L) /\ IsFiniteSet(1 .. ls[n])
      BY <1>1, <1>2, FS_Interval
    <2>2. V \subseteq 1 .. ls[n] /\ Q \subseteq 1 .. L
      BY <1>2 DEF Call!Owned
    <2>3. IsFiniteSet(V) /\ IsFiniteSet(Q) /\ Cardinality(V) \in Nat /\ Cardinality(Q) \in Nat
      BY <2>1, <2>2, FS_Subset, FS_CardinalityType
    <2>4. Call!Owned(r) = Q \cup moved /\ Q \cap moved = {}
      <3>1. ASSUME NEW j \in 1 .. L PROVE j \in Call!Owned(r) <=> j \in Q \/ j \in moved
        <4>1. CASE j - f \in 1 .. ls[n]
          <5>1. q[j] = Call!Unset
            <6>1. j \in f + 1 .. p + B
              BY <1>1, <1>3, <4>1
            <6> QED BY <1>4, <6>1
          <5>2. r[j] = v[j - f] /\ j = f + (j - f)
            BY <1>3, <1>5, <4>1
          <5>3. j \in moved <=> j - f \in V
            BY <1>3, <2>2, <4>1
          <5> QED BY <1>2, <1>7, <4>1, <5>1, <5>2, <5>3 DEF Call!Owned
        <4>2. CASE j - f \notin 1 .. ls[n]
          <5>1. r[j] = q[j]
            BY <1>5, <4>2
          <5>2. j \notin moved
            BY <1>3, <2>2, <4>2
          <5> QED BY <1>2, <1>7, <5>1, <5>2 DEF Call!Owned
        <4> QED BY <4>1, <4>2
      <3>2. ASSUME NEW j \in moved PROVE j \in 1 .. L /\ j \notin Q
        <4>1. PICK e \in V : j = f + e
          OBVIOUS
        <4>2. e \in 1 .. ls[n]
          BY <2>2
        <4>3. j \in f + 1 .. p + B /\ j \in 1 .. L
          BY <1>1, <1>3, <4>1, <4>2
        <4> QED BY <1>4, <4>3 DEF Call!Owned
      <3>3. Call!Owned(r) \subseteq 1 .. L
        BY <1>7 DEF Call!Owned
      <3> QED BY <2>2, <3>1, <3>2, <3>3
    <2>5. IsFiniteSet(moved) /\ Cardinality(moved) = Cardinality(V)
      <3>1. g \in Bijection(V, moved)
        <4>1. g \in [V -> moved] /\ \A y \in moved : \E e \in V : g[e] = y
          OBVIOUS
        <4>2. \A d, e \in V : g[d] = g[e] => d = e
          BY <1>3, <2>2
        <4> QED BY <4>1, <4>2, Fun_IsBij
      <3>2. ExistsBijection(V, moved)
        BY <3>1 DEF ExistsBijection
      <3> QED BY <2>3, <3>2, FS_Bijection
    <2> HIDE DEF Q, V, moved
    <2>6. Cardinality(Q \cup moved) = Cardinality(Q) + Cardinality(moved) - Cardinality(Q \cap moved)
      BY <2>3, <2>5, FS_Union
    <2>7. Cardinality(Q \cap moved) = 0
      BY <2>4, FS_EmptySet
    <2>8. /\ Cardinality(Call!Owned(r)) = Cardinality(Q) + Cardinality(V)
          /\ Cardinality(Call!Owned(r)) \in Nat
      <3>1. Cardinality(Call!Owned(r)) = Cardinality(Q \cup moved)
        BY <2>4
      <3>2. /\ Cardinality(Q \cup moved) = Cardinality(Q) + Cardinality(V)
            /\ Cardinality(Q \cup moved) \in Nat
        BY <2>3, <2>5, <2>6, <2>7
      <3> QED BY <3>1, <3>2
    <2> QED BY <2>8 DEF Q, V
  <1> QED BY <1>7, <1>8, <1>9, <1>10 DEF L, B
-----------------------------------------------------------------------------
(* Arguments for Python                                                    *)

CallSlots == {Call!Null, Call!Unset, <<"self">>}
             \cup {Call!Value(n, e) : n \in Nat, e \in Nat}
             \cup {<<"name", k>> : k \in Names}

\* For each argument: how many positional values it has and how many names, and
\* what it puts into each of the three places.
PosLens(ws)    == [n \in DOMAIN ws |-> Call!Positional(ws[n])]
NameLens(ws)   == [n \in DOMAIN ws |-> Call!Keywords(ws[n])]
PosPart(ws, n) == IF ws[n].kind = "none" THEN <<Call!Null>> ELSE Call!ValuesOf(n, Call!Positional(ws[n]))
PosParts(ws)   == [n \in DOMAIN ws |-> PosPart(ws, n)]
ValueParts(ws) == [n \in DOMAIN ws |-> Call!ValuesOf(n, Call!Keywords(ws[n]))]
NamePart(ws, n) == [e \in 1 .. Call!Keywords(ws[n]) |-> <<"name", ws[n].names[e]>>]
NameParts(ws)  == [n \in DOMAIN ws |-> NamePart(ws, n)]

AllPos(ws)   == Before(PosLens(ws), Len(ws))
AllNames(ws) == Before(NameLens(ws), Len(ws))

LEMMA SlotsDiffer ==
  /\ \A n, e : Call!Value(n, e) # Call!Null /\ Call!Value(n, e) # Call!Unset
  /\ \A k : <<"name", k>> # Call!Null /\ <<"name", k>> # Call!Unset
  /\ Call!Null # Call!Unset /\ <<"self">> # Call!Null
  <1>1. /\ \A n, e : Len(<<"value", n, e>>) = 3
        /\ \A k : Len(<<"name", k>>) = 2
        /\ Len(<<"null">>) = 1 /\ Len(<<"unset">>) = 1
    OBVIOUS
  <1>2. <<"null">>[1] = "null" /\ <<"unset">>[1] = "unset" /\ <<"self">>[1] = "self"
    OBVIOUS
  <1>3. <<"null">> # <<"unset">> /\ <<"self">> # <<"null">>
    BY <1>2
  <1> QED BY <1>1, <1>3 DEF Call!Value, Call!Null, Call!Unset

LEMMA WrittenIs ==
  ASSUME NEW a \in Call!Written
  PROVE  /\ Call!Positional(a) \in Nat /\ Call!Keywords(a) \in Nat
         /\ a.kind \in {"value", "none", "named", "args", "kwargs"}
         /\ a.kind \in {"value", "none"} => Call!Positional(a) = 1
         /\ a.kind \in {"value", "none", "args"} => Call!Keywords(a) = 0
         /\ a.kind \in {"named", "kwargs"} => /\ Call!Positional(a) = 0
                                              /\ a.names \in Seq(Names)
                                              /\ Call!Keywords(a) = Len(a.names)
  <1>1. CASE a.kind \in {"value", "none"}
    BY <1>1 DEF Call!Positional, Call!Keywords
  <1>2. CASE \E n \in 0 .. MaxSpread : a = [kind |-> "args", len |-> n]
    BY <1>2, CallAssumption DEF Call!Positional, Call!Keywords
  <1>3. CASE \E k \in Names : a = [kind |-> "named", names |-> <<k>>]
    <2>1. PICK k \in Names : a = [kind |-> "named", names |-> <<k>>]
      BY <1>3
    <2>2. a.kind = "named" /\ a.names = <<k>> /\ <<k>> \in Seq(Names) /\ Len(<<k>>) = 1
      BY <2>1
    <2> QED BY <2>2 DEF Call!Positional, Call!Keywords
  <1>4. CASE \E q \in Call!SeqOf(Names, MaxSpread) : a = [kind |-> "kwargs", names |-> q]
    <2>1. PICK q \in Call!SeqOf(Names, MaxSpread) : a = [kind |-> "kwargs", names |-> q]
      BY <1>4
    <2>2. PICK m \in 0 .. MaxSpread : q \in [1 .. m -> Names]
      BY DEF Call!SeqOf
    <2>3. m \in Nat /\ q \in Seq(Names) /\ Len(q) \in Nat
      BY <2>2, CallAssumption
    <2>4. a.kind = "kwargs" /\ a.names = q
      BY <2>1
    <2> QED BY <2>3, <2>4 DEF Call!Positional, Call!Keywords
  <1>5. \/ a.kind \in {"value", "none"}
        \/ \E n \in 0 .. MaxSpread : a = [kind |-> "args", len |-> n]
        \/ \E k \in Names : a = [kind |-> "named", names |-> <<k>>]
        \/ \E q \in Call!SeqOf(Names, MaxSpread) : a = [kind |-> "kwargs", names |-> q]
    BY DEF Call!Written
  <1> QED BY <1>1, <1>2, <1>3, <1>4, <1>5

LEMMA GivenIs ==
  ASSUME NEW ws \in Seq(Call!Written)
  PROVE  /\ Len(ws) \in Nat /\ DOMAIN ws = 1 .. Len(ws)
         /\ \A n \in 1 .. Len(ws) :
              /\ ws[n] \in Call!Written
              /\ PosLens(ws)[n] = Call!Positional(ws[n]) /\ PosLens(ws)[n] \in Nat
              /\ NameLens(ws)[n] = Call!Keywords(ws[n]) /\ NameLens(ws)[n] \in Nat
         /\ Call!Offset(ws) = AllPos(ws) /\ Call!SlotsNamed(ws) = AllNames(ws)
         /\ AllPos(ws) \in Nat /\ AllNames(ws) \in Nat
  <1>1. Len(ws) \in Nat /\ DOMAIN ws = 1 .. Len(ws)
    BY LenProperties
  <1>2. \A n \in 1 .. Len(ws) : ws[n] \in Call!Written
    BY ElementOfSeq
  <1>3. ASSUME NEW n \in 1 .. Len(ws)
        PROVE  /\ PosLens(ws)[n] = Call!Positional(ws[n]) /\ PosLens(ws)[n] \in Nat
               /\ NameLens(ws)[n] = Call!Keywords(ws[n]) /\ NameLens(ws)[n] \in Nat
    BY <1>1, <1>2, WrittenIs DEF PosLens, NameLens
  <1>4. DOMAIN PosLens(ws) = 1 .. Len(ws) /\ DOMAIN NameLens(ws) = 1 .. Len(ws)
    BY <1>1 DEF PosLens, NameLens
  <1>5. Call!Offset(ws) = AllPos(ws) /\ Call!SlotsNamed(ws) = AllNames(ws)
    <2>1. Call!Offset(ws) = Call!SumFunction(PosLens(ws)) /\ Call!SlotsNamed(ws) = Call!SumFunction(NameLens(ws))
      BY DEF Call!Offset, Call!SlotsNamed, PosLens, NameLens
    <2> QED BY <1>4, <2>1, CallLibrary DEF AllPos, AllNames, Before
  <1>6. AllPos(ws) \in Nat /\ AllNames(ws) \in Nat
    <2>1. \A N \in Nat : N \in 0 .. N
      OBVIOUS
    <2> DEFINE N == Len(ws)
               P == PosLens(ws)
               K == NameLens(ws)
    <2>2. N \in Nat /\ \A n \in 1 .. N : P[n] \in Nat /\ K[n] \in Nat
      BY <1>1, <1>3
    <2> HIDE DEF N, P, K
    <2>3. Before(P, N) \in Nat /\ Before(K, N) \in Nat
      BY <2>1, <2>2, BeforeIs
    <2> QED BY <2>3 DEF AllPos, AllNames, N, P, K
  <1> QED BY <1>1, <1>2, <1>3, <1>5, <1>6

\* The parts are sequences of the lengths above.
LEMMA PartsAre ==
  ASSUME NEW ws \in Seq(Call!Written), NEW n \in 1 .. Len(ws)
  PROVE  /\ PosParts(ws)[n] = PosPart(ws, n) /\ PosPart(ws, n) \in Seq(CallSlots)
         /\ Len(PosPart(ws, n)) = PosLens(ws)[n]
         /\ ValueParts(ws)[n] = Call!ValuesOf(n, NameLens(ws)[n]) /\ ValueParts(ws)[n] \in Seq(CallSlots)
         /\ Len(ValueParts(ws)[n]) = NameLens(ws)[n]
         /\ NameParts(ws)[n] = NamePart(ws, n) /\ NamePart(ws, n) \in Seq(CallSlots)
         /\ Len(NamePart(ws, n)) = NameLens(ws)[n]
  <1>1. /\ n \in Nat /\ n \in DOMAIN ws /\ ws[n] \in Call!Written
        /\ PosLens(ws)[n] = Call!Positional(ws[n]) /\ PosLens(ws)[n] \in Nat
        /\ NameLens(ws)[n] = Call!Keywords(ws[n]) /\ NameLens(ws)[n] \in Nat
    <2>1. /\ Len(ws) \in Nat /\ DOMAIN ws = 1 .. Len(ws) /\ ws[n] \in Call!Written
          /\ PosLens(ws)[n] = Call!Positional(ws[n]) /\ PosLens(ws)[n] \in Nat
          /\ NameLens(ws)[n] = Call!Keywords(ws[n]) /\ NameLens(ws)[n] \in Nat
      BY GivenIs
    <2>2. n \in Nat /\ n \in DOMAIN ws
      BY <2>1
    <2> QED BY <2>1, <2>2
  <1>2. ASSUME NEW c \in Nat PROVE Call!ValuesOf(n, c) \in Seq(CallSlots) /\ Len(Call!ValuesOf(n, c)) = c
    <2>1. \A e \in 1 .. c : Call!Value(n, e) \in CallSlots
      BY <1>1 DEF CallSlots
    <2>2. Call!ValuesOf(n, c) = [e \in 1 .. c |-> Call!Value(n, e)]
      BY DEF Call!ValuesOf
    <2> QED BY <2>1, <2>2
  <1>3. PosPart(ws, n) \in Seq(CallSlots) /\ Len(PosPart(ws, n)) = PosLens(ws)[n]
    <2>1. CASE ws[n].kind = "none"
      <3>1. <<Call!Null>> \in Seq(CallSlots) /\ Len(<<Call!Null>>) = 1
        BY DEF CallSlots
      <3> QED BY <1>1, <2>1, <3>1, WrittenIs DEF PosPart
    <2>2. CASE ws[n].kind # "none"
      BY <1>1, <1>2, <2>2 DEF PosPart
    <2> QED BY <2>1, <2>2
  <1>4. NamePart(ws, n) \in Seq(CallSlots) /\ Len(NamePart(ws, n)) = NameLens(ws)[n]
    <2> DEFINE c == NameLens(ws)[n]
    <2>1. ASSUME NEW e \in 1 .. c PROVE <<"name", ws[n].names[e]>> \in CallSlots
      <3> DEFINE a == ws[n]
                 q == a.names
      <3>1. a \in Call!Written /\ c = Call!Keywords(a) /\ c # 0
        BY <1>1
      <3> HIDE DEF a
      <3>2. q \in Seq(Names) /\ Len(q) = c
        BY <3>1, WrittenIs
      <3> HIDE DEF q
      <3>3. q[e] \in Names
        BY <3>2, ElementOfSeq
      <3>4. <<"name", q[e]>> \in CallSlots
        BY <3>3 DEF CallSlots
      <3> QED BY <3>4 DEF q, a
    <2> DEFINE w == [e \in 1 .. c |-> <<"name", ws[n].names[e]>>]
    <2>2. NamePart(ws, n) = w
      BY <1>1 DEF NamePart
    <2>3. c \in Nat
      BY <1>1
    <2> HIDE DEF c
    <2>4. w \in [1 .. c -> CallSlots]
      BY <2>1
    <2> HIDE DEF w
    <2>5. w \in Seq(CallSlots) /\ Len(w) = c
      BY <2>3, <2>4
    <2> QED BY <2>2, <2>5 DEF c
  <1>5. /\ PosParts(ws)[n] = PosPart(ws, n) /\ NameParts(ws)[n] = NamePart(ws, n)
        /\ ValueParts(ws)[n] = Call!ValuesOf(n, NameLens(ws)[n])
    BY <1>1 DEF PosParts, NameParts, ValueParts
  <1> QED BY <1>1, <1>2, <1>3, <1>4, <1>5

\* The arguments before the one that is next are in their places.
SlotsOf(ws) ==
  /\ nargs = Before(PosLens(ws), next - 1) /\ nkwargs = Before(NameLens(ws), next - 1)
  /\ args \in Seq(CallSlots) /\ Len(args) = AllPos(ws) + AllNames(ws) + 1
  /\ kwnames \in Seq(CallSlots) /\ Len(kwnames) = AllNames(ws)
  /\ PartsIn(args, 1, PosParts(ws), PosLens(ws), next - 1, Len(ws))
  /\ PartsIn(args, 1 + AllPos(ws), ValueParts(ws), NameLens(ws), next - 1, Len(ws))
  /\ PartsIn(kwnames, 0, NameParts(ws), NameLens(ws), next - 1, Len(ws))
  /\ argRefs = Cardinality(Call!Owned(args)) + Cardinality(Call!Owned(kwnames))

InSlots == SlotsOf(given)

OutInv ==
  \/ /\ next = 0 /\ given = << >> /\ received = Call!Idle
     /\ nargs = 0 /\ nkwargs = 0 /\ argRefs = 0
  \/ /\ given \in Seq(Call!Written) /\ next \in 1 .. Len(given) + 1 /\ received = Call!Idle
     /\ fixed => InSlots
  \/ next \in Nat \ {0} /\ received # Call!Idle /\ Call!ArgumentsArrive

LEMMA AnalyzeSets ==
  ASSUME OutInv, Call!Analyze
  PROVE  OutInv'
  <1>1. /\ next = 0 /\ received = Call!Idle /\ nargs = 0 /\ nkwargs = 0 /\ argRefs = 0
    BY DEF OutInv, Call!Analyze
  <1>2. /\ next' = 1 /\ UNCHANGED <<nargs, nkwargs, argRefs, received, fixed>>
        /\ args' = [s \in 1 .. Call!Offset(given') + Call!SlotsNamed(given') + 1 |-> Call!Unset]
        /\ kwnames' = [s \in 1 .. Call!SlotsNamed(given') |-> Call!Unset]
    BY DEF Call!Analyze
  <1>3. given' \in Seq(Call!Written)
    <2>1. PICK m \in 0 .. MaxGiven : given' \in [1 .. m -> Call!Written]
      BY DEF Call!Analyze, Call!SeqOf
    <2>2. m \in Nat
      BY <2>1, CallAssumption
    <2> QED BY <2>1, <2>2
  <1> DEFINE g == given'
             N == Len(g)
             P == PosLens(g)
             K == NameLens(g)
             A == AllPos(g)
             B == AllNames(g)
             V == A + B + 1
             U == Call!Unset
             z == next' - 1
  <1>4. /\ N \in Nat /\ \A n \in 1 .. N : P[n] \in Nat /\ K[n] \in Nat
        /\ A \in Nat /\ B \in Nat /\ A = Before(P, N) /\ B = Before(K, N)
        /\ Call!Offset(g) = A /\ Call!SlotsNamed(g) = B
    BY <1>3, GivenIs DEF AllPos, AllNames
  <1>5. Before(P, 0) = 0 /\ Before(K, 0) = 0
    <2> HIDE DEF N, P, K
    <2> QED BY <1>4, BeforeIs
  <1>6. args' = [s \in 1 .. V |-> U] /\ kwnames' = [s \in 1 .. B |-> U] /\ V \in Nat /\ U \in CallSlots
    BY <1>2, <1>4 DEF CallSlots
  <1>7. z = 0 /\ next' \in 1 .. N + 1
    BY <1>2, <1>4
  <1> HIDE DEF N, P, K, A, B, U, z
  <1>8. /\ args' \in Seq(CallSlots) /\ Len(args') = V /\ kwnames' \in Seq(CallSlots) /\ Len(kwnames') = B
        /\ (\A j \in 1 .. V : args'[j] = U) /\ (\A j \in 1 .. B : kwnames'[j] = U)
        /\ DOMAIN args' = 1 .. V /\ DOMAIN kwnames' = 1 .. B
    <2> HIDE DEF V
    <2> QED BY <1>4, <1>6
  <1>9. Call!Owned(args') = {} /\ Call!Owned(kwnames') = {}
    BY <1>8 DEF Call!Owned, U
  <1>10. Cardinality(Call!Owned(args')) = 0 /\ Cardinality(Call!Owned(kwnames')) = 0
    BY <1>9, FS_EmptySet
  <1>11. PartsIn(args', 1, PosParts(g), P, z, N)
    <2>1. \A j \in 1 + 0 + 1 .. 1 + A : j \in 1 .. V
      BY <1>4
    <2>2. \A j \in 1 + 0 + 1 .. 1 + A : args'[j] = U
      BY <1>8, <2>1
    <2> QED BY <1>4, <1>5, <1>7, <2>2 DEF PartsIn, Placed, Vacant, U
  <1>12. PartsIn(args', 1 + A, ValueParts(g), K, z, N)
    <2>1. \A j \in 1 + A + 0 + 1 .. 1 + A + B : j \in 1 .. V
      BY <1>4
    <2>2. \A j \in 1 + A + 0 + 1 .. 1 + A + B : args'[j] = U
      BY <1>8, <2>1
    <2> QED BY <1>4, <1>5, <1>7, <2>2 DEF PartsIn, Placed, Vacant, U
  <1>13. PartsIn(kwnames', 0, NameParts(g), K, z, N)
    <2>1. \A j \in 0 + 0 + 1 .. 0 + B : j \in 1 .. B
      BY <1>4
    <2>2. \A j \in 0 + 0 + 1 .. 0 + B : kwnames'[j] = U
      BY <1>8, <2>1
    <2> QED BY <1>4, <1>5, <1>7, <2>2 DEF PartsIn, Placed, Vacant, U
  <1>14. InSlots'
    <2>1. nargs' = Before(P, z) /\ nkwargs' = Before(K, z)
      BY <1>1, <1>2, <1>5, <1>7
    <2>2. argRefs' = Cardinality(Call!Owned(args')) + Cardinality(Call!Owned(kwnames'))
      BY <1>1, <1>2, <1>10
    <2> QED BY <1>8, <1>11, <1>12, <1>13, <2>1, <2>2 DEF InSlots, SlotsOf, N, P, K, A, B, z
  <1> QED BY <1>1, <1>2, <1>3, <1>7, <1>14 DEF OutInv, N

\* InitPositional and InitKeywords fill the places of the argument that is next.
LEMMA FilledIs ==
  ASSUME NEW f \in Nat, NEW v, args \in Seq(CallSlots)
  PROVE  Call!Filled(f, v) = Fill(args, 1 + f, v)
  <1>1. \A s \in DOMAIN args : s - 1 - f = s - (1 + f)
    BY LenProperties
  <1> QED BY <1>1 DEF Call!Filled, Fill

LEMMA SlotsFit ==
  ASSUME NEW ws \in Seq(Call!Written), next \in 1 .. Len(ws), SlotsOf(ws)
  PROVE  /\ Len(ws) \in Nat
         /\ \A n \in 1 .. Len(ws) : PosLens(ws)[n] \in Nat /\ NameLens(ws)[n] \in Nat
         /\ AllPos(ws) \in Nat /\ AllPos(ws) = Before(PosLens(ws), Len(ws))
         /\ AllNames(ws) \in Nat /\ AllNames(ws) = Before(NameLens(ws), Len(ws))
         /\ nargs \in Nat /\ nkwargs \in Nat
         /\ Before(PosLens(ws), next) = nargs + PosLens(ws)[next]
         /\ Before(NameLens(ws), next) = nkwargs + NameLens(ws)[next]
  <1> DEFINE N == Len(ws)
             P == PosLens(ws)
             K == NameLens(ws)
  <1>1. /\ N \in Nat /\ \A n \in 1 .. N : P[n] \in Nat /\ K[n] \in Nat
        /\ AllPos(ws) \in Nat /\ AllNames(ws) \in Nat
        /\ AllPos(ws) = Before(P, N) /\ AllNames(ws) = Before(K, N)
    BY GivenIs DEF AllPos, AllNames
  <1>2. nargs = Before(P, next - 1) /\ nkwargs = Before(K, next - 1)
    BY DEF SlotsOf
  <1>3. next \in 1 .. N
    OBVIOUS
  <1> HIDE DEF N, P, K
  <1>4. next - 1 \in 0 .. N
    BY <1>1, <1>3
  <1>5. /\ Before(P, next - 1) \in Nat /\ Before(P, next) = Before(P, next - 1) + P[next]
        /\ Before(K, next - 1) \in Nat /\ Before(K, next) = Before(K, next - 1) + K[next]
    BY <1>1, <1>3, <1>4, BeforeIs
  <1> QED BY <1>1, <1>2, <1>5 DEF N, P, K

LEMMA FillPositional ==
  ASSUME NEW ws \in Seq(Call!Written), next \in 1 .. Len(ws), SlotsOf(ws),
         NEW v, v = PosPart(ws, next), NameLens(ws)[next] = 0,
         Call!InitPositional(v), next' = next + 1, given' = ws
  PROVE  InSlots'
  <1> DEFINE N == Len(ws)
             P == PosLens(ws)
             K == NameLens(ws)
             A == AllPos(ws)
             B == AllNames(ws)
             n == next
             parts == PosParts(ws)
             values == ValueParts(ws)
             names == NameParts(ws)
             b == 1 + Before(P, n - 1)
  <1>1. /\ N \in Nat /\ (\A m \in 1 .. N : P[m] \in Nat) /\ (\A m \in 1 .. N : K[m] \in Nat)
        /\ A \in Nat /\ A = Before(P, N) /\ B \in Nat /\ B = Before(K, N) /\ nargs \in Nat
        /\ Before(P, n) = nargs + P[n]
    BY SlotsFit
  <1>2. /\ nargs = Before(P, n - 1) /\ nkwargs = Before(K, n - 1)
        /\ args \in Seq(CallSlots) /\ Len(args) = A + B + 1
        /\ kwnames \in Seq(CallSlots) /\ Len(kwnames) = B
        /\ PartsIn(args, 1, parts, P, n - 1, N)
        /\ PartsIn(args, 1 + A, values, K, n - 1, N)
        /\ PartsIn(kwnames, 0, names, K, n - 1, N)
        /\ argRefs = Cardinality(Call!Owned(args)) + Cardinality(Call!Owned(kwnames))
    BY DEF SlotsOf
  <1>3. n \in 1 .. N /\ n \in Nat /\ n' = n + 1 /\ n' - 1 = n /\ K[n] = 0 /\ given' = ws /\ UNCHANGED <<kwnames, nkwargs>>
    BY <1>1 DEF Call!InitPositional
  <1>4. v \in Seq(CallSlots) /\ Len(v) = P[n] /\ parts[n] = v
    BY PartsAre
  <1>5. args' = Fill(args, b, v) /\ nargs' = nargs + Len(v) /\ argRefs' = argRefs + Cardinality(Call!Owned(v))
    <2>1. args' = Fill(args, 1 + nargs, v)
      BY <1>1, <1>2, FilledIs DEF Call!InitPositional
    <2> QED BY <1>2, <2>1, CallLibrary DEF Call!InitPositional
  <1> HIDE DEF N, P, K, A, B, parts, values, names, n
  <1>6. 1 + Before(P, N) <= Len(args) /\ 1 \in Nat /\ \A e \in 1 .. P[n] : v[e] = parts[n][e]
    BY <1>1, <1>2, <1>4
  <1>7. /\ args' \in Seq(CallSlots) /\ Len(args') = Len(args)
        /\ PartsIn(args', 1, parts, P, n, N)
        /\ \A j \in 1 .. Len(args) : j <= 1 \/ j > 1 + Before(P, N) => args'[j] = args[j]
        /\ Cardinality(Call!Owned(args')) = Cardinality(Call!Owned(args)) + Cardinality(Call!Owned(v))
    <2>1. Fills(args', CallSlots, args, v, 1, parts, P, n, N)
      BY <1>1, <1>2, <1>3, <1>4, <1>5, <1>6 DEF Fills
    <2> QED BY <2>1, FillNext
  <1>8. PartsIn(args', 1 + A, values, K, n, N) /\ PartsIn(kwnames, 0, names, K, n, N) /\ Before(K, n) = Before(K, n - 1)
    <2>1. PartsIn(args, 1 + A, values, K, n, N) /\ PartsIn(kwnames, 0, names, K, n, N) /\ Before(K, n) = Before(K, n - 1)
      <3>1. Skips(args, 1 + A, values, K, n, N) /\ Skips(kwnames, 0, names, K, n, N)
        BY <1>1, <1>2, <1>3 DEF Skips
      <3> QED BY <3>1, PartsSkip
    <2>2. \A j \in 1 + A + 1 .. 1 + A + B : args'[j] = args[j]
      <3> DEFINE L == Len(args)
      <3>2. A \in Nat /\ B \in Nat /\ L = A + B + 1
        BY <1>1, <1>2
      <3> HIDE DEF L
      <3>3. \A j \in 1 + A + 1 .. 1 + A + B : j \in 1 .. L /\ j > 1 + A
        BY <3>2
      <3>1. \A j \in 1 + A + 1 .. 1 + A + B : j \in 1 .. Len(args) /\ j > 1 + A
        BY <3>3 DEF L
      <3> QED BY <1>1, <1>7, <3>1
    <2>3. 1 + A \in Nat /\ n \in 0 .. N
      BY <1>1, <1>3
    <2>4. PartsIn(args', 1 + A, values, K, n, N)
      BY <1>1, <2>1, <2>2, <2>3, PartsKept
    <2> QED BY <2>1, <2>4
  <1>9. argRefs' = Cardinality(Call!Owned(args')) + Cardinality(Call!Owned(kwnames))
    <2> DEFINE c == Cardinality(Call!Owned(args))
               d == Cardinality(Call!Owned(kwnames))
               e == Cardinality(Call!Owned(v))
    <2>1. c \in Nat /\ d \in Nat /\ e \in Nat
      BY <1>2, <1>4, OwnedCounts
    <2>2. argRefs = c + d /\ argRefs' = argRefs + e /\ Cardinality(Call!Owned(args')) = c + e
      BY <1>2, <1>5, <1>7
    <2> HIDE DEF c, d, e
    <2>3. argRefs' = Cardinality(Call!Owned(args')) + d
      BY <2>1, <2>2
    <2> QED BY <2>3 DEF d
  <1>10. nargs' = Before(P, n) /\ nkwargs = Before(K, n)
    BY <1>1, <1>2, <1>4, <1>5, <1>8
  <1> QED BY <1>2, <1>3, <1>7, <1>8, <1>9, <1>10 DEF InSlots, SlotsOf, N, P, K, A, B, parts, values, names, n

LEMMA FillKeywords ==
  ASSUME NEW ws \in Seq(Call!Written), next \in 1 .. Len(ws), SlotsOf(ws),
         PosLens(ws)[next] = 0,
         Call!InitKeywords(ws[next].names, ValueParts(ws)[next]),
         ws[next].kind \in {"named", "kwargs"}, next' = next + 1, given' = ws
  PROVE  InSlots'
  <1> DEFINE N == Len(ws)
             P == PosLens(ws)
             K == NameLens(ws)
             A == AllPos(ws)
             B == AllNames(ws)
             n == next
             parts == PosParts(ws)
             values == ValueParts(ws)
             names == NameParts(ws)
             v == values[n]
             w == names[n]
             a == ws[next]
             b == Before(K, n - 1)
  <1>1. /\ N \in Nat /\ (\A m \in 1 .. N : P[m] \in Nat) /\ (\A m \in 1 .. N : K[m] \in Nat)
        /\ A \in Nat /\ A = Before(P, N) /\ B \in Nat /\ B = Before(K, N) /\ nkwargs \in Nat
        /\ Before(K, n) = nkwargs + K[n]
    BY SlotsFit
  <1>2. /\ nargs = Before(P, n - 1) /\ nkwargs = b
        /\ args \in Seq(CallSlots) /\ Len(args) = A + B + 1
        /\ kwnames \in Seq(CallSlots) /\ Len(kwnames) = B
        /\ PartsIn(args, 1, parts, P, n - 1, N)
        /\ PartsIn(args, 1 + A, values, K, n - 1, N)
        /\ PartsIn(kwnames, 0, names, K, n - 1, N)
        /\ argRefs = Cardinality(Call!Owned(args)) + Cardinality(Call!Owned(kwnames))
    BY DEF SlotsOf
  <1>3. n \in 1 .. N /\ n \in Nat /\ n' = n + 1 /\ n' - 1 = n /\ P[n] = 0 /\ given' = ws /\ UNCHANGED nargs
    BY <1>1 DEF Call!InitKeywords
  <1>4. /\ v \in Seq(CallSlots) /\ Len(v) = K[n] /\ v = Call!ValuesOf(n, K[n])
        /\ w \in Seq(CallSlots) /\ Len(w) = K[n] /\ w = NamePart(ws, n)
    BY PartsAre
  <1>5. /\ a.names \in Seq(Names) /\ Len(a.names) = K[n] /\ DOMAIN a.names = 1 .. K[n]
        /\ K[n] = Call!Keywords(a) /\ K[n] \in Nat
    <2>1. a \in Call!Written /\ K[n] = Call!Keywords(a) /\ K[n] \in Nat
      BY GivenIs
    <2>2. a.names \in Seq(Names) /\ Len(a.names) = K[n]
      BY <2>1, WrittenIs
    <2> QED BY <2>1, <2>2, LenProperties
  <1>6. /\ args' = Fill(args, 1 + A + b, v) /\ nkwargs' = nkwargs + K[n] /\ argRefs' = argRefs + 2 * K[n]
        /\ kwnames' = Fill(kwnames, 0 + b, w)
    <2>1. args' = Call!Filled(Call!KwargsOffset + nkwargs, v) /\ Call!KwargsOffset = A
      <3>1. Call!KwargsOffset = Len(args) - 1 - Len(kwnames)
        BY DEF Call!KwargsOffset
      <3> DEFINE L == Len(args)
                 M == Len(kwnames)
      <3>2. L = A + B + 1 /\ M = B /\ A \in Nat /\ B \in Nat
        BY <1>1, <1>2
      <3> HIDE DEF L, M, A, B
      <3>3. L - 1 - M = A
        BY <3>2
      <3> QED BY <3>1, <3>3 DEF Call!InitKeywords, L, M
    <2>2. args' = Fill(args, 1 + (A + nkwargs), v) /\ 1 + (A + nkwargs) = 1 + A + b /\ 0 + b = b
      BY SMTT(30), <1>1, <1>2, <2>1, FilledIs
    <2>3. kwnames' = Fill(kwnames, b, w)
      <3>1. kwnames' = [s \in DOMAIN kwnames |-> IF s - nkwargs \in 1 .. K[n] THEN <<"name", a.names[s - nkwargs]>>
                                                 ELSE kwnames[s]]
        BY <1>5 DEF Call!InitKeywords
      <3>2. DOMAIN w = 1 .. K[n] /\ \A e \in 1 .. K[n] : w[e] = <<"name", a.names[e]>>
        BY <1>4, <1>5 DEF NamePart
      <3> HIDE DEF w, a, K, b
      <3> QED BY <1>2, <3>1, <3>2 DEF Fill
    <2>4. nkwargs' = nkwargs + K[n] /\ argRefs' = argRefs + 2 * K[n]
      BY <1>5 DEF Call!InitKeywords
    <2> HIDE DEF A, b, v, w, K
    <2> QED BY <2>2, <2>3, <2>4
  <1>7. Cardinality(Call!Owned(v)) = K[n] /\ Cardinality(Call!Owned(w)) = K[n]
    <2>1. DOMAIN v = 1 .. K[n] /\ DOMAIN w = 1 .. K[n]
      BY <1>4, LenProperties
    <2>2. \A e \in 1 .. K[n] : v[e] = Call!Value(n, e) /\ w[e] = <<"name", a.names[e]>>
      BY <1>4, <1>5 DEF Call!ValuesOf, NamePart
    <2>3. Call!Owned(v) = 1 .. K[n] /\ Call!Owned(w) = 1 .. K[n]
      <3> HIDE DEF v, w, K, a, n
      <3> QED BY ZenonT(40), <2>1, <2>2, SlotsDiffer DEF Call!Owned
    <2> DEFINE k == K[n]
    <2>4. k \in Int /\ 1 \in Int /\ k >= 0
      BY <1>5
    <2> HIDE DEF k
    <2>5. Cardinality(1 .. k) = IF 1 > k THEN 0 ELSE k - 1 + 1
      BY <2>4, FS_Interval
    <2>6. Cardinality(1 .. k) = k
      BY <2>4, <2>5
    <2> QED BY <2>3, <2>6 DEF k
  <1> HIDE DEF N, P, K, A, B, parts, values, names, n, v, w, a
  <1>8. /\ 1 + A + Before(K, N) <= Len(args) /\ 1 + A \in Nat /\ 0 + Before(K, N) <= Len(kwnames) /\ 0 \in Nat
        /\ (\A e \in 1 .. K[n] : v[e] = values[n][e]) /\ \A e \in 1 .. K[n] : w[e] = names[n][e]
    <2> DEFINE L == Len(args)
               M == Len(kwnames)
    <2>1. A \in Nat /\ B \in Nat /\ Before(K, N) = B /\ L = A + B + 1 /\ M = B
      BY <1>1, <1>2
    <2> HIDE DEF L, M
    <2>2. 1 + A + Before(K, N) <= L /\ 1 + A \in Nat /\ 0 + Before(K, N) <= M /\ 0 \in Nat
      BY <2>1
    <2> QED BY <2>2 DEF v, w, L, M
  <1>9. /\ args' \in Seq(CallSlots) /\ Len(args') = Len(args)
        /\ PartsIn(args', 1 + A, values, K, n, N)
        /\ \A j \in 1 .. Len(args) : j <= 1 + A \/ j > 1 + A + Before(K, N) => args'[j] = args[j]
        /\ Cardinality(Call!Owned(args')) = Cardinality(Call!Owned(args)) + Cardinality(Call!Owned(v))
    <2>1. Fills(args', CallSlots, args, v, 1 + A, values, K, n, N)
      BY <1>1, <1>2, <1>3, <1>4, <1>6, <1>8 DEF Fills, b
    <2> QED BY <2>1, FillNext
  <1>10. /\ kwnames' \in Seq(CallSlots) /\ Len(kwnames') = Len(kwnames)
         /\ PartsIn(kwnames', 0, names, K, n, N)
         /\ Cardinality(Call!Owned(kwnames')) = Cardinality(Call!Owned(kwnames)) + Cardinality(Call!Owned(w))
    <2>1. Fills(kwnames', CallSlots, kwnames, w, 0, names, K, n, N)
      BY <1>1, <1>2, <1>3, <1>4, <1>6, <1>8 DEF Fills, b
    <2> QED BY <2>1, FillNext
  <1>11. PartsIn(args', 1, parts, P, n, N) /\ Before(P, n) = Before(P, n - 1)
    <2>1. PartsIn(args, 1, parts, P, n, N) /\ Before(P, n) = Before(P, n - 1)
      <3>1. Skips(args, 1, parts, P, n, N)
        BY <1>1, <1>2, <1>3 DEF Skips
      <3> QED BY <3>1, PartsSkip
    <2>2. \A j \in 1 + 1 .. 1 + Before(P, N) : args'[j] = args[j]
      <3>1. A \in Nat /\ B \in Nat /\ Before(P, N) = A /\ Len(args) = A + B + 1
        BY <1>1, <1>2
      <3>2. \A j \in 1 + 1 .. 1 + Before(P, N) : j \in 1 .. Len(args) /\ j <= 1 + A
        BY <3>1
      <3>3. \A j \in 1 .. Len(args) : j <= 1 + A => args'[j] = args[j]
        BY <1>9
      <3> QED BY <3>2, <3>3
    <2>3. 1 \in Nat /\ n \in 0 .. N
      BY <1>1, <1>3
    <2>4. PartsIn(args', 1, parts, P, n, N)
      BY <1>1, <2>1, <2>2, <2>3, PartsKept
    <2> QED BY <2>1, <2>4
  <1>12. argRefs' = Cardinality(Call!Owned(args')) + Cardinality(Call!Owned(kwnames'))
    <2> DEFINE c == Cardinality(Call!Owned(args))
               d == Cardinality(Call!Owned(kwnames))
               e == K[n]
    <2>1. c \in Nat /\ d \in Nat /\ e \in Nat
      BY <1>2, <1>5, OwnedCounts
    <2>2. argRefs = c + d /\ argRefs' = argRefs + 2 * e /\ Cardinality(Call!Owned(args')) = c + e
          /\ Cardinality(Call!Owned(kwnames')) = d + e
      BY <1>2, <1>6, <1>7, <1>9, <1>10
    <2> HIDE DEF c, d, e
    <2> QED BY <2>1, <2>2
  <1>13. nargs = Before(P, n) /\ nkwargs' = Before(K, n)
    BY <1>1, <1>2, <1>6, <1>11
  <1> QED BY <1>2, <1>3, <1>9, <1>10, <1>11, <1>12, <1>13 DEF InSlots, SlotsOf, N, P, K, A, B, parts, values, names, n

LEMMA ReceivedDiffer ==
  /\ Call!Idle # Call!Raised /\ Call!Idle # Call!Undefined /\ Call!Raised # Call!Undefined
  /\ <<"error">> \notin {Call!Idle, Call!Raised, Call!Undefined}
  /\ \A a, b : <<"called", a, b>> \notin {Call!Idle, Call!Raised, Call!Undefined}
  <1>1. /\ <<"idle">>[1] = "idle" /\ <<"raised">>[1] = "raised" /\ <<"undefined">>[1] = "undefined"
        /\ <<"error">>[1] = "error" /\ \A a, b : <<"called", a, b>>[1] = "called"
    OBVIOUS
  <1> QED BY <1>1 DEF Call!Idle, Call!Raised, Call!Undefined

\* What call_init finds at the place of an argument.
LEMMA FoundIs ==
  ASSUME given \in Seq(Call!Written), next \in 1 .. Len(given),
         NEW a \in Call!Found(given[next])
  PROVE  /\ a \in Call!Written
         /\ a.kind \notin {"args", "kwargs"} => a = given[next]
         /\ [given EXCEPT ![next] = a] \in Seq(Call!Written)
         /\ Len([given EXCEPT ![next] = a]) = Len(given)
         /\ DOMAIN given = 1 .. Len(given) /\ Len(given) \in Nat
  <1>1. given[next] \in Call!Written /\ DOMAIN given = 1 .. Len(given) /\ Len(given) \in Nat
    BY ElementOfSeq, LenProperties
  <1>2. a \in Call!Written /\ (a.kind \notin {"args", "kwargs"} => a = given[next])
    BY <1>1 DEF Call!Found
  <1> QED BY <1>1, <1>2

\* As long as it is as long, the slots before and behind stay as they are.
LEMMA SlotsMove ==
  ASSUME given \in Seq(Call!Written), next \in 1 .. Len(given), InSlots,
         NEW a \in Call!Found(given[next]),
         Call!Positional(a) = Call!Positional(given[next]), Call!Keywords(a) = Call!Keywords(given[next])
  PROVE  SlotsOf([given EXCEPT ![next] = a])
  <1> DEFINE ws == [given EXCEPT ![next] = a]
             N == Len(given)
             n == next - 1
  <1>1. /\ ws \in Seq(Call!Written) /\ Len(ws) = N /\ N \in Nat /\ DOMAIN given = 1 .. N /\ DOMAIN ws = 1 .. N
        /\ n \in 0 .. N /\ \A m \in 1 .. n : m \in 1 .. N /\ ws[m] = given[m]
        /\ \A m \in 1 .. N : ws[m] = IF m = next THEN a ELSE given[m]
    BY FoundIs
  <1> HIDE DEF ws
  <1>2. PosLens(ws) = PosLens(given)
    BY <1>1 DEF PosLens
  <1>3. NameLens(ws) = NameLens(given)
    BY <1>1 DEF NameLens
  <1>4. AllPos(ws) = AllPos(given) /\ AllNames(ws) = AllNames(given)
    BY <1>1, <1>2, <1>3 DEF AllPos, AllNames
  <1>5. ASSUME NEW m \in 1 .. n
        PROVE  /\ PosParts(ws)[m] = PosParts(given)[m] /\ ValueParts(ws)[m] = ValueParts(given)[m]
               /\ NameParts(ws)[m] = NameParts(given)[m]
    BY <1>1 DEF PosParts, ValueParts, NameParts, PosPart, NamePart
  <1>6. \A q, p, ls : /\ PartsIn(q, p, PosParts(given), ls, n, N) => PartsIn(q, p, PosParts(ws), ls, n, N)
                      /\ PartsIn(q, p, ValueParts(given), ls, n, N) => PartsIn(q, p, ValueParts(ws), ls, n, N)
                      /\ PartsIn(q, p, NameParts(given), ls, n, N) => PartsIn(q, p, NameParts(ws), ls, n, N)
    BY <1>5 DEF PartsIn, Placed
  <1> HIDE DEF N
  <1>7. SlotsOf(ws)
    BY <1>1, <1>2, <1>3, <1>4, <1>6 DEF InSlots, SlotsOf, N, n
  <1> QED BY <1>7 DEF ws

\* There is room for an argument that has not become longer.
LEMMA SlotsRoom ==
  ASSUME given \in Seq(Call!Written), next \in 1 .. Len(given), InSlots
  PROVE  /\ \A c \in Nat : c <= Call!Positional(given[next]) => Call!RoomFor(c)
         /\ Call!RoomForNames(Call!Keywords(given[next]))
  <1> DEFINE N == Len(given)
             P == PosLens(given)
             K == NameLens(given)
             A == AllPos(given)
             B == AllNames(given)
             L == Len(args)
             M == Len(kwnames)
  <1>1. /\ N \in Nat /\ (\A n \in 1 .. N : P[n] \in Nat) /\ (\A n \in 1 .. N : K[n] \in Nat)
        /\ A \in Nat /\ A = Before(P, N) /\ B \in Nat /\ B = Before(K, N) /\ nargs \in Nat /\ nkwargs \in Nat
        /\ Before(P, next) = nargs + P[next] /\ Before(K, next) = nkwargs + K[next]
    BY SlotsFit DEF InSlots
  <1>2. L = A + B + 1 /\ M = B
    BY DEF InSlots, SlotsOf
  <1>3. P[next] = Call!Positional(given[next]) /\ K[next] = Call!Keywords(given[next])
    BY GivenIs
  <1>4. next \in 1 .. N
    OBVIOUS
  <1> HIDE DEF N, P, K, A, B, L, M
  <1>5. next \in 0 .. N /\ N \in 0 .. N /\ next <= N
    BY <1>1, <1>4
  <1>6. Before(P, next) <= Before(P, N) /\ Before(K, next) <= Before(K, N)
    BY <1>1, <1>5, BeforeGrows
  <1>7. P[next] \in Nat /\ K[next] \in Nat
    BY <1>1, <1>4
  <1>8. ASSUME NEW c \in Nat, c <= P[next] PROVE nargs + c < L
    <2> DEFINE p == P[next]
    <2>1. /\ nargs \in Nat /\ A \in Nat /\ B \in Nat /\ p \in Nat /\ c \in Nat
          /\ nargs + p <= A /\ c <= p /\ L = A + B + 1
      BY <1>1, <1>2, <1>6, <1>7, <1>8
    <2> HIDE DEF p
    <2> QED BY <2>1
  <1>9. nkwargs + K[next] <= M
    BY <1>1, <1>2, <1>6, <1>7
  <1> QED BY <1>3, <1>8, <1>9 DEF Call!RoomFor, Call!RoomForNames, L, M

\* CallInit and SpreadRaises find the call like this.
LEMMA OutAtNext ==
  ASSUME OutInv, next \in DOMAIN given, received = Call!Idle
  PROVE  /\ given \in Seq(Call!Written) /\ next \in 1 .. Len(given) /\ Len(given) \in Nat
         /\ fixed => InSlots
  <1>1. given # << >>
    OBVIOUS
  <1>2. given \in Seq(Call!Written) /\ (fixed => InSlots)
    BY <1>1 DEF OutInv
  <1> QED BY <1>2, LenProperties

LEMMA CallInitFills ==
  ASSUME OutInv, Call!CallInit
  PROVE  OutInv'
  <1>1. next \in DOMAIN given /\ received = Call!Idle /\ next' = next + 1
    BY DEF Call!CallInit
  <1>2. /\ given \in Seq(Call!Written) /\ next \in 1 .. Len(given) /\ Len(given) \in Nat
        /\ fixed => InSlots
    BY <1>1, OutAtNext
  <1>3. PICK a \in Call!Found(given[next]) :
          /\ CASE a.kind = "none" -> Call!InitPositional(<<Call!Null>>)
               [] a.kind \in {"value", "args"} -> Call!InitPositional(Call!ValuesOf(next, Call!Positional(a)))
               [] OTHER -> Call!InitKeywords(a.names, Call!ValuesOf(next, Call!Keywords(a)))
          /\ received' = IF Call!RoomFor(Call!Positional(a)) /\ Call!RoomForNames(Call!Keywords(a))
                         THEN Call!Idle ELSE Call!Undefined
          /\ given' = [given EXCEPT ![next] = a]
          /\ fixed' = (fixed /\ Call!Positional(a) = Call!Positional(given[next])
                             /\ Call!Keywords(a) = Call!Keywords(given[next]))
    BY DEF Call!CallInit
  <1> DEFINE ws == [given EXCEPT ![next] = a]
  <1>4. /\ a \in Call!Written /\ ws \in Seq(Call!Written) /\ Len(ws) = Len(given) /\ ws[next] = a
        /\ next \in 1 .. Len(ws) /\ given' = ws
    BY <1>2, <1>3, FoundIs
  <1>5. next' \in 1 .. Len(given') + 1 /\ next' \in Nat \ {0}
    BY <1>1, <1>2, <1>4
  <1> HIDE DEF ws
  <1>6. CASE ~fixed'
    <2>1. CASE received' = Call!Idle
      BY <1>4, <1>5, <1>6, <2>1 DEF OutInv
    <2>2. CASE received' # Call!Idle
      BY <1>5, <1>6, <2>2 DEF OutInv, Call!ArgumentsArrive
    <2> QED BY <2>1, <2>2
  <1>7. CASE fixed'
    <2>1. /\ fixed /\ InSlots
          /\ Call!Positional(a) = Call!Positional(given[next]) /\ Call!Keywords(a) = Call!Keywords(given[next])
      BY <1>2, <1>3, <1>7
    <2>2. SlotsOf(ws)
      BY <1>2, <2>1, SlotsMove DEF ws
    <2>3. received' = Call!Idle
      <3>1. Call!Positional(a) \in Nat /\ Call!Positional(a) <= Call!Positional(a)
        BY <1>4, WrittenIs
      <3> QED BY <1>2, <1>3, <2>1, <3>1, SlotsRoom
    <2>4. /\ PosLens(ws)[next] = Call!Positional(a) /\ NameLens(ws)[next] = Call!Keywords(a)
      BY <1>4, GivenIs
    <2>5. CASE a.kind = "none"
      <3>1. Call!InitPositional(<<Call!Null>>)
        BY <1>3, <2>5
      <3>2. PosPart(ws, next) = <<Call!Null>> /\ NameLens(ws)[next] = 0
        BY <1>4, <2>4, <2>5, WrittenIs DEF PosPart
      <3>3. InSlots'
        BY <1>1, <1>4, <2>2, <3>1, <3>2, FillPositional
      <3> QED BY <1>4, <1>5, <2>3, <3>3 DEF OutInv
    <2>6. CASE a.kind \in {"value", "args"}
      <3>1. Call!InitPositional(Call!ValuesOf(next, Call!Positional(a)))
        BY <1>3, <2>6
      <3>2. PosPart(ws, next) = Call!ValuesOf(next, Call!Positional(a)) /\ NameLens(ws)[next] = 0
        BY <1>4, <2>4, <2>6, WrittenIs DEF PosPart
      <3>3. InSlots'
        BY <1>1, <1>4, <2>2, <3>1, <3>2, FillPositional
      <3> QED BY <1>4, <1>5, <2>3, <3>3 DEF OutInv
    <2>7. CASE a.kind \in {"named", "kwargs"}
      <3>1. Call!InitKeywords(a.names, Call!ValuesOf(next, Call!Keywords(a)))
        BY <1>3, <2>7
      <3>2. ValueParts(ws)[next] = Call!ValuesOf(next, Call!Keywords(a)) /\ PosLens(ws)[next] = 0
        BY <1>4, <2>4, <2>7, PartsAre, WrittenIs
      <3>3. InSlots'
        BY <1>1, <1>4, <2>2, <2>7, <3>1, <3>2, FillKeywords
      <3> QED BY <1>4, <1>5, <2>3, <3>3 DEF OutInv
    <2> QED BY <1>4, <2>5, <2>6, <2>7, WrittenIs
  <1> QED BY <1>6, <1>7

LEMMA SpreadRaisesFills ==
  ASSUME OutInv, Call!SpreadRaises
  PROVE  OutInv'
  <1>1. /\ next \in DOMAIN given /\ received = Call!Idle /\ UNCHANGED next
        /\ given[next].kind = "args"
    BY DEF Call!SpreadRaises
  <1>2. /\ given \in Seq(Call!Written) /\ next \in 1 .. Len(given) /\ Len(given) \in Nat
        /\ fixed => InSlots
    BY <1>1, OutAtNext
  <1>3. PICK a \in Call!Found(given[next]) :
          /\ received' = IF Call!RoomFor(a.len) THEN Call!Raised ELSE Call!Undefined
          /\ fixed' = (fixed /\ a.len <= given[next].len)
    BY DEF Call!SpreadRaises
  <1>4. a.len \in Nat /\ Call!Positional(given[next]) = given[next].len
    <2>1. a \in Call!Written /\ a.kind = "args"
      BY <1>1, <1>3 DEF Call!Found
    <2>2. Call!Positional(a) = a.len /\ Call!Positional(given[next]) = given[next].len
      BY <1>1, <2>1 DEF Call!Positional
    <2> QED BY <2>1, <2>2, WrittenIs
  <1>5. CASE fixed'
    <2>1. Call!RoomFor(a.len)
      BY <1>2, <1>3, <1>4, <1>5, SlotsRoom
    <2> QED BY <1>1, <1>2, <1>3, <2>1, ReceivedDiffer DEF OutInv, Call!ArgumentsArrive
  <1>6. CASE ~fixed'
    BY <1>1, <1>2, <1>3, <1>6, ReceivedDiffer DEF OutInv, Call!ArgumentsArrive
  <1> QED BY <1>5, <1>6

\* The names with their values, as the callee should get them.
NamedPart(ws, n) == [e \in 1 .. Call!Keywords(ws[n]) |-> <<<<"name", ws[n].names[e]>>, Call!Value(n, e)>>]
NamedParts(ws)   == [n \in DOMAIN ws |-> NamedPart(ws, n)]
SelfSlot == IF method THEN <<<<"self">>>> ELSE << >>

LEMMA MeantAre ==
  /\ Call!MeantFirst = SelfSlot \o Flat(PosParts(given))
  /\ Call!MeantNamed = Flat(NamedParts(given))
  <1>1. Call!MeantFirst = SelfSlot \o Call!FlattenSeq(PosParts(given))
    BY DEF Call!MeantFirst, SelfSlot, PosParts, PosPart
  <1>2. Call!MeantNamed = Call!FlattenSeq(NamedParts(given))
    BY DEF Call!MeantNamed, NamedParts, NamedPart
  <1> QED BY <1>1, <1>2, CallLibrary

\* What has the parts in their places is the parts put together.
LEMMA FlatParts ==
  ASSUME NEW ws, NEW N \in Nat, NEW S, NEW parts \in [1 .. N -> Seq(S)],
         NEW ls, DOMAIN ls = 1 .. N, ls = [n \in 1 .. N |-> ls[n]],
         \A n \in 1 .. N : ls[n] = Len(parts[n]),
         NEW q \in Seq(S), Len(q) = Before(ls, N), Placed(q, 0, parts, ls, N)
  PROVE  q = Flat(parts)
  <1>1. parts \in Seq(Seq(S)) /\ Len(parts) = N /\ DOMAIN parts = 1 .. N
    OBVIOUS
  <1>2. Lens(parts) = ls
    BY <1>1 DEF Lens
  <1>3. \A n \in 1 .. N : ls[n] \in Nat
    BY LenProperties
  <1>4. ASSUME NEW m \in 1 .. N, NEW e \in 1 .. ls[m] PROVE q[Before(ls, m - 1) + e] = parts[m][e]
    <2>1. m - 1 \in 0 .. N
      OBVIOUS
    <2>2. Before(ls, m - 1) \in Nat
      BY <1>3, <2>1, BeforeIs
    <2>3. 0 + Before(ls, m - 1) + e = Before(ls, m - 1) + e
      BY <2>2
    <2>4. q[0 + Before(ls, m - 1) + e] = parts[m][e]
      BY DEF Placed
    <2> QED BY <2>3, <2>4
  <1>5. InPlaces(q, S, parts, N)
    BY <1>2, <1>4 DEF InPlaces
  <1> QED BY <1>1, <1>5, PlacesTell

\* Slots that belong to given are what they should be when all are filled.
AllFilled ==
  /\ \A m \in 1 .. Len(given) : \A e \in 1 .. PosLens(given)[m] :
       args[1 + Before(PosLens(given), m - 1) + e] = PosPart(given, m)[e]
  /\ \A m \in 1 .. Len(given) : \A e \in 1 .. NameLens(given)[m] :
       /\ args[1 + AllPos(given) + Before(NameLens(given), m - 1) + e] = Call!Value(m, e)
       /\ kwnames[Before(NameLens(given), m - 1) + e] = <<"name", given[m].names[e]>>

LEMMA FilledAre ==
  ASSUME given \in Seq(Call!Written), next = Len(given) + 1, InSlots
  PROVE  AllFilled
  <1> DEFINE N == Len(given)
             P == PosLens(given)
             K == NameLens(given)
             A == AllPos(given)
  <1>1. N \in Nat /\ (\A n \in 1 .. N : P[n] \in Nat) /\ (\A n \in 1 .. N : K[n] \in Nat) /\ next - 1 = N
    BY GivenIs
  <1>2. /\ Placed(args, 1, PosParts(given), P, N)
        /\ Placed(args, 1 + A, ValueParts(given), K, N)
        /\ Placed(kwnames, 0, NameParts(given), K, N)
    BY <1>1 DEF InSlots, SlotsOf, PartsIn
  <1>3. ASSUME NEW m \in 1 .. N, NEW e \in 1 .. P[m] PROVE args[1 + Before(P, m - 1) + e] = PosPart(given, m)[e]
    <2>1. PosParts(given)[m] = PosPart(given, m)
      BY PartsAre
    <2> HIDE DEF P, N
    <2> QED BY <1>2, <2>1 DEF Placed
  <1>4. ASSUME NEW m \in 1 .. N, NEW e \in 1 .. K[m]
        PROVE  /\ args[1 + A + Before(K, m - 1) + e] = Call!Value(m, e)
               /\ kwnames[Before(K, m - 1) + e] = <<"name", given[m].names[e]>>
    <2>1. /\ ValueParts(given)[m] = Call!ValuesOf(m, K[m]) /\ NameParts(given)[m] = NamePart(given, m)
          /\ K[m] = Call!Keywords(given[m])
      BY PartsAre, GivenIs
    <2>2. ValueParts(given)[m][e] = Call!Value(m, e) /\ NameParts(given)[m][e] = <<"name", given[m].names[e]>>
      BY <2>1 DEF Call!ValuesOf, NamePart
    <2> HIDE DEF K, N, A
    <2>3. m - 1 \in 0 .. N
      BY <1>1
    <2>4. Before(K, m - 1) \in Nat
      BY <1>1, <2>3, BeforeIs
    <2>8. K[m] \in Nat /\ e \in Nat
      BY <1>1
    <2>5. 0 + Before(K, m - 1) + e = Before(K, m - 1) + e
      BY <2>4, <2>8
    <2>6. kwnames[0 + Before(K, m - 1) + e] = NameParts(given)[m][e] 
      BY <1>2 DEF Placed
    <2>7. args[1 + A + Before(K, m - 1) + e] = ValueParts(given)[m][e] 
      BY <1>2 DEF Placed
    <2> QED BY <2>2, <2>5, <2>6, <2>7
  <1> QED BY <1>3, <1>4 DEF AllFilled

\* VectorCall has the positional values in their order.
LEMMA FirstArrive ==
  ASSUME given \in Seq(Call!Written), AllFilled,
         args \in Seq(CallSlots), Len(args) = AllPos(given) + AllNames(given) + 1
  PROVE  /\ SelfSlot \o Tail(args) \in Seq(CallSlots)
         /\ Len(SelfSlot \o Tail(args)) = Len(SelfSlot) + AllPos(given) + AllNames(given)
         /\ \A j \in 1 .. Len(SelfSlot) : (SelfSlot \o Tail(args))[j] = <<"self">>
         /\ \A j \in 1 .. AllPos(given) + AllNames(given) :
              (SelfSlot \o Tail(args))[Len(SelfSlot) + j] = args[j + 1]
         /\ SubSeq(SelfSlot \o Tail(args), 1, Len(SelfSlot) + AllPos(given)) = Call!MeantFirst
         /\ Len(SelfSlot) \in Nat
  <1> DEFINE N == Len(given)
             P == PosLens(given)
             A == AllPos(given)
             B == AllNames(given)
             s == SelfSlot
             L == Len(s)
             t == Tail(args)
             all == s \o t
             parts == PosParts(given)
  <1>1. /\ N \in Nat /\ (\A n \in 1 .. N : P[n] \in Nat) /\ A \in Nat /\ B \in Nat /\ A = Before(P, N)
        /\ DOMAIN given = 1 .. N
    BY GivenIs DEF AllPos
  <1>2. s \in Seq(CallSlots) /\ L \in Nat /\ \A j \in 1 .. L : s[j] = <<"self">>
    <2>1. <<"self">> \in CallSlots
      BY DEF CallSlots
    <2>2. CASE method
      <3>1. s = <<<<"self">>>>
        BY <2>2 DEF SelfSlot
      <3>2. Len(<<<<"self">>>>) = 1 /\ <<<<"self">>>>[1] = <<"self">>
        OBVIOUS
      <3> HIDE DEF s
      <3> QED BY <2>1, <3>1, <3>2
    <2>3. CASE ~method
      <3>1. s = << >>
        BY <2>3 DEF SelfSlot
      <3> HIDE DEF s
      <3> QED BY <3>1
    <2> QED BY <2>2, <2>3
  <1>3. t \in Seq(CallSlots) /\ Len(t) = A + B /\ \A j \in 1 .. A + B : t[j] = args[j + 1]
    <2>1. args # << >>
      BY <1>1
    <2>2. /\ t \in Seq(CallSlots) /\ Len(t) = Len(args) - 1
          /\ \A j \in 1 .. Len(t) : t[j] = args[j + 1]
      BY <2>1, HeadTailProperties
    <2>3. Len(t) = A + B
      BY <1>1, <2>2
    <2> QED BY <2>2, <2>3
  <1> HIDE DEF N, P, A, B, s, t, parts
  <1>4. /\ all \in Seq(CallSlots) /\ Len(all) = L + (A + B)
        /\ \A j \in 1 .. L + (A + B) : all[j] = IF j <= L THEN s[j] ELSE t[j - L]
    <2> DEFINE C == A + B
    <2>1. Len(t) = C /\ t \in Seq(CallSlots) /\ Len(s) = L
      BY <1>3
    <2> HIDE DEF C, L
    <2>2. /\ all \in Seq(CallSlots) /\ Len(all) = L + C
          /\ \A j \in 1 .. L + C : all[j] = IF j <= L THEN s[j] ELSE t[j - L]
      BY <1>2, <2>1, ConcatProperties
    <2> HIDE DEF all
    <2> QED BY <2>2 DEF C
  <1> HIDE DEF all, L
  <1>5. \A j \in 1 .. L : all[j] = <<"self">>
    <2> SUFFICES ASSUME NEW j \in 1 .. L PROVE all[j] = <<"self">>
      OBVIOUS
    <2>1. j \in 1 .. L + (A + B) /\ j <= L
      BY <1>1, <1>2
    <2> QED BY <1>2, <1>4, <2>1
  <1>6. \A j \in 1 .. A + B : all[L + j] = args[j + 1]
    <2> SUFFICES ASSUME NEW j \in 1 .. A + B PROVE all[L + j] = args[j + 1]
      OBVIOUS
    <2> DEFINE k == L + j
    <2>1. k \in 1 .. L + (A + B) /\ ~(k <= L) /\ k - L = j
      BY <1>1, <1>2
    <2> HIDE DEF k
    <2>2. all[k] = t[j]
      BY <1>4, <2>1
    <2> QED BY <1>3, <2>2 DEF k
  <1> DEFINE q == [j \in 1 .. A |-> args[j + 1]]
  <1>7. q \in Seq(CallSlots) /\ Len(q) = A /\ \A j \in 1 .. A : q[j] = args[j + 1]
    <2>1. \A j \in 1 .. A : args[j + 1] \in CallSlots
      <3>1. \A j \in 1 .. A : j \in 1 .. A + B
        BY <1>1
      <3>2. \A j \in 1 .. A + B : t[j] \in CallSlots
        BY <1>3, ElementOfSeq
      <3> QED BY <1>3, <3>1, <3>2
    <2> QED BY <1>1, <2>1
  <1> HIDE DEF q
  <1>8. q = Flat(parts)
    <2>1. parts \in [1 .. N -> Seq(CallSlots)] /\ \A n \in 1 .. N : P[n] = Len(parts[n]) /\ parts[n] = PosPart(given, n)
      <3>1. \A n \in 1 .. N : parts[n] \in Seq(CallSlots) /\ P[n] = Len(parts[n]) /\ parts[n] = PosPart(given, n)
        BY PartsAre DEF N, P, parts
      <3>2. parts = [n \in 1 .. N |-> parts[n]]
        BY <1>1 DEF parts, PosParts
      <3> QED BY <3>1, <3>2
    <2>2. DOMAIN P = 1 .. N /\ P = [n \in 1 .. N |-> P[n]]
      BY <1>1 DEF P, PosLens
    <2>3. ASSUME NEW m \in 1 .. N, NEW e \in 1 .. P[m] PROVE q[0 + Before(P, m - 1) + e] = parts[m][e]
      <3> DEFINE j == Before(P, m - 1) + e
                 i == 0 + Before(P, m - 1) + e
      <3>1. j \in 1 .. A
        BY <1>1, OnePlace
      <3>2. m - 1 \in 0 .. N
        BY <1>1
      <3>3. Before(P, m - 1) \in Nat
        BY <1>1, <3>2, BeforeIs
      <3>4. i = j /\ 1 + Before(P, m - 1) + e = j + 1
        BY <1>1, <3>3
      <3>5. args[1 + Before(P, m - 1) + e] = PosPart(given, m)[e]
        BY DEF AllFilled, P, N
      <3> HIDE DEF i
      <3>6. args[j + 1] = PosPart(given, m)[e]
        BY <3>4, <3>5
      <3> HIDE DEF j
      <3>7. q[i] = parts[m][e]
        BY <1>7, <2>1, <3>1, <3>4, <3>6
      <3> QED BY <3>7 DEF i
    <2>4. Placed(q, 0, parts, P, N)
      BY <2>3 DEF Placed
    <2> QED BY <1>1, <1>7, <2>1, <2>2, <2>4, FlatParts
  <1>9. SubSeq(all, 1, L + A) = s \o q
    <2> DEFINE M == L + A
               u == SubSeq(all, 1, M)
               w == s \o q
    <2>1. M \in Nat /\ M \in Int /\ M - 1 + 1 = M /\ \A j \in 1 .. M : j \in 1 .. L + (A + B)
      BY <1>1, <1>2
    <2> HIDE DEF M
    <2>2. \A j \in 1 .. M : all[j] \in CallSlots
      BY <1>4, <2>1, ElementOfSeq
    <2>8. /\ u \in Seq(CallSlots) /\ Len(u) = IF 1 <= M THEN M - 1 + 1 ELSE 0
          /\ \A j \in 1 .. M - 1 + 1 : u[j] = all[1 + j - 1]
      BY <2>1, <2>2, SubSeqProperties
    <2> HIDE DEF u
    <2>3. u \in Seq(CallSlots) /\ Len(u) = M /\ \A j \in 1 .. M : u[j] = all[j]
      <3>1. \A j \in 1 .. M : 1 + j - 1 = j
        OBVIOUS
      <3>2. Len(u) = M
        BY <2>1, <2>8
      <3> QED BY <2>1, <2>8, <3>1, <3>2
    <2>4. /\ w \in Seq(CallSlots) /\ Len(w) = L + A
          /\ \A j \in 1 .. L + A : w[j] = IF j <= L THEN s[j] ELSE q[j - L]
      <3>1. Len(s) = L
        BY DEF L
      <3> QED BY <1>2, <1>7, <3>1, ConcatProperties
    <2> HIDE DEF w
    <2>5. M = L + A
      BY DEF M
    <2>6. ASSUME NEW j \in 1 .. L + A PROVE u[j] = w[j]
      <3>1. u[j] = all[j] /\ j \in 1 .. L + (A + B)
        BY <2>1, <2>3, <2>5
      <3>2. CASE j <= L
        BY <1>4, <2>4, <3>1, <3>2
      <3>3. CASE ~(j <= L)
        <4>1. j - L \in 1 .. A /\ j - L \in 1 .. A + B
          BY <1>1, <1>2, <3>3
        <4>2. all[j] = t[j - L] /\ w[j] = q[j - L]
          BY <1>4, <2>4, <3>1, <3>3
        <4> QED BY <1>3, <1>7, <3>1, <4>1, <4>2
      <3> QED BY <3>2, <3>3
    <2>7. u = w
      BY <2>3, <2>4, <2>5, <2>6, SeqEqual
    <2> QED BY <2>7 DEF u, w, M
  <1>10. Call!MeantFirst = s \o q
    BY <1>8, MeantAre DEF s, parts
  <1>11. Len(all) = L + A + B
    BY <1>1, <1>2, <1>4
  <1> QED BY <1>2, <1>4, <1>5, <1>6, <1>9, <1>10, <1>11 DEF all, s, t, L, A, B

\* Each name has its own value.
LEMMA NamedArrive ==
  ASSUME given \in Seq(Call!Written), AllFilled,
         args \in Seq(CallSlots), Len(args) = AllPos(given) + AllNames(given) + 1,
         kwnames \in Seq(CallSlots), Len(kwnames) = AllNames(given)
  PROVE  [k \in DOMAIN kwnames |-> <<kwnames[k], args[AllPos(given) + k + 1]>>] = Call!MeantNamed
  <1> DEFINE N == Len(given)
             K == NameLens(given)
             A == AllPos(given)
             B == AllNames(given)
             parts == NamedParts(given)
             S == CallSlots \X CallSlots
             q == [k \in DOMAIN kwnames |-> <<kwnames[k], args[A + k + 1]>>]
  <1>1. /\ N \in Nat /\ (\A n \in 1 .. N : K[n] \in Nat) /\ A \in Nat /\ B \in Nat /\ B = Before(K, N)
        /\ DOMAIN given = 1 .. N
    BY GivenIs DEF AllNames
  <1>2. DOMAIN kwnames = 1 .. B
    BY LenProperties
  <1>3. ASSUME NEW k \in 1 .. B PROVE kwnames[k] \in CallSlots /\ args[A + k + 1] \in CallSlots
    <2> DEFINE L == Len(args)
    <2>1. L = A + B + 1 /\ k \in 1 .. Len(kwnames)
      OBVIOUS
    <2> HIDE DEF A, B, L
    <2>2. A + k + 1 \in 1 .. L
      BY <1>1, <2>1
    <2>3. A + k + 1 \in 1 .. Len(args)
      BY <2>2 DEF L
    <2> QED BY <2>1, <2>3, ElementOfSeq
  <1> HIDE DEF N, K, A, B, parts
  <1>4. q \in Seq(S) /\ Len(q) = B /\ \A k \in 1 .. B : q[k] = <<kwnames[k], args[A + k + 1]>>
    <2>1. q = [k \in 1 .. B |-> <<kwnames[k], args[A + k + 1]>>]
      BY <1>2
    <2>2. \A k \in 1 .. B : <<kwnames[k], args[A + k + 1]>> \in S
      BY <1>3
    <2> HIDE DEF S, q
    <2>3. q \in [1 .. B -> S]
      BY <2>1, <2>2
    <2>4. q \in Seq(S) /\ Len(q) = B
      BY <1>1, <2>3
    <2>5. \A k \in 1 .. B : q[k] = <<kwnames[k], args[A + k + 1]>>
      BY <2>1
    <2> QED BY <2>4, <2>5
  <1>5. /\ parts \in [1 .. N -> Seq(S)]
        /\ \A n \in 1 .. N : /\ K[n] = Len(parts[n])
                             /\ \A e \in 1 .. K[n] : parts[n][e] = <<<<"name", given[n].names[e]>>, Call!Value(n, e)>>
    <2>1. parts = [n \in 1 .. N |-> NamedPart(given, n)]
      BY <1>1 DEF parts, NamedParts
    <2>2. ASSUME NEW n \in 1 .. N
          PROVE  /\ NamedPart(given, n) \in Seq(S) /\ Len(NamedPart(given, n)) = K[n]
                 /\ \A e \in 1 .. K[n] : NamedPart(given, n)[e] = <<<<"name", given[n].names[e]>>, Call!Value(n, e)>>
      <3> DEFINE c == K[n]
                 w == NamedPart(given, n)
      <3>1. c \in Nat /\ c = Call!Keywords(given[n])
        BY GivenIs DEF K, N
      <3>2. w = [e \in 1 .. c |-> <<<<"name", given[n].names[e]>>, Call!Value(n, e)>>]
        BY <3>1 DEF NamedPart
      <3>3. ASSUME NEW e \in 1 .. c PROVE <<"name", given[n].names[e]>> \in CallSlots /\ Call!Value(n, e) \in CallSlots
        <4>1. NamePart(given, n) \in Seq(CallSlots) /\ Len(NamePart(given, n)) = c
          BY PartsAre DEF K, N
        <4>2. NamePart(given, n)[e] \in CallSlots
          BY <4>1, ElementOfSeq
        <4>3. NamePart(given, n)[e] = <<"name", given[n].names[e]>>
          BY <3>1 DEF NamePart
        <4>4. n \in Nat /\ e \in Nat
          BY <1>1, <3>1
        <4> QED BY <4>2, <4>3, <4>4 DEF CallSlots
      <3> HIDE DEF c, w
      <3>4. \A e \in 1 .. c : <<<<"name", given[n].names[e]>>, Call!Value(n, e)>> \in S
        BY <3>3
      <3> HIDE DEF S
      <3>5. w \in [1 .. c -> S]
        BY <3>2, <3>4
      <3>6. w \in Seq(S) /\ Len(w) = c
        <4>1. c \in Nat
          BY <3>1
        <4> QED BY <3>5, <4>1
      <3> QED BY <3>2, <3>6 DEF c, w
    <2> HIDE DEF S
    <2> QED BY <2>1, <2>2
  <1>6. DOMAIN K = 1 .. N /\ K = [n \in 1 .. N |-> K[n]]
    BY <1>1 DEF K, NameLens
  <1>7. Placed(q, 0, parts, K, N)
    <2> SUFFICES ASSUME NEW m \in 1 .. N, NEW e \in 1 .. K[m]
                 PROVE  q[0 + Before(K, m - 1) + e] = parts[m][e]
      BY DEF Placed
    <2> DEFINE j == Before(K, m - 1) + e
               i == 0 + Before(K, m - 1) + e
    <2>1. j \in 1 .. B
      BY <1>1, OnePlace
    <2>2. m - 1 \in 0 .. N
      BY <1>1
    <2>3. Before(K, m - 1) \in Nat
      BY <1>1, <2>2, BeforeIs
    <2>4. i = j /\ 1 + A + Before(K, m - 1) + e = A + j + 1
      BY <1>1, <2>3
    <2>5. /\ args[1 + A + Before(K, m - 1) + e] = Call!Value(m, e)
          /\ kwnames[j] = <<"name", given[m].names[e]>>
      BY DEF AllFilled, K, N, A
    <2> HIDE DEF i
    <2>6. args[A + j + 1] = Call!Value(m, e)
      BY <2>4, <2>5
    <2> HIDE DEF j, q, S
    <2>7. q[i] = parts[m][e]
      BY <1>4, <1>5, <2>1, <2>4, <2>5, <2>6
    <2> QED BY <2>7 DEF i
  <1> HIDE DEF q, S
  <1>8. q = Flat(parts)
    BY <1>1, <1>4, <1>5, <1>6, <1>7, FlatParts
  <1> QED BY <1>8, MeantAre DEF q, parts, A

\* A slot has a value or the null of an argument whose caster has failed.
LEMMA SlotHas ==
  ASSUME given \in Seq(Call!Written), AllFilled, NEW j \in 1 .. AllPos(given) + AllNames(given)
  PROVE  \/ args[j + 1] = Call!Null /\ \E n \in DOMAIN given : given[n].kind = "none"
         \/ \E n, e : args[j + 1] = Call!Value(n, e)
  <1> DEFINE N == Len(given)
             P == PosLens(given)
             K == NameLens(given)
             A == AllPos(given)
             B == AllNames(given)
  <1>1. /\ N \in Nat /\ (\A n \in 1 .. N : P[n] \in Nat) /\ (\A n \in 1 .. N : K[n] \in Nat)
        /\ A \in Nat /\ B \in Nat /\ A = Before(P, N) /\ B = Before(K, N)
        /\ DOMAIN given = 1 .. N
    BY GivenIs DEF AllPos, AllNames
  <1>2. /\ \A m \in 1 .. N : \A e \in 1 .. P[m] : args[1 + Before(P, m - 1) + e] = PosPart(given, m)[e]
        /\ \A m \in 1 .. N : \A e \in 1 .. K[m] : args[1 + A + Before(K, m - 1) + e] = Call!Value(m, e)
    BY DEF AllFilled
  <1>0. j \in 1 .. A + B
    OBVIOUS
  <1> HIDE DEF N, P, K, A, B
  <1>3. CASE j <= A
    <2>1. j \in 1 .. Before(P, N)
      BY <1>0, <1>1, <1>3
    <2>2. PICK n \in 1 .. N : \E e \in 1 .. P[n] : j = Before(P, n - 1) + e
      BY SMTT(30), <1>1, <2>1, BeforeMeets
    <2>3. PICK e \in 1 .. P[n] : j = Before(P, n - 1) + e
      BY <2>2
    <2>4. n - 1 \in 0 .. N
      BY <1>1
    <2>5. Before(P, n - 1) \in Nat /\ P[n] \in Nat
      BY <1>1, <2>4, BeforeIs
    <2>6. j + 1 = 1 + Before(P, n - 1) + e
      BY <2>3, <2>5
    <2>7. args[j + 1] = PosPart(given, n)[e]
      BY <1>2, <2>6
    <2>8. CASE given[n].kind # "none"
      <3>1. PosPart(given, n) = Call!ValuesOf(n, P[n])
        <4>1. P[n] = Call!Positional(given[n])
          BY GivenIs DEF P, N
        <4> QED BY <2>8, <4>1 DEF PosPart
      <3>2. PosPart(given, n)[e] = Call!Value(n, e)
        BY <3>1 DEF Call!ValuesOf
      <3> QED BY <2>7, <3>2
    <2>9. CASE given[n].kind = "none"
      <3>1. P[n] = 1
        <4>1. given[n] \in Call!Written /\ P[n] = Call!Positional(given[n])
          BY GivenIs DEF P, N
        <4> QED BY <2>9, <4>1, WrittenIs
      <3>2. e = 1
        BY <3>1
      <3>3. PosPart(given, n)[e] = Call!Null
        BY <2>9, <3>2 DEF PosPart
      <3> QED BY <1>1, <2>7, <2>9, <3>3
    <2> QED BY <2>8, <2>9
  <1>4. CASE ~(j <= A)
    <2> DEFINE i == j - A
    <2>1. i \in 1 .. Before(K, N) /\ j = A + i
      BY <1>0, <1>1, <1>4
    <2> HIDE DEF i
    <2>2. PICK n \in 1 .. N : \E e \in 1 .. K[n] : i = Before(K, n - 1) + e
      BY <1>1, <2>1, BeforeMeets
    <2>3. PICK e \in 1 .. K[n] : i = Before(K, n - 1) + e
      BY <2>2
    <2>4. n - 1 \in 0 .. N
      BY <1>1
    <2>5. Before(K, n - 1) \in Nat /\ K[n] \in Nat
      BY <1>1, <2>4, BeforeIs
    <2>6. j + 1 = 1 + A + Before(K, n - 1) + e
      <3> DEFINE b == Before(K, n - 1)
      <3>1. b \in Nat /\ e \in Nat /\ A \in Nat /\ j = A + i /\ i = b + e
        BY <1>1, <2>1, <2>3, <2>5
      <3> HIDE DEF b
      <3>2. j + 1 = 1 + A + b + e
        BY <3>1
      <3> QED BY <3>2 DEF b
    <2>7. args[j + 1] = Call!Value(n, e)
      BY <1>2, <2>6
    <2> QED BY <2>7
  <1> QED BY <1>3, <1>4

\* A null among the arguments is one whose caster has failed.
LEMMA NullArrives ==
  ASSUME given \in Seq(Call!Written), AllFilled
  PROVE  (\E j \in 1 .. AllPos(given) + AllNames(given) : args[j + 1] = Call!Null)
         <=> \E n \in DOMAIN given : given[n].kind = "none"
  <1> DEFINE N == Len(given)
             P == PosLens(given)
             K == NameLens(given)
             A == AllPos(given)
             B == AllNames(given)
  <1>1. /\ N \in Nat /\ (\A n \in 1 .. N : P[n] \in Nat) /\ (\A n \in 1 .. N : K[n] \in Nat)
        /\ A \in Nat /\ B \in Nat /\ A = Before(P, N) /\ B = Before(K, N)
        /\ DOMAIN given = 1 .. N
    BY GivenIs DEF AllPos, AllNames
  <1>2. /\ \A m \in 1 .. N : \A e \in 1 .. P[m] : args[1 + Before(P, m - 1) + e] = PosPart(given, m)[e]
        /\ \A m \in 1 .. N : \A e \in 1 .. K[m] : args[1 + A + Before(K, m - 1) + e] = Call!Value(m, e)
    BY DEF AllFilled
  <1>3. ASSUME NEW n \in 1 .. N, given[n].kind = "none"
        PROVE  \E j \in 1 .. A + B : args[j + 1] = Call!Null
    <2>1. P[n] = 1
      <3>1. given[n] \in Call!Written /\ P[n] = Call!Positional(given[n])
        BY GivenIs
      <3> HIDE DEF P
      <3> QED BY <1>3, <3>1, WrittenIs
    <2>2. PosPart(given, n)[1] = Call!Null
      BY <1>3 DEF PosPart
    <2> HIDE DEF N, P, K, A, B
    <2> DEFINE b == Before(P, n - 1)
    <2>3. b + 1 \in 1 .. Before(P, N)
      <3>1. 1 \in 1 .. P[n]
        BY <2>1
      <3> QED BY <1>1, <3>1, OnePlace
    <2>4. n - 1 \in 0 .. N
      BY <1>1
    <2>5. b \in Nat
      BY <1>1, <2>4, BeforeIs
    <2>6. args[1 + b + 1] = Call!Null
      BY <1>2, <2>1, <2>2
    <2> HIDE DEF b
    <2>7. b + 1 \in 1 .. A + B /\ 1 + b + 1 = b + 1 + 1
      BY <1>1, <2>3, <2>5
    <2>8. args[b + 1 + 1] = Call!Null
      BY <2>6, <2>7
    <2> QED BY <2>7, <2>8
  <1>4. ASSUME NEW j \in 1 .. A + B, args[j + 1] = Call!Null
        PROVE  \E n \in 1 .. N : given[n].kind = "none"
    <2>1. args[j + 1] = Call!Null => ~\E n, e : args[j + 1] = Call!Value(n, e)
      BY SlotsDiffer
    <2> QED BY <1>1, <1>4, <2>1, SlotHas
  <1> QED BY <1>1, <1>3, <1>4

\* No slot and no name is left over.
LEMMA NoneUnset ==
  ASSUME given \in Seq(Call!Written), AllFilled
  PROVE  /\ \A j \in 1 .. AllPos(given) + AllNames(given) : args[j + 1] # Call!Unset
         /\ \A k \in 1 .. AllNames(given) : kwnames[k] # Call!Unset
  <1>1. ASSUME NEW j \in 1 .. AllPos(given) + AllNames(given) PROVE args[j + 1] # Call!Unset
    BY SlotHas, SlotsDiffer
  <1>2. ASSUME NEW k \in 1 .. AllNames(given) PROVE kwnames[k] # Call!Unset
    <2> DEFINE N == Len(given)
               K == NameLens(given)
    <2>1. N \in Nat /\ (\A n \in 1 .. N : K[n] \in Nat) /\ AllNames(given) = Before(K, N)
      BY GivenIs DEF AllNames
    <2>2. \A n \in 1 .. N : \A e \in 1 .. K[n] : kwnames[Before(K, n - 1) + e] = <<"name", given[n].names[e]>>
      BY DEF AllFilled
    <2> HIDE DEF N, K
    <2>3. PICK n \in 1 .. N : \E e \in 1 .. K[n] : k = Before(K, n - 1) + e
      BY <2>1, BeforeMeets
    <2>4. PICK x : kwnames[k] = <<"name", x>>
      BY <2>2, <2>3
    <2> QED BY <2>4, SlotsDiffer
  <1> QED BY <1>1, <1>2

LEMMA FixedCallArrives ==
  ASSUME OutInv, Call!VectorCall, fixed
  PROVE  Call!ArgumentsArrive'
  <1> DEFINE s == SelfSlot
             all == s \o Tail(args)
             count == Len(s) + Call!KwargsOffset
             L == Len(s)
             A == AllPos(given)
             B == AllNames(given)
  <1>1. /\ next = Len(given) + 1 /\ received = Call!Idle
        /\ UNCHANGED <<given, method, next, args, kwnames, nargs, nkwargs, fixed>>
        /\ argRefs' = argRefs - Call!Cardinality(Call!Owned(args)) - Call!Cardinality(Call!Owned(kwnames))
        /\ received' = CASE Call!Unset \in Call!ToSet(all) \cup Call!ToSet(kwnames) -> Call!Undefined
                         [] Call!Null \in Call!ToSet(all) -> <<"error">>
                         [] OTHER -> <<"called", SubSeq(all, 1, count),
                                       [k \in DOMAIN kwnames |-> <<kwnames[k], all[count + k]>>]>>
    BY DEF Call!VectorCall, SelfSlot
  <1>2. given \in Seq(Call!Written) /\ InSlots /\ Len(given) \in Nat
    <2>1. next # 0
      <3>1. Len(given) \in Nat
        BY <1>1 DEF OutInv
      <3> QED BY <1>1, <3>1
    <2>2. given \in Seq(Call!Written) /\ InSlots
      BY <1>1, <2>1 DEF OutInv
    <2> QED BY <2>2, LenProperties
  <1>3. AllFilled
    BY <1>1, <1>2, FilledAre
  <1>4. /\ args \in Seq(CallSlots) /\ Len(args) = A + B + 1
        /\ kwnames \in Seq(CallSlots) /\ Len(kwnames) = B
        /\ argRefs = Cardinality(Call!Owned(args)) + Cardinality(Call!Owned(kwnames))
    BY <1>2 DEF InSlots, SlotsOf
  <1>5. argRefs' = 0
    <2> DEFINE c == Cardinality(Call!Owned(args))
               d == Cardinality(Call!Owned(kwnames))
    <2>1. c \in Nat /\ d \in Nat
      BY <1>4, OwnedCounts
    <2>2. argRefs = c + d /\ argRefs' = argRefs - c - d
      BY <1>1, <1>4, CallLibrary
    <2> HIDE DEF c, d
    <2> QED BY <2>1, <2>2
  <1>6. A \in Nat /\ B \in Nat /\ Call!KwargsOffset = A
    <2> DEFINE m == Len(args)
               k == Len(kwnames)
    <2>1. A \in Nat /\ B \in Nat
      BY <1>2, GivenIs
    <2>2. m = A + B + 1 /\ k = B /\ Call!KwargsOffset = m - 1 - k
      BY <1>4 DEF Call!KwargsOffset
    <2> HIDE DEF A, B, m, k
    <2> QED BY <2>1, <2>2
  <1>7. /\ all \in Seq(CallSlots) /\ Len(all) = L + A + B
        /\ \A j \in 1 .. L : all[j] = <<"self">>
        /\ \A j \in 1 .. A + B : all[L + j] = args[j + 1]
        /\ SubSeq(all, 1, L + A) = Call!MeantFirst
        /\ L \in Nat
    BY <1>2, <1>3, <1>4, FirstArrive
  <1>8. [k \in DOMAIN kwnames |-> <<kwnames[k], args[A + k + 1]>>] = Call!MeantNamed
    BY <1>2, <1>3, <1>4, NamedArrive
  <1>9. (\E j \in 1 .. A + B : args[j + 1] = Call!Null) <=> \E n \in DOMAIN given : given[n].kind = "none"
    BY <1>2, <1>3, NullArrives
  <1>10. DOMAIN kwnames = 1 .. B /\ DOMAIN all = 1 .. L + A + B
    BY <1>4, <1>7, LenProperties
  <1>11. count = L + A
    BY <1>6
  <1> HIDE DEF all, L, A, B, count
  <1>12. Call!Null \in Call!ToSet(all) <=> \E n \in DOMAIN given : given[n].kind = "none"
    <2>1. Call!Null \in Call!ToSet(all) <=> \E j \in 1 .. L + A + B : all[j] = Call!Null
      BY <1>10, CallLibrary
    <2>2. ASSUME NEW j \in 1 .. L + A + B, all[j] = Call!Null
          PROVE  \E i \in 1 .. A + B : args[i + 1] = Call!Null
      <3>1. j \notin 1 .. L
        BY <1>7, <2>2, SlotsDiffer
      <3> DEFINE i == j - L
      <3>2. i \in 1 .. A + B /\ L + i = j
        BY <1>6, <1>7, <3>1
      <3> HIDE DEF i
      <3> QED BY <1>7, <2>2, <3>2
    <2>3. ASSUME NEW i \in 1 .. A + B, args[i + 1] = Call!Null
          PROVE  \E j \in 1 .. L + A + B : all[j] = Call!Null
      <3>1. L + i \in 1 .. L + A + B
        BY <1>6, <1>7
      <3> QED BY <1>7, <2>3, <3>1
    <2> QED BY <1>9, <2>1, <2>2, <2>3
  <1>0. Call!Unset \notin Call!ToSet(all) \cup Call!ToSet(kwnames)
    <2>1. \A j \in 1 .. A + B : args[j + 1] # Call!Unset
      BY <1>2, <1>3, NoneUnset DEF A, B
    <2>2. \A k \in DOMAIN kwnames : kwnames[k] # Call!Unset
      BY <1>2, <1>3, <1>10, NoneUnset DEF B
    <2>3. ASSUME NEW j \in 1 .. L + A + B PROVE all[j] # Call!Unset
      <3>1. CASE j \in 1 .. L
        <4>1. <<"self">>[1] = "self" /\ <<"unset">>[1] = "unset"
          OBVIOUS
        <4> QED BY <1>7, <3>1, <4>1 DEF Call!Unset
      <3>2. CASE j \notin 1 .. L
        <4> DEFINE i == j - L
        <4>1. i \in 1 .. A + B /\ L + i = j
          BY <1>6, <1>7, <3>2
        <4> HIDE DEF i
        <4> QED BY <1>7, <2>1, <4>1
      <3> QED BY <3>1, <3>2
    <2> QED BY <1>10, <2>2, <2>3, CallLibrary
  <1>13. [k \in DOMAIN kwnames |-> <<kwnames[k], all[count + k]>>] = Call!MeantNamed
    <2>1. ASSUME NEW k \in DOMAIN kwnames PROVE all[count + k] = args[A + k + 1]
      <3>1. k \in 1 .. B
        BY <1>10
      <3> DEFINE i == A + k
      <3>2. i \in 1 .. A + B /\ count + k = L + i
        BY <1>6, <1>7, <1>11, <3>1
      <3> HIDE DEF i
      <3>3. all[count + k] = args[i + 1]
        BY <1>7, <3>2
      <3> QED BY <3>3 DEF i
    <2> DEFINE q == [k \in DOMAIN kwnames |-> <<kwnames[k], all[count + k]>>]
               r == [k \in DOMAIN kwnames |-> <<kwnames[k], args[A + k + 1]>>]
    <2>2. q = r
      BY <2>1
    <2> QED BY <1>8, <2>2
  <1> DEFINE none == \E n \in DOMAIN given : given[n].kind = "none"
  <1>14. received' = IF none THEN <<"error">> ELSE <<"called", Call!MeantFirst, Call!MeantNamed>>
    <2>1. SubSeq(all, 1, count) = Call!MeantFirst
      BY <1>7, <1>11
    <2> HIDE DEF none
    <2>2. Call!Null \in Call!ToSet(all) <=> none
      BY <1>12 DEF none
    <2> QED BY <1>0, <1>1, <1>13, <2>1, <2>2
  <1>15. received' \notin {Call!Undefined, Call!Raised}
    <2> HIDE DEF none
    <2> QED BY <1>14, ReceivedDiffer
  <1>16. none' <=> none
    BY <1>1
  <1>17. Call!MeantFirst' = Call!MeantFirst /\ Call!MeantNamed' = Call!MeantNamed
    BY <1>1 DEF Call!MeantFirst, Call!MeantNamed
  <1> QED BY <1>5, <1>14, <1>15, <1>16, <1>17 DEF Call!ArgumentsArrive

LEMMA VectorCallArrives ==
  ASSUME OutInv, Call!VectorCall
  PROVE  OutInv'
  <1>1. next = Len(given) + 1 /\ received = Call!Idle /\ UNCHANGED <<next, fixed>> /\ received' # Call!Idle
    BY ReceivedDiffer DEF Call!VectorCall
  <1>2. Call!ArgumentsArrive'
    <2>1. CASE fixed
      BY <2>1, FixedCallArrives
    <2>2. CASE ~fixed
      BY <1>1, <2>2 DEF Call!ArgumentsArrive
    <2> QED BY <2>1, <2>2
  <1>3. next' \in Nat \ {0}
    <2>1. CASE given = << >>
      BY <1>1, <2>1
    <2>2. CASE given # << >>
      <3>1. given \in Seq(Call!Written)
        BY <1>1, <2>2 DEF OutInv
      <3> QED BY <1>1, <3>1, LenProperties
    <2> QED BY <2>1, <2>2
  <1> QED BY <1>1, <1>2, <1>3 DEF OutInv

LEMMA OutInvNext ==
  ASSUME OutInv, [Call!Next]_callV
  PROVE  OutInv'
  <1>1. CASE UNCHANGED <<given, method, next, args, kwnames, nargs, nkwargs, argRefs, received, fixed>>
    <2>1. InSlots' = InSlots
      BY <1>1 DEF InSlots, SlotsOf
    <2>2. Call!ArgumentsArrive' <=> Call!ArgumentsArrive
      BY <1>1 DEF Call!ArgumentsArrive, Call!MeantFirst, Call!MeantNamed
    <2> QED BY <1>1, <2>1, <2>2 DEF OutInv
  <1>2. CASE Call!Receive \/ Call!NextOverload \/ Call!Match \/ Call!Return \/ UNCHANGED callV
    BY <1>1, <1>2 DEF Call!Receive, Call!NextOverload, Call!Match, Call!Return, Call!outVars, callV
  <1>3. CASE Call!Skip
    BY <1>1, <1>3 DEF Call!Skip, Call!Throw, Call!outVars
  <1>4. CASE \E n \in casting : Call!CastArgument(n) \/ Call!CastThrows(n)
    BY <1>1, <1>4 DEF Call!CastArgument, Call!CastThrows, Call!Throw, Call!outVars
  <1> QED
    BY <1>2, <1>3, <1>4, AnalyzeSets, CallInitFills, SpreadRaisesFills, VectorCallArrives DEF Call!Next

\* As long as *args and **kwargs keep their length and raise nothing, the callee
\* gets the arguments as they are written, whatever is mixed, and no reference is
\* left (nb_call.h:30-133).
THEOREM EachArgumentArrives == Spec => []ArgumentsArrive
  <1>1. Init => OutInv
    BY ComponentInits DEF Call!Init, OutInv
  <1>2. OutInv /\ [Next]_vars => OutInv'
    BY ComponentSteps, OutInvNext
  <1>3. OutInv => ArgumentsArrive
    BY DEF OutInv, ArgumentsArrive, Call!ArgumentsArrive
  <1> QED
    BY <1>1, <1>2, <1>3, PTL DEF Spec

-----------------------------------------------------------------------------
(* BoundVector: a vector is a list. *)

\* Division by a positive number.
LEMMA Division ==
  ASSUME NEW a \in Int, NEW d \in Nat \ {0}
  PROVE  a \div d \in Int /\ a % d \in 0 .. d - 1 /\ a = d * (a \div d) + (a % d)
  BY SMT

\* Multiples that are not the same are at least so far apart.
LEMMA Multiples ==
  ASSUME NEW d \in Nat \ {0}
  PROVE  /\ \A i \in Int : i * d \in Int /\ (i * d) % d = 0 /\ (i + 1) * d = i * d + d
         /\ \A i, j \in Int : i < j => i * d + d <= j * d
         /\ \A i, j \in Int : i * d < j * d + d => i <= j
  <1>1. \A i, j \in Int : i < j => i * d + d <= j * d
    <2> SUFFICES ASSUME NEW i \in Int, NEW j \in Int, i < j PROVE i * d + d <= j * d
      OBVIOUS
    <2>1. PICK k \in Nat : j = i + 1 + k
      <3>1. j - i - 1 \in Nat /\ j = i + 1 + (j - i - 1)
        OBVIOUS
      <3> QED BY <3>1
    <2>2. j * d = i * d + d + k * d /\ k * d >= 0
      BY <2>1
    <2> QED BY <2>2
  <1>2. \A i \in Int : i * d \in Int /\ (i + 1) * d = i * d + d
    OBVIOUS
  <1>3. ASSUME NEW i \in Int PROVE (i * d) % d = 0
    BY SMT
  <1>4. ASSUME NEW i \in Int, NEW j \in Int, i * d < j * d + d PROVE i <= j
    <2> SUFFICES ASSUME j < i PROVE FALSE
      OBVIOUS
    <2>1. j * d + d <= i * d /\ i * d \in Int /\ j * d \in Int
      BY <1>1, <1>2
    <2> QED BY <1>4, <2>1
  <1> QED BY <1>1, <1>2, <1>3, <1>4

-----------------------------------------------------------------------------
(* Numbers in order *)

\* q lists the m numbers of P in order.
InOrder(q, m, P) ==
  /\ q \in [1 .. m -> P]
  /\ \A i, j \in 1 .. m : i < j => q[i] < q[j]
  /\ \A x \in P : \E i \in 1 .. m : q[i] = x

\* So many numbers are below the k-th.
LEMMA BelowInOrder ==
  ASSUME NEW m \in Nat, NEW P \in SUBSET Int, NEW q, InOrder(q, m, P)
  PROVE  /\ IsFiniteSet(P) /\ Cardinality(P) = m
         /\ \A k \in 1 .. m : Cardinality({x \in P : x < q[k]}) = k - 1
  <1>1. /\ q \in [1 .. m -> P] /\ \A x \in P : \E i \in 1 .. m : q[i] = x
        /\ \A i, j \in 1 .. m : i < j => q[i] < q[j]
    BY DEF InOrder
  <1>2. \A i \in 1 .. m : q[i] \in Int
    BY <1>1
  <1>3. \A i, j \in 1 .. m : q[i] = q[j] => i = j
    BY <1>1, <1>2
  <1>4. \A n \in Nat : IsFiniteSet(1 .. n) /\ Cardinality(1 .. n) = n
    BY FS_Interval
  <1>5. IsFiniteSet(P) /\ Cardinality(P) = Cardinality(1 .. m)
    <2>1. \A i \in 1 .. m : q[i] \in P
      BY <1>1
    <2>2. IsFiniteSet(1 .. m)
      BY <1>4
    <2> QED BY <1>1, <1>3, <2>1, <2>2, AsMany
  <1>6. ASSUME NEW k \in 1 .. m PROVE Cardinality({x \in P : x < q[k]}) = k - 1
    <2> DEFINE T == {x \in P : x < q[k]}
    <2>1. k - 1 \in Nat /\ \A i \in 1 .. k - 1 : i \in 1 .. m /\ i < k
      OBVIOUS
    <2>2. \A i \in 1 .. k - 1 : q[i] \in T
      BY <1>1, <2>1
    <2>3. ASSUME NEW x \in T PROVE \E i \in 1 .. k - 1 : q[i] = x
      <3>1. PICK i \in 1 .. m : q[i] = x
        BY <1>1
      <3>2. q[i] < q[k] /\ q[i] \in Int /\ q[k] \in Int
        BY <1>2, <3>1
      <3>3. ~(k < i) /\ k # i
        BY <1>1, <1>2, <3>2
      <3>4. i \in 1 .. k - 1
        BY <3>3
      <3> QED BY <3>1, <3>4
    <2>4. \A i, j \in 1 .. k - 1 : q[i] = q[j] => i = j
      BY <1>3, <2>1
    <2> HIDE DEF T
    <2>5. IsFiniteSet(1 .. k - 1) /\ Cardinality(1 .. k - 1) = k - 1
      BY <1>4, <2>1
    <2>6. Cardinality(T) = Cardinality(1 .. k - 1)
      BY <2>2, <2>3, <2>4, <2>5, AsMany
    <2> QED BY <2>5, <2>6 DEF T
  <1> QED BY <1>4, <1>5, <1>6

\* There is one list in order: Ascending finds it.
LEMMA AscendingIs ==
  ASSUME NEW m \in Nat, NEW P \in SUBSET Int, NEW q, InOrder(q, m, P)
  PROVE  Vec!Ascending(P) = q
  <1>1. q \in [1 .. m -> P] /\ \A x \in P : \E i \in 1 .. m : q[i] = x
    BY DEF InOrder
  <1>2. Cardinality(P) = m /\ \A k \in 1 .. m : Cardinality({x \in P : x < q[k]}) = k - 1
    BY BelowInOrder
  <1>3. ASSUME NEW k \in 1 .. m
        PROVE  (CHOOSE p \in P : Cardinality({x \in P : x < p}) = k - 1) = q[k]
    <2>1. q[k] \in P /\ Cardinality({x \in P : x < q[k]}) = k - 1
      BY <1>1, <1>2
    <2>2. ASSUME NEW p \in P, Cardinality({x \in P : x < p}) = k - 1 PROVE p = q[k]
      <3>1. PICK i \in 1 .. m : q[i] = p
        BY <1>1
      <3>2. Cardinality({x \in P : x < p}) = i - 1
        BY <1>2, <3>1
      <3>3. i = k
        BY <2>2, <3>2
      <3> QED BY <3>1, <3>3
    <2> QED BY <2>1, <2>2
  <1>4. Vec!Ascending(P) = [k \in 1 .. m |-> CHOOSE p \in P : Cardinality({x \in P : x < p}) = k - 1]
    BY <1>2 DEF Vec!Ascending, Vec!Cardinality, Cardinality
  <1>5. Vec!Ascending(P) = [k \in 1 .. m |-> q[k]]
    BY <1>3, <1>4
  <1> QED BY <1>1, <1>5

\* Numbers up to n can be put in order.
LEMMA OrderExists ==
  ASSUME NEW n \in Nat, NEW P \in SUBSET (1 .. n)
  PROVE  \E m \in Nat : \E q : InOrder(q, m, P)
  <1> DEFINE N == {k \in Nat : \A R \in SUBSET (1 .. k) : \E m \in Nat : \E q : InOrder(q, m, R)}
  <1>1. 0 \in N
    <2>1. 1 .. 0 = {}
      OBVIOUS
    <2> DEFINE q == [i \in 1 .. 0 |-> 0]
    <2>2. \A R \in SUBSET (1 .. 0) : R = {}
      BY <2>1
    <2>3. InOrder(q, 0, {})
      BY <2>1 DEF InOrder
    <2>4. \E m \in Nat : \E r : InOrder(r, m, {})
      <3> HIDE DEF q
      <3> QED BY <2>3
    <2> QED BY <2>2, <2>4
  <1>2. ASSUME NEW k \in Nat, k \in N PROVE k + 1 \in N
    <2> SUFFICES ASSUME NEW R \in SUBSET (1 .. k + 1) PROVE \E m \in Nat : \E q : InOrder(q, m, R)
      OBVIOUS
    <2>1. PICK m \in Nat : \E q : InOrder(q, m, R \ {k + 1})
      <3>1. R \ {k + 1} \in SUBSET (1 .. k)
        OBVIOUS
      <3> QED BY <1>2, <3>1
    <2>2. PICK q : InOrder(q, m, R \ {k + 1})
      BY <2>1
    <2>3. CASE k + 1 \notin R
      <3>1. R \ {k + 1} = R
        BY <2>3
      <3> QED BY <2>2, <3>1
    <2>4. CASE k + 1 \in R
      <3> DEFINE r == [i \in 1 .. m + 1 |-> IF i <= m THEN q[i] ELSE k + 1]
      <3>1. /\ q \in [1 .. m -> R \ {k + 1}] /\ \A x \in R \ {k + 1} : \E i \in 1 .. m : q[i] = x
            /\ \A i, j \in 1 .. m : i < j => q[i] < q[j]
        BY <2>2 DEF InOrder
      <3>2. \A i \in 1 .. m : q[i] \in R /\ q[i] \in Nat /\ q[i] < k + 1 /\ i \in 1 .. m + 1 /\ r[i] = q[i]
        <4> SUFFICES ASSUME NEW i \in 1 .. m
                     PROVE  q[i] \in R /\ q[i] \in Nat /\ q[i] < k + 1 /\ i \in 1 .. m + 1 /\ r[i] = q[i]
          OBVIOUS
        <4>1. q[i] \in R /\ q[i] # k + 1
          BY <3>1
        <4>2. q[i] \in 1 .. k + 1
          BY <4>1
        <4>3. i \in 1 .. m + 1 /\ r[i] = q[i]
          OBVIOUS
        <4> QED BY <4>1, <4>2, <4>3
      <3>3. m + 1 \in 1 .. m + 1 /\ r[m + 1] = k + 1
        OBVIOUS
      <3>4. \A i \in 1 .. m + 1 : i \in 1 .. m \/ i = m + 1
        OBVIOUS
      <3> DEFINE M == m + 1
      <3> HIDE DEF r
      <3>5. \A i \in 1 .. M : r[i] \in R
        BY <2>4, <3>2, <3>3, <3>4
      <3>6. ASSUME NEW i \in 1 .. M, NEW j \in 1 .. M, i < j PROVE r[i] < r[j]
        <4>1. i \in 1 .. m
          BY <3>4, <3>6
        <4>2. CASE j \in 1 .. m
          BY <3>1, <3>2, <3>6, <4>1, <4>2
        <4>3. CASE j = m + 1
          BY <3>2, <3>3, <4>1, <4>3
        <4> QED BY <3>4, <4>2, <4>3
      <3>7. ASSUME NEW x \in R PROVE \E i \in 1 .. M : r[i] = x
        <4>1. CASE x = k + 1
          BY <3>3, <4>1
        <4>2. CASE x # k + 1
          BY <3>1, <3>2, <4>2
        <4> QED BY <4>1, <4>2
      <3>8. InOrder(r, M, R) /\ M \in Nat
        <4> HIDE DEF M
        <4>0. r \in [1 .. M -> R]
          BY <3>5 DEF r, M
        <4>1. InOrder(r, M, R)
          BY <4>0, <3>6, <3>7 DEF InOrder
        <4> QED BY <4>1 DEF M
      <3> HIDE DEF M
      <3> QED BY <3>8
    <2> QED BY <2>3, <2>4
  <1>3. \A k \in Nat : k \in N
    <2> HIDE DEF N
    <2> QED BY <1>1, <1>2, NaturalNumbers
  <1> QED BY <1>3

-----------------------------------------------------------------------------
(* What remains of a list without some positions *)

Remaining(v, D) == {n \in 1 .. Len(v) : n - 1 \notin D}

\* The k-th element left is at the k-th of the places that remain.
LEMMA WithoutIs ==
  ASSUME NEW S, NEW v \in Seq(S), NEW D, NEW m \in Nat, NEW q, InOrder(q, m, Remaining(v, D))
  PROVE  Vec!Without(v, D) = [k \in 1 .. m |-> v[q[k]]] /\ Vec!Without(v, D) \in Seq(S)
  <1>1. Len(v) \in Nat /\ DOMAIN v = 1 .. Len(v) /\ \A n \in 1 .. Len(v) : v[n] \in S
    BY LenProperties
  <1>2. {n \in DOMAIN v : n - 1 \notin D} = Remaining(v, D)
    BY <1>1 DEF Remaining
  <1>3. Remaining(v, D) \in SUBSET Int /\ Remaining(v, D) \subseteq 1 .. Len(v)
    BY <1>1 DEF Remaining
  <1>4. Vec!Ascending(Remaining(v, D)) = q
    BY <1>3, AscendingIs
  <1>5. q \in [1 .. m -> Remaining(v, D)] /\ DOMAIN q = 1 .. m
    BY DEF InOrder
  <1>6. Vec!Without(v, D) = [k \in 1 .. m |-> v[q[k]]]
    BY <1>2, <1>4, <1>5 DEF Vec!Without
  <1>7. \A k \in 1 .. m : v[q[k]] \in S
    BY <1>1, <1>3, <1>5
  <1>8. [k \in 1 .. m |-> v[q[k]]] \in [1 .. m -> S]
    BY <1>7
  <1>9. [k \in 1 .. m |-> v[q[k]]] \in Seq(S)
    <2> DEFINE w == [k \in 1 .. m |-> v[q[k]]]
    <2>1. w \in [1 .. m -> S]
      BY <1>8
    <2> HIDE DEF w
    <2>2. w \in Seq(S)
      BY <2>1
    <2> QED BY <2>2 DEF w
  <1> QED BY <1>6, <1>9

\* Leaving out nothing changes nothing.
LEMMA WithoutNone ==
  ASSUME NEW S, NEW v \in Seq(S)
  PROVE  Vec!Without(v, {}) = v
  <1>1. Len(v) \in Nat /\ v \in [1 .. Len(v) -> S]
    BY LenProperties
  <1> DEFINE m == Len(v)
             q == [k \in 1 .. m |-> k]
  <1>2. Remaining(v, {}) = 1 .. m
    BY DEF Remaining
  <1>3. \A k \in 1 .. m : q[k] = k
    OBVIOUS
  <1>4. m \in Nat /\ q \in [1 .. m -> 1 .. m] /\ v \in [1 .. m -> S]
    BY <1>1
  <1> HIDE DEF m, q
  <1>5. InOrder(q, m, 1 .. m)
    BY <1>3, <1>4 DEF InOrder
  <1>6. Vec!Without(v, {}) = [k \in 1 .. m |-> v[q[k]]]
    <2>1. InOrder(q, m, Remaining(v, {}))
      BY <1>2, <1>5
    <2> QED BY <1>4, <2>1, WithoutIs, SMTT(30)
  <1>7. [k \in 1 .. m |-> v[q[k]]] = [k \in 1 .. m |-> v[k]]
    BY <1>3
  <1> QED BY <1>4, <1>6, <1>7

LEMMA SameInterval ==
  ASSUME NEW a \in Nat, NEW b \in Nat, 1 .. a = 1 .. b
  PROVE  a = b
  <1>1. \A i \in Int : 1 <= i /\ i <= a <=> 1 <= i /\ i <= b
    OBVIOUS
  <1>2. a <= b /\ b <= a
    BY <1>1
  <1> QED BY <1>2

Glued(a, b, m, n) == [i \in 1 .. m |-> IF i <= n THEN a[i] ELSE b[i - n]]

\* The elements of two sequences, one behind the other.
LEMMA ConcatIs ==
  ASSUME NEW S, NEW a \in Seq(S), NEW b \in Seq(S), NEW m \in Nat, m = Len(a) + Len(b)
  PROVE  a \o b = Glued(a, b, m, Len(a)) /\ a \o b \in Seq(S)
  <1>1. /\ a \o b \in Seq(S) /\ Len(a \o b) = Len(a) + Len(b)
        /\ \A i \in 1 .. Len(a) + Len(b) : (a \o b)[i] = IF i <= Len(a) THEN a[i] ELSE b[i - Len(a)]
    BY ConcatProperties
  <1> DEFINE c == a \o b
  <1>2. c \in [1 .. m -> S]
    BY <1>1, LenProperties
  <1>3. \A i \in 1 .. m : c[i] = IF i <= Len(a) THEN a[i] ELSE b[i - Len(a)]
    BY <1>1
  <1> HIDE DEF c
  <1>4. c = [i \in 1 .. m |-> c[i]]
    BY <1>2
  <1>5. c = [i \in 1 .. m |-> IF i <= Len(a) THEN a[i] ELSE b[i - Len(a)]]
    BY <1>3, <1>4
  <1> QED BY <1>1, <1>5 DEF c, Glued

\* The first p elements of a sequence.
LEMMA FrontIs ==
  ASSUME NEW S, NEW v \in Seq(S), NEW p \in 0 .. Len(v)
  PROVE  /\ SubSeq(v, 1, p) \in Seq(S) /\ Len(SubSeq(v, 1, p)) = p
         /\ \A i \in 1 .. p : SubSeq(v, 1, p)[i] = v[i]
  <1>1. p \in Nat /\ \A i \in 1 .. p : v[i] \in S
    BY LenProperties
  <1>2. /\ SubSeq(v, 1, p) \in Seq(S)
        /\ Len(SubSeq(v, 1, p)) = IF 1 <= p THEN p - 1 + 1 ELSE 0
        /\ \A i \in 1 .. p - 1 + 1 : SubSeq(v, 1, p)[i] = v[1 + i - 1]
    BY <1>1, SubSeqProperties
  <1>3. p - 1 + 1 = p /\ (IF 1 <= p THEN p - 1 + 1 ELSE 0) = p
    BY <1>1
  <1>4. \A i \in 1 .. p : 1 + i - 1 = i
    BY <1>1
  <1> QED BY <1>2, <1>3, <1>4

IsBack(b, S, v, L, p) == b \in Seq(S) /\ Len(b) = L - p /\ \A i \in 1 .. L - p : b[i] = v[p + i]

LEMMA BackIs ==
  ASSUME NEW S, NEW v \in Seq(S), NEW L \in Nat, L = Len(v), NEW p \in 0 .. L, NEW q, q = p + 1
  PROVE  IsBack(SubSeq(v, q, L), S, v, L, p)
  <1>1. p \in Nat /\ q \in Int /\ L \in Int /\ \A i \in q .. L : v[i] \in S
    BY LenProperties
  <1>2. /\ SubSeq(v, q, L) \in Seq(S)
        /\ Len(SubSeq(v, q, L)) = IF q <= L THEN L - q + 1 ELSE 0
        /\ \A i \in 1 .. L - q + 1 : SubSeq(v, q, L)[i] = v[q + i - 1]
    BY <1>1, SubSeqProperties
  <1>3. L - q + 1 = L - p /\ (IF q <= L THEN L - q + 1 ELSE 0) = L - p
    BY <1>1
  <1>4. \A i \in 1 .. L - p : q + i - 1 = p + i
    BY <1>1
  <1> QED BY <1>2, <1>3, <1>4 DEF IsBack

\* A sequence without the g elements behind the first p.
Cut(v, L, p, g) == [i \in 1 .. L - g |-> IF i <= p THEN v[i] ELSE v[i + g]]
Joined(v, L, p, q) == SubSeq(v, 1, p) \o SubSeq(v, q, L)

\* The g elements are there, and q is the place behind them.
Cuts(v, L, p, g, q) == L = Len(v) /\ L \in Nat /\ p \in 0 .. L /\ g \in Nat /\ p + g <= L /\ q = p + g + 1

\* Joining what is before and behind them.
LEMMA CutIs ==
  ASSUME NEW S, NEW v \in Seq(S), NEW L, NEW p, NEW g, NEW q, Cuts(v, L, p, g, q)
  PROVE  Joined(v, L, p, q) = Cut(v, L, p, g) /\ Joined(v, L, p, q) \in Seq(S)
  <1> DEFINE a == SubSeq(v, 1, p)
             b == SubSeq(v, q, L)
             m == L - g
  <1>0. L = Len(v) /\ L \in Nat /\ p \in 0 .. L /\ g \in Nat /\ p + g <= L /\ q = p + g + 1
    BY DEF Cuts
  <1>1. a \in Seq(S) /\ Len(a) = p /\ \A i \in 1 .. p : a[i] = v[i]
    BY <1>0, FrontIs
  <1>2. p + g \in 0 .. L /\ p \in Nat /\ m \in Nat /\ m = p + (L - (p + g))
    BY <1>0
  <1>3. b \in Seq(S) /\ Len(b) = L - (p + g) /\ \A i \in 1 .. L - (p + g) : b[i] = v[p + g + i]
    <2> DEFINE k == p + g
    <2>1. k \in 0 .. L /\ q = k + 1
      BY <1>0, <1>2
    <2> HIDE DEF k
    <2>2. IsBack(b, S, v, L, k)
      BY <1>0, <2>1, BackIs
    <2> QED BY <2>2 DEF k, IsBack
  <1>4. \A i \in 1 .. m : IF i <= p THEN i \in 1 .. p
                          ELSE i - p \in 1 .. L - (p + g) /\ p + g + (i - p) = i + g
    BY <1>0, <1>2
  <1>5. m = L - g /\ Joined(v, L, p, q) = a \o b
    BY DEF Joined
  <1> HIDE DEF a, b, m
  <1>6. a \o b = Glued(a, b, m, p) /\ a \o b \in Seq(S)
    <2>1. m = Len(a) + Len(b)
      BY <1>1, <1>2, <1>3
    <2> QED BY <1>1, <1>2, <1>3, <2>1, ConcatIs
  <1>7. ASSUME NEW i \in 1 .. m
        PROVE  (IF i <= p THEN a[i] ELSE b[i - p]) = (IF i <= p THEN v[i] ELSE v[i + g])
    BY <1>1, <1>3, <1>4
  <1>8. Glued(a, b, m, p) = Cut(v, L, p, g)
    BY <1>5, <1>7 DEF Glued, Cut
  <1> QED BY <1>5, <1>6, <1>8

\* erase moves up what is behind the position.
LEMMA EraseIs ==
  ASSUME NEW S, NEW v \in Seq(S), NEW p \in 0 .. Len(v) - 1
  PROVE  Vec!Erase(v, p) = Cut(v, Len(v), p, 1) /\ Vec!Erase(v, p) \in Seq(S)
  <1> DEFINE q == (p + 1) + 1
             L == Len(v)
             h == (p + 1) - 1
  <1>1. Vec!Erase(v, p) = Joined(v, L, h, q)
    BY DEF Vec!Erase, Vec!RemoveAt, Joined
  <1>2. L \in Nat /\ L = Len(v)
    BY LenProperties
  <1> HIDE DEF L
  <1>3. h = p /\ Cuts(v, L, p, 1, q)
    BY <1>2 DEF Cuts
  <1> HIDE DEF h, q
  <1>4. Joined(v, L, p, q) = Cut(v, L, p, 1) /\ Joined(v, L, p, q) \in Seq(S)
    BY <1>3, CutIs
  <1> QED BY <1>1, <1>2, <1>3, <1>4

\* To erase a position before all those that are gone is to leave it out too.
LEMMA EraseNext ==
  ASSUME NEW S, NEW v \in Seq(S), NEW D \in SUBSET Int, NEW p \in 0 .. Len(v) - 1,
         \A d \in D : p < d
  PROVE  Vec!Erase(Vec!Without(v, D), p) = Vec!Without(v, D \cup {p})
  <1> DEFINE L == Len(v)
             P == Remaining(v, D)
             R == Remaining(v, D \cup {p})
             w == Vec!Without(v, D)
  <1>1. L \in Nat /\ p \in Int /\ 0 <= p /\ p < L
    BY LenProperties
  <1>2. P \in SUBSET (1 .. L) /\ P \in SUBSET Int /\ R = P \ {p + 1} /\ p + 1 \in P
        /\ \A n \in 1 .. p + 1 : n \in P
    BY <1>1 DEF Remaining
  <1>3. PICK m \in Nat : \E q : InOrder(q, m, P)
    BY <1>1, <1>2, OrderExists
  <1>4. PICK q : InOrder(q, m, P)
    BY <1>3
  <1>5. /\ q \in [1 .. m -> P] /\ \A x \in P : \E i \in 1 .. m : q[i] = x
        /\ \A i, j \in 1 .. m : i < j => q[i] < q[j]
    BY <1>4 DEF InOrder
  <1>6. w = [k \in 1 .. m |-> v[q[k]]] /\ w \in Seq(S)
    BY <1>4, WithoutIs
  <1> HIDE DEF L, P, R, w
  <1>7. p + 1 \in 1 .. m /\ q[p + 1] = p + 1
    <2>1. PICK a \in 1 .. m : q[a] = p + 1
      BY <1>2, <1>5
    <2>2. Cardinality({x \in P : x < q[a]}) = a - 1
      BY <1>2, <1>4, BelowInOrder
    <2>3. {x \in P : x < q[a]} = 1 .. p
      <3>1. ASSUME NEW x \in P PROVE x < p + 1 <=> x \in 1 .. p
        BY <1>1, <1>2
      <3>2. \A x \in 1 .. p : x \in P
        BY <1>1, <1>2
      <3> QED BY <2>1, <3>1, <3>2
    <2>4. Cardinality(1 .. p) = p
      BY <1>1, FS_Interval
    <2>5. a - 1 = p
      BY <2>2, <2>3, <2>4
    <2>6. a = p + 1
      BY <1>1, <2>5
    <2> QED BY <2>1, <2>6
  <1>8. m - 1 \in Nat /\ p < m /\ 1 .. m - 1 \subseteq 1 .. m
    BY <1>1, <1>7
  <1>9. Len(w) = m
    <2>1. Len(w) \in Nat /\ 1 .. Len(w) = 1 .. m
      BY <1>6, LenProperties
    <2> QED BY <2>1, SameInterval
  <1>10. Vec!Erase(w, p) = Cut(w, m, p, 1)
    <2>1. p \in 0 .. Len(w) - 1
      BY <1>1, <1>8, <1>9
    <2> QED BY <1>6, <1>9, <2>1, EraseIs
  <1> DEFINE r == [k \in 1 .. m - 1 |-> IF k <= p THEN q[k] ELSE q[k + 1]]
  <1>11. \A k \in 1 .. m - 1 : /\ k \in 1 .. m /\ k + 1 \in 1 .. m
                               /\ r[k] = IF k <= p THEN q[k] ELSE q[k + 1]
    BY <1>8
  <1>12. \A i \in 1 .. m : q[i] \in P /\ q[i] \in Int
    BY <1>2, <1>5
  <1>13. InOrder(r, m - 1, R)
    <2> HIDE DEF r
    <2>1. ASSUME NEW k \in 1 .. m - 1 PROVE r[k] \in R
      <3>1. CASE k <= p
        <4>1. q[k] < q[p + 1] /\ r[k] = q[k]
          BY <1>1, <1>5, <1>7, <1>11, <3>1
        <4> QED BY <1>2, <1>7, <1>11, <1>12, <4>1
      <3>2. CASE ~(k <= p)
        <4>1. p + 1 < k + 1 /\ k + 1 \in 1 .. m
          BY <1>1, <1>11, <3>2
        <4>2. q[p + 1] < q[k + 1] /\ r[k] = q[k + 1]
          BY <1>5, <1>7, <1>11, <3>2, <4>1
        <4> QED BY <1>2, <1>7, <1>12, <4>1, <4>2
      <3> QED BY <3>1, <3>2
    <2>2. ASSUME NEW i \in 1 .. m - 1, NEW j \in 1 .. m - 1, i < j PROVE r[i] < r[j]
      <3>1. i + 1 < j + 1 /\ i < j + 1 /\ (j <= p => i <= p)
        BY <1>1, <2>2
      <3>2. q[i] < q[j] /\ q[i + 1] < q[j + 1] /\ q[i] < q[j + 1]
        BY <1>5, <1>11, <2>2, <3>1
      <3> QED BY <1>11, <3>1, <3>2
    <2>3. ASSUME NEW x \in R PROVE \E k \in 1 .. m - 1 : r[k] = x
      <3>1. PICK i \in 1 .. m : q[i] = x
        BY <1>2, <1>5
      <3>2. i # p + 1
        BY <1>2, <1>7, <3>1
      <3>3. CASE i <= p
        <4>1. i \in 1 .. m - 1
          BY <1>8, <3>3
        <4> QED BY <1>11, <3>1, <3>3, <4>1
      <3>4. CASE ~(i <= p)
        <4>1. i - 1 \in 1 .. m - 1 /\ ~(i - 1 <= p) /\ i - 1 + 1 = i
          BY <1>1, <3>2, <3>4
        <4> QED BY <1>11, <3>1, <4>1
      <3> QED BY <3>3, <3>4
    <2>4. r \in [1 .. m - 1 -> R]
      BY <2>1 DEF r
    <2> QED BY <2>2, <2>3, <2>4 DEF InOrder
  <1>14. Vec!Without(v, D \cup {p}) = [k \in 1 .. m - 1 |-> v[r[k]]]
    <2> HIDE DEF r
    <2> QED BY <1>8, <1>13, WithoutIs DEF R
  <1>15. ASSUME NEW k \in 1 .. m - 1
         PROVE  (IF k <= p THEN w[k] ELSE w[k + 1]) = v[r[k]]
    BY <1>6, <1>11
  <1>16. [k \in 1 .. m - 1 |-> IF k <= p THEN w[k] ELSE w[k + 1]] = [k \in 1 .. m - 1 |-> v[r[k]]]
    BY <1>15
  <1> QED BY <1>10, <1>14, <1>16 DEF w, Cut

\* So erasing a position leaves it out.
LEMMA EraseLeavesOut ==
  ASSUME NEW S, NEW v \in Seq(S), NEW p \in 0 .. Len(v) - 1
  PROVE  Vec!Erase(v, p) = Vec!Without(v, {p}) /\ Vec!Erase(v, p) \in Seq(S)
  <1>1. Vec!Erase(v, p) = Vec!Without(v, {p})
    <2>1. Vec!Erase(Vec!Without(v, {}), p) = Vec!Without(v, {} \cup {p})
      <3>1. {} \in SUBSET Int /\ \A d \in {} : p < d
        OBVIOUS
      <3> QED BY <3>1, EraseNext
    <2>2. {} \cup {p} = {p}
      OBVIOUS
    <2> QED BY <2>1, <2>2, WithoutNone
  <1> QED BY <1>1, EraseIs

\* erase of a stretch moves up what is behind it.
LEMMA EraseRangeIs ==
  ASSUME NEW S, NEW v \in Seq(S), NEW p \in 0 .. Len(v) - 1, NEW t \in p .. Len(v) - 1
  PROVE  /\ Vec!EraseRange(v, p, t + 1) = Cut(v, Len(v), p, t + 1 - p)
         /\ Vec!EraseRange(v, p, t + 1) \in Seq(S)
  <1> DEFINE q == (t + 1) + 1
             g == t + 1 - p
             L == Len(v)
  <1>1. Vec!EraseRange(v, p, t + 1) = Joined(v, L, p, q)
    BY DEF Vec!EraseRange, Joined
  <1>2. L \in Nat /\ L = Len(v)
    BY LenProperties
  <1> HIDE DEF L
  <1>3. Cuts(v, L, p, g, q)
    BY <1>2 DEF Cuts
  <1> HIDE DEF g, q
  <1>4. Joined(v, L, p, q) = Cut(v, L, p, g) /\ Joined(v, L, p, q) \in Seq(S)
    BY <1>3, CutIs
  <1> QED BY <1>1, <1>2, <1>4 DEF g

\* And a stretch that is erased is left out.
LEMMA EraseRangeLeavesOut ==
  ASSUME NEW S, NEW v \in Seq(S), NEW p \in 0 .. Len(v) - 1, NEW t \in p .. Len(v) - 1
  PROVE  /\ Vec!EraseRange(v, p, t + 1) = Vec!Without(v, p .. t)
         /\ Vec!EraseRange(v, p, t + 1) \in Seq(S)
  <1> DEFINE L == Len(v)
             g == t + 1 - p
             m == L - g
             R == Remaining(v, p .. t)
             q == [k \in 1 .. m |-> IF k <= p THEN k ELSE k + g]
  <1>1. L \in Nat /\ p \in Int /\ 0 <= p /\ p <= t /\ t < L /\ t \in Int
    BY LenProperties
  <1>2. m \in Nat /\ g \in Nat /\ p \in 0 .. L /\ p + g <= L /\ t + 1 + 1 = p + g + 1
    BY <1>1
  <1>3. \A k \in 1 .. m : q[k] = IF k <= p THEN k ELSE k + g
    OBVIOUS
  <1>4. R = {n \in 1 .. L : n <= p \/ n > t + 1}
    BY <1>1 DEF Remaining
  <1>5. g = t + 1 - p /\ m = L - g /\ L = Len(v)
    OBVIOUS
  <1> HIDE DEF L, g, m, R
  <1>6. InOrder(q, m, R)
    <2>1. ASSUME NEW k \in 1 .. m PROVE q[k] \in R
      <3>1. (IF k <= p THEN k ELSE k + g) \in R
        BY <1>1, <1>2, <1>4, <1>5
      <3> QED BY <1>3, <3>1
    <2>2. \A i, j \in 1 .. m : i < j => q[i] < q[j]
      BY <1>1, <1>2, <1>3
    <2>3. ASSUME NEW x \in R PROVE \E k \in 1 .. m : q[k] = x
      <3> HIDE DEF q
      <3>1. CASE x <= p
        <4>1. x \in 1 .. m
          BY <1>1, <1>2, <1>4, <1>5, <3>1
        <4> QED BY <1>3, <3>1, <4>1
      <3>2. CASE x > t + 1
        <4>1. x \in 1 .. L /\ x \in Int
          BY <1>4
        <4>2. x - g \in 1 .. m /\ ~(x - g <= p) /\ x - g + g = x
          BY <1>1, <1>2, <1>5, <3>2, <4>1
        <4> QED BY <1>3, <4>2
      <3> QED BY <1>4, <3>1, <3>2
    <2>4. q \in [1 .. m -> R]
      BY <2>1
    <2> HIDE DEF q
    <2> QED BY <2>2, <2>3, <2>4 DEF InOrder
  <1>7. Vec!Without(v, p .. t) = [k \in 1 .. m |-> v[q[k]]]
    <2> HIDE DEF q
    <2> QED BY <1>2, <1>6, WithoutIs DEF R
  <1>8. Vec!EraseRange(v, p, t + 1) = Cut(v, L, p, g) /\ Vec!EraseRange(v, p, t + 1) \in Seq(S)
    BY <1>5, EraseRangeIs
  <1>9. ASSUME NEW k \in 1 .. m PROVE (IF k <= p THEN v[k] ELSE v[k + g]) = v[q[k]]
    BY <1>3
  <1> HIDE DEF q
  <1>10. Cut(v, L, p, g) = [k \in 1 .. m |-> v[q[k]]]
    BY <1>5, <1>9 DEF Cut
  <1> QED BY <1>7, <1>8, <1>10

-----------------------------------------------------------------------------
(* Slices *)

\* L numbers from a on, d apart, d above or below 0.
Spread(a, d, L) == [i \in 1 .. L |-> a + (i - 1) * d]

\* The numbers of an interval so far from a.
OnStride(lo, hi, a, d) == {p \in lo .. hi : (p - a) % d = 0}

\* How many fit between two ends.
LEMMA Fits ==
  ASSUME NEW z \in Nat \ {0}, NEW d \in Nat \ {0}, NEW L, L = ((z - 1) \div d) + 1
  PROVE  /\ L \in Nat \ {0}
         /\ \A k \in Nat : k < L <=> k * d < z
  <1> DEFINE k0 == (z - 1) \div d
             r == (z - 1) % d
  <1>1. k0 \in Int /\ r \in 0 .. d - 1 /\ z - 1 = d * k0 + r
    BY Division
  <1> HIDE DEF k0, r
  <1>2. k0 * d \in Int /\ z - 1 = k0 * d + r
    BY <1>1
  <1>3. k0 >= 0
    <2> SUFFICES ASSUME k0 < 0 PROVE FALSE
      BY <1>1
    <2>1. k0 * d + d <= 0 * d /\ 0 * d = 0
      BY <1>1, Multiples
    <2> QED BY <1>1, <1>2, <2>1
  <1>4. ASSUME NEW k \in Nat PROVE k < k0 + 1 <=> k * d < z
    <2>1. k * d \in Int
      OBVIOUS
    <2>2. ASSUME k <= k0 PROVE k * d < z
      <3>1. k * d <= k0 * d
        <4>1. CASE k = k0
          BY <1>2, <4>1
        <4>2. CASE k < k0
          <5>1. k * d + d <= k0 * d
            BY <1>1, <4>2, Multiples
          <5> QED BY <1>2, <2>1, <5>1
        <4> QED BY <1>1, <2>2, <4>1, <4>2
      <3> QED BY <1>1, <1>2, <2>1, <3>1
    <2>3. ASSUME k > k0 PROVE ~(k * d < z)
      <3>1. k0 * d + d <= k * d
        BY <1>1, <2>3, Multiples
      <3> QED BY <1>1, <1>2, <2>1, <3>1
    <2> QED BY <1>1, <2>2, <2>3
  <1>5. L = k0 + 1
    BY DEF k0
  <1> QED BY <1>1, <1>3, <1>4, <1>5

\* Those from a on before b, in steps of d upwards.
LEMMA StrideUp ==
  ASSUME NEW a \in Int, NEW b \in Int, a < b, NEW d \in Nat \ {0}, NEW L, L = ((b - a - 1) \div d) + 1
  PROVE  /\ L \in Nat
         /\ InOrder(Spread(a, d, L), L, OnStride(a, b - 1, a, d))
  <1> DEFINE z == b - a
             P == {p \in a .. b - 1 : (p - a) % d = 0}
             q == Spread(a, d, L)
  <1>1. z \in Nat \ {0} /\ L = ((z - 1) \div d) + 1
    OBVIOUS
  <1> HIDE DEF z
  <1>2. L \in Nat \ {0} /\ \A k \in Nat : k < L <=> k * d < z
    BY <1>1, Fits
  <1>3. z = b - a
    BY DEF z
  <1>4. \A i \in 1 .. L : q[i] = a + (i - 1) * d /\ i - 1 \in Nat /\ (i - 1) * d \in Int /\ i - 1 < L
    BY <1>2 DEF Spread
  <1>5. ASSUME NEW i \in 1 .. L PROVE q[i] \in P
    <2> DEFINE t == (i - 1) * d
    <2>1. t < z /\ t \in Int /\ q[i] = a + t
      BY <1>2, <1>4
    <2>2. t >= 0 /\ t % d = 0
      <3>1. i - 1 \in Nat
        BY <1>4
      <3>2. (i - 1) * d >= 0
        BY <3>1
      <3> QED BY <3>1, <3>2, Multiples
    <2> HIDE DEF t, q
    <2>3. a + t \in a .. b - 1 /\ (a + t) - a = t
      BY <1>3, <2>1, <2>2
    <2> QED BY <2>1, <2>2, <2>3
  <1>6. ASSUME NEW i \in 1 .. L, NEW j \in 1 .. L, i < j PROVE q[i] < q[j]
    <2>1. (i - 1) * d + d <= (j - 1) * d
      BY <1>4, <1>6, Multiples
    <2> QED BY <1>4, <2>1
  <1>7. ASSUME NEW p \in P PROVE \E i \in 1 .. L : q[i] = p
    <2> DEFINE k == (p - a) \div d
    <2>1. p \in Int /\ p >= a /\ p <= b - 1 /\ (p - a) % d = 0
      OBVIOUS
    <2>2. p - a \in Int /\ k \in Int /\ p - a = d * k + ((p - a) % d)
      BY <2>1, Division
    <2> HIDE DEF k
    <2>3. k * d = p - a /\ k * d \in Int
      BY <2>1, <2>2
    <2>4. k >= 0
      <3> SUFFICES ASSUME k < 0 PROVE FALSE
        BY <2>2
      <3>1. k * d + d <= 0 * d /\ 0 * d = 0
        BY <2>2, Multiples
      <3> QED BY <2>1, <2>3, <3>1
    <2>5. k \in Nat /\ k * d < z
      BY <1>3, <2>1, <2>2, <2>3, <2>4
    <2>6. k + 1 \in 1 .. L /\ (k + 1) - 1 = k
      <3>1. k < L
        BY <1>2, <2>5
      <3> QED BY <1>2, <2>5, <3>1
    <2>7. q[k + 1] = a + k * d
      BY <1>4, <2>6
    <2> HIDE DEF q
    <2>8. q[k + 1] = p
      BY <2>1, <2>3, <2>7
    <2> QED BY <2>6, <2>8
  <1>8. q \in [1 .. L -> P]
    <2> HIDE DEF P
    <2> QED BY <1>5 DEF Spread
  <1>9. InOrder(q, L, P)
    <2> HIDE DEF q, P
    <2> QED BY <1>6, <1>7, <1>8 DEF InOrder
  <1> QED BY <1>2, <1>9 DEF OnStride

\* Those from a down before b, in steps of d: going up they start at the last.
DownFrom(a, d, L) == Spread(a - (L - 1) * d, d, L)

LEMMA StrideDown ==
  ASSUME NEW a \in Int, NEW b \in Int, b < a, NEW d \in Nat \ {0}, NEW L, L = ((a - b - 1) \div d) + 1
  PROVE  /\ L \in Nat
         /\ InOrder(DownFrom(a, d, L), L, OnStride(b + 1, a, a, d))
  <1> DEFINE z == a - b
             P == {p \in b + 1 .. a : (p - a) % d = 0}
             q == Spread(a - (L - 1) * d, d, L)
  <1>1. z \in Nat \ {0} /\ L = ((z - 1) \div d) + 1
    OBVIOUS
  <1> HIDE DEF z
  <1>2. L \in Nat \ {0} /\ \A k \in Nat : k < L <=> k * d < z
    BY <1>1, Fits
  <1>3. z = a - b
    BY DEF z
  <1>4. ASSUME NEW i \in 1 .. L
        PROVE  /\ q[i] = a - (L - i) * d /\ L - i \in Nat /\ (L - i) * d \in Int /\ L - i < L
    <2>1. i \in Int /\ L \in Int /\ L - i \in Nat /\ L - i < L
      BY <1>2
    <2>2. (L - 1) * d = (L - i) * d + (i - 1) * d
      BY <2>1
    <2>3. (L - 1) * d \in Int /\ (L - i) * d \in Int /\ (i - 1) * d \in Int
      BY <2>1
    <2>4. a - (L - 1) * d + (i - 1) * d = a - (L - i) * d
      BY <2>2, <2>3
    <2> QED BY <2>1, <2>3, <2>4 DEF Spread
  <1>5. ASSUME NEW i \in 1 .. L PROVE q[i] \in P
    <2> DEFINE t == (L - i) * d
    <2>1. t < z /\ t \in Int /\ q[i] = a - t
      BY <1>2, <1>4
    <2>2. t >= 0 /\ (-t) % d = 0
      <3>1. L - i \in Nat /\ -(L - i) \in Int
        BY <1>4
      <3>2. (L - i) * d >= 0
        BY <3>1
      <3>3. (-(L - i)) * d = -t
        BY <3>1
      <3>4. ((-(L - i)) * d) % d = 0
        BY <3>1, Multiples
      <3> QED BY <3>2, <3>3, <3>4
    <2> HIDE DEF t, q
    <2>3. a - t \in b + 1 .. a /\ (a - t) - a = -t
      BY <1>3, <2>1, <2>2
    <2> QED BY <2>1, <2>2, <2>3
  <1>6. ASSUME NEW i \in 1 .. L, NEW j \in 1 .. L, i < j PROVE q[i] < q[j]
    <2>1. L - j \in Int /\ L - i \in Int /\ L - j < L - i
      BY <1>2, <1>6
    <2>2. (L - j) * d + d <= (L - i) * d
      BY <2>1, Multiples
    <2> QED BY <1>4, <2>2
  <1>7. ASSUME NEW p \in P PROVE \E i \in 1 .. L : q[i] = p
    <2> DEFINE k == (p - a) \div d
    <2>1. p \in Int /\ p <= a /\ p >= b + 1 /\ (p - a) % d = 0
      OBVIOUS
    <2>2. p - a \in Int /\ k \in Int /\ p - a = d * k + ((p - a) % d)
      BY <2>1, Division
    <2> HIDE DEF k
    <2>3. k * d = p - a /\ k * d \in Int /\ (-k) * d = a - p /\ -k \in Int
      BY <2>1, <2>2
    <2>4. -k >= 0
      <3> SUFFICES ASSUME -k < 0 PROVE FALSE
        BY <2>2
      <3>1. (-k) * d + d <= 0 * d /\ 0 * d = 0
        BY <2>3, Multiples
      <3> QED BY <2>1, <2>3, <3>1
    <2>5. -k \in Nat /\ (-k) * d < z
      BY <1>3, <2>1, <2>2, <2>3, <2>4
    <2>6. L - (-k) \in 1 .. L /\ L - (L - (-k)) = -k
      <3>1. -k < L
        BY <1>2, <2>5
      <3> QED BY <1>2, <2>5, <3>1
    <2>7. q[L - (-k)] = a - (-k) * d
      BY <1>4, <2>6
    <2> HIDE DEF q
    <2>8. q[L - (-k)] = p
      BY <2>1, <2>3, <2>7
    <2> QED BY <2>6, <2>8
  <1>8. q \in [1 .. L -> P]
    <2> HIDE DEF P
    <2> QED BY <1>5 DEF Spread
  <1>9. InOrder(q, L, P)
    <2> HIDE DEF q, P
    <2> QED BY <1>6, <1>7, <1>8 DEF InOrder
  <1> QED BY <1>2, <1>9 DEF OnStride, DownFrom

\* Max and Min of two numbers.
LEMMA GreatestOfTwo ==
  ASSUME NEW x \in Int, NEW y \in Int
  PROVE  /\ Vec!Max({x, y}) \in {x, y} /\ \A z \in {x, y} : Vec!Max({x, y}) >= z
         /\ Vec!Min({x, y}) \in {x, y} /\ \A z \in {x, y} : Vec!Min({x, y}) <= z
  <1>1. \E u \in {x, y} : \A z \in {x, y} : u >= z
    OBVIOUS
  <1>2. \E u \in {x, y} : \A z \in {x, y} : u <= z
    OBVIOUS
  <1> QED BY <1>1, <1>2 DEF Vec!Max, Vec!Min

Reach(b, n) == IF b < 0 THEN b + n ELSE b

\* PySlice_AdjustIndices: an end is counted from the end if below 0, then drawn in.
LEMMA ClipIs ==
  ASSUME NEW b, NEW n, NEW lo, NEW hi
  PROVE  Vec!Clip(b, n, lo, hi)
           = IF Reach(b, n) < lo THEN lo ELSE IF Reach(b, n) > hi THEN hi ELSE Reach(b, n)
  BY DEF Vec!Clip, Reach

\* What a slice of n elements is: its positions are a list's, in its order.
SliceOfNumbers == [start : Int, stop : Int, step : Int \ {0}]
Positions(c) == Spread(c.start, c.step, c.length)

\* With a step above 0 the positions a list means are those the code goes through.
LEMMA MeantUp ==
  ASSUME NEW s \in SliceOfNumbers, s.step > 0, NEW n \in Nat
  PROVE  LET c == Vec!Compute(s, n) IN
         /\ c.start \in Int /\ c.step = s.step /\ c.length \in Nat
         /\ Vec!Meant(s, n) = Positions(c)
         /\ \A i \in 1 .. c.length : Positions(c)[i] \in 0 .. n - 1
  <1> DEFINE c == Vec!Compute(s, n)
             A == Reach(s.start, n)
             B == Reach(s.stop, n)
             d == s.step
             a == Vec!Clip(s.start, n, 0, n)
             b == Vec!Clip(s.stop, n, 0, n)
             L == IF a < b THEN ((b - a - 1) \div d) + 1 ELSE 0
             first == Vec!Max({0, A})
             P == {p \in 0 .. n - 1 : (A <= p /\ p < B) /\ (p - first) % d = 0}
  <1>1. A \in Int /\ B \in Int /\ d \in Nat \ {0}
    BY DEF Reach, SliceOfNumbers
  <1>2. c = [start |-> a, step |-> d, length |-> L]
    <2>1. ~(d < 0)
      BY <1>1
    <2> QED BY <2>1 DEF Vec!Compute
  <1>3. Vec!Meant(s, n) = Vec!Ascending(P)
    <2>1. ~(d < 0)
      BY <1>1
    <2> QED BY <2>1 DEF Vec!Meant, Reach
  <1>4. /\ a = IF A < 0 THEN 0 ELSE IF A > n THEN n ELSE A
        /\ b = IF B < 0 THEN 0 ELSE IF B > n THEN n ELSE B
    BY ClipIs
  <1>5. first = IF A < 0 THEN 0 ELSE A
    <2>1. Vec!Max({0, A}) \in {0, A} /\ \A y \in {0, A} : Vec!Max({0, A}) >= y
      <3>1. A \in Int /\ 0 \in Int
        BY <1>1
      <3> HIDE DEF A
      <3> QED BY <3>1, GreatestOfTwo
    <2> QED BY <1>1, <2>1
  <1>6. L = IF a < b THEN ((b - a - 1) \div d) + 1 ELSE 0
    OBVIOUS
  <1> DEFINE Q == Spread(a, d, L)
  <1>7. Positions(c) = Q /\ c.start = a /\ c.step = d /\ c.length = L
    BY <1>2 DEF Positions
  <1> HIDE DEF c, A, B, d, a, b, L, first
  <1>8. a \in 0 .. n /\ b \in 0 .. n
    BY <1>1, <1>4
  <1>9. L \in Nat /\ InOrder(Q, L, P)
    <2>1. CASE a < b
      <3>1. P = OnStride(a, b - 1, a, d)
        <4>1. first = a
          BY <1>1, <1>4, <1>5, <1>8, <2>1
        <4>2. ASSUME NEW p \in Int PROVE (p \in 0 .. n - 1 /\ A <= p /\ p < B) <=> p \in a .. b - 1
          BY <1>1, <1>4, <1>8, <2>1
        <4> QED BY <4>1, <4>2, <1>8 DEF OnStride
      <3>2. L = ((b - a - 1) \div d) + 1
        BY <1>6, <2>1
      <3> HIDE DEF P
      <3> QED BY <1>1, <1>8, <2>1, <3>1, <3>2, StrideUp
    <2>2. CASE ~(a < b)
      <3>1. P = {}
        <4> SUFFICES ASSUME NEW p \in P PROVE FALSE
          OBVIOUS
        <4> QED BY <1>1, <1>4, <2>2
      <3>2. L = 0 /\ 1 .. 0 = {}
        BY <1>6, <2>2
      <3>3. InOrder(Q, L, {})
        BY <3>2 DEF InOrder, Spread
      <3> QED BY <3>1, <3>2, <3>3
    <2> QED BY <2>1, <2>2
  <1>10. P \in SUBSET Int /\ \A p \in P : p \in 0 .. n - 1
    OBVIOUS
  <1> HIDE DEF P, Q
  <1>11. Vec!Meant(s, n) = Q
    BY <1>3, <1>9, <1>10, AscendingIs
  <1>12. \A i \in 1 .. L : Q[i] \in 0 .. n - 1
    BY <1>9, <1>10 DEF InOrder
  <1>13. /\ c.start \in Int /\ c.step = s.step /\ c.length \in Nat
         /\ Vec!Meant(s, n) = Positions(c)
         /\ \A i \in 1 .. c.length : Positions(c)[i] \in 0 .. n - 1
    BY <1>7, <1>8, <1>9, <1>11, <1>12 DEF d
  <1> QED BY <1>13 DEF c

\* Numbers from last to first.
LEMMA ReverseIs ==
  ASSUME NEW q, NEW L \in Nat, Len(q) = L
  PROVE  Vec!Reverse(q) = [i \in 1 .. L |-> q[(L - i) + 1]]
  BY DEF Vec!Reverse

\* And with one below 0.
LEMMA MeantDown ==
  ASSUME NEW s \in SliceOfNumbers, s.step < 0, NEW n \in Nat
  PROVE  LET c == Vec!Compute(s, n) IN
         /\ c.start \in Int /\ c.step = s.step /\ c.length \in Nat
         /\ Vec!Meant(s, n) = Positions(c)
         /\ \A i \in 1 .. c.length : Positions(c)[i] \in 0 .. n - 1
  <1> DEFINE c == Vec!Compute(s, n)
             A == Reach(s.start, n)
             B == Reach(s.stop, n)
             d == -s.step
             a == Vec!Clip(s.start, n, -1, n - 1)
             b == Vec!Clip(s.stop, n, -1, n - 1)
             L == IF b < a THEN ((a - b - 1) \div d) + 1 ELSE 0
             first == Vec!Min({n - 1, A})
             P == {p \in 0 .. n - 1 : (A >= p /\ p > B) /\ (p - first) % d = 0}
  <1>1. A \in Int /\ B \in Int /\ d \in Nat \ {0} /\ s.step \in Int /\ s.step = -d
    BY DEF Reach, SliceOfNumbers
  <1>2. c = [start |-> a, step |-> s.step, length |-> L]
    <2>1. ~(s.step > 0)
      BY <1>1
    <2> QED BY <2>1 DEF Vec!Compute
  <1>3. Vec!Meant(s, n) = Vec!Reverse(Vec!Ascending(P))
    <2>1. ~(s.step > 0)
      BY <1>1
    <2> QED BY <2>1 DEF Vec!Meant, Reach
  <1>4. /\ a = IF A < -1 THEN -1 ELSE IF A > n - 1 THEN n - 1 ELSE A
        /\ b = IF B < -1 THEN -1 ELSE IF B > n - 1 THEN n - 1 ELSE B
    BY ClipIs
  <1>5. first = IF A < n - 1 THEN A ELSE n - 1
    <2>1. Vec!Min({n - 1, A}) \in {n - 1, A} /\ \A y \in {n - 1, A} : Vec!Min({n - 1, A}) <= y
      <3>1. A \in Int /\ n - 1 \in Int
        BY <1>1
      <3> HIDE DEF A
      <3> QED BY <3>1, GreatestOfTwo
    <2> QED BY <1>1, <2>1
  <1>6. L = IF b < a THEN ((a - b - 1) \div d) + 1 ELSE 0
    OBVIOUS
  <1> DEFINE Q == DownFrom(a, d, L)
  <1>7. Positions(c) = Spread(a, s.step, L) /\ c.start = a /\ c.step = s.step /\ c.length = L
    BY <1>2 DEF Positions
  <1> HIDE DEF c, A, B, d, a, b, L, first
  <1>8. a \in -1 .. n - 1 /\ b \in -1 .. n - 1
    BY <1>1, <1>4
  <1>9. L \in Nat /\ InOrder(Q, L, P)
    <2>1. CASE b < a
      <3>1. P = OnStride(b + 1, a, a, d)
        <4>1. first = a
          BY <1>1, <1>4, <1>5, <1>8, <2>1
        <4>2. ASSUME NEW p \in Int PROVE (p \in 0 .. n - 1 /\ A >= p /\ p > B) <=> p \in b + 1 .. a
          BY <1>1, <1>4, <1>8, <2>1
        <4> QED BY <4>1, <4>2, <1>8 DEF OnStride
      <3>2. L = ((a - b - 1) \div d) + 1
        BY <1>6, <2>1
      <3> HIDE DEF P
      <3>3. a \in Int /\ b \in Int
        BY <1>8
      <3> QED BY <1>1, <2>1, <3>1, <3>2, <3>3, StrideDown
    <2>2. CASE ~(b < a)
      <3>1. P = {}
        <4> SUFFICES ASSUME NEW p \in P PROVE FALSE
          OBVIOUS
        <4> QED BY <1>1, <1>4, <2>2
      <3>2. L = 0 /\ 1 .. 0 = {}
        BY <1>6, <2>2
      <3>3. InOrder(Q, L, {})
        BY <3>2 DEF InOrder, Spread, DownFrom
      <3> QED BY <3>1, <3>2, <3>3
    <2> QED BY <2>1, <2>2
  <1>10. P \in SUBSET Int /\ \A p \in P : p \in 0 .. n - 1
    OBVIOUS
  <1>11. \A i \in 1 .. L : Q[i] = a - (L - 1) * d + (i - 1) * d
    BY DEF Spread, DownFrom
  <1> HIDE DEF P, Q
  <1>12. Vec!Ascending(P) = Q
    BY <1>9, <1>10, AscendingIs
  <1>13. Q \in [1 .. L -> P]
    BY <1>9 DEF InOrder
  <1>14. Vec!Reverse(Q) = [i \in 1 .. L |-> Q[(L - i) + 1]]
    <2>1. Q \in Seq(P)
      BY <1>9, <1>13
    <2>2. Len(Q) \in Nat /\ 1 .. Len(Q) = 1 .. L
      BY <1>13, <2>1, LenProperties
    <2>3. Len(Q) = L
      BY <1>9, <2>2, SameInterval
    <2> QED BY <1>9, <2>3, ReverseIs
  <1>15. ASSUME NEW i \in 1 .. L
         PROVE  Q[(L - i) + 1] = a + (i - 1) * s.step /\ (L - i) + 1 \in 1 .. L
    <2>1. L \in Int /\ i \in Int /\ (L - i) + 1 \in 1 .. L
      BY <1>9
    <2>2. Q[(L - i) + 1] = a - (L - 1) * d + (((L - i) + 1) - 1) * d
      BY <1>11, <2>1
    <2>3. ((L - i) + 1) - 1 = L - i
      BY <2>1
    <2>4. (L - 1) * d = (L - i) * d + (i - 1) * d /\ (i - 1) * s.step = -((i - 1) * d)
      BY <1>1, <2>1
    <2>5. (L - i) * d \in Int /\ (i - 1) * d \in Int /\ a \in Int
      BY <1>1, <1>8, <2>1
    <2> QED BY <2>1, <2>2, <2>3, <2>4, <2>5
  <1>16. Vec!Meant(s, n) = Spread(a, s.step, L)
    BY <1>3, <1>12, <1>14, <1>15 DEF Spread
  <1>17. \A i \in 1 .. L : Spread(a, s.step, L)[i] \in 0 .. n - 1
    <2> SUFFICES ASSUME NEW i \in 1 .. L PROVE a + (i - 1) * s.step \in 0 .. n - 1
      BY DEF Spread
    <2>1. Q[(L - i) + 1] \in P
      BY <1>13, <1>15
    <2> QED BY <1>10, <1>15, <2>1
  <1>18. /\ c.start \in Int /\ c.step = s.step /\ c.length \in Nat
         /\ Vec!Meant(s, n) = Positions(c)
         /\ \A i \in 1 .. c.length : Positions(c)[i] \in 0 .. n - 1
    BY <1>7, <1>8, <1>9, <1>16, <1>17
  <1> QED BY <1>18 DEF c

\* So Compute finds the positions a list means, in their order, all in the vector.
LEMMA MeantIs ==
  ASSUME NEW s \in SliceOfNumbers, NEW n \in Nat, NEW c, c = Vec!Compute(s, n)
  PROVE  /\ c.start \in Int /\ c.step \in Int \ {0} /\ c.length \in Nat
         /\ Vec!Meant(s, n) = Positions(c)
         /\ \A i \in 1 .. c.length : Positions(c)[i] \in 0 .. n - 1
  <1>1. s.step \in Int \ {0}
    BY DEF SliceOfNumbers
  <1>2. CASE s.step > 0
    BY <1>1, <1>2, MeantUp
  <1>3. CASE s.step < 0
    BY <1>1, <1>3, MeantDown
  <1> QED BY <1>1, <1>2, <1>3

\* No two steps of a slice are at one position.
LEMMA PositionsDiffer ==
  ASSUME NEW a \in Int, NEW d \in Int \ {0}, NEW i \in Int, NEW j \in Int, i < j
  PROVE  /\ d > 0 => a + (i - 1) * d < a + (j - 1) * d
         /\ d < 0 => a + (j - 1) * d < a + (i - 1) * d
  <1>1. CASE d > 0
    <2>1. (i - 1) * d + d <= (j - 1) * d
      BY <1>1, Multiples
    <2>2. (i - 1) * d \in Int /\ (j - 1) * d \in Int
      OBVIOUS
    <2> QED BY <1>1, <2>1, <2>2
  <1>2. CASE d < 0
    <2>1. -d \in Nat \ {0}
      BY <1>2
    <2>2. (i - 1) * (-d) + (-d) <= (j - 1) * (-d)
      BY <2>1, Multiples
    <2>3. (i - 1) * (-d) = -((i - 1) * d) /\ (j - 1) * (-d) = -((j - 1) * d)
      OBVIOUS
    <2>4. (i - 1) * d \in Int /\ (j - 1) * d \in Int
      OBVIOUS
    <2> QED BY <1>2, <2>2, <2>3, <2>4
  <1> QED BY <1>1, <1>2

-----------------------------------------------------------------------------
(* The loops over a slice, as the fold computes them *)

LEMMA LastOf ==
  ASSUME NEW n \in Nat, NEW s \in SUBSET (1 .. n), n \in s
  PROVE  Vec!Max(s) = n
  <1>1. \A y \in s : n >= y
    OBVIOUS
  <1>2. \A x \in s : (\A y \in s : x >= y) => x = n
    OBVIOUS
  <1>3. Vec!Max(s) \in s /\ \A y \in s : Vec!Max(s) >= y
    BY <1>1 DEF Vec!Max
  <1> QED BY <1>2, <1>3

\* h[1 .. k] is v after the first k erasures; K numbers them.
Erases(h, v, stop, step, K, D) ==
  h = [s \in SUBSET D |->
         IF s = {} THEN v
         ELSE Vec!Erase(h[s \ {Vec!Max(s)}], stop - (K[Vec!Max(s)] - 1) * step)]

\* The fold of erasures is such a function of the sets 1 .. k,
LEMMA ErasesExist ==
  ASSUME NEW v, NEW stop, NEW step, NEW K, NEW L \in Nat
  PROVE  \E h : Erases(h, v, stop, step, K, 1 .. L)
  <1> DEFINE E(w, x) == Vec!Erase(w, stop - (K[x] - 1) * step)
             Is(h, n) == h = [s \in SUBSET (1 .. n) |-> IF s = {} THEN v
                                                        ELSE E(h[s \ {Vec!Max(s)}], Vec!Max(s))]
             N == {n \in Nat : \E h : Is(h, n)}
  <1>1. 0 \in N
    <2> DEFINE h == [s \in SUBSET (1 .. 0) |-> v]
    <2>1. \A s \in SUBSET (1 .. 0) : s = {}
      <3>1. 1 .. 0 = {}
        OBVIOUS
      <3> QED BY <3>1
    <2> HIDE DEF E
    <2>2. Is(h, 0)
      BY <2>1
    <2>3. \E g : Is(g, 0)
      <3> HIDE DEF h, Is
      <3> QED BY <2>2
    <2> HIDE DEF Is
    <2> QED BY <2>3
  <1>2. ASSUME NEW n \in Nat, n \in N PROVE n + 1 \in N
    <2> HIDE DEF E
    <2>1. PICK h : Is(h, n)
      <3> HIDE DEF Is
      <3> QED BY <1>2
    <2> DEFINE m == n + 1
               g == [s \in SUBSET (1 .. m) |-> IF m \in s THEN E(h[s \ {m}], m) ELSE h[s]]
    <2>2. m \in Nat /\ \A s \in SUBSET (1 .. m) : s \ {m} \in SUBSET (1 .. n)
      OBVIOUS
    <2>3. \A s \in SUBSET (1 .. n) : /\ h[s] = IF s = {} THEN v ELSE E(h[s \ {Vec!Max(s)}], Vec!Max(s))
                                     /\ s \in SUBSET (1 .. m) /\ m \notin s /\ s \ {Vec!Max(s)} \in SUBSET (1 .. n)
      <3>1. \A s \in SUBSET (1 .. n) : h[s] = IF s = {} THEN v ELSE E(h[s \ {Vec!Max(s)}], Vec!Max(s))
        BY <2>1
      <3>2. ASSUME NEW s \in SUBSET (1 .. n)
            PROVE  s \in SUBSET (1 .. m) /\ m \notin s /\ s \ {Vec!Max(s)} \in SUBSET (1 .. n)
        <4>1. \A i \in 1 .. n : i \in 1 .. m /\ i # m
          OBVIOUS
        <4> HIDE DEF m
        <4>2. s \ {Vec!Max(s)} \subseteq s
          OBVIOUS
        <4> QED BY <4>1, <4>2
      <3> QED BY <3>1, <3>2
    <2> HIDE DEF m
    <2>4. \A s \in SUBSET (1 .. n) : g[s] = h[s]
      BY <2>3
    <2>5. ASSUME NEW s \in SUBSET (1 .. m)
          PROVE  g[s] = IF s = {} THEN v ELSE E(g[s \ {Vec!Max(s)}], Vec!Max(s))
      <3>1. CASE m \in s
        <4>1. Vec!Max(s) = m /\ s # {}
          BY <2>2, <3>1, LastOf
        <4>2. g[s] = E(h[s \ {m}], m)
          BY <3>1
        <4>3. g[s \ {m}] = h[s \ {m}]
          BY <2>2, <2>4
        <4> HIDE DEF g
        <4> QED BY <4>1, <4>2, <4>3
      <3>2. CASE m \notin s
        <4>1. s \in SUBSET (1 .. n)
          BY <2>2, <3>2
        <4>2. g[s] = h[s] /\ g[s \ {Vec!Max(s)}] = h[s \ {Vec!Max(s)}]
          BY <2>3, <2>4, <4>1
        <4> HIDE DEF g
        <4> QED BY <2>3, <4>1, <4>2
      <3> QED BY <3>1, <3>2
    <2>6. Is(g, m)
      <3>1. g = [s \in SUBSET (1 .. m) |-> g[s]]
        OBVIOUS
      <3> HIDE DEF g
      <3> QED BY <2>5, <3>1
    <2>7. \E f : Is(f, m)
      <3> HIDE DEF g, Is
      <3> QED BY <2>6
    <2> HIDE DEF Is
    <2> QED BY <2>2, <2>7 DEF m
  <1>3. \A n \in Nat : n \in N
    <2> HIDE DEF N
    <2> QED BY <1>1, <1>2, NaturalNumbers
  <1>4. PICK h : Is(h, L)
    <2> HIDE DEF Is
    <2> QED BY <1>3
  <1>5. Erases(h, v, stop, step, K, 1 .. L)
    BY <1>4 DEF Erases
  <1> QED BY <1>5

ErasesInTurn(h, v, stop, step, K, L) ==
  /\ h[{}] = v
  /\ \A k \in 1 .. L : h[1 .. k] = Vec!Erase(h[1 .. k - 1], stop - (K[k] - 1) * step)

\* and takes one position after the other.
LEMMA ErasesStep ==
  ASSUME NEW v, NEW stop, NEW step, NEW K, NEW L \in Nat, NEW h, Erases(h, v, stop, step, K, 1 .. L)
  PROVE  ErasesInTurn(h, v, stop, step, K, L)
  <1>1. h[{}] = v
    BY DEF Erases
  <1>2. ASSUME NEW k \in 1 .. L
        PROVE  h[1 .. k] = Vec!Erase(h[1 .. k - 1], stop - (K[k] - 1) * step)
    <2>1. 1 .. k \in SUBSET (1 .. L) /\ k \in Nat /\ k \in 1 .. k
      OBVIOUS
    <2>2. 1 .. k # {} /\ Vec!Max(1 .. k) = k
      BY <2>1, LastOf
    <2>3. (1 .. k) \ {k} = 1 .. k - 1
      OBVIOUS
    <2> QED BY <2>1, <2>2, <2>3 DEF Erases
  <1> QED BY <1>1, <1>2 DEF ErasesInTurn

\* L positions of v from stop downwards.
Downwards(v, K, stop, step, L) ==
  /\ \A i \in 1 .. L : K[i] = i /\ stop - (i - 1) * step \in 0 .. Len(v) - 1
  /\ \A i, j \in 1 .. L : i < j => stop - (j - 1) * step < stop - (i - 1) * step
Below(stop, step, L) == {stop - (i - 1) * step : i \in 1 .. L}

\* Erasing positions from the last to the first leaves them out.
LEMMA ErasesLeaveOut ==
  ASSUME NEW S, NEW v \in Seq(S), NEW L \in Nat, NEW K, NEW stop \in Int, NEW step \in Int,
         NEW h, Erases(h, v, stop, step, K, 1 .. L), Downwards(v, K, stop, step, L)
  PROVE  h[1 .. L] = Vec!Without(v, Below(stop, step, L))
  <1>0. /\ \A i \in 1 .. L : K[i] = i /\ stop - (i - 1) * step \in 0 .. Len(v) - 1
        /\ \A i, j \in 1 .. L : i < j => stop - (j - 1) * step < stop - (i - 1) * step
    BY DEF Downwards
  <1> DEFINE D(n) == {stop - (i - 1) * step : i \in 1 .. n}
             N == {n \in 0 .. L : h[1 .. n] = Vec!Without(v, D(n))}
  <1>1. h[{}] = v /\ \A k \in 1 .. L : h[1 .. k] = Vec!Erase(h[1 .. k - 1], stop - (K[k] - 1) * step)
    <2>1. ErasesInTurn(h, v, stop, step, K, L)
      BY ErasesStep
    <2> QED BY <2>1 DEF ErasesInTurn
  <1>2. 0 \in N
    <2>1. 1 .. 0 = {}
      OBVIOUS
    <2>2. D(0) = {}
      BY <2>1
    <2>3. h[1 .. 0] = Vec!Without(v, D(0))
      BY <1>1, <2>1, <2>2, WithoutNone
    <2> HIDE DEF D
    <2> QED BY <2>3
  <1>3. ASSUME NEW n \in 1 .. L, n - 1 \in N PROVE n \in N
    <2> DEFINE p == stop - (n - 1) * step
    <2>1. h[1 .. n - 1] = Vec!Without(v, D(n - 1))
      BY <1>3
    <2>2. h[1 .. n] = Vec!Erase(h[1 .. n - 1], p)
      BY <1>0, <1>1
    <2>3. p \in 0 .. Len(v) - 1
      BY <1>0
    <2>4. \A i \in 1 .. n - 1 : i \in 1 .. L /\ i < n
      OBVIOUS
    <2>5. D(n - 1) \in SUBSET Int /\ \A d \in D(n - 1) : p < d
      <3>1. \A i \in 1 .. n - 1 : stop - (i - 1) * step \in 0 .. Len(v) - 1 /\ p < stop - (i - 1) * step
        BY <1>0, <2>4
      <3>2. \A i \in 1 .. n - 1 : stop - (i - 1) * step \in Int
        OBVIOUS
      <3> QED BY <3>1, <3>2
    <2>6. D(n) = D(n - 1) \cup {p}
      <3>1. 1 .. n = (1 .. n - 1) \cup {n}
        OBVIOUS
      <3> QED BY <3>1
    <2> HIDE DEF D, p
    <2>7. Vec!Erase(Vec!Without(v, D(n - 1)), p) = Vec!Without(v, D(n - 1) \cup {p})
      BY <2>3, <2>5, EraseNext
    <2>8. h[1 .. n] = Vec!Without(v, D(n)) /\ n \in 0 .. L
      BY <2>1, <2>2, <2>6, <2>7
    <2> QED BY <2>8
  <1>4. \A n \in 0 .. L : n \in N
    <2> HIDE DEF N
    <2> QED BY <1>2, <1>3, NumbersUpTo
  <1>5. L \in N
    <2>1. L \in 0 .. L
      OBVIOUS
    <2> HIDE DEF N
    <2> QED BY <1>4, <2>1
  <1> QED BY <1>5 DEF Below

Numbered(L) == [i \in 1 .. L |-> i]

\* What DelSlice leaves of v.
LEMMA DelSliceIs ==
  ASSUME NEW S, NEW v \in Seq(S), NEW c, c.start \in Int, c.step \in Int \ {0}, c.length \in Nat,
         \A i \in 1 .. c.length : Positions(c)[i] \in 0 .. Len(v) - 1
  PROVE  Vec!DelSlice(v, c) = Vec!Without(v, Vec!ToSet(Positions(c)))
  <1> DEFINE L == c.length
             a == c.start
             d == c.step
             final == a + (L - 1) * d
             start == IF a > final THEN final ELSE a
             stop == IF a > final THEN a ELSE final
             step == IF a > final THEN -d ELSE d
             F == Vec!FoldLeft(LAMBDA w, i : Vec!Erase(w, stop - (i - 1) * step), v, Numbered(L))
  <1>1. Vec!DelSlice(v, c) = IF L = 0 THEN v
                             ELSE IF step = 1 THEN Vec!EraseRange(v, start, stop + 1) ELSE F
    BY DEF Vec!DelSlice, Numbered
  <1>2. F = (CHOOSE h : Erases(h, v, stop, step, Numbered(L), DOMAIN Numbered(L)))[DOMAIN Numbered(L)]
    BY DEF Vec!FoldLeft, Vec!MapThenFoldSet, Erases
  <1>3. L \in Nat /\ a \in Int /\ d \in Int /\ d # 0 /\ final \in Int
    OBVIOUS
  <1>4. \A i \in 1 .. L : Positions(c)[i] = a + (i - 1) * d /\ a + (i - 1) * d \in 0 .. Len(v) - 1
    <2>1. \A i \in 1 .. L : Positions(c)[i] = a + (i - 1) * d
      BY DEF Positions, Spread
    <2> QED BY <2>1
  <1>5. /\ start = (IF a > final THEN final ELSE a) /\ stop = (IF a > final THEN a ELSE final)
        /\ step = (IF a > final THEN -d ELSE d) /\ final = a + (L - 1) * d
    OBVIOUS
  <1>6. Vec!ToSet(Positions(c)) = {a + (i - 1) * d : i \in 1 .. L}
    BY DEF Vec!ToSet, Positions, Spread
  <1> HIDE DEF L, a, d, final, start, stop, step, F
  <1>7. CASE L = 0
    <2>1. 1 .. L = {}
      BY <1>7
    <2>2. Vec!ToSet(Positions(c)) = {}
      BY <1>6, <2>1
    <2> QED BY <1>1, <1>7, <2>2, WithoutNone
  <1>8. CASE L # 0
    <2>1. L >= 1 /\ 1 \in 1 .. L /\ L \in 1 .. L
      BY <1>3, <1>8
    <2>2. \* forwards or backwards
          \/ /\ stop = final /\ step = d
             /\ \A i \in 1 .. L : stop - (i - 1) * step = a + ((L + 1 - i) - 1) * d
          \/ /\ stop = a /\ step = -d /\ start = final
             /\ \A i \in 1 .. L : stop - (i - 1) * step = a + (i - 1) * d
      <3>1. CASE a > final
        <4>1. ASSUME NEW i \in 1 .. L PROVE a - (i - 1) * (-d) = a + (i - 1) * d
          <5>1. (i - 1) * (-d) = -((i - 1) * d) /\ (i - 1) * d \in Int
            BY <1>3
          <5> QED BY <1>3, <5>1
        <4> QED BY <1>5, <3>1, <4>1
      <3>2. CASE ~(a > final)
        <4>1. ASSUME NEW i \in 1 .. L PROVE final - (i - 1) * d = a + ((L + 1 - i) - 1) * d
          <5>1. (L - 1) * d = ((L + 1 - i) - 1) * d + (i - 1) * d
            <6>1. (L + 1 - i) - 1 = (L - 1) - (i - 1)
              BY <1>3
            <6>2. ((L - 1) - (i - 1)) * d = (L - 1) * d - (i - 1) * d
              BY <1>3
            <6>3. (L - 1) * d \in Int /\ (i - 1) * d \in Int
              BY <1>3
            <6> QED BY <6>1, <6>2, <6>3
          <5>2. (L - 1) * d \in Int /\ (i - 1) * d \in Int /\ ((L + 1 - i) - 1) * d \in Int
            BY <1>3
          <5> QED BY <1>3, <1>5, <5>1, <5>2
        <4> QED BY <1>5, <3>2, <4>1
      <3> QED BY <3>1, <3>2
    <2> DEFINE D == {stop - (i - 1) * step : i \in 1 .. L}
    <2>3. stop \in Int /\ step \in Int /\ start \in Int
      BY <1>3, <1>5
    <2>4. start = stop - (L - 1) * step
      <3>1. CASE a > final
        <4>1. (L - 1) * (-d) = -((L - 1) * d) /\ (L - 1) * d \in Int
          BY <1>3
        <4> QED BY <1>3, <1>5, <3>1, <4>1
      <3>2. CASE ~(a > final)
        <4>1. (L - 1) * d \in Int
          BY <1>3
        <4> QED BY <1>3, <1>5, <3>2, <4>1
      <3> QED BY <3>1, <3>2
    <2>5. \A i \in 1 .. L : L + 1 - i \in 1 .. L /\ L + 1 - (L + 1 - i) = i
      BY <1>3
    <2>6. D = Vec!ToSet(Positions(c))
      <3> DEFINE f(i) == a + (i - 1) * d
                 g(i) == stop - (i - 1) * step
      <3>1. \/ \A i \in 1 .. L : g(i) = f(L + 1 - i)
            \/ \A i \in 1 .. L : g(i) = f(i)
        BY <2>2
      <3>2. Vec!ToSet(Positions(c)) = {f(i) : i \in 1 .. L} /\ D = {g(i) : i \in 1 .. L}
        BY <1>6
      <3> HIDE DEF f, g, D
      <3>3. \A i \in 1 .. L : L + 1 - (L + 1 - i) = i /\ L + 1 - i \in 1 .. L
        BY <2>5
      <3>4. CASE \A i \in 1 .. L : g(i) = f(L + 1 - i)
        <4>1. \A i \in 1 .. L : f(i) = g(L + 1 - i)
          BY <3>3, <3>4
        <4> QED BY <3>2, <3>3, <3>4, <4>1
      <3>5. CASE \A i \in 1 .. L : g(i) = f(i)
        BY <3>2, <3>5
      <3> QED BY <3>1, <3>4, <3>5
    <2>7. \A i \in 1 .. L : stop - (i - 1) * step \in 0 .. Len(v) - 1
      <3>1. \A i \in 1 .. L : stop - (i - 1) * step \in D
        OBVIOUS
      <3>2. \A x \in Vec!ToSet(Positions(c)) : x \in 0 .. Len(v) - 1
        BY <1>4, <1>6
      <3> HIDE DEF D
      <3> QED BY <2>6, <3>1, <3>2
    <2>8. ASSUME NEW i \in 1 .. L, NEW j \in 1 .. L, i < j
          PROVE  stop - (j - 1) * step < stop - (i - 1) * step
      <3>1. 1 < L
        BY <1>3, <2>8
      <3>2. /\ d > 0 => a + (1 - 1) * d < a + (L - 1) * d
            /\ d < 0 => a + (L - 1) * d < a + (1 - 1) * d
        BY <1>3, <3>1, PositionsDiffer
      <3>3. (1 - 1) * d = 0
        BY <1>3
      <3>4. /\ d > 0 => a < final
            /\ d < 0 => final < a
        BY <1>3, <1>5, <3>2, <3>3
      <3>5. step \in Nat \ {0}
        BY <1>3, <1>5, <3>4
      <3>6. (i - 1) * step + step <= (j - 1) * step /\ (i - 1) * step \in Int /\ (j - 1) * step \in Int
        BY <2>8, <3>5, Multiples
      <3> QED BY <2>3, <3>5, <3>6
    <2>9. CASE step = 1
      <3>1. start = stop - (L - 1)
        BY <1>3, <2>3, <2>4, <2>9
      <3>2. \A i \in 1 .. L : (i - 1) * step = i - 1
        BY <2>9
      <3>3. \A i \in 1 .. L : stop - (i - 1) \in 0 .. Len(v) - 1
        BY <2>7, <3>2
      <3>4. stop - (1 - 1) = stop /\ stop - (L - 1) = start
        BY <1>3, <2>3, <3>1
      <3>5. stop \in 0 .. Len(v) - 1 /\ start \in 0 .. Len(v) - 1
        BY <2>1, <3>3, <3>4
      <3>6. start \in 0 .. Len(v) - 1 /\ stop \in start .. Len(v) - 1
        BY <1>3, <2>1, <2>3, <3>1, <3>5
      <3>7. Vec!EraseRange(v, start, stop + 1) = Vec!Without(v, start .. stop)
        BY <3>6, EraseRangeLeavesOut
      <3>8. D = start .. stop
        <4>1. D = {stop - (i - 1) : i \in 1 .. L}
          BY <3>2
        <4>2. \A i \in 1 .. L : stop - (i - 1) \in start .. stop
          BY <1>3, <2>3, <3>1
        <4>3. \A x \in start .. stop : (stop - x) + 1 \in 1 .. L /\ stop - (((stop - x) + 1) - 1) = x
          BY <1>3, <2>3, <3>1
        <4> HIDE DEF D
        <4> QED BY <4>1, <4>2, <4>3
      <3> HIDE DEF D
      <3> QED BY <1>1, <1>8, <2>6, <2>9, <3>7, <3>8
    <2>10. CASE step # 1
      <3> DEFINE K == Numbered(L)
                 h == CHOOSE g : Erases(g, v, stop, step, K, 1 .. L)
      <3>1. DOMAIN K = 1 .. L /\ \A i \in 1 .. L : K[i] = i
        BY DEF Numbered
      <3>2. F = h[1 .. L]
        BY <1>2, <3>1
      <3>3. Erases(h, v, stop, step, K, 1 .. L)
        <4> HIDE DEF K
        <4>1. \E g : Erases(g, v, stop, step, K, 1 .. L)
          BY <1>3, ErasesExist
        <4> QED BY <4>1
      <3> HIDE DEF K, h
      <3>4. h[1 .. L] = Vec!Without(v, D)
        <4>1. Downwards(v, K, stop, step, L)
          BY <2>7, <2>8, <3>1 DEF Downwards
        <4>2. h[1 .. L] = Vec!Without(v, Below(stop, step, L))
          BY <1>3, <2>3, <3>3, <4>1, ErasesLeaveOut
        <4> QED BY <4>2 DEF Below
      <3> HIDE DEF D
      <3> QED BY <1>1, <1>8, <2>6, <2>10, <3>2, <3>4
    <2> QED BY <2>9, <2>10
  <1> QED BY <1>3, <1>7, <1>8

\* One assignment of SetSlice, and h[1 .. k] is v after the first k of them.
Put(w, c, vs, i) ==
  IF i > c.length THEN w ELSE [w EXCEPT ![c.start + (i - 1) * c.step + 1] = vs[i]]
Puts(h, v, c, vs, K, X) ==
  h = [s \in SUBSET X |->
         IF s = {} THEN v ELSE Put(h[s \ {Vec!Max(s)}], c, vs, K[Vec!Max(s)])]

\* The fold of assignments is such a function,
LEMMA PutsExist ==
  ASSUME NEW v, NEW c, NEW vs, NEW K, NEW L \in Nat
  PROVE  \E h : Puts(h, v, c, vs, K, 1 .. L)
  <1> DEFINE E(w, x) == Put(w, c, vs, K[x])
             Is(h, n) == h = [s \in SUBSET (1 .. n) |-> IF s = {} THEN v
                                                        ELSE E(h[s \ {Vec!Max(s)}], Vec!Max(s))]
             N == {n \in Nat : \E h : Is(h, n)}
  <1>1. 0 \in N
    <2> DEFINE h == [s \in SUBSET (1 .. 0) |-> v]
    <2>1. \A s \in SUBSET (1 .. 0) : s = {}
      <3>1. 1 .. 0 = {}
        OBVIOUS
      <3> QED BY <3>1
    <2> HIDE DEF E
    <2>2. Is(h, 0)
      BY <2>1
    <2>3. \E g : Is(g, 0)
      <3> HIDE DEF h, Is
      <3> QED BY <2>2
    <2> HIDE DEF Is
    <2> QED BY <2>3
  <1>2. ASSUME NEW n \in Nat, n \in N PROVE n + 1 \in N
    <2> HIDE DEF E
    <2>1. PICK h : Is(h, n)
      <3> HIDE DEF Is
      <3> QED BY <1>2
    <2> DEFINE m == n + 1
               g == [s \in SUBSET (1 .. m) |-> IF m \in s THEN E(h[s \ {m}], m) ELSE h[s]]
    <2>2. m \in Nat /\ \A s \in SUBSET (1 .. m) : s \ {m} \in SUBSET (1 .. n)
      OBVIOUS
    <2>3. \A s \in SUBSET (1 .. n) : /\ h[s] = IF s = {} THEN v ELSE E(h[s \ {Vec!Max(s)}], Vec!Max(s))
                                     /\ s \in SUBSET (1 .. m) /\ m \notin s /\ s \ {Vec!Max(s)} \in SUBSET (1 .. n)
      <3>1. \A s \in SUBSET (1 .. n) : h[s] = IF s = {} THEN v ELSE E(h[s \ {Vec!Max(s)}], Vec!Max(s))
        BY <2>1
      <3>2. ASSUME NEW s \in SUBSET (1 .. n)
            PROVE  s \in SUBSET (1 .. m) /\ m \notin s /\ s \ {Vec!Max(s)} \in SUBSET (1 .. n)
        <4>1. \A i \in 1 .. n : i \in 1 .. m /\ i # m
          OBVIOUS
        <4> HIDE DEF m
        <4>2. s \ {Vec!Max(s)} \subseteq s
          OBVIOUS
        <4> QED BY <4>1, <4>2
      <3> QED BY <3>1, <3>2
    <2> HIDE DEF m
    <2>4. \A s \in SUBSET (1 .. n) : g[s] = h[s]
      BY <2>3
    <2>5. ASSUME NEW s \in SUBSET (1 .. m)
          PROVE  g[s] = IF s = {} THEN v ELSE E(g[s \ {Vec!Max(s)}], Vec!Max(s))
      <3>1. CASE m \in s
        <4>1. Vec!Max(s) = m /\ s # {}
          BY <2>2, <3>1, LastOf
        <4>2. g[s] = E(h[s \ {m}], m)
          BY <3>1
        <4>3. g[s \ {m}] = h[s \ {m}]
          BY <2>2, <2>4
        <4> HIDE DEF g
        <4> QED BY <4>1, <4>2, <4>3
      <3>2. CASE m \notin s
        <4>1. s \in SUBSET (1 .. n)
          BY <2>2, <3>2
        <4>2. g[s] = h[s] /\ g[s \ {Vec!Max(s)}] = h[s \ {Vec!Max(s)}]
          BY <2>3, <2>4, <4>1
        <4> HIDE DEF g
        <4> QED BY <2>3, <4>1, <4>2
      <3> QED BY <3>1, <3>2
    <2>6. Is(g, m)
      <3>1. g = [s \in SUBSET (1 .. m) |-> g[s]]
        OBVIOUS
      <3> HIDE DEF g
      <3> QED BY <2>5, <3>1
    <2>7. \E f : Is(f, m)
      <3> HIDE DEF g, Is
      <3> QED BY <2>6
    <2> HIDE DEF Is
    <2> QED BY <2>2, <2>7 DEF m
  <1>3. \A n \in Nat : n \in N
    <2> HIDE DEF N
    <2> QED BY <1>1, <1>2, NaturalNumbers
  <1>4. PICK h : Is(h, L)
    <2> HIDE DEF Is
    <2> QED BY <1>3
  <1>5. Puts(h, v, c, vs, K, 1 .. L)
    BY <1>4 DEF Puts
  <1> QED BY <1>5

PutsInTurn(h, v, c, vs, K, L) ==
  /\ h[{}] = v
  /\ \A k \in 1 .. L : h[1 .. k] = Put(h[1 .. k - 1], c, vs, K[k])

\* which makes one assignment after the other.
LEMMA PutsStep ==
  ASSUME NEW v, NEW c, NEW vs, NEW K, NEW L \in Nat, NEW h, Puts(h, v, c, vs, K, 1 .. L)
  PROVE  PutsInTurn(h, v, c, vs, K, L)
  <1>1. h[{}] = v
    BY DEF Puts
  <1>2. ASSUME NEW k \in 1 .. L PROVE h[1 .. k] = Put(h[1 .. k - 1], c, vs, K[k])
    <2>1. 1 .. k \in SUBSET (1 .. L) /\ k \in Nat /\ k \in 1 .. k
      OBVIOUS
    <2>2. 1 .. k # {} /\ Vec!Max(1 .. k) = k
      BY <2>1, LastOf
    <2>3. (1 .. k) \ {k} = 1 .. k - 1
      OBVIOUS
    <2> QED BY <2>1, <2>2, <2>3 DEF Puts
  <1> QED BY <1>1, <1>2 DEF PutsInTurn

\* After all of them each position of the slice has its value, and the others what they had.
LEMMA SetSliceIs ==
  ASSUME NEW S, NEW v \in Seq(S), NEW c, c.start \in Int, c.step \in Int \ {0}, c.length \in Nat,
         NEW vs \in Seq(S), Len(vs) = c.length,
         \A i \in 1 .. c.length : Positions(c)[i] \in 0 .. Len(v) - 1
  PROVE  /\ Vec!SetSlice(v, c, vs) = Vec!Replaced(v, Positions(c), vs)
         /\ Vec!SetSlice(v, c, vs) \in Seq(S)
  <1> DEFINE L == c.length
             n == Len(v)
             K == Numbered(L)
             p(i) == c.start + (i - 1) * c.step
  <1>1. /\ L \in Nat /\ n \in Nat /\ v \in [1 .. n -> S] /\ DOMAIN vs = 1 .. L
        /\ \A i \in 1 .. L : vs[i] \in S
    BY LenProperties
  <1>2. \A i \in 1 .. L : p(i) \in 0 .. n - 1 /\ p(i) + 1 \in 1 .. n /\ p(i) \in Int
    <2>1. \A i \in 1 .. L : p(i) = Positions(c)[i]
      BY DEF Positions, Spread
    <2>2. \A i \in 1 .. L : p(i) \in 0 .. n - 1
      BY <2>1
    <2> HIDE DEF p, n, L
    <2> QED BY <1>1, <2>2
  <1>3. \A i, j \in 1 .. L : p(i) = p(j) => i = j
    <2>1. ASSUME NEW i \in 1 .. L, NEW j \in 1 .. L, i < j PROVE p(i) # p(j)
      <3>1. /\ c.step > 0 => p(i) < p(j)
            /\ c.step < 0 => p(j) < p(i)
        <4> DEFINE a == c.start
                   d == c.step
        <4>1. a \in Int /\ d \in Int \ {0} /\ i \in Int /\ j \in Int
          OBVIOUS
        <4> HIDE DEF a, d
        <4>2. /\ d > 0 => a + (i - 1) * d < a + (j - 1) * d
              /\ d < 0 => a + (j - 1) * d < a + (i - 1) * d
          BY <2>1, <4>1, PositionsDiffer
        <4> QED BY <4>2 DEF a, d
      <3> HIDE DEF p
      <3> QED BY <1>2, <3>1
    <2> HIDE DEF p, L
    <2>2. \A i, j \in 1 .. L : i = j \/ i < j \/ j < i
      BY <1>1
    <2> QED BY <2>1, <2>2
  <1>4. Positions(c) = [i \in 1 .. L |-> p(i)] /\ DOMAIN Positions(c) = 1 .. L
    BY DEF Positions, Spread
  <1>5. Vec!SetSlice(v, c, vs)
          = (CHOOSE h : Puts(h, v, c, vs, [i \in DOMAIN vs |-> i], DOMAIN [i \in DOMAIN vs |-> i]))
                [DOMAIN [i \in DOMAIN vs |-> i]]
    BY DEF Vec!SetSlice, Vec!FoldLeftDomain, Vec!FoldLeft, Vec!MapThenFoldSet, Puts, Put
  <1> DEFINE h == CHOOSE g : Puts(g, v, c, vs, K, 1 .. L)
  <1>6. K = [i \in DOMAIN vs |-> i] /\ DOMAIN K = 1 .. L /\ \A i \in 1 .. L : K[i] = i
    BY <1>1 DEF Numbered
  <1>7. Vec!SetSlice(v, c, vs) = h[1 .. L]
    <2> HIDE DEF K
    <2> QED BY <1>5, <1>6
  <1>8. Puts(h, v, c, vs, K, 1 .. L)
    <2> HIDE DEF K
    <2>1. \E g : Puts(g, v, c, vs, K, 1 .. L)
      BY <1>1, PutsExist
    <2> QED BY <2>1
  <1> HIDE DEF K, h
  <1>9. h[{}] = v /\ \A k \in 1 .. L : h[1 .. k] = Put(h[1 .. k - 1], c, vs, K[k])
    <2>1. PutsInTurn(h, v, c, vs, K, L)
      BY <1>1, <1>8, PutsStep
    <2> QED BY <2>1 DEF PutsInTurn
  <1>10. ASSUME NEW k \in 1 .. L, NEW w
         PROVE  Put(w, c, vs, K[k]) = [w EXCEPT ![p(k) + 1] = vs[k]]
    <2>1. K[k] = k /\ ~(k > L)
      BY <1>1, <1>6
    <2> QED BY <2>1 DEF Put
  <1> HIDE DEF p, L, n
  <1> DEFINE Done(w, k) == /\ w \in [1 .. n -> S]
                           /\ \A i \in 1 .. k : w[p(i) + 1] = vs[i]
                           /\ \A j \in 1 .. n : (\A i \in 1 .. k : p(i) + 1 # j) => w[j] = v[j]
             N == {k \in 0 .. L : Done(h[1 .. k], k)}
  <1>11. 0 \in N
    <2>1. 1 .. 0 = {} /\ 0 \in 0 .. L
      BY <1>1
    <2>2. h[1 .. 0] = v
      BY <1>9, <2>1
    <2>3. Done(v, 0)
      BY <1>1, <2>1
    <2> QED BY <2>1, <2>2, <2>3
  <1>12. ASSUME NEW k \in 1 .. L, k - 1 \in N PROVE k \in N
    <2> DEFINE w == h[1 .. k - 1]
    <2>1. Done(w, k - 1)
      BY <1>12
    <2>2. h[1 .. k] = [w EXCEPT ![p(k) + 1] = vs[k]]
      BY <1>9, <1>10
    <2>3. p(k) + 1 \in 1 .. n /\ vs[k] \in S /\ k \in 0 .. L
      BY <1>1, <1>2
    <2>4. \A i \in 1 .. k - 1 : i \in 1 .. L /\ i # k /\ i \in 1 .. k
      BY <1>1
    <2>5. \A i \in 1 .. k : i = k \/ i \in 1 .. k - 1
      BY <1>1
    <2>6. \A i \in 1 .. k - 1 : p(i) + 1 # p(k) + 1 /\ p(i) + 1 \in 1 .. n
      <3> SUFFICES ASSUME NEW i \in 1 .. k - 1 PROVE p(i) + 1 # p(k) + 1 /\ p(i) + 1 \in 1 .. n
        OBVIOUS
      <3>1. p(i) # p(k) /\ p(i) \in Int /\ p(k) \in Int /\ p(i) + 1 \in 1 .. n
        BY <1>2, <1>3, <2>4
      <3> QED BY <3>1
    <2> HIDE DEF w
    <2> DEFINE u == [w EXCEPT ![p(k) + 1] = vs[k]]
    <2>7. u \in [1 .. n -> S]
      BY <2>1, <2>3
    <2>8. u[p(k) + 1] = vs[k]
      BY <2>1, <2>3
    <2>9. \A j \in 1 .. n : j # p(k) + 1 => u[j] = w[j]
      BY <2>1
    <2> HIDE DEF u
    <2>10. \A i \in 1 .. k : u[p(i) + 1] = vs[i]
      BY <2>1, <2>5, <2>6, <2>8, <2>9
    <2>11. ASSUME NEW j \in 1 .. n, \A i \in 1 .. k : p(i) + 1 # j PROVE u[j] = v[j]
      <3>1. j # p(k) + 1 /\ \A i \in 1 .. k - 1 : p(i) + 1 # j
        <4>1. k \in 1 .. k
          BY <1>1
        <4> QED BY <2>4, <2>11, <4>1
      <3> QED BY <2>1, <2>9, <3>1
    <2>12. Done(u, k)
      BY <2>7, <2>10, <2>11
    <2> HIDE DEF Done
    <2> QED BY <2>2, <2>3, <2>12 DEF u
  <1>13. \A k \in 0 .. L : k \in N
    <2> HIDE DEF N
    <2> QED BY <1>1, <1>11, <1>12, NumbersUpTo
  <1> DEFINE r == h[1 .. L]
  <1>14. Done(r, L)
    <2>1. L \in 0 .. L
      BY <1>1
    <2>2. L \in N
      BY <1>13, <2>1
    <2> QED BY <2>2
  <1> HIDE DEF r
  <1> DEFINE m == Positions(c)
  <1>15. ASSUME NEW j \in 1 .. n
         PROVE  r[j] = IF j - 1 \in Vec!ToSet(m) THEN vs[CHOOSE k \in DOMAIN m : m[k] = j - 1] ELSE v[j]
    <2>1. Vec!ToSet(m) = {p(i) : i \in 1 .. L}
      BY <1>4 DEF Vec!ToSet
    <2>2. \A i \in 1 .. L : m[i] = p(i)
      BY <1>4
    <2>3. CASE j - 1 \in Vec!ToSet(m)
      <3>1. PICK i \in 1 .. L : p(i) = j - 1
        BY <2>1, <2>3
      <3> DEFINE z == CHOOSE k \in DOMAIN m : m[k] = j - 1
      <3>2. z = i
        <4>1. z \in 1 .. L /\ m[z] = j - 1
          BY <1>4, <2>2, <3>1
        <4> HIDE DEF z
        <4> QED BY <1>3, <2>2, <3>1, <4>1
      <3>3. p(i) + 1 = j
        BY <3>1
      <3> HIDE DEF z
      <3>4. r[j] = vs[i]
        BY <1>14, <3>3
      <3> QED BY <2>3, <3>2, <3>4 DEF z
    <2>4. CASE j - 1 \notin Vec!ToSet(m)
      <3>1. \A i \in 1 .. L : p(i) # j - 1 /\ p(i) \in Int
        BY <1>2, <2>1, <2>4
      <3>2. \A i \in 1 .. L : p(i) + 1 # j
        BY <3>1
      <3> QED BY <1>14, <2>4, <3>2
    <2> QED BY <2>3, <2>4
  <1>16. r = [j \in 1 .. n |-> r[j]]
    BY <1>14
  <1>17. DOMAIN v = 1 .. n
    BY <1>1
  <1>18. r = Vec!Replaced(v, m, vs)
    <2> HIDE DEF m
    <2> QED BY <1>15, <1>16, <1>17 DEF Vec!Replaced
  <1>19. r \in Seq(S)
    BY <1>1, <1>14
  <1> QED BY <1>7, <1>18, <1>19 DEF r

\* Where the slice is the vector itself in its own order, each position is
\* assigned what it has.
LEMMA WholeInOrder ==
  ASSUME NEW n \in Nat, NEW a \in Int, NEW d \in Int \ {0}, d > 0 \/ n <= 1,
         \A i \in 1 .. n : a + (i - 1) * d \in 0 .. n - 1
  PROVE  \A i \in 1 .. n : a + (i - 1) * d = i - 1
  <1>1. CASE n = 0
    BY <1>1
  <1>2. CASE n # 0
    <2>1. 1 \in 1 .. n /\ n \in 1 .. n /\ (1 - 1) * d = 0
      BY <1>2
    <2>2. a \in 0 .. n - 1
      BY <2>1
    <2> DEFINE z == (n - 1) * d
    <2>3. z \in Int /\ a + z \in 0 .. n - 1
      BY <2>1
    <2>4. CASE n = 1
      <3>1. a = 0
        BY <2>2, <2>4
      <3>2. \A i \in 1 .. n : (i - 1) * d = 0 /\ i - 1 = 0
        BY <2>4
      <3> QED BY <3>1, <3>2
    <2>5. CASE n # 1
      <3>1. d \in Nat \ {0} /\ n \in Nat /\ n > 1
        BY <1>2, <2>5
      <3>2. d = 1
        <4> SUFFICES ASSUME d # 1 PROVE FALSE
          OBVIOUS
        <4>1. d - 2 \in Nat /\ n - 1 \in Nat /\ n - 1 >= 1
          BY <3>1
        <4>2. (n - 1) * (d - 2) >= 0
          BY <4>1
        <4>3. z = (n - 1) * (d - 2) + 2 * (n - 1)
          BY <3>1
        <4> HIDE DEF z
        <4>4. z >= 2 * (n - 1)
          BY <2>3, <3>1, <4>1, <4>2, <4>3
        <4> QED BY <2>2, <2>3, <3>1, <4>4
      <3>3. z = n - 1 /\ \A i \in 1 .. n : (i - 1) * d = i - 1
        BY <3>1, <3>2
      <3>4. a = 0
        <4> HIDE DEF z
        <4> QED BY <2>2, <2>3, <3>1, <3>3
      <3> QED BY <3>3, <3>4
    <2> QED BY <2>4, <2>5
  <1> QED BY <1>1, <1>2

SelfPuts(h, v, c, X) ==
  h = [s \in SUBSET X |->
         IF s = {} THEN v
         ELSE [h[s \ {Vec!Max(s)}] EXCEPT ![c.start + (Numbered(c.length)[Vec!Max(s)] - 1) * c.step + 1]
                 = h[s \ {Vec!Max(s)}][Numbered(c.length)[Vec!Max(s)]]]]

LEMMA SetSliceOfSelfIs ==
  ASSUME NEW S, NEW v \in Seq(S), NEW c, c.length = Len(v),
         \A i \in 1 .. c.length : c.start + (i - 1) * c.step = i - 1
  PROVE  Vec!SetSliceOfSelf(v, c) = v
  <1> DEFINE L == c.length
             K == Numbered(L)
             h == CHOOSE g : SelfPuts(g, v, c, 1 .. L)
             all == [s \in SUBSET (1 .. L) |-> v]
  <1>1. L \in Nat /\ DOMAIN v = 1 .. L /\ v = [j \in 1 .. L |-> v[j]]
    BY LenProperties
  <1>2. DOMAIN K = 1 .. L /\ \A i \in 1 .. L : K[i] = i
    BY DEF Numbered
  <1>3. Vec!SetSliceOfSelf(v, c) = h[1 .. L]
    <2>1. Vec!SetSliceOfSelf(v, c) = (CHOOSE g : SelfPuts(g, v, c, DOMAIN K))[DOMAIN K]
      BY DEF Vec!SetSliceOfSelf, Vec!FoldLeft, Vec!MapThenFoldSet, SelfPuts, Numbered
    <2> QED BY <1>2, <2>1
  <1>4. \A i \in 1 .. L : c.start + (K[i] - 1) * c.step + 1 = i
    <2> SUFFICES ASSUME NEW i \in 1 .. L PROVE c.start + (K[i] - 1) * c.step + 1 = i
      OBVIOUS
    <2>1. c.start + (K[i] - 1) * c.step = i - 1
      BY <1>2
    <2> DEFINE x == c.start + (K[i] - 1) * c.step
    <2>2. x = i - 1
      BY <2>1
    <2> HIDE DEF x
    <2>3. x + 1 = i
      BY <1>1, <2>2
    <2> QED BY <2>3 DEF x
  <1> HIDE DEF K
  <1>5. \A i \in 1 .. L : [v EXCEPT ![c.start + (K[i] - 1) * c.step + 1] = v[K[i]]] = v
    BY <1>1, <1>2, <1>4
  <1>6. ASSUME NEW s \in SUBSET (1 .. L), s # {}
        PROVE  Vec!Max(s) \in 1 .. L /\ s \ {Vec!Max(s)} \in SUBSET (1 .. L)
    <2> DEFINE T == {L - x : x \in s}
    <2>0. PICK e \in s : TRUE
      BY <1>6
    <2>1. T \in SUBSET Nat /\ L - e \in T
      BY <1>1, <2>0
    <2>2. \E x \in s : \A y \in s : x >= y
      <3>1. PICK t \in T : \A k \in T : t <= k
        <4> HIDE DEF T
        <4> QED BY <2>1, LeastElement
      <3>2. PICK x \in s : t = L - x
        BY <3>1
      <3>3. \A y \in s : L - x <= L - y
        BY <3>1, <3>2
      <3>4. \A y \in s : x >= y
        BY <1>1, <3>3
      <3> QED BY <3>4
    <2> QED BY <2>2 DEF Vec!Max
  <1>7. SelfPuts(all, v, c, 1 .. L)
    <2>1. ASSUME NEW s \in SUBSET (1 .. L), s # {}
          PROVE  [all[s \ {Vec!Max(s)}] EXCEPT ![c.start + (K[Vec!Max(s)] - 1) * c.step + 1]
                    = all[s \ {Vec!Max(s)}][K[Vec!Max(s)]]] = v
      <3>1. Vec!Max(s) \in 1 .. L /\ all[s \ {Vec!Max(s)}] = v
        BY <1>6, <2>1
      <3> HIDE DEF all
      <3> QED BY <1>5, <3>1
    <2> QED BY <2>1 DEF SelfPuts, K
  <1>8. SelfPuts(h, v, c, 1 .. L)
    <2> HIDE DEF all
    <2> QED BY <1>7
  <1> HIDE DEF h
  <1> DEFINE N == {k \in 0 .. L : h[1 .. k] = v}
  <1>9. 0 \in N
    <2>1. 1 .. 0 = {} /\ 0 \in 0 .. L /\ {} \in SUBSET (1 .. L)
      BY <1>1
    <2>2. h[{}] = v
      BY <1>8, <2>1 DEF SelfPuts
    <2> QED BY <2>1, <2>2
  <1>10. ASSUME NEW k \in 1 .. L, k - 1 \in N PROVE k \in N
    <2>1. 1 .. k \in SUBSET (1 .. L) /\ k \in Nat /\ k \in 1 .. k /\ k \in 0 .. L
      BY <1>1
    <2>2. 1 .. k # {} /\ Vec!Max(1 .. k) = k
      BY <2>1, LastOf
    <2>5. (1 .. k) \ {k} = 1 .. k - 1
      BY <1>1
    <2>3. h[1 .. k - 1] = v
      BY <1>10
    <2> DEFINE t == 1 .. k
    <2>6. t \in SUBSET (1 .. L) /\ t # {} /\ Vec!Max(t) = k /\ h[t \ {Vec!Max(t)}] = v
      BY <2>1, <2>2, <2>3, <2>5
    <2> HIDE DEF t, L
    <2>7. h[t] = [v EXCEPT ![c.start + (K[k] - 1) * c.step + 1] = v[K[k]]]
      BY <1>8, <2>6 DEF SelfPuts, K, L
    <2>4. h[1 .. k] = [v EXCEPT ![c.start + (K[k] - 1) * c.step + 1] = v[K[k]]]
      BY <2>7 DEF t
    <2> QED BY <1>5, <2>1, <2>4
  <1>11. \A k \in 0 .. L : k \in N
    <2> HIDE DEF N, L
    <2> QED BY <1>1, <1>9, <1>10, NumbersUpTo
  <1>12. L \in 0 .. L
    BY <1>1
  <1> QED BY <1>3, <1>11, <1>12

-----------------------------------------------------------------------------
(* The methods *)

\* What is left is a list of the same elements.
LEMMA WithoutType ==
  ASSUME NEW S, NEW v \in Seq(S), NEW D
  PROVE  Vec!Without(v, D) \in Seq(S)
  <1>1. Len(v) \in Nat /\ Remaining(v, D) \in SUBSET (1 .. Len(v))
    BY LenProperties DEF Remaining
  <1>2. PICK m \in Nat : \E q : InOrder(q, m, Remaining(v, D))
    BY <1>1, OrderExists
  <1>3. PICK q : InOrder(q, m, Remaining(v, D))
    BY <1>2
  <1> QED BY <1>3, WithoutIs

\* std::count counts the places.
LEMMA CountsPlaces ==
  ASSUME NEW S, NEW v \in Seq(S), NEW x
  PROVE  Vec!SumFunction([n \in DOMAIN v |-> IF v[n] = x THEN 1 ELSE 0])
           = Vec!Cardinality(Vec!Places(v, x))
  <1> DEFINE f == [n \in DOMAIN v |-> IF v[n] = x THEN 1 ELSE 0]
             P(k) == {n \in 1 .. k : v[n] = x}
             L == Len(v)
             N == {k \in 0 .. L : IsFiniteSet(P(k)) /\ SumFunctionOnSet(f, 1 .. k) = Cardinality(P(k))}
  <1>1. L \in Nat /\ DOMAIN v = 1 .. L
    BY LenProperties
  <1>2. Vec!SumFunction(f) = SumFunctionOnSet(f, 1 .. L)
    <2>1. DOMAIN f = 1 .. L
      BY <1>1
    <2> HIDE DEF f
    <2>2. Vec!SumFunction(f) = SumFunctionOnSet(f, DOMAIN f)
      BY DEF Vec!SumFunction, Vec!SumFunctionOnSet, Vec!FoldFunctionOnSet, Vec!MapThenFoldSet,
             SumFunctionOnSet, FoldFunctionOnSet, MapThenFoldSet
    <2> QED BY <2>1, <2>2
  <1>3. \A k \in 1 .. L : f[k] \in Int /\ f[k] = IF v[k] = x THEN 1 ELSE 0
    BY <1>1
  <1>4. Vec!Cardinality(Vec!Places(v, x)) = Cardinality(P(L))
    BY <1>1 DEF Vec!Cardinality, Cardinality, Vec!Places
  <1> HIDE DEF f, L
  <1>5. 0 \in N
    <2>1. 1 .. 0 = {} /\ 0 \in 0 .. L
      BY <1>1
    <2>2. P(0) = {}
      BY <2>1
    <2>3. SumFunctionOnSet(f, 1 .. 0) = 0
      BY <2>1, SumEmpty
    <2>4. IsFiniteSet({}) /\ Cardinality({}) = 0
      BY FS_EmptySet
    <2> HIDE DEF P
    <2> QED BY <2>1, <2>2, <2>3, <2>4
  <1>6. ASSUME NEW k \in 1 .. L, k - 1 \in N PROVE k \in N
    <2>1. IsFiniteSet(P(k - 1)) /\ SumFunctionOnSet(f, 1 .. k - 1) = Cardinality(P(k - 1))
      BY <1>6
    <2>2. k \in 0 .. L /\ k \in 1 .. k /\ (1 .. k) \ {k} = 1 .. k - 1 /\ k \notin 1 .. k - 1 /\ k \in Nat
      BY <1>1
    <2>3. SumFunctionOnSet(f, 1 .. k) = f[k] + SumFunctionOnSet(f, 1 .. k - 1)
      <3>1. \A y \in 1 .. k : f[y] \in Int
        BY <1>1, <1>3
      <3>2. IsFiniteSet(1 .. k)
        BY <2>2, FS_Interval
      <3>3. SumFunctionOnSet(f, 1 .. k) = f[k] + SumFunctionOnSet(f, (1 .. k) \ {k})
        BY <2>2, <3>1, <3>2, SumRemove
      <3> QED BY <2>2, <3>3
    <2>4. P(k) = IF v[k] = x THEN P(k - 1) \cup {k} ELSE P(k - 1)
      <3>1. \A n \in 1 .. k : n = k \/ n \in 1 .. k - 1
        BY <2>2
      <3>2. \A n \in 1 .. k - 1 : n \in 1 .. k
        BY <2>2
      <3> QED BY <2>2, <3>1, <3>2
    <2>5. k \notin P(k - 1)
      BY <2>2
    <2> HIDE DEF P
    <2>6. /\ IsFiniteSet(P(k - 1) \cup {k})
          /\ Cardinality(P(k - 1) \cup {k}) = Cardinality(P(k - 1)) + 1
      BY <2>1, <2>5, FS_AddElement
    <2>7. Cardinality(P(k - 1)) \in Nat
      BY <2>1, FS_CardinalityType
    <2>8. CASE v[k] = x
      <3>1. P(k) = P(k - 1) \cup {k} /\ f[k] = 1
        BY <1>3, <2>4, <2>8
      <3>2. IsFiniteSet(P(k)) /\ Cardinality(P(k)) = Cardinality(P(k - 1)) + 1
        BY <2>6, <3>1
      <3>3. SumFunctionOnSet(f, 1 .. k) = 1 + Cardinality(P(k - 1))
        BY <2>1, <2>3, <3>1
      <3>4. SumFunctionOnSet(f, 1 .. k) = Cardinality(P(k))
        BY <2>7, <3>2, <3>3
      <3> QED BY <2>2, <3>2, <3>4
    <2>9. CASE v[k] # x
      BY <1>3, <2>1, <2>2, <2>3, <2>4, <2>7, <2>9
    <2> QED BY <2>8, <2>9
  <1>7. \A k \in 0 .. L : k \in N
    <2> HIDE DEF N
    <2> QED BY <1>1, <1>5, <1>6, NumbersUpTo
  <1>8. L \in N
    <2>1. L \in 0 .. L
      BY <1>1
    <2> HIDE DEF N
    <2> QED BY <1>7, <2>1
  <1>9. SumFunctionOnSet(f, 1 .. L) = Cardinality(P(L))
    BY <1>8
  <1> HIDE DEF P
  <1>10. Vec!SumFunction(f) = Vec!Cardinality(Vec!Places(v, x))
    BY <1>2, <1>4, <1>9
  <1> QED BY <1>10 DEF f

\* erase at std::find's place is what remove does to a list.
LEMMA RemoveIs ==
  ASSUME NEW S, NEW v \in Seq(S), NEW x, Vec!Places(v, x) # {}
  PROVE  /\ Vec!Erase(v, Vec!Min(Vec!Places(v, x)) - 1) = Vec!RemoveFirst(v, x)
         /\ Vec!Erase(v, Vec!Min(Vec!Places(v, x)) - 1) \in Seq(S)
  <1> DEFINE P == Vec!Places(v, x)
             m == Vec!Min(P)
  <1>1. Len(v) \in Nat /\ DOMAIN v = 1 .. Len(v)
    BY LenProperties
  <1>2. P = {i \in 1 .. Len(v) : v[i] = x}
    BY <1>1 DEF Vec!Places
  <1>3. m \in P
    <2>1. P \in SUBSET Nat
      BY <1>1, <1>2
    <2>2. \E n \in P : \A k \in P : n <= k
      <3> HIDE DEF P
      <3> QED BY <2>1, LeastElement DEF P
    <2> HIDE DEF P
    <2> QED BY <2>2 DEF Vec!Min
  <1>4. Vec!RemoveFirst(v, x) = Vec!RemoveAt(v, m)
    <2>1. \E i \in 1 .. Len(v) : v[i] = x
      BY <1>2
    <2>2. Vec!SelectInSeq(v, LAMBDA e : e = x) = m
      BY <1>2 DEF Vec!SelectInSeq
    <2> QED BY <2>1, <2>2 DEF Vec!RemoveFirst
  <1> HIDE DEF m
  <1>5. m \in Int /\ (m - 1) + 1 = m /\ m - 1 \in 0 .. Len(v) - 1
    BY <1>1, <1>2, <1>3
  <1>6. Vec!Erase(v, m - 1) = Vec!RemoveAt(v, m)
    BY <1>5 DEF Vec!Erase
  <1>7. Vec!Erase(v, m - 1) \in Seq(S)
    BY <1>5, EraseIs
  <1> QED BY <1>4, <1>6, <1>7 DEF m

VecInv == ~parted => vec \in Seq(Elems) /\ list = vec /\ got.vector = got.list

\* A step that leaves the same in both, and returns the same.
LEMMA VecStays ==
  ASSUME NEW v \in Seq(Elems), NEW r, vec' = v, list' = v, Vec!Returns(r, r)
  PROVE  VecInv'
  BY DEF VecInv, Vec!Returns

\* An index is out of range for both or for none.
LEMMA IndexIs ==
  ASSUME NEW i \in Int, NEW n \in Nat
  PROVE  /\ Vec!Has(i, n) <=> ~Vec!WrapFails(i, n)
         /\ ~Vec!WrapFails(i, n) => /\ Vec!Wrap(i, n) = Vec!Meaning(i, n)
                                    /\ Vec!Wrap(i, n) \in 0 .. n - 1
  BY DEF Vec!Has, Vec!WrapFails, Vec!Wrap, Vec!Meaning

\* The calls with a subscript answer and do what a list does,
LEMMA IndexSteps ==
  ASSUME VecInv, ~parted, NEW i \in Int,
         Vec!GetItem(i) \/ Vec!DelItem(i) \/ Vec!Pop(i) \/ \E x \in Elems : Vec!SetItem(i, x)
  PROVE  VecInv'
  <1>1. vec \in Seq(Elems) /\ list = vec /\ Len(vec) \in Nat
    BY LenProperties DEF VecInv
  <1>2. /\ Vec!Has(i, Len(vec)) <=> ~Vec!WrapFails(i, Len(vec))
        /\ ~Vec!WrapFails(i, Len(vec)) => /\ Vec!Wrap(i, Len(vec)) = Vec!Meaning(i, Len(vec))
                                          /\ Vec!Wrap(i, Len(vec)) \in 0 .. Len(vec) - 1
    BY <1>1, IndexIs
  <1> DEFINE p == Vec!Wrap(i, Len(vec))
  <1>3. CASE Vec!Indexed(i)
    <2>1. vec' = vec /\ list' = vec /\ Vec!Returns(Vec!Error, Vec!Error)
      BY <1>1, <1>2, <1>3 DEF Vec!Indexed, Vec!Same, Vec!Size
    <2> QED BY <1>1, <2>1, VecStays
  <1>4. CASE ~Vec!WrapFails(i, Len(vec)) /\ Vec!GetItem(i)
    <2>1. vec' = vec /\ list' = vec /\ Vec!Returns(<<Vec!At(vec, p)>>, <<Vec!At(vec, p)>>)
      BY <1>1, <1>2, <1>4 DEF Vec!GetItem, Vec!Indexed, Vec!Same, Vec!Size
    <2> QED BY <1>1, <2>1, VecStays
  <1>5. CASE ~Vec!WrapFails(i, Len(vec)) /\ \E x \in Elems : Vec!SetItem(i, x)
    <2>1. PICK x \in Elems : Vec!SetItem(i, x)
      BY <1>5
    <2> DEFINE w == [vec EXCEPT ![p + 1] = x]
    <2>2. vec' = w /\ list' = w /\ Vec!Returns(<< >>, << >>)
      BY <1>1, <1>2, <1>5, <2>1 DEF Vec!SetItem, Vec!Indexed, Vec!Becomes, Vec!Size
    <2>3. w \in Seq(Elems)
      <3>1. p + 1 \in 1 .. Len(vec)
        BY <1>1, <1>2, <1>5
      <3> HIDE DEF p
      <3> QED BY <1>1, <3>1, ExceptSeq
    <2> HIDE DEF w
    <2> QED BY <2>2, <2>3, VecStays
  <1>6. CASE ~Vec!WrapFails(i, Len(vec)) /\ (Vec!DelItem(i) \/ Vec!Pop(i))
    <2>1. p \in 0 .. Len(vec) - 1
      BY <1>2, <1>6
    <2>2. Vec!Erase(vec, p) = Vec!Without(vec, {p}) /\ Vec!Erase(vec, p) \in Seq(Elems)
      <3> HIDE DEF p
      <3> QED BY <1>1, <2>1, EraseLeavesOut
    <2>3. /\ vec' = Vec!Erase(vec, p) /\ list' = Vec!Erase(vec, p)
          /\ Vec!Returns(<< >>, << >>) \/ Vec!Returns(<<Vec!At(vec, p)>>, <<Vec!At(vec, p)>>)
      BY <1>1, <1>2, <1>6, <2>2 DEF Vec!DelItem, Vec!Pop, Vec!Indexed, Vec!Becomes, Vec!Size
    <2> HIDE DEF p
    <2> QED BY <2>2, <2>3, VecStays
  <1>7. Vec!Indexed(i) \/ ~Vec!WrapFails(i, Len(vec))
    BY DEF Vec!GetItem, Vec!SetItem, Vec!DelItem, Vec!Pop, Vec!Size
  <1> QED BY <1>3, <1>4, <1>5, <1>6, <1>7

\* those with a value,
LEMMA ValueSteps ==
  ASSUME VecInv, ~parted, NEW x \in Elems,
         Vec!Append_(x) \/ Vec!RemoveValue(x) \/ Vec!Count(x) \/ (\E i \in Int : Vec!Insert(i, x))
  PROVE  VecInv'
  <1>1. vec \in Seq(Elems) /\ list = vec /\ Len(vec) \in Nat /\ DOMAIN vec = 1 .. Len(vec)
    BY LenProperties DEF VecInv
  <1>2. CASE Vec!Append_(x)
    <2>1. Append(vec, x) \in Seq(Elems)
      BY <1>1, AppendProperties
    <2>2. vec' = Append(vec, x) /\ list' = Append(vec, x) /\ Vec!Returns(<< >>, << >>)
      BY <1>1, <1>2 DEF Vec!Append_, Vec!Becomes
    <2> QED BY <2>1, <2>2, VecStays
  <1>3. CASE Vec!RemoveValue(x)
    <2>1. CASE Vec!Places(vec, x) = {}
      <3>1. x \notin Vec!ToSet(vec)
        BY <2>1 DEF Vec!Places, Vec!ToSet
      <3>2. vec' = vec /\ list' = vec /\ Vec!Returns(Vec!Error, Vec!Error)
        BY <1>1, <1>3, <2>1, <3>1 DEF Vec!RemoveValue, Vec!Same
      <3> QED BY <1>1, <3>2, VecStays
    <2>2. CASE Vec!Places(vec, x) # {}
      <3> DEFINE w == Vec!Erase(vec, Vec!Min(Vec!Places(vec, x)) - 1)
      <3>1. w = Vec!RemoveFirst(vec, x) /\ w \in Seq(Elems)
        BY <1>1, <2>2, RemoveIs
      <3>2. vec' = w /\ list' = Vec!RemoveFirst(list, x) /\ Vec!Returns(<< >>, << >>)
        BY <1>3, <2>2 DEF Vec!RemoveValue, Vec!Becomes
      <3> HIDE DEF w
      <3> QED BY <1>1, <3>1, <3>2, VecStays
    <2> QED BY <2>1, <2>2
  <1>4. CASE Vec!Count(x)
    <2> DEFINE a == Vec!SumFunction([n \in DOMAIN vec |-> IF vec[n] = x THEN 1 ELSE 0])
               b == Vec!Cardinality(Vec!Places(vec, x))
    <2>1. a = b
      BY <1>1, CountsPlaces
    <2>2. vec' = vec /\ list' = vec /\ Vec!Returns(<<a>>, <<b>>)
      BY <1>1, <1>4 DEF Vec!Count, Vec!Same
    <2> HIDE DEF a, b
    <2> QED BY <1>1, <2>1, <2>2, VecStays
  <1>5. CASE \E i \in Int : Vec!Insert(i, x)
    <2>1. PICK i \in Int : Vec!Insert(i, x)
      BY <1>5
    <2> DEFINE p == IF i < 0 THEN i + Len(vec) ELSE i
    <2>2. CASE p < 0 \/ p > Len(vec)
      BY <1>1, <2>1, <2>2 DEF Vec!Insert, Vec!Size, Vec!Parts, VecInv
    <2>3. CASE ~(p < 0 \/ p > Len(vec))
      <3> DEFINE w == SubSeq(vec, 1, p) \o <<x>> \o SubSeq(vec, p + 1, Len(vec))
      <3>1. p \in 0 .. Len(vec) /\ (p + 1) - 1 = p
        BY <1>1, <2>3
      <3>2. Vec!InsertBefore(vec, p, x) = w
        <4> HIDE DEF p
        <4> QED BY <3>1 DEF Vec!InsertBefore, Vec!InsertAt
      <3>3. Vec!Between(i, Len(list)) = p
        <4> DEFINE n == Len(vec)
        <4>1. Vec!Meaning(i, Len(list)) = p /\ Len(list) = n
          BY <1>1 DEF Vec!Meaning
        <4>2. n \in Int /\ p \in Int /\ 0 <= p /\ p <= n
          BY <1>1, <3>1
        <4> HIDE DEF n, p
        <4>3. Vec!Min({n, p}) = p
          BY <4>2, GreatestOfTwo
        <4>4. Vec!Max({0, p}) = p
          <5>1. /\ Vec!Max({0, p}) \in {0, p} /\ \A z \in {0, p} : Vec!Max({0, p}) >= z
            BY <4>2, GreatestOfTwo
          <5> QED BY <4>2, <5>1
        <4> QED BY <4>1, <4>3, <4>4 DEF Vec!Between
      <3>4. vec' = w /\ list' = w /\ Vec!Returns(<< >>, << >>)
        <4> HIDE DEF w
        <4>1. list' = SubSeq(list, 1, p) \o <<x>> \o SubSeq(list, p + 1, Len(list))
          BY <1>1, <2>1, <2>3, <3>3 DEF Vec!Insert, Vec!Becomes, Vec!Size
        <4>2. vec' = w /\ Vec!Returns(<< >>, << >>)
          BY <1>1, <2>1, <2>3, <3>2 DEF Vec!Insert, Vec!Becomes, Vec!Size
        <4> QED BY <1>1, <4>1, <4>2 DEF w
      <3>5. w \in Seq(Elems)
        <4> HIDE DEF p
        <4>1. SubSeq(vec, 1, p) \in Seq(Elems)
          BY <1>1, <3>1, FrontIs
        <4>2. SubSeq(vec, p + 1, Len(vec)) \in Seq(Elems)
          <5>1. IsBack(SubSeq(vec, p + 1, Len(vec)), Elems, vec, Len(vec), p)
            BY <1>1, <3>1, BackIs
          <5> QED BY <5>1 DEF IsBack
        <4>3. <<x>> \in Seq(Elems)
          OBVIOUS
        <4>4. SubSeq(vec, 1, p) \o <<x>> \in Seq(Elems)
          BY <4>1, <4>3, ConcatProperties
        <4> QED BY <4>2, <4>4, ConcatProperties
      <3> HIDE DEF w
      <3> QED BY <3>4, <3>5, VecStays
    <2> QED BY <2>2, <2>3
  <1> QED BY <1>2, <1>3, <1>4, <1>5

\* a refused assignment,
LEMMA OtherSizeStays ==
  ASSUME VecInv, ~parted, NEW s, NEW w, Vec!OtherSize(s, w)
  PROVE  VecInv'
  <1>1. vec \in Seq(Elems) /\ list = vec
    BY DEF VecInv
  <1>2. CASE s.step = 1
    BY <1>2 DEF Vec!OtherSize, Vec!Parts, VecInv
  <1>3. CASE s.step # 1
    <2>1. vec' = vec /\ list' = vec /\ Vec!Returns(Vec!Error, Vec!Error)
      BY <1>1, <1>3 DEF Vec!OtherSize, Vec!Same
    <2> QED BY <1>1, <2>1, VecStays
  <1> QED BY <1>2, <1>3

\* and those with a slice.
LEMMA SliceSteps ==
  ASSUME VecInv, ~parted, NEW s \in SliceOfNumbers,
         \/ Vec!GetSlice(s) \/ Vec!DeleteSlice(s)
         \/ Vec!AssignSelf(s) \/ \E w \in Seq(Elems) : Vec!AssignSlice(s, w)
  PROVE  VecInv'
  <1> DEFINE c == Vec!Compute(s, Len(vec))
             m == Positions(c)
  <1>1. vec \in Seq(Elems) /\ list = vec /\ Len(vec) \in Nat
    BY LenProperties DEF VecInv
  <1>2. /\ c.start \in Int /\ c.step \in Int \ {0} /\ c.length \in Nat
        /\ Vec!Meant(s, Len(vec)) = m
        /\ \A i \in 1 .. c.length : m[i] \in 0 .. Len(vec) - 1
    <2> HIDE DEF c
    <2> QED BY <1>1, MeantIs DEF c
  <1>3. DOMAIN m = 1 .. c.length /\ \A i \in 1 .. c.length : m[i] = c.start + (i - 1) * c.step
    BY DEF Positions, Spread
  <1>4. CASE Vec!GetSlice(s)
    <2> DEFINE r == [n \in DOMAIN m |-> Vec!At(vec, m[n])]
    <2>1. Vec!SliceOf(vec, c) = r
      <3> HIDE DEF c, m
      <3> QED BY <1>3 DEF Vec!SliceOf
    <2>2. vec' = vec /\ list' = vec /\ Vec!Returns(Vec!SliceOf(vec, c), r)
      <3> HIDE DEF m
      <3> QED BY <1>1, <1>2, <1>4 DEF Vec!GetSlice, Vec!Same, Vec!Size
    <2> HIDE DEF c, m, r
    <2> QED BY <1>1, <2>1, <2>2, VecStays
  <1>5. CASE Vec!DeleteSlice(s)
    <2> DEFINE w == Vec!DelSlice(vec, c)
    <2>1. vec' = w /\ list' = Vec!Without(vec, Vec!ToSet(m)) /\ Vec!Returns(<< >>, << >>)
      <3> HIDE DEF m
      <3> QED BY <1>1, <1>2, <1>5 DEF Vec!DeleteSlice, Vec!Becomes, Vec!Size
    <2>2. w = Vec!Without(vec, Vec!ToSet(m))
      <3> HIDE DEF c
      <3> QED BY <1>1, <1>2, DelSliceIs
    <2>3. w \in Seq(Elems)
      <3> HIDE DEF c, m, w
      <3> QED BY <1>1, <2>2, WithoutType
    <2> HIDE DEF c, m, w
    <2> QED BY <2>1, <2>2, <2>3, VecStays
  <1>6. ASSUME NEW w \in Seq(Elems), Vec!AssignSlice(s, w) PROVE VecInv'
    <2>1. Len(w) \in Nat
      BY LenProperties
    <2>2. CASE c.length # Len(w)
      <3>1. Vec!OtherSize(s, w)
        <4> HIDE DEF m
        <4> QED BY <1>6, <2>2 DEF Vec!AssignSlice, Vec!Size
      <3> QED BY <3>1, OtherSizeStays
    <2>3. CASE c.length = Len(w)
      <3> DEFINE u == Vec!SetSlice(vec, c, w)
      <3>1. vec' = u /\ list' = Vec!Replaced(vec, m, w) /\ Vec!Returns(<< >>, << >>)
        <4> HIDE DEF m
        <4> QED BY <1>1, <1>2, <1>6, <2>3 DEF Vec!AssignSlice, Vec!Becomes, Vec!Size
      <3>2. u = Vec!Replaced(vec, m, w) /\ u \in Seq(Elems)
        <4> HIDE DEF c
        <4> QED BY <1>1, <1>2, <2>3, SetSliceIs
      <3> HIDE DEF c, m, u
      <3> QED BY <3>1, <3>2, VecStays
    <2> QED BY <2>2, <2>3
  <1>7. CASE Vec!AssignSelf(s)
    <2>1. CASE c.length # Len(vec)
      <3>1. Vec!OtherSize(s, list)
        <4> HIDE DEF m
        <4> QED BY <1>7, <2>1 DEF Vec!AssignSelf, Vec!Size
      <3> QED BY <3>1, OtherSizeStays
    <2>2. CASE c.length = Len(vec) /\ s.step < 0 /\ Len(vec) > 1
      <3> HIDE DEF m
      <3> QED BY <1>7, <2>2 DEF Vec!AssignSelf, Vec!Size, Vec!Parts, VecInv
    <2>3. CASE c.length = Len(vec) /\ ~(s.step < 0 /\ Len(vec) > 1)
      <3>1. c.step = s.step
        BY DEF Vec!Compute
      <3>2. \A i \in 1 .. c.length : c.start + (i - 1) * c.step = i - 1
        <4> DEFINE a == c.start
                   d == c.step
                   n == Len(vec)
        <4>1. n \in Nat /\ a \in Int /\ d \in Int \ {0} /\ (d > 0 \/ n <= 1) /\ c.length = n
          <5> HIDE DEF c
          <5> QED BY <1>1, <1>2, <2>3, <3>1
        <4>2. \A i \in 1 .. n : a + (i - 1) * d \in 0 .. n - 1
          <5> HIDE DEF c, m
          <5> QED BY <1>2, <1>3, <4>1
        <4> HIDE DEF c, a, d, n
        <4>3. \A i \in 1 .. n : a + (i - 1) * d = i - 1
          BY <4>1, <4>2, WholeInOrder
        <4> QED BY <4>1, <4>3 DEF a, d
      <3>3. Vec!SetSliceOfSelf(vec, c) = vec
        <4> HIDE DEF c
        <4> QED BY <1>1, <2>3, <3>2, SetSliceOfSelfIs
      <3>4. Vec!Replaced(vec, m, vec) = vec
        <4>0. DOMAIN vec = 1 .. c.length /\ vec = [i \in 1 .. c.length |-> vec[i]]
          <5> HIDE DEF c, m
          <5> QED BY <1>1, <2>3, LenProperties
        <4>1. \A i \in 1 .. c.length : m[i] = i - 1
          <5> HIDE DEF c, m
          <5> QED BY <1>3, <3>2
        <4> HIDE DEF m
        <4> DEFINE L == c.length
        <4>2. L \in Nat /\ DOMAIN m = 1 .. L
          BY <1>2, <1>3
        <4> HIDE DEF c
        <4>3. ASSUME NEW j \in 1 .. L
              PROVE  (IF j - 1 \in Vec!ToSet(m) THEN vec[CHOOSE k \in DOMAIN m : m[k] = j - 1] ELSE vec[j]) = vec[j]
          <5>1. \A k \in 1 .. L : m[k] = j - 1 => k = j
            <6> HIDE DEF L
            <6>1. \A k \in 1 .. L : k \in Int /\ m[k] = k - 1
              BY <4>1, <4>2 DEF L
            <6>2. j \in Int
              BY <4>2
            <6> QED BY <6>1, <6>2
          <5>2. \E k \in DOMAIN m : m[k] = j - 1
            BY <4>1, <4>2
          <5>3. (CHOOSE k \in DOMAIN m : m[k] = j - 1) = j
            BY <4>2, <5>1, <5>2
          <5> QED BY <5>3
        <4> QED BY <4>0, <4>3 DEF Vec!Replaced
      <3>5. /\ vec' = Vec!SetSliceOfSelf(vec, c) /\ list' = Vec!Replaced(vec, m, vec)
            /\ Vec!Returns(<< >>, << >>)
        <4> HIDE DEF m
        <4> QED BY <1>1, <1>2, <1>7, <2>3 DEF Vec!AssignSelf, Vec!Becomes, Vec!Size
      <3> HIDE DEF c, m
      <3> QED BY <1>1, <3>3, <3>4, <3>5, VecStays
    <2> QED BY <2>1, <2>2, <2>3
  <1> QED BY <1>4, <1>5, <1>6, <1>7

\* A vector that extends itself has parted from its list, unless it is empty.
LEMMA ExtendBySelfStays ==
  ASSUME VecInv, ~parted, Vec!ExtendBySelf
  PROVE  VecInv'
  <1>1. vec \in Seq(Elems) /\ list = vec /\ Len(vec) \in Nat
    BY LenProperties DEF VecInv
  <1>2. PICK w \in [1 .. Len(vec) -> Elems] : vec' = vec \o w /\ list' = list \o list
    BY DEF Vec!ExtendBySelf, Vec!Size, Vec!Becomes
  <1>3. Vec!Returns(<< >>, << >>) /\ (parted' <=> Len(vec) > 0)
    BY DEF Vec!ExtendBySelf, Vec!Parts, Vec!Size
  <1>4. CASE Len(vec) = 0
    <2>1. 1 .. 0 = {}
      OBVIOUS
    <2>2. w = << >> /\ vec = << >>
      <3>1. vec = << >>
        BY <1>1, <1>4, EmptySeq
      <3>2. Len(w) = 0 /\ w \in Seq(Elems)
        BY <1>2, <1>4
      <3> QED BY <3>1, <3>2, EmptySeq
    <2>3. vec' = vec /\ list' = vec
      BY <1>1, <1>2, <2>2
    <2> QED BY <1>1, <1>3, <2>3, VecStays
  <1>5. CASE Len(vec) # 0
    BY <1>1, <1>3, <1>5 DEF VecInv
  <1> QED BY <1>4, <1>5

\* Both start empty.
LEMMA VecInvInit == Vec!Init => VecInv
  BY DEF Vec!Init, VecInv

\* No call takes them apart.
LEMMA VecInvNext ==
  ASSUME VecInv, [Vec!Next]_vecV
  PROVE  VecInv'
  <1>1. Bounds \subseteq Int /\ Vec!Slices \subseteq SliceOfNumbers
    BY VectorAssumption DEF Vec!Slices, SliceOfNumbers
  <1>2. \A w \in Vec!SeqOf(Elems, 2) : w \in Seq(Elems)
    <2> SUFFICES ASSUME NEW k \in 0 .. 2, NEW w \in [1 .. k -> Elems] PROVE w \in Seq(Elems)
      BY DEF Vec!SeqOf
    <2>1. k \in Nat
      OBVIOUS
    <2> QED BY <2>1
  <1>3. CASE UNCHANGED vecV
    BY <1>3 DEF VecInv, vecV
  <1> SUFFICES ASSUME Vec!Next, ~parted PROVE VecInv'
    BY <1>3 DEF Vec!Next
  <1>4. CASE \E i \in Bounds : Vec!GetItem(i) \/ Vec!DelItem(i) \/ Vec!Pop(i)
    BY <1>1, <1>4, IndexSteps
  <1>5. CASE \E i \in Bounds, x \in Elems : Vec!SetItem(i, x) \/ Vec!Insert(i, x)
    BY <1>1, <1>5, IndexSteps, ValueSteps
  <1>6. CASE \E x \in Elems : Vec!Append_(x) \/ Vec!RemoveValue(x) \/ Vec!Count(x)
    BY <1>6, ValueSteps
  <1>7. ASSUME NEW w \in Vec!SeqOf(Elems, 2), Vec!Extend(w) PROVE VecInv'
    <2>1. vec \in Seq(Elems) /\ list = vec /\ w \in Seq(Elems)
      BY <1>2 DEF VecInv
    <2>2. vec \o w \in Seq(Elems)
      BY <2>1, ConcatProperties
    <2>3. vec' = vec \o w /\ list' = vec \o w /\ Vec!Returns(<< >>, << >>)
      BY <1>7, <2>1 DEF Vec!Extend, Vec!Becomes
    <2> QED BY <2>2, <2>3, VecStays
  <1>8. CASE \E s \in Vec!Slices : Vec!GetSlice(s) \/ Vec!DeleteSlice(s)
    BY <1>1, <1>8, SliceSteps
  <1>9. CASE \/ \E s \in Vec!Slices, w \in Vec!SeqOf(Elems, 2) : Vec!AssignSlice(s, w)
             \/ \E s \in Vec!Slices : Vec!AssignSelf(s)
    BY <1>1, <1>2, <1>9, SliceSteps
  <1>10. CASE Vec!Clear
    <2>1. vec' = << >> /\ list' = << >> /\ Vec!Returns(<< >>, << >>) /\ << >> \in Seq(Elems)
      BY <1>10, EmptySeq DEF Vec!Clear, Vec!Becomes
    <2> QED BY <2>1, VecStays
  <1>11. CASE Vec!ExtendBySelf
    BY <1>11, ExtendBySelfStays
  <1> QED BY <1>3, <1>4, <1>5, <1>6, <1>7, <1>8, <1>9, <1>10, <1>11 DEF Vec!Next

\* After any calls, with any subscripts and slices, a bound vector is the list
\* its users have in mind, and returned what the list's methods return, up to a
\* call of which the code makes something else: the loop that erases a slice from
\* its last position to its first erases exactly the positions that the slice
\* means (bind_vector.h:22-30, 71-209).
THEOREM VectorIsList == Spec => []ActsLikeList
  <1>1. Init => VecInv
    BY ComponentInits, VecInvInit
  <1>2. VecInv /\ [Next]_vars => VecInv'
    BY ComponentSteps, VecInvNext
  <1>3. VecInv => ActsLikeList
    BY DEF VecInv, ActsLikeList, Vec!ActsLikeList
  <1> QED
    BY <1>1, <1>2, <1>3, PTL DEF Spec
=============================================================================
