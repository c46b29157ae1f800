-------------------------- MODULE LifecycleProofs --------------------------
(***************************************************************************)
(* The life of a region, for any number of processes, any sizes they ask   *)
(* for and any number of writes: who has the region open has it            *)
(* initialised, what was written into a settled region stays, and a crash  *)
(* is reported.                                                            *)
(***************************************************************************)
EXTENDS Lifecycle, TLAPS

\* The places at which the magic has been written or seen.
Marked == {"initCounts", "initFlags", "checkDirty", "open"}

\* The magic comes after the allocator, in DictStore::Init and in _ClearAll,
\* and neither goes away before all processes have closed the file.
InitInv ==
  /\ \A p \in Procs : pc[p] # "closed" => file
  /\ magic => file /\ total > 0
  /\ \A p \in Procs : pc[p] \in {"initMagic", "clearHeader"} => total > 0
  /\ \A p \in Procs : pc[p] \in Marked => magic

\* An entry is owed only in a settled region, and the region stays settled.
OwedInv ==
  /\ owed # {} => Settled
  /\ owed \subseteq table
  /\ owed \subseteq allocated

\* The flags show that a process has crashed after a write.
CrashInv ==
  /\ cleanFlag = 1 => crashed = 1
  /\ unclean => Settled /\ (crashed = 1 \/ IsDirty)

Inv == TypeOK /\ InitInv /\ OwedInv /\ CrashInv

\* Init establishes the invariant.
LEMMA InvInit == Init => Inv
<1> SUFFICES ASSUME Init PROVE Inv
  OBVIOUS
<1>1. TypeOK
  <2>1. pc \in [Procs -> Places] /\ isNew \in [Procs -> BOOLEAN]
    BY DEF Init, Places
  <2>2. generation \in 0 .. MaxWrites
    BY LifecycleAssumption DEF Init
  <2>3. QED
    BY <2>1, <2>2 DEF Init, TypeOK
<1>2. InitInv
  BY DEF Init, InitInv, Marked
<1>3. OwedInv
  BY DEF Init, OwedInv
<1>4. CrashInv
  BY DEF Init, CrashInv
<1>5. QED
  BY <1>1, <1>2, <1>3, <1>4 DEF Inv

\* Every variable of Lifecycle keeps its type.
LEMMA TypeNext == TypeOK /\ [Next]_vars => TypeOK'
<1> SUFFICES ASSUME TypeOK, [Next]_vars PROVE TypeOK'
  OBVIOUS
<1> USE LifecycleAssumption DEF TypeOK, Places, Goes, Leaves, region, ghosts
<1> \A p \in Procs : SizeOf[p] \in Sizes
  BY DEF Sizes
<1>1. ASSUME NEW p \in Procs, CreateFile(p) PROVE TypeOK'
  BY <1>1 DEF CreateFile
<1>2. ASSUME NEW p \in Procs, OpenStep(p) PROVE TypeOK'
  <2>1. CASE Extend(p) \/ CreateMapping(p) \/ MapView(p)
    BY <2>1 DEF Extend, CreateMapping, MapView
  <2>2. CASE MapFails(p)
    <3>1. mapping' \in Sizes \cup {0}
      BY <2>2 DEF MapFails
    <3>2. pc' \in [Procs -> Places]
      BY <2>2 DEF MapFails
    <3>3. QED
      BY <2>2, <3>1, <3>2 DEF MapFails
  <2>3. CASE InitAlloc(p) \/ ClearAlloc(p)
    BY <2>3 DEF InitAlloc, ClearAlloc
  <2>4. CASE InitMagic(p) \/ ClearHeader(p)
    <3>1. magic' = TRUE /\ pc' \in [Procs -> Places]
      BY <2>4 DEF InitMagic, ClearHeader
    <3>2. generation' \in 0 .. MaxWrites /\ cleanFlag' \in {0, 1} /\ crashed' \in {0, 1}
      BY <2>4 DEF InitMagic, ClearHeader
    <3>3. QED
      BY <2>4, <3>1, <3>2 DEF InitMagic, ClearHeader
  <2>5. CASE InitCounts(p) \/ Validate(p) \/ ClearTable(p)
    BY <2>5 DEF InitCounts, Validate, ClearTable
  <2>6. CASE CheckDirty(p)
    <3>1. crashed' \in {0, 1}
      BY <2>6 DEF CheckDirty
    <3>2. pc' \in [Procs -> Places]
      BY <2>6 DEF CheckDirty
    <3>3. QED
      BY <2>6, <3>1, <3>2 DEF CheckDirty
  <2>7. CASE InitFlags(p)
    BY <2>7 DEF InitFlags
  <2>8. QED
    BY <1>2, <2>1, <2>2, <2>3, <2>4, <2>5, <2>6, <2>7 DEF OpenStep
<1>3. ASSUME NEW p \in Procs, Write(p) PROVE TypeOK'
  BY <1>3 DEF Write
<1>4. ASSUME NEW p \in Procs, Clear(p) PROVE TypeOK'
  BY <1>4 DEF Clear
<1>5. ASSUME NEW p \in Procs, Close(p) PROVE TypeOK'
  BY <1>5 DEF Close
<1>6. ASSUME NEW p \in Procs, Crash(p) PROVE TypeOK'
  BY <1>6 DEF Crash
<1>7. CASE Reset
  <2>1. mapping' \in Sizes \cup {0} /\ pc' \in [Procs -> Places] /\ isNew' \in [Procs -> BOOLEAN]
    BY <1>7 DEF Reset
  <2>2. total' \in Sizes \cup {0} /\ generation' \in 0 .. MaxWrites
    BY <1>7 DEF Reset
  <2>3. QED
    BY <1>7, <2>1, <2>2 DEF Reset
<1>8. CASE UNCHANGED vars
  BY <1>8 DEF vars
<1>9. QED
  BY <1>1, <1>2, <1>3, <1>4, <1>5, <1>6, <1>7, <1>8 DEF Next

-----------------------------------------------------------------------------
(* The region is initialised while somebody has it open *)

\* While somebody is past the check of the magic, the region is set up.
LEMMA InitNext == TypeOK /\ InitInv /\ [Next]_vars => InitInv'
<1> SUFFICES ASSUME TypeOK, InitInv, [Next]_vars PROVE InitInv'
  OBVIOUS
<1> USE LifecycleAssumption DEF TypeOK, InitInv, Marked, Goes, Leaves, region, ghosts
<1>1. ASSUME NEW p \in Procs, CreateFile(p) PROVE InitInv'
  BY <1>1 DEF CreateFile
<1>2. ASSUME NEW p \in Procs, OpenStep(p) PROVE InitInv'
  <2>1. CASE Extend(p) \/ CreateMapping(p) \/ MapView(p) \/ MapFails(p)
    BY <2>1 DEF Extend, CreateMapping, MapView, MapFails
  <2>2. CASE InitAlloc(p) \/ ClearAlloc(p)
    BY <2>2 DEF InitAlloc, ClearAlloc
  <2>3. CASE InitMagic(p) \/ ClearHeader(p)
    <3>1. file
      BY <2>3 DEF InitMagic, ClearHeader
    <3>2. QED
      BY <2>3, <3>1 DEF InitMagic, ClearHeader
  <2>4. CASE InitCounts(p) \/ InitFlags(p) \/ Validate(p) \/ CheckDirty(p) \/ ClearTable(p)
    BY <2>4 DEF InitCounts, InitFlags, Validate, CheckDirty, ClearTable
  <2>5. QED
    BY <1>2, <2>1, <2>2, <2>3, <2>4 DEF OpenStep
<1>3. ASSUME NEW p \in Procs, Write(p) PROVE InitInv'
  BY <1>3 DEF Write
<1>4. ASSUME NEW p \in Procs, Clear(p) PROVE InitInv'
  BY <1>4 DEF Clear
<1>5. ASSUME NEW p \in Procs, Close(p) PROVE InitInv'
  BY <1>5 DEF Close
<1>6. ASSUME NEW p \in Procs, Crash(p) PROVE InitInv'
  BY <1>6 DEF Crash
<1>7. CASE Reset
  BY <1>7 DEF Reset, WithFile
<1>8. CASE UNCHANGED vars
  BY <1>8 DEF vars
<1>9. QED
  BY <1>1, <1>2, <1>3, <1>4, <1>5, <1>6, <1>7, <1>8 DEF Next

\* Nothing unsettles a settled region but Reset, which nobody has it open for.
LEMMA SettledNext ==
  ASSUME TypeOK, InitInv, Settled, [Next]_vars, ~Reset
  PROVE  Settled'
<1> USE DEF TypeOK, Settled, Goes, Leaves, region, ghosts
<1>1. ASSUME NEW p \in Procs, CreateFile(p) PROVE Settled'
  <2>1. file
    BY DEF InitInv
  <2>2. QED
    BY <1>1, <2>1 DEF CreateFile
<1>2. ASSUME NEW p \in Procs, OpenStep(p) PROVE Settled'
  <2>1. CASE Extend(p) \/ CreateMapping(p) \/ MapView(p) \/ MapFails(p)
    BY <2>1 DEF Extend, CreateMapping, MapView, MapFails
  <2>2. CASE InitAlloc(p) \/ InitMagic(p) \/ InitCounts(p) \/ InitFlags(p)
    BY <2>2 DEF InitAlloc, InitMagic, InitCounts, InitFlags
  <2>3. CASE Validate(p) \/ CheckDirty(p)
    BY <2>3 DEF Validate, CheckDirty
  <2>4. CASE ClearTable(p) \/ ClearAlloc(p) \/ ClearHeader(p)
    BY <2>4 DEF ClearTable, ClearAlloc, ClearHeader
  <2>5. QED
    BY <1>2, <2>1, <2>2, <2>3, <2>4 DEF OpenStep
<1>3. ASSUME NEW p \in Procs, Write(p) \/ Clear(p) PROVE Settled'
  BY <1>3 DEF Write, Clear
<1>4. ASSUME NEW p \in Procs, Close(p) \/ Crash(p) PROVE Settled'
  BY <1>4 DEF Close, Crash
<1>5. CASE UNCHANGED vars
  BY <1>5 DEF vars
<1>6. QED
  BY <1>1, <1>2, <1>3, <1>4, <1>5 DEF Next

-----------------------------------------------------------------------------
(* What was written into a settled region stays *)

\* No step takes an owed entry out of the table or out of the allocator.
LEMMA OwedNext == TypeOK /\ InitInv /\ OwedInv /\ [Next]_vars => OwedInv'
<1> SUFFICES ASSUME TypeOK, InitInv, OwedInv, [Next]_vars PROVE OwedInv'
  OBVIOUS
<1> USE DEF OwedInv, Goes, Leaves, region, ghosts
<1>1. ASSUME Settled, ~Reset PROVE Settled'
  BY <1>1, SettledNext
<1>2. ASSUME NEW p \in Procs,
             CreateFile(p) \/ Extend(p) \/ CreateMapping(p) \/ MapView(p) \/ MapFails(p),
             ~Reset
      PROVE  OwedInv'
  BY <1>1, <1>2 DEF CreateFile, Extend, CreateMapping, MapView, MapFails
<1>3. ASSUME NEW p \in Procs,
             InitMagic(p) \/ InitCounts(p) \/ InitFlags(p) \/ Validate(p) \/ CheckDirty(p)
               \/ ClearHeader(p),
             ~Reset
      PROVE  OwedInv'
  BY <1>1, <1>3 DEF InitMagic, InitCounts, InitFlags, Validate, CheckDirty, ClearHeader
<1>4. ASSUME NEW p \in Procs, InitAlloc(p) \/ ClearTable(p) \/ ClearAlloc(p) PROVE OwedInv'
  \* Somebody is clearing, so the region is not settled and nothing is owed.
  <2>1. ~Settled
    BY <1>4 DEF InitAlloc, ClearTable, ClearAlloc, Settled
  <2>2. owed = {}
    BY <2>1
  <2>3. owed' = {}
    BY <1>4, <2>2 DEF InitAlloc, ClearTable, ClearAlloc
  <2>4. QED
    BY <2>3
<1>5. ASSUME NEW p \in Procs, Write(p), ~Reset PROVE OwedInv'
  <2>1. owed' # {} => Settled
    BY <1>5 DEF Write
  <2>2. owed' # {} => Settled'
    BY <1>1, <1>5, <2>1
  <2>3. owed' \subseteq table' /\ owed' \subseteq allocated'
    BY <1>5 DEF Write
  <2>4. QED
    BY <2>2, <2>3
<1>6. ASSUME NEW p \in Procs, Clear(p) PROVE OwedInv'
  BY <1>6 DEF Clear
<1>7. ASSUME NEW p \in Procs, Close(p) \/ Crash(p), ~Reset PROVE OwedInv'
  BY <1>1, <1>7 DEF Close, Crash
<1>8. CASE Reset
  BY <1>8 DEF Reset
<1>9. ASSUME UNCHANGED vars, ~Reset PROVE OwedInv'
  BY <1>1, <1>9 DEF vars
<1>10. QED
  BY <1>2, <1>3, <1>4, <1>5, <1>6, <1>7, <1>8, <1>9 DEF Next, OpenStep

-----------------------------------------------------------------------------
(* A crash is reported *)

\* No step hides that a process crashed after it had written.
LEMMA CrashNext == TypeOK /\ InitInv /\ CrashInv /\ [Next]_vars => CrashInv'
<1> SUFFICES ASSUME TypeOK, InitInv, CrashInv, [Next]_vars PROVE CrashInv'
  OBVIOUS
<1> USE DEF TypeOK, CrashInv, IsDirty, Goes, Leaves, region, ghosts
<1>1. ASSUME Settled, ~Reset PROVE Settled'
  BY <1>1, SettledNext
<1>2. ASSUME NEW p \in Procs,
             CreateFile(p) \/ Extend(p) \/ CreateMapping(p) \/ MapView(p) \/ MapFails(p),
             ~Reset
      PROVE  CrashInv'
  BY <1>1, <1>2 DEF CreateFile, Extend, CreateMapping, MapView, MapFails
<1>3. ASSUME NEW p \in Procs,
             InitAlloc(p) \/ InitMagic(p) \/ Validate(p) \/ ClearTable(p) \/ ClearAlloc(p),
             ~Reset
      PROVE  CrashInv'
  BY <1>1, <1>3 DEF InitAlloc, InitMagic, Validate, ClearTable, ClearAlloc
<1>4. ASSUME NEW p \in Procs, InitCounts(p) \/ InitFlags(p) \/ ClearHeader(p) PROVE CrashInv'
  <2>1. ~Settled
    BY <1>4 DEF InitCounts, InitFlags, ClearHeader, Settled
  <2>2. ~unclean
    BY <2>1
  <2>3. QED
    BY <1>4, <2>2 DEF InitCounts, InitFlags, ClearHeader
<1>5. ASSUME NEW p \in Procs, CheckDirty(p), ~Reset PROVE CrashInv'
  BY <1>1, <1>5 DEF CheckDirty
<1>6. ASSUME NEW p \in Procs, Write(p), ~Reset PROVE CrashInv'
  BY <1>1, <1>6, LifecycleAssumption DEF Write
<1>7. ASSUME NEW p \in Procs, Clear(p) \/ Close(p), ~Reset PROVE CrashInv'
  BY <1>1, <1>7 DEF Clear, Close
<1>8. ASSUME NEW p \in Procs, Crash(p), ~Reset PROVE CrashInv'
  <2>1. unclean' => Settled /\ (crashed = 1 \/ IsDirty)
    BY <1>8, LifecycleAssumption DEF Crash
  <2>2. QED
    BY <1>1, <1>8, <2>1 DEF Crash
<1>9. CASE Reset
  BY <1>9 DEF Reset
<1>10. ASSUME UNCHANGED vars, ~Reset PROVE CrashInv'
  BY <1>1, <1>10 DEF vars
<1>11. QED
  BY <1>2, <1>3, <1>4, <1>5, <1>6, <1>7, <1>8, <1>9, <1>10 DEF Next, OpenStep

-----------------------------------------------------------------------------

\* The invariant is inductive.
LEMMA Invariance == Spec => []Inv
<1>1. Inv /\ [Next]_vars => Inv'
  BY TypeNext, InitNext, OwedNext, CrashNext DEF Inv
<1>2. QED
  BY InvInit, <1>1, PTL DEF Spec

\* Every variable of the region's life keeps its type.
THEOREM TypeCorrect == Spec => []TypeOK
<1>1. Inv => TypeOK
  BY DEF Inv
<1>2. QED
  BY Invariance, <1>1, PTL

\* Whoever has come out of Dict::OpenOrCreate (dict.cpp) has a region of this
\* program with its allocator set up, whoever else was creating it or died.
THEOREM Initialised == Spec => []OpenedIsInitialised
<1>1. Inv => OpenedIsInitialised
  BY DEF Inv, InitInv, OpenedIsInitialised, IsOpen, Marked
<1>2. QED
  BY Invariance, <1>1, PTL

\* What was written into a settled region stays until Clear or Reset.
THEOREM Survival == Spec => []WritesSurvive
<1>1. Inv => WritesSurvive
  BY DEF Inv, OwedInv, WritesSurvive
<1>2. QED
  BY Invariance, <1>1, PTL

\* Who opens a settled region in which a process crashed after a write finds
\* crashed set: CheckDirty sees the dirty header, or it was set before.
THEOREM CrashReport == Spec => CrashIsReported
<1> DEFINE Told == \A p \in Procs :
                     pc[p] = "checkDirty" /\ pc'[p] = "open" /\ unclean => crashed' = 1
<1>1. Inv /\ [Next]_vars => [Told]_vars
  <2> SUFFICES ASSUME Inv, Next,
                      NEW p \in Procs, pc[p] = "checkDirty", pc'[p] = "open", unclean
               PROVE  crashed' = 1
    BY DEF Told
  <2>1. TypeOK /\ CrashInv
    BY DEF Inv
  <2>2. CheckDirty(p)
    <3> USE <2>1 DEF TypeOK, Goes, Leaves
    <3>1. ASSUME NEW q \in Procs, OpenStep(q) PROVE CheckDirty(p)
      BY <3>1 DEF OpenStep, Extend, CreateMapping, MapView, MapFails, InitAlloc, InitMagic,
                  InitCounts, InitFlags, Validate, CheckDirty, ClearTable, ClearAlloc, ClearHeader
    <3>2. ASSUME NEW q \in Procs,
                 CreateFile(q) \/ Write(q) \/ Clear(q) \/ Close(q) \/ Crash(q)
          PROVE  FALSE
      BY <3>2 DEF CreateFile, Write, Clear, Close, Crash
    <3>3. ~Reset
      BY DEF Reset
    <3>4. QED
      BY <3>1, <3>2, <3>3 DEF Next
  <2>3. QED
    BY <2>1, <2>2 DEF CrashInv, CheckDirty
<1>2. QED
  BY Invariance, <1>1, PTL DEF Spec, CrashIsReported
=============================================================================
