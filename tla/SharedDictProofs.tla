-------------------------- MODULE SharedDictProofs --------------------------
(***************************************************************************)
(* SharedDict, for any number of processes, keys, slots and hash locks,    *)
(* when nobody calls Clear (which zeroes the words of locks that others    *)
(* may have taken meanwhile).  First the locks exclude and come back; then *)
(* they keep two processes from one chain, the place of a process tells    *)
(* whether its call has taken effect, and the calls are linearizable.      *)
(* Then what is counted: no write is left without a signal, no block is    *)
(* lost, and until a Delete races entryCount and generation are off by at  *)
(* most one for each running write.                                        *)
(***************************************************************************)
EXTENDS SharedDictHistory, SetInduction

Keyed   == {"Set", "Add", "Get", "Has", "Delete"}
Writers == {"Set", "Add"}

\* The kinds of calls the code knows, but for Clear.
NoClear ==
  \A c \in Calls : c.kind \in Keyed \cup {"Keys", "Size", "Status", "Alloc", "Free", "Wait"}

Counting == {"decCheck", "decLoad", "decStore", "tickLoad", "tickStore"}

\* The calls that are found at each place.
KindOK(p) ==
  /\ pc[p] \in {"hashLock", "hashUnlock"} => Kind(p) \in Keyed
  /\ pc[p] \in {"allocLock", "allocUnlock"} =>
       Kind(p) \in {"Set", "Add", "Delete", "Status", "Alloc", "Free"}
  /\ pc[p] \in {"replace", "insert", "incLoad", "incStore"} => Kind(p) \in Writers
  /\ pc[p] \in Counting => Kind(p) \in Writers \cup {"Delete"}
  /\ pc[p] \in {"unlink", "free"} => Kind(p) = "Delete"
  /\ pc[p] = "get" => Kind(p) = "Get"
  /\ pc[p] = "has" => Kind(p) = "Has"
  /\ pc[p] \in {"sweep", "collect", "sweepUnlock"} => Kind(p) = "Keys"
  /\ pc[p] = "measure" => Kind(p) = "Status"
  /\ pc[p] = "bufAlloc" => Kind(p) = "Alloc"
  /\ pc[p] = "bufFree" => Kind(p) = "Free"

\* The places at which a process has the hash lock of its key, if its call is
\* on a key, and those at which it has the allocator lock.
WithHashLock(p) ==
  \/ pc[p] \in Counting
  \/ pc[p] \in {"hashUnlock", "replace", "insert", "incLoad", "incStore",
                "get", "has", "unlink", "free"}
  \/ pc[p] \in {"allocLock", "allocUnlock"} /\ Kind(p) \in Keyed

WithAllocLock(p) ==
  \/ pc[p] \in {"allocUnlock", "replace", "insert", "incLoad", "incStore", "free",
                "measure", "bufAlloc", "bufFree"}
  \/ pc[p] \in Counting /\ Kind(p) \in Writers

Sweeping(p) == pc[p] \in {"sweep", "collect", "sweepUnlock"}

\* The locks a process holds where it is.
Holding(p) ==
  {i \in Locks : \/ WithHashLock(p) /\ i = LockOf(Key(p))
                 \/ WithAllocLock(p) /\ i = AllocLock
                 \/ Sweeping(p) /\ i < at[p]}

SweepOK(p) ==
  /\ pc[p] = "sweep" => at[p] < Pool
  /\ pc[p] = "sweepUnlock" => at[p] >= 1
  /\ pc[p] = "collect" => at[p] = Pool

LockTypes ==
  /\ word \in [Locks -> {0, 1}]
  /\ held \in [Procs -> SUBSET Locks]
  /\ pc \in [Procs -> Places \ {"wipe", "zeroAlloc", "zeroHash"}]
  /\ op \in [Procs -> Calls \cup {NoOp}]
  /\ at \in [Procs -> 0 .. Pool]

\* What is known of one process.
ProcOK(p) ==
  /\ pc[p] # "idle" => op[p] \in Calls
  /\ pc[p] = "idle" => op[p] = NoOp
  /\ KindOK(p)
  /\ SweepOK(p)
  /\ held[p] = Holding(p)

WordOK(i) == word[i] = 1 <=> \E p \in Procs : i \in held[p]

LockInv ==
  /\ LockTypes
  /\ \A p \in Procs : ProcOK(p)
  /\ \A i \in Locks : WordOK(i)
  /\ LockExclusion

-----------------------------------------------------------------------------
(* The locks have different indices. *)

LEMMA LockOfRange ==
  ASSUME NEW k \in Keys
  PROVE  LockOf(k) \in HashLocks /\ LockOf(k) # AllocLock
  BY SharedDictAssumption, SMT DEF LockOf, HashLocks, AllocLock

LEMMA LockIndices ==
  /\ AllocLock \in Locks
  /\ HashLocks \subseteq Locks
  /\ Pool \in Nat \ {0}
  BY SharedDictAssumption DEF Locks, HashLocks, AllocLock

LEMMA LockInvInit == Init => LockInv
  <1> SUFFICES ASSUME Init PROVE LockInv
    OBVIOUS
  <1> USE SharedDictAssumption
  <1>1. LockTypes
    BY DEF Init, LockTypes, Places
  <1>2. ASSUME NEW p \in Procs PROVE ProcOK(p)
    <2>1. held[p] = {} /\ pc[p] = "idle" /\ op[p] = NoOp
      BY DEF Init
    <2>2. Holding(p) = {}
      BY <2>1 DEF Holding, WithHashLock, WithAllocLock, Sweeping, Counting
    <2> QED
      BY <2>1, <2>2 DEF ProcOK, KindOK, SweepOK, Counting
  <1>3. ASSUME NEW i \in Locks PROVE WordOK(i)
    BY DEF Init, WordOK
  <1>4. LockExclusion
    BY DEF Init, LockExclusion
  <1> QED
    BY <1>1, <1>2, <1>3, <1>4 DEF LockInv

-----------------------------------------------------------------------------
(* A step of p leaves the other processes alone, so the invariant follows  *)
(* from what the step does to the lock words and from ProcOK(p)'.          *)

Alone(p) ==
  \A q \in Procs \ {p} :
    /\ pc'[q] = pc[q] /\ op'[q] = op[q] /\ at'[q] = at[q] /\ held'[q] = held[q]

LEMMA OthersOK ==
  ASSUME LockInv, NEW p \in Procs, Alone(p), ProcOK(p)'
  PROVE  \A q \in Procs : ProcOK(q)'
  <1> SUFFICES ASSUME NEW q \in Procs, q # p PROVE ProcOK(q)'
    OBVIOUS
  <1>1. pc'[q] = pc[q] /\ op'[q] = op[q] /\ at'[q] = at[q] /\ held'[q] = held[q]
    BY DEF Alone
  <1>2. ProcOK(q)
    BY DEF LockInv
  <1>3. KindOK(q)'
    BY <1>1, <1>2 DEF ProcOK, KindOK, Kind, Counting
  <1>4. SweepOK(q)'
    BY <1>1, <1>2 DEF ProcOK, SweepOK
  <1>5. Holding(q)' = Holding(q)
    BY <1>1 DEF Holding, WithHashLock, WithAllocLock, Sweeping, Kind, Key, Counting
  <1> QED
    BY <1>1, <1>2, <1>3, <1>4, <1>5 DEF ProcOK

LEMMA QuietStep ==
  ASSUME LockInv, NEW p \in Procs, Alone(p), UNCHANGED locks, LockTypes', ProcOK(p)'
  PROVE  LockInv'
  <1>1. \A q \in Procs : ProcOK(q)'
    BY OthersOK
  <1>2. \A i \in Locks : WordOK(i)'
    BY DEF LockInv, WordOK, locks
  <1>3. LockExclusion'
    BY DEF LockInv, LockExclusion, locks
  <1> QED
    BY <1>1, <1>2, <1>3 DEF LockInv

LEMMA AcquireStep ==
  ASSUME LockInv, NEW p \in Procs, NEW i \in Locks, Acquire(p, i), Alone(p),
         LockTypes', ProcOK(p)'
  PROVE  LockInv'
  <1>1. \A q \in Procs : ProcOK(q)'
    BY OthersOK
  <1>2. LockTypes /\ \A q \in Procs : i \notin held[q]
    BY DEF LockInv, WordOK, Acquire, WordIsFree
  <1>3. /\ word' = [word EXCEPT ![i] = 1]
        /\ held' = [held EXCEPT ![p] = @ \cup {i}]
    BY DEF Acquire
  <1>4. ASSUME NEW j \in Locks PROVE WordOK(j)'
    <2>1. CASE j = i
      BY <1>2, <1>3, <2>1 DEF WordOK, LockTypes
    <2>2. CASE j # i
      <3>1. word'[j] = word[j] /\ \A q \in Procs : j \in held'[q] <=> j \in held[q]
        BY <1>2, <1>3, <2>2 DEF LockTypes
      <3> QED
        BY <3>1 DEF LockInv, WordOK
    <2> QED
      BY <2>1, <2>2
  <1>5. LockExclusion'
    <2> SUFFICES ASSUME NEW q \in Procs, NEW r \in Procs, q # r
                 PROVE  held'[q] \cap held'[r] = {}
      BY DEF LockExclusion
    <2>1. held[q] \cap held[r] = {}
      BY DEF LockInv, LockExclusion
    <2> QED
      BY <1>2, <1>3, <2>1 DEF LockTypes
  <1> QED
    BY <1>1, <1>4, <1>5 DEF LockInv

LEMMA ReleaseStep ==
  ASSUME LockInv, NEW p \in Procs, NEW i \in Locks, i \in held[p], Release(p, i), Alone(p),
         LockTypes', ProcOK(p)'
  PROVE  LockInv'
  <1>1. \A q \in Procs : ProcOK(q)'
    BY OthersOK
  <1>2. LockTypes /\ \A q \in Procs : q # p => i \notin held[q]
    BY DEF LockInv, LockExclusion
  <1>3. /\ word' = [word EXCEPT ![i] = 0]
        /\ held' = [held EXCEPT ![p] = @ \ {i}]
    BY DEF Release
  <1>4. ASSUME NEW j \in Locks PROVE WordOK(j)'
    <2>1. CASE j = i
      BY <1>2, <1>3, <2>1 DEF WordOK, LockTypes
    <2>2. CASE j # i
      <3>1. word'[j] = word[j] /\ \A q \in Procs : j \in held'[q] <=> j \in held[q]
        BY <1>2, <1>3, <2>2 DEF LockTypes
      <3> QED
        BY <3>1 DEF LockInv, WordOK
    <2> QED
      BY <2>1, <2>2
  <1>5. LockExclusion'
    <2> SUFFICES ASSUME NEW q \in Procs, NEW r \in Procs, q # r
                 PROVE  held'[q] \cap held'[r] = {}
      BY DEF LockExclusion
    <2>1. held[q] \cap held[r] = {}
      BY DEF LockInv, LockExclusion
    <2> QED
      BY <1>2, <1>3, <2>1 DEF LockTypes
  <1> QED
    BY <1>1, <1>4, <1>5 DEF LockInv

-----------------------------------------------------------------------------
(* The steps that take or give up a lock, and the ends of a call.          *)

LEMMA LockSteps ==
  ASSUME LockInv, NoClear, NEW p \in Procs, LockStep(p)
  PROVE  LockInv'
  <1> USE LockIndices
  <1>1. LockTypes /\ ProcOK(p)
    BY DEF LockInv
  <1>2. Alone(p)
    BY <1>1 DEF LockStep, HashLock, HashUnlock, TakeAllocLock, AllocUnlock, Goes, Acquire,
                Release, frame, Alone, LockTypes
  <1>3. CASE HashLock(p)
    <2>1. pc[p] = "hashLock" /\ Kind(p) \in Keyed /\ op[p] \in Calls /\ Key(p) \in Keys
      BY <1>1, <1>3, SharedDictAssumption DEF HashLock, Goes, ProcOK, KindOK, Keyed, Kind, Key
    <2>2. LockOf(Key(p)) \in Locks /\ LockOf(Key(p)) # AllocLock
      BY <2>1, LockOfRange
    <2>3. /\ pc' = [pc EXCEPT ![p] = AfterHashLock(Kind(p))]
          /\ Acquire(p, LockOf(Key(p)))
          /\ op' = op /\ at' = at
      BY <1>3 DEF HashLock, Goes, frame
    <2>4. /\ Kind(p) \in {"Set", "Add"} => AfterHashLock(Kind(p)) = "allocLock"
          /\ Kind(p) = "Get" => AfterHashLock(Kind(p)) = "get"
          /\ Kind(p) = "Has" => AfterHashLock(Kind(p)) = "has"
          /\ Kind(p) = "Delete" => AfterHashLock(Kind(p)) = "unlink"
      BY DEF AfterHashLock
    <2>5. held'[p] = held[p] \cup {LockOf(Key(p))} /\ held[p] = {}
      <3>1. held'[p] = held[p] \cup {LockOf(Key(p))}
        BY <1>1, <2>3 DEF Acquire, LockTypes
      <3>2. Holding(p) = {}
        BY <2>1 DEF Holding, WithHashLock, WithAllocLock, Sweeping, Counting
      <3> QED
        BY <1>1, <3>1, <3>2 DEF ProcOK
    <2>6. LockTypes'
      BY <1>1, <2>1, <2>2, <2>3, <2>4 DEF LockTypes, Places, Acquire, Keyed
    <2>7. Holding(p)' = {LockOf(Key(p))}
      BY <1>1, <2>1, <2>2, <2>3, <2>4
         DEF Holding, WithHashLock, WithAllocLock, Sweeping, Counting, Kind, Key, LockTypes, Keyed
    <2>8. ProcOK(p)'
      BY <1>1, <2>1, <2>3, <2>4, <2>5, <2>7
         DEF ProcOK, KindOK, SweepOK, Counting, Kind, LockTypes, Keyed, Writers
    <2> QED
      BY <1>2, <2>2, <2>3, <2>6, <2>8, AcquireStep
  <1>4. CASE HashUnlock(p)
    <2>1. pc[p] = "hashUnlock" /\ Kind(p) \in Keyed /\ op[p] \in Calls /\ Key(p) \in Keys
      BY <1>1, <1>4, SharedDictAssumption DEF HashUnlock, Goes, ProcOK, KindOK, Keyed, Kind, Key
    <2>2. LockOf(Key(p)) \in Locks
      BY <2>1, LockOfRange
    <2>3. PICK to \in {"signal", "return"} :
             /\ pc' = [pc EXCEPT ![p] = to]
             /\ Release(p, LockOf(Key(p)))
             /\ op' = op /\ at' = at
      BY <1>4 DEF HashUnlock, Goes, frame
    <2>4. Holding(p) = {LockOf(Key(p))}
      BY <2>1, <2>2 DEF Holding, WithHashLock, WithAllocLock, Sweeping, Counting
    <2>5. held[p] = {LockOf(Key(p))} /\ held'[p] = {}
      BY <1>1, <2>3, <2>4 DEF ProcOK, Release, LockTypes
    <2>6. LockTypes'
      BY <1>1, <2>2, <2>3 DEF LockTypes, Places, Release
    <2>7. Holding(p)' = {}
      BY <1>1, <2>3 DEF Holding, WithHashLock, WithAllocLock, Sweeping, Counting, LockTypes
    <2>8. ProcOK(p)'
      BY <1>1, <2>1, <2>3, <2>5, <2>7
         DEF ProcOK, KindOK, SweepOK, Counting, Kind, LockTypes
    <2> QED
      BY <1>2, <2>2, <2>3, <2>5, <2>6, <2>8, ReleaseStep
  <1>5. CASE TakeAllocLock(p)
    <2>1. /\ pc[p] = "allocLock" /\ op[p] \in Calls
          /\ Kind(p) \in {"Set", "Add", "Delete", "Status", "Alloc", "Free"}
      BY <1>1, <1>5 DEF TakeAllocLock, Goes, ProcOK, KindOK
    <2>2. /\ pc' = [pc EXCEPT ![p] = AfterAllocLock(Kind(p))]
          /\ Acquire(p, AllocLock)
          /\ op' = op /\ at' = at
      BY <1>5 DEF TakeAllocLock, Goes, frame
    <2>3. /\ Kind(p) \in {"Set", "Add"} => AfterAllocLock(Kind(p)) = "replace"
          /\ Kind(p) = "Delete" => AfterAllocLock(Kind(p)) = "free"
          /\ Kind(p) = "Status" => AfterAllocLock(Kind(p)) = "measure"
          /\ Kind(p) = "Alloc" => AfterAllocLock(Kind(p)) = "bufAlloc"
          /\ Kind(p) = "Free" => AfterAllocLock(Kind(p)) = "bufFree"
      BY DEF AfterAllocLock
    <2>4. held'[p] = Holding(p) \cup {AllocLock}
      BY <1>1, <2>2 DEF Acquire, LockTypes, ProcOK
    <2>5. LockTypes'
      BY <1>1, <2>1, <2>2, <2>3 DEF LockTypes, Places, Acquire
    <2>6. Holding(p)' = Holding(p) \cup {AllocLock}
      BY <1>1, <2>1, <2>2, <2>3
         DEF Holding, WithHashLock, WithAllocLock, Sweeping, Counting, Kind, Key, LockTypes, Keyed
    <2>7. ProcOK(p)'
      BY <1>1, <2>1, <2>2, <2>3, <2>4, <2>6
         DEF ProcOK, KindOK, SweepOK, Counting, Kind, LockTypes, Keyed, Writers
    <2> QED
      BY <1>2, <2>2, <2>5, <2>7, AcquireStep
  <1>6. CASE AllocUnlock(p)
    <2>1. /\ pc[p] = "allocUnlock" /\ op[p] \in Calls
          /\ Kind(p) \in {"Set", "Add", "Delete", "Status", "Alloc", "Free"}
      BY <1>1, <1>6 DEF AllocUnlock, Goes, ProcOK, KindOK
    <2>2. /\ pc' = [pc EXCEPT ![p] = AfterAllocUnlock(Kind(p))]
          /\ Release(p, AllocLock)
          /\ op' = op /\ at' = at
      BY <1>6 DEF AllocUnlock, Goes, frame
    <2>3. /\ Kind(p) \in {"Set", "Add"} => AfterAllocUnlock(Kind(p)) = "hashUnlock"
          /\ Kind(p) = "Delete" => AfterAllocUnlock(Kind(p)) = "decCheck"
          /\ Kind(p) \in {"Status", "Alloc", "Free"} => AfterAllocUnlock(Kind(p)) = "return"
      BY DEF AfterAllocUnlock
    <2>4. held'[p] = Holding(p) \ {AllocLock} /\ AllocLock \in held[p]
      BY <1>1, <2>1, <2>2 DEF Release, LockTypes, ProcOK, Holding, WithAllocLock
    <2>5. LockTypes'
      BY <1>1, <2>1, <2>2, <2>3 DEF LockTypes, Places, Release
    <2>6. Kind(p) \in Keyed => LockOf(Key(p)) # AllocLock
      BY <2>1, LockOfRange, SharedDictAssumption DEF Keyed, Kind, Key
    <2>7. Holding(p)' = Holding(p) \ {AllocLock}
      BY <1>1, <2>1, <2>2, <2>3, <2>6
         DEF Holding, WithHashLock, WithAllocLock, Sweeping, Counting, Kind, Key, LockTypes,
             Keyed, Writers
    <2>8. ProcOK(p)'
      BY <1>1, <2>1, <2>2, <2>3, <2>4, <2>7
         DEF ProcOK, KindOK, SweepOK, Counting, Kind, LockTypes, Keyed, Writers
    <2> QED
      BY <1>2, <2>2, <2>4, <2>5, <2>8, ReleaseStep
  <1> QED
    BY <1>3, <1>4, <1>5, <1>6 DEF LockStep

LEMMA SweepSteps ==
  ASSUME LockInv, NoClear, NEW p \in Procs, Sweep(p) \/ SweepUnlock(p)
  PROVE  LockInv'
  <1> USE LockIndices
  <1>1. LockTypes /\ ProcOK(p)
    BY DEF LockInv
  <1>2. Alone(p)
    BY <1>1 DEF Sweep, SweepUnlock, Goes, Acquire, Release, frame, Alone, LockTypes
  <1>3. CASE Sweep(p)
    <2>1. /\ pc[p] = "sweep" /\ Kind(p) = "Keys" /\ op[p] \in Calls
          /\ at[p] \in 0 .. Pool - 1
      BY <1>1, <1>3 DEF Sweep, Goes, ProcOK, KindOK, SweepOK, LockTypes
    <2>2. at[p] \in Locks
      BY <2>1 DEF HashLocks
    <2>3. /\ pc' = [pc EXCEPT ![p] = IF at[p] + 1 < Pool THEN "sweep" ELSE "collect"]
          /\ Acquire(p, at[p])
          /\ op' = op
          /\ at' = [at EXCEPT ![p] = at[p] + 1]
      BY <1>3, <2>1 DEF Sweep, Goes, frame
    <2>4. held'[p] = Holding(p) \cup {at[p]}
      BY <1>1, <2>3 DEF Acquire, LockTypes, ProcOK
    <2>5. LockTypes'
      BY <1>1, <2>1, <2>2, <2>3 DEF LockTypes, Places, Acquire
    <2>6. Holding(p)' = Holding(p) \cup {at[p]}
      <3>1. Holding(p) = {i \in Locks : i < at[p]}
        BY <2>1 DEF Holding, WithHashLock, WithAllocLock, Sweeping, Counting
      <3>2. Holding(p)' = {i \in Locks : i < at[p] + 1}
        BY <1>1, <2>1, <2>3
           DEF Holding, WithHashLock, WithAllocLock, Sweeping, Counting, LockTypes
      <3> QED
        BY <2>1, <2>2, <3>1, <3>2 DEF Locks, HashLocks, AllocLock
    <2>7. ProcOK(p)'
      BY <1>1, <2>1, <2>3, <2>4, <2>6
         DEF ProcOK, KindOK, SweepOK, Counting, Kind, LockTypes
    <2> QED
      BY <1>2, <2>2, <2>3, <2>5, <2>7, AcquireStep
  <1>4. CASE SweepUnlock(p)
    <2>1. /\ pc[p] = "sweepUnlock" /\ Kind(p) = "Keys" /\ op[p] \in Calls
          /\ at[p] \in 1 .. Pool
      BY <1>1, <1>4 DEF SweepUnlock, Goes, ProcOK, KindOK, SweepOK, LockTypes
    <2>2. at[p] - 1 \in Locks
      BY <2>1 DEF HashLocks
    <2>3. /\ pc' = [pc EXCEPT ![p] = IF at[p] = 1 THEN "return" ELSE "sweepUnlock"]
          /\ Release(p, at[p] - 1)
          /\ op' = op
          /\ at' = [at EXCEPT ![p] = at[p] - 1]
      BY <1>4 DEF SweepUnlock, Goes, frame
    <2>4. Holding(p) = {i \in Locks : i < at[p]}
      BY <2>1 DEF Holding, WithHashLock, WithAllocLock, Sweeping, Counting
    <2>5. held'[p] = Holding(p) \ {at[p] - 1} /\ at[p] - 1 \in held[p]
      BY <1>1, <2>1, <2>2, <2>3, <2>4 DEF Release, LockTypes, ProcOK
    <2>6. LockTypes'
      BY <1>1, <2>1, <2>2, <2>3 DEF LockTypes, Places, Release
    <2>7. Holding(p)' = Holding(p) \ {at[p] - 1}
      <3>1. Holding(p)' = {i \in Locks : i < at[p] - 1}
        BY <1>1, <2>1, <2>3
           DEF Holding, WithHashLock, WithAllocLock, Sweeping, Counting, LockTypes,
               Locks, HashLocks, AllocLock
      <3> QED
        BY <2>1, <2>4, <3>1 DEF Locks, HashLocks, AllocLock
    <2>8. ProcOK(p)'
      BY <1>1, <2>1, <2>3, <2>5, <2>7
         DEF ProcOK, KindOK, SweepOK, Counting, Kind, LockTypes
    <2> QED
      BY <1>2, <2>2, <2>3, <2>5, <2>6, <2>8, ReleaseStep
  <1> QED
    BY <1>3, <1>4

-----------------------------------------------------------------------------
(* The steps in between, which change no lock.                             *)

\* p goes on to a place at which it holds the same locks.
Moves(p, to) ==
  /\ pc' = [pc EXCEPT ![p] = to]
  /\ UNCHANGED <<locks, op, at>>

LEMMA MoveStep ==
  ASSUME LockInv, NEW p \in Procs, NEW to \in Places \ {"idle", "wipe", "zeroAlloc", "zeroHash"},
         Moves(p, to), pc[p] # "idle", KindOK(p)', SweepOK(p)', Holding(p)' = Holding(p)
  PROVE  LockInv'
  <1>1. LockTypes /\ ProcOK(p)
    BY DEF LockInv
  <1>2. LockTypes'
    BY <1>1 DEF LockTypes, Moves, locks
  <1>3. Alone(p)
    BY <1>1 DEF Alone, Moves, locks, LockTypes
  <1>4. ProcOK(p)'
    BY <1>1 DEF ProcOK, Moves, locks, LockTypes
  <1> QED
    BY <1>2, <1>3, <1>4, QuietStep DEF Moves

LEMMA WriterSteps ==
  ASSUME LockInv, NEW p \in Procs, WriteStep(p) \/ CountStep(p)
  PROVE  LockInv'
  <1>1. LockTypes /\ ProcOK(p)
    BY DEF LockInv
  <1> DEFINE Midway == {"replace", "insert", "incLoad", "incStore"} \cup Counting
  <1>2. CASE Signal(p)
    <2>1. Moves(p, "return") /\ pc[p] = "signal"
      BY <1>2 DEF Signal, Goes, Moves, frame
    <2>2. Holding(p) = {} /\ Holding(p)' = {}
      BY <1>1, <2>1 DEF Holding, WithHashLock, WithAllocLock, Sweeping, Counting, Moves, LockTypes
    <2>3. KindOK(p)' /\ SweepOK(p)'
      BY <1>1, <2>1 DEF KindOK, SweepOK, Counting, Moves, LockTypes
    <2> QED
      BY <2>1, <2>2, <2>3, MoveStep DEF Places
  <1>3. ASSUME NEW to, Moves(p, to), pc[p] \in Midway, Kind(p) \in Writers,
               to \in Midway \cup {"allocUnlock"}
        PROVE  LockInv'
    <2>1. Holding(p)' = Holding(p)
      BY <1>1, <1>3
         DEF Holding, WithHashLock, WithAllocLock, Sweeping, Counting, Moves, LockTypes,
             Kind, Key, Keyed, Writers
    <2>2. KindOK(p)' /\ SweepOK(p)'
      BY <1>1, <1>3 DEF KindOK, SweepOK, Counting, Moves, LockTypes, Kind, Writers
    <2> QED
      BY <1>3, <2>1, <2>2, MoveStep DEF Places, Counting
  <1>4. ASSUME NEW to, Moves(p, to), pc[p] \in Counting, Kind(p) = "Delete",
               to \in Counting \cup {"hashUnlock"}
        PROVE  LockInv'
    <2>1. Holding(p)' = Holding(p)
      BY <1>1, <1>4
         DEF Holding, WithHashLock, WithAllocLock, Sweeping, Counting, Moves, LockTypes,
             Kind, Key, Keyed, Writers
    <2>2. KindOK(p)' /\ SweepOK(p)'
      BY <1>1, <1>4 DEF KindOK, SweepOK, Counting, Moves, LockTypes, Kind, Keyed
    <2> QED
      BY <1>4, <2>1, <2>2, MoveStep DEF Places, Counting
  <1>5. CASE Replace(p) \/ Insert(p) \/ InsertFails(p)
    <2>1. pc[p] \in Midway /\ Kind(p) \in Writers
      BY <1>1, <1>5 DEF Replace, Insert, InsertFails, Goes, ProcOK, KindOK
    <2>2. PICK to \in Midway \cup {"allocUnlock"} : Moves(p, to)
      BY <1>5 DEF Replace, Insert, InsertFails, Goes, Removed, Moves, frame, Counting
    <2> QED
      BY <1>3, <2>1, <2>2
  <1>6. CASE CountStep(p)
    <2>1. pc[p] \in Midway /\ Kind(p) \in Writers \cup {"Delete"}
      BY <1>1, <1>6 DEF CountStep, DecCheck, DecLoad, DecStore, IncLoad, IncStore, TickLoad,
                        TickStore, Goes, ProcOK, KindOK, Counting
    <2>2. CASE Kind(p) \in Writers
      <3>1. PICK to \in Midway \cup {"allocUnlock"} : Moves(p, to)
        BY <1>6, <2>2 DEF CountStep, DecCheck, DecLoad, DecStore, IncLoad, IncStore, TickLoad,
                          TickStore, Goes, AfterDec, Moves, frame, Counting, Writers
      <3> QED
        BY <1>3, <2>1, <2>2, <3>1
    <2>3. CASE Kind(p) = "Delete"
      <3>1. pc[p] \in Counting /\ ~IncLoad(p) /\ ~IncStore(p)
        BY <1>1, <1>6, <2>1, <2>3 DEF ProcOK, KindOK, Writers, CountStep, DecCheck, DecLoad,
             DecStore, IncLoad, IncStore, TickLoad, TickStore, Goes, Counting
      <3>2. PICK to \in Counting \cup {"hashUnlock"} : Moves(p, to)
        BY <1>6, <2>3, <3>1 DEF CountStep, DecCheck, DecLoad, DecStore, TickLoad,
                          TickStore, Goes, AfterDec, Moves, frame, Counting
      <3> QED
        BY <1>4, <2>3, <3>1, <3>2
    <2> QED
      BY <2>1, <2>2, <2>3
  <1> QED
    BY <1>2, <1>5, <1>6 DEF WriteStep

LEMMA ReaderSteps ==
  ASSUME LockInv, NEW p \in Procs, KeyStep(p) \/ Collect(p) \/ OtherStep(p)
  PROVE  LockInv'
  <1>1. LockTypes /\ ProcOK(p)
    BY DEF LockInv
  <1> USE DEF Goes, Moves, frame, Counting, LockTypes
  <1>2. CASE Get(p) \/ Has(p) \/ DeleteMisses(p)
    <2>1. Moves(p, "hashUnlock") /\ pc[p] \in {"get", "has", "unlink"} /\ Kind(p) \in Keyed
      BY <1>1, <1>2 DEF Get, Has, DeleteMisses, ProcOK, KindOK, Keyed
    <2>2. Holding(p)' = Holding(p)
      BY <1>1, <2>1 DEF Holding, WithHashLock, WithAllocLock, Sweeping, Kind, Key
    <2>3. KindOK(p)' /\ SweepOK(p)'
      BY <1>1, <2>1 DEF KindOK, SweepOK, Kind
    <2> QED
      BY <2>1, <2>2, <2>3, MoveStep DEF Places
  <1>3. CASE Unlink(p) \/ FreeEntry(p)
    <2>1. /\ Kind(p) = "Delete"
          /\ \/ Moves(p, "allocLock") /\ pc[p] = "unlink"
             \/ Moves(p, "allocUnlock") /\ pc[p] = "free"
      BY <1>1, <1>3 DEF Unlink, FreeEntry, ProcOK, KindOK
    <2>2. Holding(p)' = Holding(p)
      BY <1>1, <2>1 DEF Holding, WithHashLock, WithAllocLock, Sweeping, Kind, Key, Keyed
    <2>3. KindOK(p)' /\ SweepOK(p)'
      BY <1>1, <2>1 DEF KindOK, SweepOK, Kind
    <2> QED
      BY <2>1, <2>2, <2>3, MoveStep DEF Places
  <1>4. CASE Collect(p)
    <2>1. Moves(p, "sweepUnlock") /\ pc[p] = "collect" /\ Kind(p) = "Keys" /\ at[p] = Pool
      BY <1>1, <1>4 DEF Collect, ProcOK, KindOK, SweepOK
    <2>2. Holding(p)' = Holding(p)
      BY <1>1, <2>1 DEF Holding, WithHashLock, WithAllocLock, Sweeping, Kind, Key
    <2>3. KindOK(p)' /\ SweepOK(p)'
      BY <1>1, <2>1, LockIndices DEF KindOK, SweepOK, Kind
    <2> QED
      BY <2>1, <2>2, <2>3, MoveStep DEF Places
  <1>5. CASE Measure(p) \/ BufferAlloc(p) \/ BufferFree(p)
    <2>1. /\ Moves(p, "allocUnlock") /\ pc[p] \in {"measure", "bufAlloc", "bufFree"}
          /\ Kind(p) \in {"Status", "Alloc", "Free"}
      BY <1>1, <1>5 DEF Measure, BufferAlloc, BufferFree, ProcOK, KindOK
    <2>2. Holding(p)' = Holding(p)
      BY <1>1, <2>1 DEF Holding, WithHashLock, WithAllocLock, Sweeping, Kind, Key, Keyed
    <2>3. KindOK(p)' /\ SweepOK(p)'
      BY <1>1, <2>1 DEF KindOK, SweepOK, Kind
    <2> QED
      BY <2>1, <2>2, <2>3, MoveStep DEF Places
  <1>6. CASE ReadSize(p) \/ WaitEnds(p) \/ WaitTimesOut(p)
    <2>1. Moves(p, "return") /\ pc[p] \in {"size", "wait"}
      BY <1>6 DEF ReadSize, WaitEnds, WaitTimesOut
    <2>2. Holding(p)' = Holding(p)
      BY <1>1, <2>1 DEF Holding, WithHashLock, WithAllocLock, Sweeping, Kind, Key
    <2>3. KindOK(p)' /\ SweepOK(p)'
      BY <1>1, <2>1 DEF KindOK, SweepOK, Kind
    <2> QED
      BY <2>1, <2>2, <2>3, MoveStep DEF Places
  <1> QED
    BY <1>2, <1>3, <1>4, <1>5, <1>6 DEF KeyStep, OtherStep

-----------------------------------------------------------------------------
(* The beginning and the end of a call.                                    *)

LEMMA CallSteps ==
  ASSUME LockInv, NoClear, NEW p \in Procs,
         Return(p) \/ \E c \in Calls : Invoke(p, c)
  PROVE  LockInv'
  <1>1. LockTypes /\ ProcOK(p)
    BY DEF LockInv
  <1>2. CASE Return(p)
    <2>1. /\ pc[p] = "return" /\ pc' = [pc EXCEPT ![p] = "idle"]
          /\ op' = [op EXCEPT ![p] = NoOp] /\ at' = at /\ UNCHANGED locks
      BY <1>2 DEF Return, Goes
    <2>2. Alone(p) /\ LockTypes'
      BY <1>1, <2>1 DEF Alone, LockTypes, locks, Places
    <2>3. Holding(p) = {} /\ Holding(p)' = {}
      BY <1>1, <2>1 DEF Holding, WithHashLock, WithAllocLock, Sweeping, Counting, LockTypes
    <2>4. ProcOK(p)'
      BY <1>1, <2>1, <2>3 DEF ProcOK, KindOK, SweepOK, Counting, LockTypes, locks
    <2> QED
      BY <2>1, <2>2, <2>4, QuietStep
  <1>3. ASSUME NEW c \in Calls, Invoke(p, c) PROVE LockInv'
    <2>1. /\ pc[p] = "idle" /\ pc' = [pc EXCEPT ![p] = FirstPlace(c.kind)]
          /\ op' = [op EXCEPT ![p] = c] /\ at' = [at EXCEPT ![p] = 0] /\ UNCHANGED locks
      BY <1>3 DEF Invoke, Goes
    <2>2. /\ c.kind \in Keyed => FirstPlace(c.kind) = "hashLock"
          /\ c.kind = "Keys" => FirstPlace(c.kind) = "sweep"
          /\ c.kind \in {"Status", "Alloc", "Free"} => FirstPlace(c.kind) = "allocLock"
          /\ c.kind = "Size" => FirstPlace(c.kind) = "size"
          /\ c.kind = "Wait" => FirstPlace(c.kind) = "wait"
      BY DEF FirstPlace, Keyed
    <2>3. c.kind \in Keyed \cup {"Keys", "Size", "Status", "Alloc", "Free", "Wait"}
      BY DEF NoClear
    <2>4. Alone(p)
      BY <1>1, <2>1 DEF Alone, LockTypes, locks
    <2>5. LockTypes'
      BY <1>1, <2>1, <2>2, <2>3, LockIndices DEF LockTypes, locks, Places
    <2>6. Holding(p) = {}
      BY <2>1 DEF Holding, WithHashLock, WithAllocLock, Sweeping, Counting
    <2>7. Holding(p)' = {}
      BY <1>1, <2>1, <2>2, <2>3, LockIndices
         DEF Holding, WithHashLock, WithAllocLock, Sweeping, Counting, LockTypes, Kind,
             Keyed, Locks, HashLocks, AllocLock
    <2>8. ProcOK(p)'
      BY <1>1, <2>1, <2>2, <2>3, <2>6, <2>7, LockIndices
         DEF ProcOK, KindOK, SweepOK, Counting, LockTypes, locks, Kind, Keyed
    <2> QED
      BY <2>1, <2>4, <2>5, <2>8, QuietStep
  <1> QED
    BY <1>2, <1>3

LEMMA LockInvNext ==
  ASSUME LockInv, NoClear, [Next]_vars
  PROVE  LockInv'
  <1>1. CASE UNCHANGED vars
    <2>1. UNCHANGED <<word, pc, op, at, held>>
      BY <1>1 DEF vars
    <2>2. LockTypes'
      BY <2>1 DEF LockInv, LockTypes
    <2>3. ASSUME NEW p \in Procs PROVE ProcOK(p)'
      BY <2>1 DEF LockInv, ProcOK, KindOK, SweepOK, Holding, WithHashLock, WithAllocLock,
                  Sweeping, Counting, Kind, Key
    <2>4. (\A i \in Locks : WordOK(i)') /\ LockExclusion'
      BY <2>1 DEF LockInv, WordOK, LockExclusion
    <2> QED
      BY <2>2, <2>3, <2>4 DEF LockInv
  <1>2. ASSUME NEW p \in Procs, Step(p) \/ \E c \in Calls : Invoke(p, c)
        PROVE  LockInv'
    <2>1. ~Wipe(p) /\ ~ZeroAllocLock(p) /\ ~ZeroHashLock(p)
      BY DEF LockInv, LockTypes, Wipe, ZeroAllocLock, ZeroHashLock, Goes
    <2> QED
      BY <1>2, <2>1, LockSteps, SweepSteps, WriterSteps, ReaderSteps, CallSteps
         DEF Step, SweepStep
  <1> QED
    BY <1>1, <1>2 DEF Next

LEMMA LockInvHolds == ASSUME LockInv PROVE LockExclusion /\ WordsTellHeld
  <1>1. ASSUME NEW p \in Procs, NEW i \in held[p] PROVE op[p] # NoOp
    <2>1. Holding(p) # {} /\ ProcOK(p)
      BY <1>1 DEF LockInv, ProcOK
    <2>2. pc[p] # "idle"
      BY <2>1 DEF Holding, WithHashLock, WithAllocLock, Sweeping, Counting
    <2> QED
      BY <2>1, <2>2, SharedDictAssumption DEF ProcOK
  <1> QED
    BY <1>1 DEF LockInv, WordOK, WordsTellHeld

-----------------------------------------------------------------------------

\* No two processes hold the same hash lock or the allocator lock together, for
\* any number of each, as long as Clear is not called.
THEOREM Exclusion == ASSUME NoClear PROVE Spec => []LockExclusion
  <1>1. Init => LockInv
    BY LockInvInit
  <1>2. LockInv /\ [Next]_vars => LockInv'
    BY LockInvNext
  <1>3. LockInv => LockExclusion
    BY LockInvHolds
  <1> QED
    BY <1>1, <1>2, <1>3, PTL DEF Spec

\* Without Clear, every path through every call gives back the locks it took.
THEOREM NoLockLeaks == ASSUME NoClear PROVE Spec => []WordsTellHeld
  <1>1. Init => LockInv
    BY LockInvInit
  <1>2. LockInv /\ [Next]_vars => LockInv'
    BY LockInvNext
  <1>3. LockInv => WordsTellHeld
    BY LockInvHolds
  <1> QED
    BY <1>1, <1>2, <1>3, PTL DEF Spec

-----------------------------------------------------------------------------
(* The map.  The locks are what keeps two processes from one chain.        *)

\* The values calls write: a type tag of the binding and a number.
ValTypes == {c.val.type : c \in {d \in Calls : d.kind \in Writers}}
Vals     == [type : ValTypes, n : Int]

\* The calls write values, and the marks are none of the results.
TypedCalls ==
  /\ \A c \in Calls : c.kind \in Writers => c.val \in Vals
  /\ Absent \notin Vals
  /\ NoRet \notin Vals \cup {Absent, OOM} \cup BOOLEAN \cup SUBSET Keys

EntryType == [key : Keys, val : Vals]

-----------------------------------------------------------------------------
(* Tables of chains that have each key once, in its own slot.              *)

EntriesIn(t, s) == {t[s][i] : i \in 1 .. Len(t[s])}

\* No entry of the table has the key k.
GoneFrom(t, k) == \A e \in EntriesIn(t, SlotOf[k]) : e.key # k

TableOK(t) ==
  /\ t \in [Slots -> Seq(EntryType)]
  /\ \A s \in Slots : \A e \in EntriesIn(t, s) : SlotOf[e.key] = s
  /\ \A s \in Slots : \A i, j \in 1 .. Len(t[s]) : t[s][i].key = t[s][j].key => i = j

MatchesIn(t, k) == {i \in 1 .. Len(t[SlotOf[k]]) : t[SlotOf[k]][i].key = k}
FindIn(t, k)    == IF MatchesIn(t, k) # {} THEN Min(MatchesIn(t, k)) ELSE 0
ValueIn(t, k)   == IF FindIn(t, k) = 0 THEN Absent ELSE t[SlotOf[k]][FindIn(t, k)].val

\* FindKey in terms of these.
LEMMA Lookups ==
  ASSUME NEW k
  PROVE  /\ Find(k) = FindIn(chain, k) /\ Find(k)' = FindIn(chain', k)
         /\ Value(k) = ValueIn(chain, k) /\ Value(k)' = ValueIn(chain', k)
  <1>1. Find(k) = FindIn(chain, k) /\ Find(k)' = FindIn(chain', k)
    BY DEF Find, SelectInSeq, IsKey, FindIn, MatchesIn
  <1> QED
    BY <1>1 DEF Value, ValueIn

LEMMA SlotInSlots == ASSUME NEW k \in Keys PROVE SlotOf[k] \in Slots
  BY DEF Slots

LEMMA MinOfOne == ASSUME NEW i \in Nat PROVE Min({i}) = i
  BY DEF Min

\* At most one entry has the key k, and it is found.
LEMMA FindIs ==
  ASSUME NEW t, TableOK(t), TypedCalls, NEW k \in Keys
  PROVE  /\ GoneFrom(t, k) => MatchesIn(t, k) = {} /\ FindIn(t, k) = 0
         /\ ~GoneFrom(t, k) => /\ FindIn(t, k) \in 1 .. Len(t[SlotOf[k]])
                               /\ t[SlotOf[k]][FindIn(t, k)].key = k
                               /\ MatchesIn(t, k) = {FindIn(t, k)}
  <1>1. SlotOf[k] \in Slots /\ t[SlotOf[k]] \in Seq(EntryType)
    BY SlotInSlots DEF TableOK
  <1>2. CASE GoneFrom(t, k)
    BY <1>2 DEF GoneFrom, EntriesIn, MatchesIn, FindIn
  <1>3. CASE ~GoneFrom(t, k)
    <2>1. PICK i \in 1 .. Len(t[SlotOf[k]]) : t[SlotOf[k]][i].key = k
      BY <1>3 DEF GoneFrom, EntriesIn
    <2>2. MatchesIn(t, k) = {i}
      BY <1>1, <2>1 DEF MatchesIn, TableOK
    <2>3. FindIn(t, k) = i
      BY <1>1, <2>2, MinOfOne DEF FindIn
    <2> QED
      BY <1>3, <2>1, <2>2, <2>3
  <1> QED
    BY <1>2, <1>3

LEMMA ValueIs ==
  ASSUME NEW t, TableOK(t), TypedCalls, NEW k \in Keys
  PROVE  /\ \A e \in EntriesIn(t, SlotOf[k]) : e.key = k => ValueIn(t, k) = e.val
         /\ GoneFrom(t, k) <=> FindIn(t, k) = 0
         /\ GoneFrom(t, k) <=> ValueIn(t, k) = Absent
         /\ ValueIn(t, k) \in Vals \cup {Absent}
  <1>1. SlotOf[k] \in Slots /\ t[SlotOf[k]] \in Seq(EntryType)
    BY SlotInSlots DEF TableOK
  <1>2. CASE GoneFrom(t, k)
    BY <1>2, FindIs DEF GoneFrom, ValueIn
  <1>3. CASE ~GoneFrom(t, k)
    <2> DEFINE i == FindIn(t, k)
    <2>1. i \in 1 .. Len(t[SlotOf[k]]) /\ t[SlotOf[k]][i].key = k
      BY <1>3, FindIs
    <2>2. i # 0 /\ t[SlotOf[k]][i] \in EntryType
      BY <1>1, <2>1
    <2>3. ValueIn(t, k) = t[SlotOf[k]][i].val
      BY <2>2 DEF ValueIn
    <2>4. ASSUME NEW e \in EntriesIn(t, SlotOf[k]), e.key = k PROVE e = t[SlotOf[k]][i]
      BY <1>1, <2>1, <2>4 DEF EntriesIn, TableOK
    <2> QED
      BY <1>3, <2>2, <2>3, <2>4 DEF TypedCalls, EntryType
  <1> QED
    BY <1>2, <1>3

\* Two tables with the same entries of a key have the same value for it.
LEMMA SameValue ==
  ASSUME NEW t, NEW u, TableOK(t), TableOK(u), TypedCalls, NEW k \in Keys,
         \A e \in EntryType : e.key = k =>
           (e \in EntriesIn(t, SlotOf[k]) <=> e \in EntriesIn(u, SlotOf[k]))
  PROVE  ValueIn(u, k) = ValueIn(t, k) /\ (GoneFrom(u, k) <=> GoneFrom(t, k))
  <1>1. /\ SlotOf[k] \in Slots
        /\ EntriesIn(t, SlotOf[k]) \subseteq EntryType
        /\ EntriesIn(u, SlotOf[k]) \subseteq EntryType
    BY SlotInSlots DEF TableOK, EntriesIn
  <1>2. CASE GoneFrom(t, k)
    <2>1. GoneFrom(u, k)
      BY <1>1, <1>2 DEF GoneFrom
    <2> QED
      BY <1>2, <2>1, ValueIs
  <1>3. CASE ~GoneFrom(t, k)
    <2>1. PICK e \in EntriesIn(t, SlotOf[k]) : e.key = k
      BY <1>3 DEF GoneFrom
    <2>2. e \in EntriesIn(u, SlotOf[k]) /\ ~GoneFrom(u, k)
      BY <1>1, <2>1 DEF GoneFrom
    <2> QED
      BY <1>3, <2>1, <2>2, ValueIs
  <1> QED
    BY <1>2, <1>3

-----------------------------------------------------------------------------
(* Sequences without one element, and with one more at the head.           *)

LEMMA RemoveAtIs ==
  ASSUME NEW S, NEW c \in Seq(S), NEW i \in 1 .. Len(c)
  PROVE  /\ RemoveAt(c, i) \in Seq(S)
         /\ Len(RemoveAt(c, i)) = Len(c) - 1
         /\ \A j \in 1 .. Len(c) - 1 : RemoveAt(c, i)[j] = IF j < i THEN c[j] ELSE c[j + 1]
  <1> DEFINE a == SubSeq(c, 1, i - 1)
             b == SubSeq(c, i + 1, Len(c))
  <1>1. /\ a \in Seq(S) /\ Len(a) = i - 1
        /\ \A j \in 1 .. i - 1 : a[j] = c[j]
    OBVIOUS
  <1>2. /\ b \in Seq(S) /\ Len(b) = Len(c) - i
        /\ \A j \in 1 .. Len(c) - i : b[j] = c[i + j]
    OBVIOUS
  <1>3. RemoveAt(c, i) = a \o b
    BY DEF RemoveAt
  <1> HIDE DEF a, b
  <1>4. /\ a \o b \in Seq(S)
        /\ Len(a \o b) = Len(a) + Len(b)
        /\ \A j \in 1 .. Len(a) + Len(b) :
             (a \o b)[j] = IF j <= Len(a) THEN a[j] ELSE b[j - Len(a)]
    BY <1>1, <1>2, ConcatProperties, Zenon
  <1>5. Len(a) + Len(b) = Len(c) - 1
    BY <1>1, <1>2
  <1>6. ASSUME NEW j \in 1 .. Len(c) - 1
        PROVE  (a \o b)[j] = IF j < i THEN c[j] ELSE c[j + 1]
    <2>1. (a \o b)[j] = IF j <= i - 1 THEN a[j] ELSE b[j - (i - 1)]
      BY <1>1, <1>4, <1>5, Zenon
    <2>2. CASE j < i
      BY <1>1, <2>1, <2>2
    <2>3. CASE ~(j < i)
      <3>1. j - (i - 1) \in 1 .. Len(c) - i /\ i + (j - (i - 1)) = j + 1
        BY <2>3
      <3>2. b[j - (i - 1)] = c[j + 1]
        BY <1>2, <3>1
      <3> QED
        BY <2>1, <2>3, <3>2
    <2> QED
      BY <2>2, <2>3
  <1> QED
    BY <1>3, <1>4, <1>5, <1>6, Zenon

LEMMA ConsIs ==
  ASSUME NEW S, NEW c \in Seq(S), NEW e \in S
  PROVE  /\ <<e>> \o c \in Seq(S)
         /\ Len(<<e>> \o c) = Len(c) + 1
         /\ (<<e>> \o c)[1] = e
         /\ \A j \in 1 .. Len(c) : (<<e>> \o c)[j + 1] = c[j]
  <1> DEFINE a == <<e>>
  <1>1. a \in Seq(S) /\ Len(a) = 1 /\ a[1] = e
    OBVIOUS
  <1>2. a = <<e>>
    OBVIOUS
  <1> HIDE DEF a
  <1>3. /\ a \o c \in Seq(S)
        /\ Len(a \o c) = Len(a) + Len(c)
        /\ \A j \in 1 .. Len(a) + Len(c) :
             (a \o c)[j] = IF j <= Len(a) THEN a[j] ELSE c[j - Len(a)]
    BY <1>1, ConcatProperties, Zenon
  <1> QED
    BY <1>1, <1>2, <1>3

-----------------------------------------------------------------------------
(* RemoveKey and LinkEntry.                                                *)

LEMMA Removal ==
  ASSUME TableOK(chain), TypedCalls, NEW k \in Keys, chain' = RemoveKey(k)
  PROVE  /\ TableOK(chain')
         /\ GoneFrom(chain', k)
         /\ \A x \in Keys \ {k} : ValueIn(chain', x) = ValueIn(chain, x)
         /\ \A s \in Slots \ {SlotOf[k]} : chain'[s] = chain[s]
  <1> DEFINE s == SlotOf[k]
             c == chain[s]
             i == FindIn(chain, k)
  <1>1. s \in Slots /\ c \in Seq(EntryType)
    BY SlotInSlots DEF TableOK
  <1>2. chain' = [chain EXCEPT ![s] = IF MatchesIn(chain, k) = {} THEN c ELSE RemoveAt(c, i)]
    BY DEF RemoveKey, RemoveFirstMatch, SelectInSeq, IsKey, MatchesIn, FindIn
  <1>3. CASE GoneFrom(chain, k)
    <2>1. chain' = chain
      BY <1>1, <1>2, <1>3, FindIs DEF TableOK
    <2> QED
      BY <1>3, <2>1
  <1>4. CASE ~GoneFrom(chain, k)
    <2> DEFINE d == RemoveAt(c, i)
    <2>1. i \in 1 .. Len(c) /\ c[i].key = k /\ MatchesIn(chain, k) # {}
      BY <1>4, FindIs
    <2>2. chain' = [chain EXCEPT ![s] = d]
      BY <1>2, <2>1
    <2>3. /\ d \in Seq(EntryType) /\ Len(d) = Len(c) - 1
          /\ \A j \in 1 .. Len(c) - 1 : d[j] = IF j < i THEN c[j] ELSE c[j + 1]
      BY <1>1, <2>1, RemoveAtIs
    <2> HIDE DEF d, i
    <2>4. /\ chain' \in [Slots -> Seq(EntryType)] /\ chain'[s] = d
          /\ \A x \in Slots \ {s} : chain'[x] = chain[x]
      BY <1>1, <2>2, <2>3 DEF TableOK
    <2>5. \A e \in EntryType : e \in EntriesIn(chain', s) <=> e \in EntriesIn(chain, s) /\ e.key # k
      <3>1. ASSUME NEW j \in 1 .. Len(d) PROVE d[j] \in EntriesIn(chain, s) /\ d[j].key # k
        <4>1. \E n \in 1 .. Len(c) : n # i /\ d[j] = c[n]
          <5>1. CASE j < i
            <6>1. j \in 1 .. Len(c) /\ j # i /\ d[j] = c[j]
              BY <1>1, <2>1, <2>3, <5>1
            <6> QED
              BY <6>1
          <5>2. CASE ~(j < i)
            <6>1. j + 1 \in 1 .. Len(c) /\ j + 1 # i /\ d[j] = c[j + 1]
              BY <1>1, <2>1, <2>3, <5>2
            <6> QED
              BY <6>1
          <5> QED
            BY <5>1, <5>2
        <4>2. PICK n \in 1 .. Len(c) : n # i /\ d[j] = c[n]
          BY <4>1
        <4>3. c[n].key # k
          BY <1>1, <2>1, <4>2 DEF TableOK
        <4> QED
          BY <4>2, <4>3 DEF EntriesIn
      <3>2. ASSUME NEW n \in 1 .. Len(c), c[n].key # k PROVE \E j \in 1 .. Len(d) : d[j] = c[n]
        <4>1. CASE n < i
          BY <1>1, <2>1, <2>3, <4>1
        <4>2. CASE ~(n < i)
          <5>1. n - 1 \in 1 .. Len(c) - 1 /\ ~(n - 1 < i) /\ n - 1 + 1 = n
            BY <1>1, <2>1, <3>2, <4>2
          <5> QED
            BY <2>3, <5>1
        <4> QED
          BY <4>1, <4>2
      <3> QED
        BY <2>4, <3>1, <3>2 DEF EntriesIn
    <2>6. \A m, n \in 1 .. Len(d) : d[m].key = d[n].key => m = n
      <3> SUFFICES ASSUME NEW m \in 1 .. Len(d), NEW n \in 1 .. Len(d), d[m].key = d[n].key
                   PROVE  m = n
        OBVIOUS
      <3> DEFINE up(j) == IF j < i THEN j ELSE j + 1
      <3>1. /\ up(m) \in 1 .. Len(c) /\ up(n) \in 1 .. Len(c)
            /\ d[m] = c[up(m)] /\ d[n] = c[up(n)]
        BY <1>1, <2>1, <2>3
      <3>2. up(m) = up(n)
        BY <1>1, <3>1 DEF TableOK
      <3> QED
        BY <2>1, <2>3, <3>2
    <2>7. EntriesIn(chain', s) \subseteq EntryType
      BY <2>3, <2>4 DEF EntriesIn
    <2>8. TableOK(chain')
      <3>1. ASSUME NEW x \in Slots, NEW e \in EntriesIn(chain', x) PROVE SlotOf[e.key] = x
        <4>1. CASE x = s
          BY <2>5, <2>7, <4>1, <1>1 DEF TableOK
        <4>2. CASE x # s
          BY <2>4, <4>2 DEF TableOK, EntriesIn
        <4> QED
          BY <4>1, <4>2
      <3>2. ASSUME NEW x \in Slots
            PROVE  \A m, n \in 1 .. Len(chain'[x]) : chain'[x][m].key = chain'[x][n].key => m = n
        BY <2>4, <2>6 DEF TableOK
      <3> QED
        BY <2>4, <3>1, <3>2 DEF TableOK
    <2>9. GoneFrom(chain', k)
      BY <2>5, <2>7 DEF GoneFrom
    <2>10. ASSUME NEW x \in Keys \ {k} PROVE ValueIn(chain', x) = ValueIn(chain, x)
      <3>1. \A e \in EntryType : e.key = x =>
              (e \in EntriesIn(chain, SlotOf[x]) <=> e \in EntriesIn(chain', SlotOf[x]))
        <4>1. CASE SlotOf[x] = s
          BY <2>5, <4>1
        <4>2. CASE SlotOf[x] # s
          BY <2>4, <4>2, SlotInSlots DEF EntriesIn
        <4> QED
          BY <4>1, <4>2
      <3> QED
        BY <2>8, <3>1, SameValue
    <2> QED
      BY <2>4, <2>8, <2>9, <2>10
  <1> QED
    BY <1>3, <1>4

LEMMA Linking ==
  ASSUME TableOK(chain), TypedCalls, NEW k \in Keys, NEW v \in Vals, GoneFrom(chain, k),
         chain' = LinkEntry(k, v)
  PROVE  /\ TableOK(chain')
         /\ ValueIn(chain', k) = v
         /\ \A x \in Keys \ {k} : ValueIn(chain', x) = ValueIn(chain, x)
         /\ \A s \in Slots \ {SlotOf[k]} : chain'[s] = chain[s]
  <1> DEFINE s == SlotOf[k]
             c == chain[s]
             new == [key |-> k, val |-> v]
             d == <<new>> \o c
  <1>1. s \in Slots /\ c \in Seq(EntryType) /\ new \in EntryType
    BY SlotInSlots DEF TableOK, EntryType
  <1>2. chain' = [chain EXCEPT ![s] = d]
    BY DEF LinkEntry
  <1>3. /\ d \in Seq(EntryType) /\ Len(d) = Len(c) + 1 /\ d[1] = new
        /\ \A j \in 1 .. Len(c) : d[j + 1] = c[j]
    BY <1>1, ConsIs
  <1>3a. new.key = k /\ new.val = v
    OBVIOUS
  <1> HIDE DEF d, new
  <1>4. /\ chain' \in [Slots -> Seq(EntryType)] /\ chain'[s] = d
        /\ \A x \in Slots \ {s} : chain'[x] = chain[x]
    BY <1>1, <1>2, <1>3 DEF TableOK
  <1>5. ASSUME NEW j \in 1 .. Len(d), j # 1 PROVE j - 1 \in 1 .. Len(c) /\ d[j] = c[j - 1]
    <2>1. j - 1 \in 1 .. Len(c) /\ j - 1 + 1 = j
      BY <1>1, <1>3, <1>5
    <2> QED
      BY <1>3, <2>1
  <1>6. EntriesIn(chain', s) = EntriesIn(chain, s) \cup {new}
    <2>1. ASSUME NEW j \in 1 .. Len(d) PROVE d[j] \in EntriesIn(chain, s) \cup {new}
      BY <1>3, <1>5 DEF EntriesIn
    <2>2. ASSUME NEW n \in 1 .. Len(c) PROVE \E j \in 1 .. Len(d) : d[j] = c[n]
      <3>1. n + 1 \in 1 .. Len(d) /\ d[n + 1] = c[n]
        BY <1>1, <1>3
      <3> QED
        BY <3>1
    <2>3. \E j \in 1 .. Len(d) : d[j] = new
      <3>1. 1 \in 1 .. Len(d)
        BY <1>1, <1>3
      <3> QED
        BY <1>3, <3>1
    <2> QED
      BY <1>4, <2>1, <2>2, <2>3 DEF EntriesIn
  <1>7. \A m, n \in 1 .. Len(d) : d[m].key = d[n].key => m = n
    <2> SUFFICES ASSUME NEW m \in 1 .. Len(d), NEW n \in 1 .. Len(d), d[m].key = d[n].key
                 PROVE  m = n
      OBVIOUS
    <2>1. ASSUME NEW j \in 1 .. Len(d), j # 1 PROVE d[j].key # k
      BY <1>5, <2>1 DEF GoneFrom, EntriesIn
    <2>2. CASE m = 1 \/ n = 1
      BY <1>3, <1>3a, <2>1, <2>2
    <2>3. CASE m # 1 /\ n # 1
      <3>1. /\ m - 1 \in 1 .. Len(c) /\ d[m] = c[m - 1]
            /\ n - 1 \in 1 .. Len(c) /\ d[n] = c[n - 1]
        BY <1>5, <2>3
      <3>2. c[m - 1].key = c[n - 1].key
        BY <3>1
      <3>3. m - 1 = n - 1
        BY <1>1, <3>1, <3>2 DEF TableOK
      <3> QED
        BY <3>3
    <2> QED
      BY <2>2, <2>3
  <1>8. TableOK(chain')
    <2>1. ASSUME NEW x \in Slots, NEW e \in EntriesIn(chain', x) PROVE SlotOf[e.key] = x
      <3>1. CASE x = s
        BY <1>1, <1>6, <1>3a, <3>1 DEF TableOK
      <3>2. CASE x # s
        BY <1>4, <3>2 DEF TableOK, EntriesIn
      <3> QED
        BY <3>1, <3>2
    <2>2. ASSUME NEW x \in Slots
          PROVE  \A m, n \in 1 .. Len(chain'[x]) : chain'[x][m].key = chain'[x][n].key => m = n
      BY <1>4, <1>7 DEF TableOK
    <2> QED
      BY <1>4, <2>1, <2>2 DEF TableOK
  <1>9. ValueIn(chain', k) = v
    BY <1>6, <1>8, <1>3a, ValueIs
  <1>10. ASSUME NEW x \in Keys \ {k} PROVE ValueIn(chain', x) = ValueIn(chain, x)
    <2>1. \A e \in EntryType : e.key = x =>
            (e \in EntriesIn(chain, SlotOf[x]) <=> e \in EntriesIn(chain', SlotOf[x]))
      <3>1. CASE SlotOf[x] = s
        BY <1>6, <1>3a, <3>1
      <3>2. CASE SlotOf[x] # s
        BY <1>4, <3>2, SlotInSlots DEF EntriesIn
      <3> QED
        BY <3>1, <3>2
    <2> QED
      BY <1>8, <2>1, SameValue
  <1> QED
    BY <1>4, <1>8, <1>9, <1>10

-----------------------------------------------------------------------------
(* What the locks keep apart.                                              *)

\* Two processes are never between the hash locks of one slot.
LEMMA SlotExclusion ==
  ASSUME LockInv, NEW p \in Procs, NEW q \in Procs, p # q,
         WithHashLock(p), Kind(p) \in Keyed, WithHashLock(q), Kind(q) \in Keyed
  PROVE  SlotOf[Key(p)] # SlotOf[Key(q)]
  <1>1. /\ pc[p] # "idle" /\ op[p] \in Calls /\ Key(p) \in Keys
        /\ pc[q] # "idle" /\ op[q] \in Calls /\ Key(q) \in Keys
    BY SharedDictAssumption
       DEF LockInv, ProcOK, WithHashLock, Counting, Kind, Key, Keyed
  <1>2. LockOf(Key(p)) \in held[p] /\ LockOf(Key(q)) \in held[q]
    BY <1>1, LockOfRange, LockIndices DEF LockInv, ProcOK, Holding
  <1>3. LockOf(Key(p)) # LockOf(Key(q))
    BY <1>2 DEF LockInv, LockExclusion
  <1> QED
    BY <1>3 DEF LockOf

\* While Keys reads the table nobody is between hash locks.
LEMMA SweepExclusion ==
  ASSUME LockInv, NEW p \in Procs, NEW q \in Procs, p # q,
         pc[p] = "collect", WithHashLock(q), Kind(q) \in Keyed
  PROVE  FALSE
  <1>1. pc[q] # "idle" /\ op[q] \in Calls /\ Key(q) \in Keys
    BY SharedDictAssumption DEF LockInv, ProcOK, WithHashLock, Counting, Kind, Key, Keyed
  <1>2. LockOf(Key(q)) \in HashLocks
    BY <1>1, LockOfRange
  <1>3. LockOf(Key(q)) \in held[q]
    BY <1>1, <1>2, LockIndices DEF LockInv, ProcOK, Holding
  <1>4. LockOf(Key(q)) \in held[p]
    BY <1>2, LockIndices DEF LockInv, ProcOK, Holding, SweepOK, Sweeping, HashLocks
  <1> QED
    BY <1>3, <1>4 DEF LockInv, LockExclusion

OneReplacer ==
  \A k \in Keys : \A p, q \in Procs : Replacing(p, k) /\ Replacing(q, k) => p = q

LEMMA ReplacerHasLock ==
  ASSUME NEW p, NEW k, Replacing(p, k)
  PROVE  WithHashLock(p) /\ Kind(p) \in Keyed /\ Kind(p) \in Writers /\ Key(p) = k
  BY DEF Replacing, WithHashLock, Counting, Keyed, Writers

LEMMA Replacers == LockInv => OneReplacer
  BY ReplacerHasLock, SlotExclusion DEF OneReplacer

SeenTells ==
  \A k \in Keys :
    /\ \A p \in Procs : Replacing(p, k) => Seen[k] = old[p]
    /\ (\A p \in Procs : ~Replacing(p, k)) => Seen[k] = Value(k)

LEMMA SeenIs == LockInv => SeenTells
  <1> SUFFICES ASSUME LockInv, NEW k \in Keys
               PROVE  /\ \A p \in Procs : Replacing(p, k) => Seen[k] = old[p]
                      /\ (\A p \in Procs : ~Replacing(p, k)) => Seen[k] = Value(k)
    BY DEF SeenTells
  <1>1. ASSUME NEW p \in Procs, Replacing(p, k)
        PROVE  (CHOOSE q \in Procs : Replacing(q, k)) = p
    BY <1>1, Replacers DEF OneReplacer
  <1>2. /\ (\E p \in Procs : Replacing(p, k)) =>
             Seen[k] = old[CHOOSE p \in Procs : Replacing(p, k)]
        /\ ~(\E p \in Procs : Replacing(p, k)) => Seen[k] = Value(k)
    BY Zenon DEF Seen
  <1> QED
    BY <1>1, <1>2

LEMMA SeenIsNext == LockInv' => SeenTells'
  BY SeenIs, PTL

-----------------------------------------------------------------------------
(* The invariant: a key that is being replaced is in no chain, and a call  *)
(* has its result once it has taken effect.                                *)

Removing(p) ==
  pc[p] \in {"decCheck", "decLoad", "decStore", "insert"} /\ Kind(p) \in Writers

\* The places before the one at which a call takes effect.
Pending(p) ==
  \/ pc[p] \in {"hashLock", "get", "has", "unlink", "replace", "insert", "sweep", "collect"}
  \/ pc[p] \in {"allocLock", "decCheck", "decLoad", "decStore"} /\ Kind(p) \in Writers

CallOK(p) ==
  /\ OnMap(p) => (ret[p] = NoRet <=> Pending(p))
  /\ pc[p] = "idle" => ret[p] = NoRet
  /\ pc[p] = "size" => Kind(p) = "Size"
  /\ pc[p] = "wait" => Kind(p) = "Wait"

GoneOK(p) == Removing(p) => GoneFrom(chain, Key(p))

Functions ==
  /\ old \in [Procs -> Vals \cup {Absent}]
  /\ ret = [p \in Procs |-> ret[p]]

MapInv ==
  /\ Functions
  /\ TableOK(chain)
  /\ \A p \in Procs : CallOK(p) /\ GoneOK(p)

\* A step of p leaves the other processes alone.
AllAlone(p) ==
  /\ Alone(p)
  /\ \A q \in Procs \ {p} : ret'[q] = ret[q] /\ old'[q] = old[q]

LEMMA OthersCallOK ==
  ASSUME NEW p \in Procs, AllAlone(p), NEW q \in Procs, q # p
  PROVE  /\ CallOK(q)' <=> CallOK(q)
         /\ Removing(q)' <=> Removing(q)
         /\ Key(q)' = Key(q)
         /\ \A k : Replacing(q, k)' <=> Replacing(q, k)
         /\ OnMap(q)' <=> OnMap(q)
  BY DEF AllAlone, Alone, CallOK, OnMap, Pending, Removing, Replacing, Kind, Key

\* A step that leaves the chains and the removed entries alone, and the result
\* of p too unless p is not in a call on the map.
Silent(p) ==
  /\ UNCHANGED <<chain, old, op>>
  /\ AllAlone(p)
  /\ OnMap(p) => ret'[p] = ret[p]

LEMMA SilentInv ==
  ASSUME MapInv, NEW p \in Procs, Silent(p), Functions', CallOK(p)',
         Removing(p)' => Removing(p)
  PROVE  MapInv'
  <1>1. ASSUME NEW q \in Procs PROVE CallOK(q)' /\ GoneOK(q)'
    <2>1. CASE q = p
      BY <2>1 DEF MapInv, GoneOK, Silent, Key
    <2>2. CASE q # p
      BY <2>2, OthersCallOK DEF MapInv, GoneOK, Silent
    <2> QED
      BY <2>1, <2>2
  <1> QED
    BY <1>1 DEF MapInv, Silent

\* A step that leaves the chains and the replacing calls alone keeps the map.
LEMMA SeenStays ==
  ASSUME LockInv, LockInv', chain' = chain,
         \A q \in Procs, k \in Keys : Replacing(q, k)' <=> Replacing(q, k),
         \A q \in Procs, k \in Keys : Replacing(q, k) => old'[q] = old[q]
  PROVE  Seen' = Seen
  <1>1. SeenTells /\ SeenTells' /\ \A k \in Keys : Value(k)' = Value(k)
    BY SeenIs, SeenIsNext, Lookups
  <1>2. ASSUME NEW k \in Keys PROVE Seen'[k] = Seen[k]
    <2>1. CASE \E q \in Procs : Replacing(q, k)
      <3>1. PICK q \in Procs : Replacing(q, k)
        BY <2>1
      <3> QED
        BY <1>1, <3>1 DEF SeenTells
    <2>2. CASE \A q \in Procs : ~Replacing(q, k)
      BY <1>1, <2>2 DEF SeenTells
    <2> QED
      BY <2>1, <2>2
  <1>3. Seen = [k \in Keys |-> Seen[k]] /\ Seen' = [k \in Keys |-> Seen'[k]]
    BY DEF Seen
  <1> QED
    BY <1>2, <1>3

LEMMA SilentStutters ==
  ASSUME LockInv, LockInv', NEW p \in Procs, Silent(p), Removing(p)' <=> Removing(p)
  PROVE  UNCHANGED Abstract!vars
  <1>1. \A q \in Procs, k \in Keys : Replacing(q, k)' <=> Replacing(q, k)
    <2>1. \A k : Replacing(p, k)' <=> Replacing(p, k)
      BY DEF Silent, Replacing, Removing, OnMap, Kind, Key, Writers
    <2> QED
      BY <2>1, OthersCallOK DEF Silent
  <1>2. Seen' = Seen
    BY <1>1, SeenStays DEF Silent
  <1>3. \A q \in Procs : (OnMap(q)' <=> OnMap(q)) /\ (OnMap(q) => ret'[q] = ret[q])
    BY DEF Silent, AllAlone, OnMap, Kind
  <1> QED
    BY <1>2, <1>3 DEF Abstract!vars, Silent

\* The steps that are silent: locks, counters, the sweeps, calls off the map.
LEMMA SilentSteps ==
  ASSUME LockInv, NoClear, MapInv, NEW p \in Procs,
         \/ LockStep(p) \/ CountStep(p) \/ Signal(p) \/ FreeEntry(p)
         \/ Sweep(p) \/ SweepUnlock(p) \/ OtherStep(p)
  PROVE  Silent(p) /\ Functions' /\ CallOK(p)' /\ (Removing(p)' <=> Removing(p))
  <1>1. /\ LockTypes /\ Functions /\ KindOK(p) /\ CallOK(p)
        /\ pc[p] # "idle" => op[p] \in Calls
    BY DEF LockInv, MapInv, ProcOK, Functions
  <1>2. ASSUME NEW to, Goes(p, pc[p], to), UNCHANGED <<chain, old, op, ret>>,
               \A q \in Procs \ {p} : at'[q] = at[q] /\ held'[q] = held[q],
               to \notin {"idle", "size", "wait"},
               OnMap(p) => (Pending(p)' <=> Pending(p)), Removing(p)' <=> Removing(p)
        PROVE  Silent(p) /\ Functions' /\ CallOK(p)'
    <2>1. Silent(p)
      BY <1>1, <1>2 DEF Silent, AllAlone, Alone, Goes, LockTypes
    <2>2. CallOK(p)'
      BY <1>1, <1>2 DEF CallOK, OnMap, Kind, Goes, LockTypes
    <2> QED
      BY <1>1, <1>2, <2>1, <2>2 DEF Functions
  <1>3. ASSUME NEW to \in {"return", "allocUnlock"}, NEW r, Goes(p, pc[p], to), Result(p, r),
               UNCHANGED <<chain, old, op, at, held>>, ~OnMap(p), pc[p] # "idle",
               ~Removing(p)
        PROVE  Silent(p) /\ Functions' /\ CallOK(p)' /\ ~Removing(p)'
    <2>1. Silent(p)
      BY <1>1, <1>3 DEF Silent, AllAlone, Alone, Goes, LockTypes, Result, Functions
    <2>2. CallOK(p)' /\ ~Removing(p)'
      BY <1>1, <1>3 DEF CallOK, OnMap, Kind, Goes, LockTypes, Removing
    <2> QED
      BY <1>1, <1>3, <2>1, <2>2 DEF Functions, Result
  <1> USE DEF frame, data, counts, Goes, LockTypes
  <1>4. CASE LockStep(p)
    <2>1. CASE HashLock(p)
      <3>1. Kind(p) \in Keyed /\ pc[p] = "hashLock" /\ pc'[p] = AfterHashLock(Kind(p))
        BY <1>1, <2>1 DEF HashLock, KindOK
      <3>2. Kind(p) \in Keyed =>
              /\ AfterHashLock(Kind(p)) \in {"allocLock", "get", "has", "unlink"}
              /\ AfterHashLock(Kind(p)) = "allocLock" => Kind(p) \in Writers
        BY DEF AfterHashLock, Keyed, Writers
      <3> QED
        BY <1>1, <1>2, <2>1, <3>1, <3>2 DEF HashLock, Acquire, Pending, Removing, Kind
    <2>2. CASE HashUnlock(p)
      BY <1>1, <1>2, <2>2 DEF HashUnlock, Release, Pending, Removing, Kind
    <2>3. CASE TakeAllocLock(p)
      <3>1. /\ Kind(p) \in {"Set", "Add", "Delete", "Status", "Alloc", "Free"}
            /\ pc[p] = "allocLock" /\ pc'[p] = AfterAllocLock(Kind(p))
        BY <1>1, <2>3 DEF TakeAllocLock, KindOK
      <3>2. /\ Kind(p) \in Writers => AfterAllocLock(Kind(p)) = "replace"
            /\ Kind(p) = "Delete" => AfterAllocLock(Kind(p)) = "free"
            /\ Kind(p) = "Status" => AfterAllocLock(Kind(p)) = "measure"
            /\ Kind(p) = "Alloc" => AfterAllocLock(Kind(p)) = "bufAlloc"
            /\ Kind(p) = "Free" => AfterAllocLock(Kind(p)) = "bufFree"
        BY DEF AfterAllocLock, Writers
      <3> QED
        BY <1>1, <1>2, <2>3, <3>1, <3>2
           DEF TakeAllocLock, Acquire, Pending, Removing, Kind, Writers
    <2>4. CASE AllocUnlock(p)
      <3>1. /\ Kind(p) \in {"Set", "Add", "Delete", "Status", "Alloc", "Free"}
            /\ pc[p] = "allocUnlock" /\ pc'[p] = AfterAllocUnlock(Kind(p))
        BY <1>1, <2>4 DEF AllocUnlock, KindOK
      <3>2. /\ Kind(p) \in Writers => AfterAllocUnlock(Kind(p)) = "hashUnlock"
            /\ Kind(p) = "Delete" => AfterAllocUnlock(Kind(p)) = "decCheck"
            /\ Kind(p) \in {"Status", "Alloc", "Free"} => AfterAllocUnlock(Kind(p)) = "return"
        BY DEF AfterAllocUnlock, Writers
      <3> QED
        BY <1>1, <1>2, <2>4, <3>1, <3>2
           DEF AllocUnlock, Release, Pending, Removing, Kind, Writers
    <2> QED
      BY <1>4, <2>1, <2>2, <2>3, <2>4 DEF LockStep
  <1>5. CASE CountStep(p)
    <2>1. CASE DecCheck(p) \/ DecLoad(p) \/ DecStore(p)
      <3>1. Kind(p) \in Writers \cup {"Delete"}
        BY <1>1, <2>1 DEF DecCheck, DecLoad, DecStore, KindOK, Counting
      <3> QED
        BY <1>1, <1>2, <2>1, <3>1
           DEF DecCheck, DecLoad, DecStore, AfterDec, Pending, Removing, Kind, Writers, locks
    <2>2. CASE IncLoad(p) \/ IncStore(p) \/ TickLoad(p) \/ TickStore(p)
      BY <1>1, <1>2, <2>2 DEF IncLoad, IncStore, TickLoad, TickStore, Pending, Removing,
                              Kind, locks
    <2> QED
      BY <1>5, <2>1, <2>2 DEF CountStep
  <1>6. CASE Signal(p) \/ FreeEntry(p) \/ Sweep(p) \/ SweepUnlock(p)
    <2>1. Sweep(p) \/ SweepUnlock(p) => Kind(p) = "Keys"
      BY <1>1 DEF Sweep, SweepUnlock, KindOK
    <2> QED
      BY <1>1, <1>2, <1>6, <2>1 DEF Signal, FreeEntry, Sweep, SweepUnlock, Acquire, Release,
                                    Pending, Removing, Kind, locks, Writers
  <1>7. CASE OtherStep(p)
    <2>1. pc[p] \in {"size", "measure", "bufAlloc", "bufFree", "wait"}
      BY <1>7 DEF OtherStep, ReadSize, Measure, BufferAlloc, BufferFree, WaitEnds, WaitTimesOut
    <2>2. Kind(p) \in {"Size", "Status", "Alloc", "Free", "Wait"}
      BY <1>1, <2>1 DEF KindOK, CallOK
    <2>3. pc[p] # "idle" /\ ~OnMap(p) /\ ~Removing(p)
      BY <2>1, <2>2 DEF OnMap, MapKinds, Removing
    <2> QED
      BY <1>3, <1>7, <2>3 DEF OtherStep, ReadSize, Measure, BufferAlloc, BufferFree, WaitEnds,
                              WaitTimesOut, locks
  <1> QED
    BY <1>4, <1>5, <1>6, <1>7

-----------------------------------------------------------------------------
(* The steps that read or change the chains.                               *)

\* A process between the hash locks of its key changes its own slot only.
LEMMA SlotStepInv ==
  ASSUME LockInv, MapInv, NEW p \in Procs, AllAlone(p), op' = op,
         WithHashLock(p), Kind(p) \in Keyed,
         \A s \in Slots \ {SlotOf[Key(p)]} : chain'[s] = chain[s],
         Functions', TableOK(chain'), CallOK(p)', GoneOK(p)'
  PROVE  MapInv'
  <1>1. ASSUME NEW q \in Procs, q # p PROVE CallOK(q)' /\ GoneOK(q)'
    <2>1. CallOK(q) /\ GoneOK(q)
      BY DEF MapInv
    <2>2. ASSUME Removing(q) PROVE GoneFrom(chain', Key(q))
      <3>1. WithHashLock(q) /\ Kind(q) \in Keyed
        BY <2>2 DEF Removing, WithHashLock, Counting, Keyed, Writers
      <3>2. Key(q) \in Keys
        BY <3>1, SharedDictAssumption
           DEF LockInv, ProcOK, WithHashLock, Counting, Kind, Key, Keyed
      <3>3. SlotOf[Key(q)] \in Slots \ {SlotOf[Key(p)]}
        BY <1>1, <3>1, <3>2, SlotExclusion, SlotInSlots
      <3> QED
        BY <2>1, <2>2, <3>3 DEF GoneOK, GoneFrom, EntriesIn
    <2> QED
      BY <1>1, <2>1, <2>2, OthersCallOK DEF GoneOK
  <1> QED
    BY <1>1 DEF MapInv

\* ... and the map changes at its key at most.
LEMMA SeenStep ==
  ASSUME LockInv, LockInv', NEW p \in Procs, AllAlone(p), op' = op,
         WithHashLock(p), Kind(p) \in Keyed, Key(p) \in Keys,
         \A x \in Keys \ {Key(p)} : Value(x)' = Value(x)
  PROVE  /\ Seen' = [Seen EXCEPT ![Key(p)] = Seen'[Key(p)]]
         /\ Seen[Key(p)] = IF Replacing(p, Key(p)) THEN old[p] ELSE Value(Key(p))
         /\ Seen'[Key(p)] = IF Replacing(p, Key(p))' THEN old'[p] ELSE Value(Key(p))'
  <1>0. PICK k \in Keys : k = Key(p)
    OBVIOUS
  <1>1. SeenTells /\ SeenTells'
    BY SeenIs, SeenIsNext
  <1>2. ASSUME NEW q \in Procs, q # p PROVE ~Replacing(q, k) /\ ~Replacing(q, k)'
    <2>1. ~Replacing(q, k)
      BY <1>0, <1>2, ReplacerHasLock, SlotExclusion
    <2> QED
      BY <1>2, <2>1, OthersCallOK
  <1>3. Seen[k] = IF Replacing(p, k) THEN old[p] ELSE Value(k)
    BY <1>1, <1>2 DEF SeenTells
  <1>4. Key(p)' = k
    BY <1>0 DEF Key
  <1>5. Seen'[k] = IF Replacing(p, k)' THEN old'[p] ELSE Value(k)'
    BY <1>1, <1>2 DEF SeenTells
  <1>6. ASSUME NEW x \in Keys, x # k PROVE Seen'[x] = Seen[x]
    <2>1. \A q \in Procs : Replacing(q, x)' <=> Replacing(q, x)
      <3>1. ~Replacing(p, x) /\ ~Replacing(p, x)'
        BY <1>0, <1>4, <1>6 DEF Replacing
      <3> QED
        BY <3>1, OthersCallOK
    <2>2. CASE \E q \in Procs : Replacing(q, x)
      <3>1. PICK q \in Procs : Replacing(q, x)
        BY <2>2
      <3>2. q # p
        BY <1>0, <1>6, <3>1 DEF Replacing
      <3> QED
        BY <1>1, <2>1, <3>1, <3>2 DEF SeenTells, AllAlone
    <2>3. CASE \A q \in Procs : ~Replacing(q, x)
      BY <1>0, <1>1, <1>6, <2>1, <2>3 DEF SeenTells
    <2> QED
      BY <2>2, <2>3
  <1>7. Seen = [x \in Keys |-> Seen[x]] /\ Seen' = [x \in Keys |-> Seen'[x]]
    BY DEF Seen
  <1>8. (Replacing(p, Key(p))' <=> Replacing(p, k)') /\ Value(Key(p))' = Value(k)'
    BY <1>0, <1>4 DEF Replacing, Value, Find
  <1>9. Seen' = [Seen EXCEPT ![k] = Seen'[k]]
    BY <1>0, <1>6, <1>7
  <1> QED
    BY <1>0, <1>3, <1>5, <1>8, <1>9

AbsOp  == [p \in Procs |-> IF OnMap(p) THEN op[p] ELSE NoOp]
AbsRet == [p \in Procs |-> IF OnMap(p) THEN ret[p] ELSE NoRet]

\* The call of p takes effect: it turns the map into m and returns r.
Takes(p, m, r) ==
  /\ OnMap(p) /\ ret[p] = NoRet
  /\ Seen' = m
  /\ AbsOp' = AbsOp
  /\ AbsRet' = [AbsRet EXCEPT ![p] = r]

LEMMA TakesIs ==
  ASSUME NEW p \in Procs, AllAlone(p), op' = op, OnMap(p), ret[p] = NoRet
  PROVE  Takes(p, Seen', ret'[p])
  <1>1. \A q \in Procs : OnMap(q)' <=> OnMap(q)
    BY DEF OnMap, Kind
  <1> QED
    BY <1>1 DEF Takes, AbsOp, AbsRet, AllAlone

LEMMA ApplyIs ==
  ASSUME NEW p \in Procs, NEW m, NEW r, Takes(p, m, r), Key(p) \in Keys \/ Kind(p) = "Keys",
         \/ /\ Kind(p) = "Set"
            /\ \/ m = [Seen EXCEPT ![Key(p)] = op[p].val] /\ r = op[p].val
               \/ m = [Seen EXCEPT ![Key(p)] = Absent] /\ r = OOM
         \/ /\ Kind(p) = "Add"
            /\ \/ /\ r = Abstract!Plus(Seen[Key(p)], op[p].val)
                  /\ m = [Seen EXCEPT ![Key(p)] = r]
               \/ m = [Seen EXCEPT ![Key(p)] = Absent] /\ r = OOM
         \/ Kind(p) = "Get" /\ m = Seen /\ r = Seen[Key(p)]
         \/ Kind(p) = "Has" /\ m = Seen /\ r = (Seen[Key(p)] # Absent)
         \/ /\ Kind(p) = "Delete"
            /\ m = [Seen EXCEPT ![Key(p)] = Absent] /\ r = (Seen[Key(p)] # Absent)
         \/ Kind(p) = "Keys" /\ m = Seen /\ r = {k \in Keys : Seen[k] # Absent}
  PROVE  Abstract!Apply(p)
  <1>1. /\ AbsOp[p] = op[p] /\ op[p] # NoOp /\ AbsRet[p] = NoRet
        /\ Seen' = m /\ AbsOp' = AbsOp /\ AbsRet' = [AbsRet EXCEPT ![p] = r]
    BY DEF Takes, AbsOp, AbsRet, OnMap
  <1>2. Key(p) \in Keys => (AbsOp[p].key \in Abstract!Present) = (Seen[Key(p)] # Absent)
    BY <1>1 DEF Abstract!Present, Key
  <1>3. Abstract!Present = {k \in Keys : Seen[k] # Absent}
    BY DEF Abstract!Present
  <1>4. Seen = [k \in Keys |-> Seen[k]]
    BY DEF Seen
  <1> USE <1>1 DEF Abstract!Apply, Kind, Key
  <1> HIDE DEF AbsOp, AbsRet
  <1>5. CASE Kind(p) = "Set"
    BY <1>5 DEF Abstract!Write, Abstract!Becomes, AbsOp, AbsRet
  <1>6. CASE Kind(p) = "Add"
    BY <1>6 DEF Abstract!Write, Abstract!Becomes, AbsOp, AbsRet
  <1>7. CASE Kind(p) = "Get"
    BY <1>7 DEF AbsOp, AbsRet
  <1>8. CASE Kind(p) = "Has"
    BY <1>2, <1>8 DEF AbsOp, AbsRet
  <1>9. CASE Kind(p) = "Delete"
    BY <1>2, <1>9 DEF Abstract!Becomes, AbsOp, AbsRet
  <1>10. CASE Kind(p) = "Keys"
    BY <1>3, <1>10 DEF AbsOp, AbsRet
  <1> QED
    BY <1>5, <1>6, <1>7, <1>8, <1>9, <1>10

-----------------------------------------------------------------------------
(* The data steps of the calls on a key.                                   *)

\* What is known of p at such a step.
AtKey(p) ==
  /\ WithHashLock(p) /\ Kind(p) \in Keyed /\ OnMap(p)
  /\ op[p] \in Calls /\ Key(p) \in Keys
  /\ CallOK(p) /\ GoneOK(p)

LEMMA AtKeyIs ==
  ASSUME LockInv, MapInv, NEW p \in Procs,
         pc[p] \in {"replace", "insert", "get", "has", "unlink"}
  PROVE  /\ AtKey(p) /\ ret[p] = NoRet
         /\ pc[p] \in {"replace", "insert"} => Kind(p) \in Writers
         /\ pc[p] = "get" => Kind(p) = "Get"
         /\ pc[p] = "has" => Kind(p) = "Has"
         /\ pc[p] = "unlink" => Kind(p) = "Delete"
  <1>1. ProcOK(p) /\ CallOK(p) /\ GoneOK(p)
    BY DEF LockInv, MapInv
  <1>2. op[p] \in Calls /\ Kind(p) \in Keyed
    BY <1>1 DEF ProcOK, KindOK, Keyed, Writers
  <1>3. Key(p) \in Keys /\ OnMap(p)
    BY <1>2, SharedDictAssumption DEF Key, Kind, Keyed, OnMap, MapKinds
  <1>4. WithHashLock(p) /\ Pending(p)
    BY DEF WithHashLock, Pending
  <1> QED
    BY <1>1, <1>2, <1>3, <1>4 DEF AtKey, CallOK, ProcOK, KindOK

\* The value a call writes.
LEMMA NewValueIs ==
  ASSUME TypedCalls, Functions, NEW p \in Procs, op[p] \in Calls, Kind(p) \in Writers
  PROVE  /\ NewValue(p) \in Vals
         /\ Kind(p) = "Set" => NewValue(p) = op[p].val
         /\ Kind(p) = "Add" => NewValue(p) = Abstract!Plus(old[p], op[p].val)
  <1>1. op[p].val \in Vals /\ old[p] \in Vals \cup {Absent} /\ Modulus \in Nat \ {0}
    BY SharedDictAssumption DEF TypedCalls, Functions, Kind
  <1>2. op[p].val.n \in Int /\ op[p].val.type \in ValTypes
    BY <1>1 DEF Vals
  <1>3. ReadCounter(old[p], op[p].val.type) \in Int
    BY <1>1 DEF ReadCounter, Vals
  <1>4. CASE Kind(p) = "Set"
    BY <1>1, <1>4 DEF NewValue
  <1>5. CASE Kind(p) = "Add"
    <2>1. NewValue(p) = [type |-> op[p].val.type,
                         n |-> (ReadCounter(old[p], op[p].val.type) + op[p].val.n) % Modulus]
      BY <1>5 DEF NewValue
    <2>2. (ReadCounter(old[p], op[p].val.type) + op[p].val.n) % Modulus \in Int
      BY <1>1, <1>2, <1>3
    <2>3. ReadCounter(old[p], op[p].val.type) + op[p].val.n
            = op[p].val.n + ReadCounter(old[p], op[p].val.type)
      BY <1>2, <1>3
    <2>4. Abstract!Plus(old[p], op[p].val)
            = [type |-> op[p].val.type,
               n |-> (op[p].val.n + ReadCounter(old[p], op[p].val.type)) % Modulus]
      BY DEF Abstract!Plus, ReadCounter
    <2> QED
      BY <1>2, <1>5, <2>1, <2>2, <2>3, <2>4 DEF Vals
  <1> QED
    BY <1>4, <1>5 DEF Writers

\* What the steps have in common.
LEMMA KeyStepFrame ==
  ASSUME LockInv, MapInv, NEW p \in Procs, NEW to, Goes(p, pc[p], to),
         UNCHANGED <<op, at, held>>,
         \A q \in Procs \ {p} : ret'[q] = ret[q] /\ old'[q] = old[q]
  PROVE  AllAlone(p) /\ pc'[p] = to /\ Kind(p)' = Kind(p) /\ Key(p)' = Key(p) /\ OnMap(p)' = OnMap(p)
  BY DEF LockInv, LockTypes, Goes, AllAlone, Alone, Kind, Key, OnMap

LEMMA ResultIs ==
  ASSUME Functions, NEW p \in Procs, NEW r, Result(p, r)
  PROVE  /\ ret'[p] = r /\ \A q \in Procs \ {p} : ret'[q] = ret[q]
         /\ ret' = [q \in Procs |-> ret'[q]]
  BY DEF Functions, Result

\* Replace: the map does not change.
LEMMA ReplaceStep ==
  ASSUME LockInv, LockInv', TypedCalls, MapInv, NEW p \in Procs, Replace(p)
  PROVE  MapInv' /\ UNCHANGED Abstract!vars
  <1> DEFINE k == Key(p)
  <1>1. /\ pc[p] = "replace" /\ AtKey(p) /\ ret[p] = NoRet /\ Kind(p) \in Writers
        /\ TableOK(chain) /\ Functions /\ k \in Keys
    BY AtKeyIs DEF Replace, Goes, MapInv, AtKey
  <1>2. PICK to \in {"insert", "decCheck"} : Goes(p, pc[p], to)
    BY DEF Replace, Removed, Goes
  <1>3. /\ old' = [old EXCEPT ![p] = Value(k)] /\ chain' = RemoveKey(k)
        /\ UNCHANGED <<op, at, held, ret>>
    BY DEF Replace, locks, frame
  <1>4. Value(k) = ValueIn(chain, k) /\ ValueIn(chain, k) \in Vals \cup {Absent}
    BY <1>1, Lookups, ValueIs
  <1>5. Functions' /\ old'[p] = Value(k) /\ \A q \in Procs \ {p} : old'[q] = old[q]
    BY <1>1, <1>3, <1>4 DEF Functions
  <1>6. AllAlone(p) /\ pc'[p] = to /\ Kind(p)' = Kind(p) /\ Key(p)' = k /\ OnMap(p)' = OnMap(p)
    BY <1>2, <1>3, <1>5, KeyStepFrame
  <1>7. /\ TableOK(chain') /\ GoneFrom(chain', k)
        /\ \A x \in Keys \ {k} : ValueIn(chain', x) = ValueIn(chain, x)
        /\ \A s \in Slots \ {SlotOf[k]} : chain'[s] = chain[s]
    BY <1>1, <1>3, Removal
  <1>8. CallOK(p)' /\ GoneOK(p)'
    BY <1>1, <1>3, <1>6, <1>7 DEF CallOK, AtKey, Pending, GoneOK
  <1>9. MapInv'
    BY <1>1, <1>3, <1>5, <1>6, <1>7, <1>8, SlotStepInv DEF AtKey
  <1>10. Replacing(p, k)' /\ ~Replacing(p, k)
    BY <1>1, <1>6 DEF Replacing, Writers, AtKey
  <1>11. Seen' = Seen
    <2>1. /\ Seen' = [Seen EXCEPT ![k] = Seen'[k]]
          /\ Seen[k] = IF Replacing(p, k) THEN old[p] ELSE Value(k)
          /\ Seen'[k] = IF Replacing(p, k)' THEN old'[p] ELSE Value(k)'
      BY <1>1, <1>3, <1>6, <1>7, Lookups, SeenStep DEF AtKey
    <2>2. Seen'[k] = Seen[k]
      BY <1>5, <1>10, <2>1
    <2>3. Seen = [x \in Keys |-> Seen[x]]
      BY DEF Seen
    <2> QED
      BY <2>1, <2>2, <2>3
  <1> QED
    BY <1>3, <1>9, <1>11 DEF Abstract!vars, OnMap, Kind

\* Insert: the call takes effect, with the new value.
LEMMA InsertStep ==
  ASSUME LockInv, LockInv', TypedCalls, MapInv, NEW p \in Procs, Insert(p)
  PROVE  MapInv' /\ Abstract!Apply(p)
  <1> DEFINE k == Key(p)
             v == NewValue(p)
  <1>1. /\ pc[p] = "insert" /\ AtKey(p) /\ ret[p] = NoRet /\ Kind(p) \in Writers
        /\ TableOK(chain) /\ Functions /\ k \in Keys /\ GoneFrom(chain, k)
    BY AtKeyIs DEF Insert, Goes, MapInv, AtKey, GoneOK, Removing
  <1>2. v \in Vals /\ v # NoRet
    BY <1>1, NewValueIs DEF AtKey, TypedCalls
  <1>3. /\ Goes(p, pc[p], "incLoad") /\ Result(p, v) /\ chain' = LinkEntry(k, v)
        /\ UNCHANGED <<op, at, held, old>>
    BY <1>1 DEF Insert, locks, frame, Goes
  <1>4. ret'[p] = v /\ Functions'
    BY <1>1, <1>3, ResultIs DEF Functions
  <1>5. /\ AllAlone(p) /\ pc'[p] = "incLoad" /\ Kind(p)' = Kind(p) /\ Key(p)' = k
        /\ OnMap(p)' = OnMap(p)
    BY <1>1, <1>3, ResultIs, KeyStepFrame
  <1>6. /\ TableOK(chain') /\ ValueIn(chain', k) = v
        /\ \A x \in Keys \ {k} : ValueIn(chain', x) = ValueIn(chain, x)
        /\ \A s \in Slots \ {SlotOf[k]} : chain'[s] = chain[s]
    BY <1>1, <1>2, <1>3, Linking
  <1>7. CallOK(p)' /\ GoneOK(p)'
    BY <1>2, <1>4, <1>5 DEF CallOK, Pending, GoneOK, Removing
  <1>8. MapInv'
    BY <1>1, <1>3, <1>4, <1>5, <1>6, <1>7, SlotStepInv DEF AtKey
  <1>9. Replacing(p, k) /\ ~Replacing(p, Key(p))'
    BY <1>1, <1>5 DEF Replacing, Writers, AtKey
  <1>10. Seen' = [Seen EXCEPT ![k] = v] /\ Seen[k] = old[p]
    <2>1. /\ Seen' = [Seen EXCEPT ![k] = Seen'[k]]
          /\ Seen[k] = IF Replacing(p, k) THEN old[p] ELSE Value(k)
          /\ Seen'[k] = IF Replacing(p, Key(p))' THEN old'[p] ELSE Value(Key(p))'
      BY <1>1, <1>3, <1>5, <1>6, Lookups, SeenStep DEF AtKey
    <2>2. Value(Key(p))' = v
      BY <1>5, <1>6, Lookups
    <2> QED
      BY <1>9, <2>1, <2>2
  <1>11. Takes(p, Seen', v)
    BY <1>1, <1>3, <1>4, <1>5, TakesIs DEF AtKey
  <1>12. /\ Kind(p) = "Set" => v = op[p].val
         /\ Kind(p) = "Add" => v = Abstract!Plus(Seen[k], op[p].val)
    BY <1>1, <1>10, NewValueIs DEF AtKey
  <1> HIDE DEF v
  <1>13. Abstract!Apply(p)
    BY <1>1, <1>10, <1>11, <1>12, ApplyIs DEF Writers
  <1> QED
    BY <1>8, <1>13

\* ... or without it: the key is then absent.
LEMMA InsertFailsStep ==
  ASSUME LockInv, LockInv', TypedCalls, MapInv, NEW p \in Procs, InsertFails(p)
  PROVE  MapInv' /\ Abstract!Apply(p)
  <1> DEFINE k == Key(p)
  <1>1. /\ pc[p] = "insert" /\ AtKey(p) /\ ret[p] = NoRet /\ Kind(p) \in Writers
        /\ TableOK(chain) /\ Functions /\ k \in Keys /\ GoneFrom(chain, k)
    BY AtKeyIs DEF InsertFails, Goes, MapInv, AtKey, GoneOK, Removing
  <1>2. /\ Goes(p, pc[p], "allocUnlock") /\ Result(p, OOM)
        /\ UNCHANGED <<op, at, held, old, chain>>
    BY <1>1 DEF InsertFails, locks, frame, data, Goes
  <1>3. ret'[p] = OOM /\ OOM # NoRet /\ Functions'
    BY <1>1, <1>2, ResultIs DEF Functions, TypedCalls
  <1>4. /\ AllAlone(p) /\ pc'[p] = "allocUnlock" /\ Kind(p)' = Kind(p) /\ Key(p)' = k
        /\ OnMap(p)' = OnMap(p)
    BY <1>1, <1>2, ResultIs, KeyStepFrame
  <1>5. CallOK(p)' /\ GoneOK(p)'
    BY <1>3, <1>4 DEF CallOK, Pending, GoneOK, Removing
  <1>6. MapInv'
    BY <1>1, <1>2, <1>3, <1>4, <1>5, SlotStepInv DEF AtKey
  <1>7. ~Replacing(p, Key(p))'
    BY <1>4 DEF Replacing
  <1>8. Seen' = [Seen EXCEPT ![k] = Absent]
    <2>1. /\ Seen' = [Seen EXCEPT ![k] = Seen'[k]]
          /\ Seen'[k] = IF Replacing(p, Key(p))' THEN old'[p] ELSE Value(Key(p))'
      BY <1>1, <1>2, <1>4, Lookups, SeenStep DEF AtKey
    <2>2. Value(Key(p))' = Absent
      BY <1>1, <1>2, <1>4, Lookups, ValueIs
    <2> QED
      BY <1>7, <2>1, <2>2
  <1>9. Takes(p, Seen', OOM)
    BY <1>1, <1>2, <1>3, <1>4, TakesIs DEF AtKey
  <1>10. Abstract!Apply(p)
    BY <1>1, <1>8, <1>9, ApplyIs DEF Writers
  <1> QED
    BY <1>6, <1>10

\* Get, Has and the Delete of a key that is not there.
LEMMA LookStep ==
  ASSUME LockInv, LockInv', TypedCalls, MapInv, NEW p \in Procs,
         Get(p) \/ Has(p) \/ DeleteMisses(p)
  PROVE  MapInv' /\ Abstract!Apply(p)
  <1> DEFINE k == Key(p)
  <1>1. /\ pc[p] \in {"get", "has", "unlink"} /\ AtKey(p) /\ ret[p] = NoRet
        /\ Kind(p) \notin Writers
        /\ TableOK(chain) /\ Functions /\ k \in Keys
    BY AtKeyIs DEF Get, Has, DeleteMisses, Goes, MapInv, AtKey, Writers
  <1>2. /\ Goes(p, pc[p], "hashUnlock") /\ UNCHANGED <<op, at, held, old, chain>>
    BY DEF Get, Has, DeleteMisses, locks, frame, data, Goes
  <1>3. /\ Value(k) \in Vals \cup {Absent} /\ (Value(k) = Absent <=> Find(k) = 0)
    BY <1>1, Lookups, ValueIs
  <1>4. PICK r \in Vals \cup {Absent} \cup BOOLEAN :
          /\ Result(p, r)
          /\ \/ Kind(p) = "Get" /\ r = Value(k)
             \/ Kind(p) = "Has" /\ r = (Value(k) # Absent)
             \/ Kind(p) = "Delete" /\ r = (Value(k) # Absent) /\ Value(k) = Absent
    <2>1. CASE Get(p)
      <3>1. Kind(p) = "Get" /\ Result(p, Value(k))
        BY <2>1, AtKeyIs DEF Get, Goes
      <3> QED
        BY <1>3, <3>1
    <2>2. CASE Has(p)
      <3>1. Kind(p) = "Has" /\ Result(p, Find(k) # 0)
        BY <2>2, AtKeyIs DEF Has, Goes
      <3>2. (Find(k) # 0) = (Value(k) # Absent)
        BY <1>3
      <3>3. (Value(k) # Absent) \in BOOLEAN
        OBVIOUS
      <3> QED
        BY <3>1, <3>2, <3>3
    <2>3. CASE DeleteMisses(p)
      <3>1. Kind(p) = "Delete" /\ Result(p, FALSE) /\ Value(k) = Absent
        BY <1>3, <2>3, AtKeyIs DEF DeleteMisses, Goes
      <3>2. FALSE = (Value(k) # Absent) /\ FALSE \in BOOLEAN
        BY <3>1
      <3> QED
        BY <3>1, <3>2
    <2> QED
      BY <2>1, <2>2, <2>3
  <1>5. ret'[p] = r /\ r # NoRet /\ Functions'
    BY <1>1, <1>2, <1>4, ResultIs DEF Functions, TypedCalls
  <1>6. /\ AllAlone(p) /\ pc'[p] = "hashUnlock" /\ Kind(p)' = Kind(p) /\ Key(p)' = k
        /\ OnMap(p)' = OnMap(p)
    BY <1>1, <1>2, <1>4, ResultIs, KeyStepFrame
  <1>7. CallOK(p)' /\ GoneOK(p)'
    BY <1>5, <1>6 DEF CallOK, Pending, GoneOK, Removing
  <1>8. MapInv'
    BY <1>1, <1>2, <1>5, <1>6, <1>7, SlotStepInv DEF AtKey
  <1>9. ~Replacing(p, k) /\ ~Replacing(p, Key(p))'
    BY <1>1, <1>6 DEF Replacing
  <1>10. Seen' = Seen /\ Seen[k] = Value(k)
    <2>1. /\ Seen' = [Seen EXCEPT ![k] = Seen'[k]]
          /\ Seen[k] = IF Replacing(p, k) THEN old[p] ELSE Value(k)
          /\ Seen'[k] = IF Replacing(p, Key(p))' THEN old'[p] ELSE Value(Key(p))'
      BY <1>1, <1>2, <1>6, Lookups, SeenStep DEF AtKey
    <2>2. Value(Key(p))' = Value(k)
      BY <1>2, <1>6, Lookups
    <2>3. Seen = [x \in Keys |-> Seen[x]]
      BY DEF Seen
    <2> QED
      BY <1>9, <2>1, <2>2, <2>3
  <1>11. Takes(p, Seen', r)
    BY <1>1, <1>2, <1>5, <1>6, TakesIs DEF AtKey
  <1>12. Value(k) = Absent => Seen = [Seen EXCEPT ![k] = Absent]
    <2>1. Seen = [x \in Keys |-> Seen[x]]
      BY DEF Seen
    <2> QED
      BY <1>10, <2>1
  <1>13. Abstract!Apply(p)
    BY <1>1, <1>4, <1>10, <1>11, <1>12, ApplyIs
  <1> QED
    BY <1>8, <1>13

\* The Delete of a key that is there.
LEMMA UnlinkStep ==
  ASSUME LockInv, LockInv', TypedCalls, MapInv, NEW p \in Procs, Unlink(p)
  PROVE  MapInv' /\ Abstract!Apply(p)
  <1> DEFINE k == Key(p)
  <1>1. /\ pc[p] = "unlink" /\ AtKey(p) /\ ret[p] = NoRet /\ Kind(p) = "Delete"
        /\ TableOK(chain) /\ Functions /\ k \in Keys
    BY AtKeyIs DEF Unlink, Goes, MapInv, AtKey
  <1>2. /\ Goes(p, pc[p], "allocLock") /\ Result(p, TRUE) /\ UNCHANGED <<op, at, held>>
        /\ old' = [old EXCEPT ![p] = Value(k)] /\ chain' = RemoveKey(k)
        /\ Find(k) # 0
    BY <1>1 DEF Unlink, locks, frame, Goes
  <1>3. /\ Value(k) = ValueIn(chain, k) /\ ValueIn(chain, k) \in Vals /\ Absent \notin Vals
    BY <1>1, <1>2, Lookups, ValueIs DEF TypedCalls
  <1>4. /\ Functions' /\ ret'[p] = TRUE /\ TRUE # NoRet
        /\ \A q \in Procs \ {p} : old'[q] = old[q] /\ ret'[q] = ret[q]
    BY <1>1, <1>2, <1>3, ResultIs DEF Functions, TypedCalls
  <1>5. /\ AllAlone(p) /\ pc'[p] = "allocLock" /\ Kind(p)' = Kind(p) /\ Key(p)' = k
        /\ OnMap(p)' = OnMap(p)
    BY <1>1, <1>2, <1>4, KeyStepFrame
  <1>6. /\ TableOK(chain') /\ GoneFrom(chain', k)
        /\ \A x \in Keys \ {k} : ValueIn(chain', x) = ValueIn(chain, x)
        /\ \A s \in Slots \ {SlotOf[k]} : chain'[s] = chain[s]
    BY <1>1, <1>2, Removal
  <1>7. CallOK(p)' /\ GoneOK(p)'
    BY <1>1, <1>4, <1>5 DEF CallOK, Pending, GoneOK, Removing, Writers
  <1>8. MapInv'
    BY <1>1, <1>2, <1>4, <1>5, <1>6, <1>7, SlotStepInv DEF AtKey
  <1>9. ~Replacing(p, k) /\ ~Replacing(p, Key(p))'
    BY <1>1, <1>5 DEF Replacing
  <1>10. Seen' = [Seen EXCEPT ![k] = Absent] /\ Seen[k] # Absent
    <2>1. /\ Seen' = [Seen EXCEPT ![k] = Seen'[k]]
          /\ Seen[k] = IF Replacing(p, k) THEN old[p] ELSE Value(k)
          /\ Seen'[k] = IF Replacing(p, Key(p))' THEN old'[p] ELSE Value(Key(p))'
      BY <1>1, <1>2, <1>5, <1>6, Lookups, SeenStep DEF AtKey
    <2>2. Value(Key(p))' = Absent
      BY <1>1, <1>5, <1>6, Lookups, ValueIs
    <2> QED
      BY <1>3, <1>9, <2>1, <2>2
  <1>11. Takes(p, Seen', TRUE)
    BY <1>1, <1>2, <1>4, <1>5, TakesIs DEF AtKey
  <1>12. TRUE = (Seen[k] # Absent)
    BY <1>10
  <1>13. Abstract!Apply(p)
    BY <1>1, <1>10, <1>11, <1>12, ApplyIs
  <1> QED
    BY <1>8, <1>13

\* Keys, which holds every hash lock.
LEMMA CollectStep ==
  ASSUME LockInv, LockInv', TypedCalls, MapInv, NEW p \in Procs, Collect(p)
  PROVE  MapInv' /\ Abstract!Apply(p)
  <1> DEFINE r == UNION {{e.key : e \in ToSet(chain[s])} : s \in Slots}
  <1>1. /\ pc[p] = "collect" /\ Kind(p) = "Keys" /\ op[p] \in Calls /\ OnMap(p)
        /\ CallOK(p) /\ TableOK(chain) /\ Functions
    BY SharedDictAssumption
       DEF Collect, Goes, LockInv, ProcOK, KindOK, MapInv, OnMap, MapKinds
  <1>2. ret[p] = NoRet
    BY <1>1 DEF CallOK, Pending
  <1>3. /\ Goes(p, pc[p], "sweepUnlock") /\ Result(p, r)
        /\ UNCHANGED <<op, at, held, old, chain>>
    BY <1>1 DEF Collect, locks, frame, data, Goes
  <1>4. r = {k \in Keys : Value(k) # Absent}
    <2>1. ASSUME NEW s \in Slots, NEW e \in ToSet(chain[s])
          PROVE  e.key \in Keys /\ Value(e.key) # Absent
      <3>1. chain[s] \in Seq(EntryType) /\ e \in EntriesIn(chain, s)
        BY <1>1, <2>1 DEF TableOK, ToSet, EntriesIn
      <3>2. e \in EntryType /\ SlotOf[e.key] = s
        BY <1>1, <3>1 DEF TableOK, EntriesIn
      <3>3. e.key \in Keys /\ ~GoneFrom(chain, e.key)
        BY <3>1, <3>2 DEF EntryType, GoneFrom
      <3> QED
        BY <1>1, <3>3, Lookups, ValueIs
    <2>2. ASSUME NEW k \in Keys, Value(k) # Absent
          PROVE  \E s \in Slots : \E e \in ToSet(chain[s]) : e.key = k
      <3>1. ~GoneFrom(chain, k)
        BY <1>1, <2>2, Lookups, ValueIs
      <3>2. PICK e \in EntriesIn(chain, SlotOf[k]) : e.key = k
        BY <3>1 DEF GoneFrom
      <3>3. SlotOf[k] \in Slots /\ chain[SlotOf[k]] \in Seq(EntryType)
        BY <1>1, SlotInSlots DEF TableOK
      <3>4. e \in ToSet(chain[SlotOf[k]])
        BY <3>2, <3>3 DEF EntriesIn, ToSet
      <3> QED
        BY <3>2, <3>3, <3>4
    <2> QED
      BY <2>1, <2>2
  <1>5. \A k \in Keys : Seen[k] = Value(k)
    <2>1. ASSUME NEW k \in Keys, NEW q \in Procs PROVE ~Replacing(q, k)
      <3>1. CASE q = p
        BY <1>1, <3>1 DEF Replacing
      <3>2. CASE q # p
        BY <1>1, <3>2, ReplacerHasLock, SweepExclusion
      <3> QED
        BY <3>1, <3>2
    <2> QED
      BY <2>1, SeenIs DEF SeenTells
  <1>6. r = {k \in Keys : Seen[k] # Absent}
    BY <1>4, <1>5
  <1> HIDE DEF r
  <1>7. ret'[p] = r /\ r # NoRet /\ Functions'
    BY <1>1, <1>3, <1>6, ResultIs DEF Functions, TypedCalls
  <1>8. /\ AllAlone(p) /\ pc'[p] = "sweepUnlock" /\ Kind(p)' = Kind(p) /\ Key(p)' = Key(p)
        /\ OnMap(p)' = OnMap(p)
    BY <1>1, <1>3, ResultIs, KeyStepFrame
  <1>9. CallOK(p)' /\ ~Removing(p)' /\ ~Removing(p)
    BY <1>1, <1>7, <1>8 DEF CallOK, Pending, Removing
  <1>10. MapInv'
    <2>1. ASSUME NEW q \in Procs, q # p PROVE CallOK(q)' /\ GoneOK(q)'
      BY <1>3, <1>8, <2>1, OthersCallOK DEF MapInv, GoneOK
    <2> QED
      BY <1>1, <1>3, <1>7, <1>9, <2>1 DEF MapInv, GoneOK
  <1>11. Seen' = Seen
    <2>1. \A q \in Procs, k \in Keys : Replacing(q, k)' <=> Replacing(q, k)
      <3>1. \A k : ~Replacing(p, k) /\ ~Replacing(p, k)'
        BY <1>1, <1>8 DEF Replacing
      <3> QED
        BY <1>8, <3>1, OthersCallOK
    <2> QED
      BY <1>3, <2>1, SeenStays
  <1>12. Takes(p, Seen', r)
    BY <1>1, <1>2, <1>3, <1>7, <1>8, TakesIs
  <1>13. Abstract!Apply(p)
    BY <1>1, <1>6, <1>11, <1>12, ApplyIs
  <1> QED
    BY <1>10, <1>13

-----------------------------------------------------------------------------
(* The beginning and the end of a call.                                    *)

LEMMA InvokeStep ==
  ASSUME LockInv, LockInv', NoClear, TypedCalls, MapInv, NEW p \in Procs, NEW c \in Calls,
         Invoke(p, c)
  PROVE  MapInv' /\ [Abstract!Next]_Abstract!vars
  <1>1. /\ pc[p] = "idle" /\ op[p] = NoOp /\ ret[p] = NoRet
        /\ LockTypes /\ Functions
    BY DEF Invoke, Goes, LockInv, ProcOK, MapInv, CallOK
  <1>2. /\ pc' = [pc EXCEPT ![p] = FirstPlace(c.kind)] /\ op' = [op EXCEPT ![p] = c]
        /\ at' = [at EXCEPT ![p] = 0] /\ old' = [old EXCEPT ![p] = Absent]
        /\ UNCHANGED <<held, chain, ret>>
    BY DEF Invoke, Goes, locks, data
  <1>3. /\ c.kind \in Keyed => FirstPlace(c.kind) = "hashLock"
        /\ c.kind = "Keys" => FirstPlace(c.kind) = "sweep"
        /\ c.kind \in {"Status", "Alloc", "Free"} => FirstPlace(c.kind) = "allocLock"
        /\ c.kind = "Size" => FirstPlace(c.kind) = "size"
        /\ c.kind = "Wait" => FirstPlace(c.kind) = "wait"
        /\ c.kind \in Keyed \cup {"Keys", "Size", "Status", "Alloc", "Free", "Wait"}
    BY DEF FirstPlace, Keyed, NoClear
  <1>4. AllAlone(p) /\ Functions' /\ op'[p] = c /\ pc'[p] = FirstPlace(c.kind)
    BY <1>1, <1>2 DEF AllAlone, Alone, LockTypes, Functions
  <1>5. CallOK(p)' /\ ~Removing(p)'
    BY <1>1, <1>2, <1>3, <1>4
       DEF CallOK, Pending, Removing, OnMap, MapKinds, Kind, Keyed, Writers
  <1>6. MapInv'
    <2>1. ASSUME NEW q \in Procs, q # p PROVE CallOK(q)' /\ GoneOK(q)'
      BY <1>2, <1>4, <2>1, OthersCallOK DEF MapInv, GoneOK
    <2> QED
      BY <1>2, <1>4, <1>5, <2>1 DEF MapInv, GoneOK
  <1>7. Seen' = Seen
    <2>1. \A k : ~Replacing(p, k) /\ ~Replacing(p, k)'
      BY <1>1, <1>3, <1>4 DEF Replacing, OnMap, MapKinds, Kind, Keyed
    <2> QED
      BY <1>2, <1>4, <2>1, OthersCallOK, SeenStays DEF AllAlone
  <1>8. /\ ~OnMap(p) /\ \A q \in Procs \ {p} : OnMap(q)' <=> OnMap(q)
        /\ \A q \in Procs \ {p} : op'[q] = op[q]
    BY <1>1, <1>4, OthersCallOK DEF OnMap, AllAlone, Alone
  <1>9. CASE c.kind \in MapKinds
    <2>1. /\ AbsOp[p] = NoOp /\ AbsOp' = [AbsOp EXCEPT ![p] = c] /\ AbsRet' = AbsRet
      BY <1>1, <1>2, <1>4, <1>8, <1>9, SharedDictAssumption DEF AbsOp, AbsRet, OnMap, Kind
    <2>2. Abstract!Invoke(p)
      BY <1>7, <1>9, <2>1 DEF Abstract!Invoke, AbsOp, AbsRet
    <2> QED
      BY <1>6, <2>2 DEF Abstract!Next
  <1>10. CASE c.kind \notin MapKinds
    <2>1. AbsOp' = AbsOp /\ AbsRet' = AbsRet
      BY <1>1, <1>2, <1>4, <1>8, <1>10 DEF AbsOp, AbsRet, OnMap, Kind
    <2> QED
      BY <1>6, <1>7, <2>1 DEF Abstract!vars, AbsOp, AbsRet
  <1> QED
    BY <1>9, <1>10

LEMMA ReturnStep ==
  ASSUME LockInv, LockInv', MapInv, NEW p \in Procs, Return(p)
  PROVE  MapInv' /\ [Abstract!Next]_Abstract!vars
  <1>1. pc[p] = "return" /\ LockTypes /\ Functions /\ CallOK(p)
    BY DEF Return, Goes, LockInv, MapInv
  <1>2. /\ pc' = [pc EXCEPT ![p] = "idle"] /\ op' = [op EXCEPT ![p] = NoOp]
        /\ Result(p, NoRet) /\ UNCHANGED <<at, held, chain, old>>
    BY DEF Return, Goes, locks, data
  <1>3. /\ AllAlone(p) /\ Functions' /\ op'[p] = NoOp /\ pc'[p] = "idle" /\ ret'[p] = NoRet
    BY <1>1, <1>2, ResultIs DEF AllAlone, Alone, LockTypes, Functions
  <1>4. CallOK(p)' /\ ~Removing(p)' /\ ~OnMap(p)'
    BY <1>3 DEF CallOK, Removing, OnMap
  <1>5. MapInv'
    <2>1. ASSUME NEW q \in Procs, q # p PROVE CallOK(q)' /\ GoneOK(q)'
      BY <1>2, <1>3, <2>1, OthersCallOK DEF MapInv, GoneOK
    <2> QED
      BY <1>2, <1>3, <1>4, <2>1 DEF MapInv, GoneOK
  <1>6. Seen' = Seen
    <2>1. \A k : ~Replacing(p, k) /\ ~Replacing(p, k)'
      BY <1>1, <1>4 DEF Replacing
    <2> QED
      BY <1>2, <1>3, <2>1, OthersCallOK, SeenStays
  <1>7. /\ \A q \in Procs \ {p} : OnMap(q)' <=> OnMap(q)
        /\ \A q \in Procs \ {p} : op'[q] = op[q] /\ ret'[q] = ret[q]
    BY <1>3, OthersCallOK DEF AllAlone, Alone
  <1>8. CASE OnMap(p)
    <2>1. AbsRet[p] # NoRet
      BY <1>1, <1>8 DEF AbsRet, CallOK, Pending
    <2>2. AbsOp' = [AbsOp EXCEPT ![p] = NoOp] /\ AbsRet' = [AbsRet EXCEPT ![p] = NoRet]
      BY <1>4, <1>7 DEF AbsOp, AbsRet
    <2>3. Abstract!Return(p)
      BY <1>6, <2>1, <2>2 DEF Abstract!Return, AbsOp, AbsRet
    <2> QED
      BY <1>5, <2>3 DEF Abstract!Next
  <1>9. CASE ~OnMap(p)
    <2>1. AbsOp' = AbsOp /\ AbsRet' = AbsRet
      BY <1>4, <1>7, <1>9 DEF AbsOp, AbsRet
    <2> QED
      BY <1>5, <1>6, <2>1 DEF Abstract!vars, AbsOp, AbsRet
  <1> QED
    BY <1>8, <1>9

-----------------------------------------------------------------------------

LEMMA MapInvInit ==
  ASSUME Init
  PROVE  MapInv /\ Abstract!Init
  <1>1. Functions
    BY DEF Init, Functions
  <1>2. TableOK(chain)
    BY DEF Init, TableOK, EntriesIn
  <1>3. ASSUME NEW p \in Procs PROVE CallOK(p) /\ GoneOK(p) /\ ~OnMap(p)
    BY DEF Init, CallOK, GoneOK, Removing, OnMap
  <1>4. \A k \in Keys : Seen[k] = Absent
    <2>1. ASSUME NEW k \in Keys PROVE Seen[k] = Absent
      <3>1. \A p \in Procs : ~Replacing(p, k)
        BY <1>3 DEF Replacing
      <3>2. chain[SlotOf[k]] = << >>
        BY SlotInSlots DEF Init
      <3>3. ValueIn(chain, k) = Absent
        BY <3>2 DEF ValueIn, FindIn, MatchesIn
      <3> QED
        BY <3>1, <3>3, LockInvInit, SeenIs, Lookups DEF SeenTells
    <2> QED
      BY <2>1
  <1>5. Seen = [k \in Keys |-> Seen[k]]
    BY DEF Seen
  <1> QED
    BY <1>1, <1>2, <1>3, <1>4, <1>5 DEF MapInv, Abstract!Init

LEMMA MapInvNext ==
  ASSUME LockInv, NoClear, TypedCalls, MapInv, [Next]_vars
  PROVE  MapInv' /\ [Abstract!Next]_Abstract!vars
  <1>1. LockInv'
    BY LockInvNext
  <1>2. CASE UNCHANGED vars
    <2>1. UNCHANGED <<chain, old, ret, pc, op>>
      BY <1>2 DEF vars
    <2>2. MapInv'
      BY <2>1 DEF MapInv, Functions, CallOK, GoneOK, Pending, Removing, OnMap, Kind, Key
    <2>3. Seen' = Seen
      BY <1>1, <2>1, SeenStays DEF Replacing, OnMap, Kind, Key
    <2> QED
      BY <2>1, <2>2, <2>3 DEF Abstract!vars, OnMap, Kind
  <1>3. ASSUME NEW p \in Procs, Step(p) \/ \E c \in Calls : Invoke(p, c)
        PROVE  MapInv' /\ [Abstract!Next]_Abstract!vars
    <2>1. ~Wipe(p) /\ ~ZeroAllocLock(p) /\ ~ZeroHashLock(p)
      BY DEF LockInv, LockTypes, Wipe, ZeroAllocLock, ZeroHashLock, Goes
    <2>2. CASE \/ LockStep(p) \/ CountStep(p) \/ Signal(p) \/ FreeEntry(p)
               \/ Sweep(p) \/ SweepUnlock(p) \/ OtherStep(p)
      BY <1>1, <2>2, SilentSteps, SilentInv, SilentStutters
    <2>3. CASE Replace(p)
      BY <1>1, <2>3, ReplaceStep
    <2>4. CASE Insert(p) \/ InsertFails(p) \/ Get(p) \/ Has(p) \/ DeleteMisses(p) \/ Unlink(p)
               \/ Collect(p)
      <3>1. MapInv' /\ Abstract!Apply(p)
        BY <1>1, <2>4, InsertStep, InsertFailsStep, LookStep, UnlinkStep, CollectStep
      <3> QED
        BY <3>1 DEF Abstract!Next
    <2>5. CASE Return(p)
      BY <1>1, <2>5, ReturnStep
    <2>6. CASE \E c \in Calls : Invoke(p, c)
      BY <1>1, <2>6, InvokeStep
    <2> QED
      BY <1>3, <2>1, <2>2, <2>3, <2>4, <2>5, <2>6 DEF Step, WriteStep, KeyStep, SweepStep
  <1> QED
    BY <1>2, <1>3 DEF Next

LEMMA TableHasOneEntry == ASSUME TableOK(chain) PROVE OneEntryPerKey
  <1>1. ASSUME NEW x \in Entries
        PROVE  /\ x[1] \in Slots /\ x[2] \in 1 .. Len(chain[x[1]])
               /\ x = <<x[1], x[2]>> /\ Entry(x) \in EntriesIn(chain, x[1])
    <2>1. PICK s \in Slots : x \in {<<s, i>> : i \in DOMAIN chain[s]}
      BY <1>1 DEF Entries
    <2>2. PICK i \in DOMAIN chain[s] : x = <<s, i>>
      BY <2>1
    <2>3. DOMAIN chain[s] = 1 .. Len(chain[s])
      BY DEF TableOK
    <2> QED
      BY <2>2, <2>3 DEF Entry, EntriesIn
  <1>2. ASSUME NEW x \in Entries PROVE SlotOf[Entry(x).key] = x[1]
    BY <1>1 DEF TableOK
  <1>3. ASSUME NEW x \in Entries, NEW y \in Entries, Entry(x).key = Entry(y).key
        PROVE  x = y
    <2>1. x[1] = y[1]
      BY <1>2, <1>3
    <2>2. x[2] = y[2]
      BY <1>1, <1>3, <2>1 DEF TableOK, Entry
    <2> QED
      BY <1>1, <2>1, <2>2
  <1> QED
    BY <1>2, <1>3 DEF OneEntryPerKey

-----------------------------------------------------------------------------

\* However the writes, counters and deletes of any number of processes
\* interleave (dict.cpp:219-262), a key has at most one entry, in its own slot.
THEOREM OneEntry == ASSUME NoClear, TypedCalls PROVE Spec => []OneEntryPerKey
  <1>1. Init => LockInv /\ MapInv
    BY LockInvInit, MapInvInit
  <1>2. LockInv /\ MapInv /\ [Next]_vars => LockInv' /\ MapInv'
    BY LockInvNext, MapInvNext
  <1>3. MapInv => OneEntryPerKey
    BY TableHasOneEntry DEF MapInv
  <1> QED
    BY <1>1, <1>2, <1>3, PTL DEF Spec

\* Every call on the map takes effect at one instant between its invocation and
\* its return: the dictionary implements KVMap, whatever the processes do.
THEOREM Linearizable == ASSUME NoClear, TypedCalls PROVE Spec => ImplementsKVMap
  <1>1. Init => LockInv /\ MapInv /\ Abstract!Init
    BY LockInvInit, MapInvInit
  <1>2. LockInv /\ MapInv /\ [Next]_vars =>
          LockInv' /\ MapInv' /\ [Abstract!Next]_Abstract!vars
    BY LockInvNext, MapInvNext
  <1> QED
    BY <1>1, <1>2, PTL DEF Spec, ImplementsKVMap, Abstract!Spec

-----------------------------------------------------------------------------
(* The event.                                                              *)

\* OOM is no value: a call that has failed cannot be taken for a write.
FailureIsNoValue == OOM \notin Vals

\* A step of p leaves the others where they are, in their calls, with their
\* results.
LEMMA OnlyOneMoves ==
  ASSUME LockInv, NoClear, MapInv, NEW p \in Procs, Step(p) \/ \E c \in Calls : Invoke(p, c)
  PROVE  \A q \in Procs \ {p} : pc'[q] = pc[q] /\ op'[q] = op[q] /\ ret'[q] = ret[q]
  <1>1. LockTypes /\ Functions
    BY DEF LockInv, MapInv
  <1>2. ASSUME NEW from, NEW to, Goes(p, from, to), op' = op,
               ret' = ret \/ \E r : Result(p, r)
        PROVE  \A q \in Procs \ {p} : pc'[q] = pc[q] /\ op'[q] = op[q] /\ ret'[q] = ret[q]
    BY <1>1, <1>2, ResultIs DEF Goes, LockTypes
  <1>3. ~Wipe(p) /\ ~ZeroAllocLock(p) /\ ~ZeroHashLock(p)
    BY DEF LockInv, LockTypes, Wipe, ZeroAllocLock, ZeroHashLock, Goes
  <1>4. CASE LockStep(p) \/ Sweep(p) \/ SweepUnlock(p) \/ Collect(p)
    BY <1>2, <1>4 DEF LockStep, HashLock, HashUnlock, TakeAllocLock, AllocUnlock, Sweep,
                      SweepUnlock, Collect, frame
  <1>5. CASE WriteStep(p) \/ KeyStep(p)
    BY <1>2, <1>5 DEF WriteStep, Replace, Insert, InsertFails, Signal, KeyStep, Get, Has,
                      DeleteMisses, Unlink, FreeEntry, frame
  <1>6. CASE CountStep(p)
    BY <1>2, <1>6 DEF CountStep, DecCheck, DecLoad, DecStore, IncLoad, IncStore, TickLoad,
                      TickStore, frame
  <1>7. CASE OtherStep(p)
    BY <1>2, <1>7 DEF OtherStep, ReadSize, Measure, BufferAlloc, BufferFree, WaitEnds,
                      WaitTimesOut, frame
  <1>8. CASE Return(p) \/ \E c \in Calls : Invoke(p, c)
    BY <1>1, <1>8, ResultIs DEF Return, Invoke, Goes, LockTypes
  <1> QED
    BY <1>3, <1>4, <1>5, <1>6, <1>7, <1>8 DEF Step, SweepStep

\* Only SetEvent and a Wait that succeeds change the event.
LEMMA EventSteps ==
  ASSUME LockInv, NoClear, NEW p \in Procs, Step(p) \/ \E c \in Calls : Invoke(p, c)
  PROVE  event' = event \/ event' = TRUE \/ WaitEnds(p)
  <1>1. ~Wipe(p) /\ ~ZeroAllocLock(p) /\ ~ZeroHashLock(p)
    BY DEF LockInv, LockTypes, Wipe, ZeroAllocLock, ZeroHashLock, Goes
  <1>2. CASE LockStep(p) \/ Sweep(p) \/ SweepUnlock(p) \/ Collect(p)
    BY <1>2 DEF LockStep, HashLock, HashUnlock, TakeAllocLock, AllocUnlock, Sweep,
                SweepUnlock, Collect
  <1>3. CASE WriteStep(p) \/ KeyStep(p)
    BY <1>3 DEF WriteStep, Replace, Insert, InsertFails, Signal, KeyStep, Get, Has,
                DeleteMisses, Unlink, FreeEntry
  <1>4. CASE CountStep(p)
    BY <1>4 DEF CountStep, DecCheck, DecLoad, DecStore, IncLoad, IncStore, TickLoad, TickStore
  <1>5. CASE OtherStep(p) \/ Return(p) \/ \E c \in Calls : Invoke(p, c)
    BY <1>5 DEF OtherStep, ReadSize, Measure, BufferAlloc, BufferFree, WaitEnds,
                WaitTimesOut, Return, Invoke
  <1> QED
    BY <1>1, <1>2, <1>3, <1>4, <1>5 DEF Step, SweepStep

\* A writer that is about to signal stays so until it has signalled.
LEMMA SignalComes ==
  ASSUME LockInv, NoClear, MapInv, NEW p \in Procs,
         Step(p) \/ \E c \in Calls : Invoke(p, c), AboutToSignal(p)
  PROVE  AboutToSignal(p)' \/ event' = TRUE
  <1>1. /\ LockTypes /\ CallOK(p) /\ op[p] # NoOp /\ Kind(p) \in {"Set", "Add"}
        /\ ret[p] \notin {NoRet, OOM}
        /\ pc[p] \in CounterPlaces \cup {"allocUnlock", "hashUnlock", "signal"}
    BY DEF LockInv, MapInv, AboutToSignal
  <1>2. pc[p] \in {"incLoad", "incStore", "tickLoad", "tickStore", "allocUnlock", "hashUnlock",
                   "signal"}
    BY <1>1 DEF CallOK, OnMap, MapKinds, Pending, CounterPlaces, Writers
  <1>3. \/ IncLoad(p) \/ IncStore(p) \/ TickLoad(p) \/ TickStore(p)
        \/ AllocUnlock(p) \/ HashUnlock(p) \/ Signal(p)
    <2>1. ~LockStep(p) \/ AllocUnlock(p) \/ HashUnlock(p)
      BY <1>2 DEF LockStep, HashLock, TakeAllocLock, Goes
    <2>2. ~WriteStep(p) \/ Signal(p)
      BY <1>2 DEF WriteStep, Replace, Insert, InsertFails, Goes
    <2>3. ~CountStep(p) \/ IncLoad(p) \/ IncStore(p) \/ TickLoad(p) \/ TickStore(p)
      BY <1>2 DEF CountStep, DecCheck, DecLoad, DecStore, Goes
    <2>4. ~KeyStep(p) /\ ~SweepStep(p)
      BY <1>2 DEF KeyStep, Get, Has, DeleteMisses, Unlink, FreeEntry, SweepStep, Sweep,
                  SweepUnlock, Collect, Wipe, ZeroAllocLock, ZeroHashLock, Goes
    <2>5. ~OtherStep(p) /\ ~Return(p) /\ ~\E c \in Calls : Invoke(p, c)
      BY <1>2 DEF OtherStep, ReadSize, Measure, BufferAlloc, BufferFree, WaitEnds,
                  WaitTimesOut, Return, Invoke, Goes
    <2> QED
      BY <2>1, <2>2, <2>3, <2>4, <2>5 DEF Step
  <1>4. CASE Signal(p)
    BY <1>4 DEF Signal
  <1>5. ASSUME NEW to \in CounterPlaces \cup {"allocUnlock", "hashUnlock", "signal"},
               Goes(p, pc[p], to), UNCHANGED <<op, ret>>
        PROVE  AboutToSignal(p)'
    BY <1>1, <1>5 DEF AboutToSignal, Goes, Kind, LockTypes
  <1>6. AfterAllocUnlock(Kind(p)) = "hashUnlock"
    BY <1>1 DEF AfterAllocUnlock
  <1>7. CASE AllocUnlock(p) \/ HashUnlock(p)
    BY <1>1, <1>5, <1>6, <1>7 DEF AllocUnlock, HashUnlock, Goes, frame
  <1>8. CASE IncLoad(p) \/ IncStore(p) \/ TickLoad(p) \/ TickStore(p)
    BY <1>1, <1>5, <1>8 DEF IncLoad, IncStore, TickLoad, TickStore, Goes, frame, CounterPlaces
  <1> QED
    BY <1>3, <1>4, <1>7, <1>8

\* A call that has linked its entry is about to signal.
LEMMA LinkerSignals ==
  ASSUME LockInv, NoClear, TypedCalls, FailureIsNoValue, MapInv, NEW p \in Procs,
         Step(p) \/ \E c \in Calls : Invoke(p, c), Links(p)
  PROVE  AboutToSignal(p)'
  <1>1. pc[p] = "insert" /\ pc'[p] = "incLoad" /\ LockTypes /\ Functions
    BY DEF Links, LockInv, MapInv
  <1>2. AtKey(p) /\ Kind(p) \in Writers
    BY <1>1, AtKeyIs
  <1>3. Insert(p)
    <2>1. ~LockStep(p) /\ ~CountStep(p)
      BY <1>1 DEF LockStep, HashLock, HashUnlock, TakeAllocLock, AllocUnlock, CountStep,
           DecCheck, DecLoad, DecStore, IncLoad, IncStore, TickLoad, TickStore, Goes
    <2>2. ~WriteStep(p) \/ Insert(p)
      BY <1>1 DEF WriteStep, Replace, InsertFails, Signal, Goes, LockTypes
    <2>3. ~KeyStep(p) /\ ~SweepStep(p)
      BY <1>1 DEF KeyStep, Get, Has, DeleteMisses, Unlink, FreeEntry, SweepStep, Sweep,
                  SweepUnlock, Collect, Wipe, ZeroAllocLock, ZeroHashLock, Goes
    <2>4. ~OtherStep(p) /\ ~Return(p) /\ ~\E c \in Calls : Invoke(p, c)
      BY <1>1 DEF OtherStep, ReadSize, Measure, BufferAlloc, BufferFree, WaitEnds,
                  WaitTimesOut, Return, Invoke, Goes
    <2> QED
      BY <2>1, <2>2, <2>3, <2>4 DEF Step
  <1>4. ret'[p] = NewValue(p) /\ op' = op
    BY <1>1, <1>3, ResultIs DEF Insert, frame
  <1>5. NewValue(p) \notin {NoRet, OOM}
    BY <1>1, <1>2, NewValueIs DEF AtKey, TypedCalls, FailureIsNoValue
  <1> QED
    BY <1>1, <1>2, <1>4, <1>5 DEF AboutToSignal, AtKey, OnMap, Kind, Writers, CounterPlaces

LEMMA AnnouncedNext ==
  ASSUME LockInv, NoClear, TypedCalls, FailureIsNoValue, MapInv, WritesAreAnnounced,
         [HNext]_historyVars
  PROVE  WritesAreAnnounced'
  <1>1. CASE UNCHANGED historyVars
    BY <1>1 DEF historyVars, vars, WritesAreAnnounced, AboutToSignal, Kind
  <1>2. CASE HNext
    <2> SUFFICES ASSUME unseen', ~event' PROVE \E q \in Procs : AboutToSignal(q)'
      BY DEF WritesAreAnnounced
    <2>1. PICK p \in Procs : Step(p) \/ \E c \in Calls : Invoke(p, c)
      BY <1>2 DEF HNext, Next
    <2>2. (\A q \in Procs : ~Wakes(q)) /\ (unseen \/ \E q \in Procs : Links(q))
      BY <1>2 DEF HNext
    <2>3. \A q \in Procs \ {p} : pc'[q] = pc[q] /\ op'[q] = op[q] /\ ret'[q] = ret[q]
      BY <2>1, OnlyOneMoves
    <2>4. event' = event
      <3>1. ~WaitEnds(p)
        BY <2>2, ResultIs DEF WaitEnds, Wakes, Goes, MapInv
      <3> QED
        BY <2>1, <3>1, EventSteps
    <2>5. CASE \E q \in Procs : Links(q)
      <3>1. Links(p)
        BY <2>3, <2>5 DEF Links
      <3> QED
        BY <2>1, <3>1, LinkerSignals
    <2>6. CASE unseen
      <3>1. PICK q \in Procs : AboutToSignal(q)
        BY <2>4, <2>6 DEF WritesAreAnnounced
      <3>2. CASE q = p
        BY <2>1, <3>1, <3>2, SignalComes
      <3>3. CASE q # p
        BY <2>3, <3>1, <3>3 DEF AboutToSignal, Kind
      <3> QED
        BY <3>2, <3>3
    <2> QED
      BY <2>2, <2>5, <2>6
  <1> QED
    BY <1>1, <1>2

-----------------------------------------------------------------------------

\* SetEvent comes after the locks are given up (dict.cpp:263-274) and signals
\* coalesce, but after a write the event is set, or its writer is on the way to
\* setting it, until a Wait is woken: whatever the processes do meanwhile.
THEOREM Announced ==
  ASSUME NoClear, TypedCalls, FailureIsNoValue
  PROVE  HSpec => []WritesAreAnnounced
  <1>1. HInit => LockInv /\ MapInv /\ WritesAreAnnounced
    BY LockInvInit, MapInvInit DEF HInit, WritesAreAnnounced
  <1>2. [HNext]_historyVars => [Next]_vars
    BY DEF HNext, historyVars
  <1>3. LockInv /\ MapInv /\ WritesAreAnnounced /\ [HNext]_historyVars =>
          LockInv' /\ MapInv' /\ WritesAreAnnounced'
    BY <1>2, LockInvNext, MapInvNext, AnnouncedNext
  <1> QED
    BY <1>1, <1>3, PTL DEF HSpec

-----------------------------------------------------------------------------
(* The blocks.                                                             *)

Finite == IsFiniteSet(Procs) /\ IsFiniteSet(Keys)

\* The blocks of each key's entry in a table, and of each process's entry that
\* is out of the table and not yet freed.
KeyBlocks(t) == [k \in Keys |-> EntryBlocks(ValueIn(t, k))]
Detacheds    == [p \in Procs |-> Detached(p)]

\* Who is about to free a buffer has one.
BufferOK(p) == pc[p] \in {"allocLock", "bufFree"} /\ Kind(p) = "Free" => buffers[p] > 0

RoomInv ==
  /\ room \in Nat
  /\ buffers \in [Procs -> Nat]
  /\ \A p \in Procs : BufferOK(p)
  /\ Capacity - room = SumFunctionOnSet(KeyBlocks(chain), Keys) + SumFunctionOnSet(buffers, Procs)
                       + SumFunctionOnSet(Detacheds, Procs)

LEMMA EntryBlocksType ==
  ASSUME TypedCalls, NEW v \in Vals \cup {Absent}
  PROVE  EntryBlocks(v) \in Nat /\ EntryBlocks(Absent) = 0
  <1>1. CASE v \in Vals
    <2>1. PICK c \in Calls : c.kind \in Writers /\ v.type = c.val.type
      BY <1>1 DEF Vals, ValTypes
    <2> QED
      BY <2>1, SharedDictAssumption DEF EntryBlocks, Writers
  <1>2. CASE v = Absent
    BY <1>2 DEF EntryBlocks
  <1> QED
    BY <1>1, <1>2 DEF EntryBlocks

LEMMA DetachedType ==
  ASSUME TypedCalls, old \in [Procs -> Vals \cup {Absent}], NEW p \in Procs
  PROVE  Detached(p) \in Nat
  BY EntryBlocksType DEF Detached

LEMMA KeyBlocksType ==
  ASSUME TypedCalls, TableOK(chain), NEW k \in Keys
  PROVE  KeyBlocks(chain)[k] \in Nat /\ KeyBlocks(chain)[k] = EntryBlocks(Value(k))
  <1>1. ValueIn(chain, k) \in Vals \cup {Absent} /\ Value(k) = ValueIn(chain, k)
    BY ValueIs, Lookups
  <1> QED
    BY <1>1, EntryBlocksType DEF KeyBlocks

RoomTypes ==
  /\ \A p \in Procs : Detacheds[p] \in Nat
  /\ \A k \in Keys : KeyBlocks(chain)[k] \in Nat

LEMMA TypesOfRoom == TypedCalls /\ MapInv => RoomTypes
  <1> SUFFICES ASSUME TypedCalls, MapInv PROVE RoomTypes
    OBVIOUS
  <1>1. TableOK(chain) /\ old \in [Procs -> Vals \cup {Absent}]
    BY DEF MapInv, Functions
  <1> QED
    BY <1>1, KeyBlocksType, DetachedType DEF RoomTypes, Detacheds

LEMMA TypesOfRoomNext == ASSUME TypedCalls, MapInv' PROVE RoomTypes'
  <1>1. TableOK(chain') /\ old' \in [Procs -> Vals \cup {Absent}]
    BY DEF MapInv, Functions
  <1>2. \A p \in Procs : Detacheds'[p] \in Nat
    BY <1>1, EntryBlocksType DEF Detacheds, Detached
  <1>3. \A k \in Keys : KeyBlocks(chain')[k] \in Nat
    BY <1>1, ValueIs, EntryBlocksType DEF KeyBlocks
  <1> QED
    BY <1>2, <1>3 DEF RoomTypes, KeyBlocks

-----------------------------------------------------------------------------
KeySum == SumFunctionOnSet(KeyBlocks(chain), Keys)

LEMMA DetachedSum ==
  ASSUME Finite, RoomTypes, RoomTypes', NEW p \in Procs,
         \A q \in Procs \ {p} : Detacheds'[q] = Detacheds[q]
  PROVE  SumFunctionOnSet(Detacheds', Procs) =
           SumFunctionOnSet(Detacheds, Procs) + Detacheds'[p] - Detacheds[p]
  <1>1. \A q \in Procs : Detacheds[q] \in Int /\ Detacheds'[q] \in Int
    BY DEF RoomTypes
  <1> QED
    BY <1>1, SumChange DEF Finite

\* What a step adds to the entries, to the buffers and to what is detached is
\* what it takes from the free blocks.
LEMMA RoomStep ==
  ASSUME Finite, RoomInv, RoomTypes, RoomTypes', NEW p \in Procs, NEW n \in Int,
         KeySum' = KeySum + n,
         room' \in Nat, buffers' \in [Procs -> Nat], BufferOK(p)',
         \A q \in Procs \ {p} : buffers'[q] = buffers[q] /\ pc'[q] = pc[q] /\ op'[q] = op[q],
         \A q \in Procs \ {p} : old'[q] = old[q],
         room - room' = n + (buffers'[p] - buffers[p]) + (Detached(p)' - Detached(p))
  PROVE  RoomInv'
  <1>1. SumFunctionOnSet(buffers', Procs) =
          SumFunctionOnSet(buffers, Procs) + buffers'[p] - buffers[p]
    BY SumChange DEF Finite, RoomInv
  <1>2. \A q \in Procs : /\ Detacheds[q] = Detached(q) /\ Detacheds'[q] = Detached(q)'
                         /\ q # p => Detached(q)' = Detached(q)
    BY DEF Detacheds, Detached, Kind
  <1>3. SumFunctionOnSet(Detacheds', Procs) =
          SumFunctionOnSet(Detacheds, Procs) + Detached(p)' - Detached(p)
    <2>1. \A q \in Procs \ {p} : Detacheds'[q] = Detacheds[q]
      BY <1>2
    <2>2. SumFunctionOnSet(Detacheds', Procs) =
            SumFunctionOnSet(Detacheds, Procs) + Detacheds'[p] - Detacheds[p]
      BY <2>1, DetachedSum
    <2> QED
      BY <1>2, <2>2
  <1>4. /\ SumFunctionOnSet(Detacheds, Procs) \in Int /\ KeySum \in Int
        /\ SumFunctionOnSet(buffers, Procs) \in Int
    BY SumType DEF Finite, RoomTypes, RoomInv, KeySum
  <1>5. Detached(p) \in Int /\ Detached(p)' \in Int /\ buffers[p] \in Int /\ buffers'[p] \in Int
    BY <1>2 DEF RoomTypes, RoomInv
  <1>6. room \in Int /\ room' \in Int /\ Capacity \in Int
    BY SharedDictAssumption DEF RoomInv
  <1>7. Capacity - room' = KeySum' + SumFunctionOnSet(buffers', Procs)
                           + SumFunctionOnSet(Detacheds', Procs)
    <2>1. Capacity - room = KeySum + SumFunctionOnSet(buffers, Procs)
                            + SumFunctionOnSet(Detacheds, Procs)
      BY DEF RoomInv, KeySum
    <2> QED
      BY <1>1, <1>3, <1>4, <1>5, <1>6, <2>1
  <1>8. \A q \in Procs : BufferOK(q)'
    BY DEF RoomInv, BufferOK, Kind
  <1> QED
    BY <1>7, <1>8 DEF RoomInv, KeySum

\* A step at which no block changes hands.
LEMMA SameRoom ==
  ASSUME Finite, RoomInv, RoomTypes, RoomTypes', NEW p \in Procs,
         UNCHANGED <<chain, room, buffers>>,
         \A q \in Procs \ {p} : pc'[q] = pc[q] /\ op'[q] = op[q] /\ old'[q] = old[q],
         BufferOK(p)', Detached(p)' = Detached(p)
  PROVE  RoomInv'
  <1>1. KeySum' = KeySum + 0
    <2>1. KeySum \in Int
      BY SumType DEF Finite, RoomTypes, KeySum
    <2> QED
      BY <2>1 DEF KeySum, KeyBlocks
  <1>2. room' \in Nat /\ buffers' \in [Procs -> Nat] /\ Detached(p) \in Int
    BY DEF RoomInv, RoomTypes, Detacheds
  <1>3. room - room' = 0 + (buffers'[p] - buffers[p]) + (Detached(p)' - Detached(p))
    BY <1>2 DEF RoomInv
  <1> QED
    BY <1>1, <1>2, <1>3, RoomStep

LEMMA KeySumChange ==
  ASSUME Finite, TypedCalls, TableOK(chain), TableOK(chain'), NEW k \in Keys,
         \A x \in Keys \ {k} : ValueIn(chain', x) = ValueIn(chain, x)
  PROVE  /\ EntryBlocks(ValueIn(chain', k)) \in Int /\ EntryBlocks(Value(k)) \in Int
         /\ KeySum' = KeySum + (EntryBlocks(ValueIn(chain', k)) - EntryBlocks(Value(k)))
  <1> DEFINE f == KeyBlocks(chain)
             g == KeyBlocks(chain')
  <1>1. \A x \in Keys : f[x] \in Nat /\ f[x] = EntryBlocks(ValueIn(chain, x))
    BY KeyBlocksType, Lookups
  <1>2. \A x \in Keys : g[x] \in Nat /\ g[x] = EntryBlocks(ValueIn(chain', x))
    BY ValueIs, EntryBlocksType DEF KeyBlocks
  <1>3. Value(k) = ValueIn(chain, k)
    BY Lookups
  <1>4. \A x \in Keys \ {k} : g[x] = f[x]
    BY <1>1, <1>2
  <1>5. KeySum = SumFunctionOnSet(f, Keys) /\ KeySum' = SumFunctionOnSet(g, Keys)
    BY DEF KeySum, KeyBlocks
  <1> HIDE DEF f, g
  <1>6. KeySum' = KeySum + g[k] - f[k] /\ KeySum \in Int
    BY <1>1, <1>2, <1>4, <1>5, SumChange, SumType DEF Finite
  <1> QED
    BY <1>1, <1>2, <1>3, <1>6

-----------------------------------------------------------------------------
\* Nobody's buffers, nor the entry in his hand, are changed by another's step.
LEMMA OneActs ==
  ASSUME LockInv, NoClear, MapInv, RoomInv, NEW p \in Procs,
         Step(p) \/ \E c \in Calls : Invoke(p, c)
  PROVE  \A q \in Procs \ {p} : /\ pc'[q] = pc[q] /\ op'[q] = op[q] /\ old'[q] = old[q]
                               /\ buffers'[q] = buffers[q]
  <1>1. /\ LockTypes /\ old \in [Procs -> Vals \cup {Absent}] /\ buffers \in [Procs -> Nat]
    BY DEF LockInv, MapInv, Functions, RoomInv
  <1>2. ASSUME NEW from, NEW to, Goes(p, from, to), op' = op,
               old' = old \/ \E v : old' = [old EXCEPT ![p] = v],
               buffers' = buffers \/ \E n : buffers' = [buffers EXCEPT ![p] = n]
        PROVE  \A q \in Procs \ {p} : /\ pc'[q] = pc[q] /\ op'[q] = op[q] /\ old'[q] = old[q]
                                     /\ buffers'[q] = buffers[q]
    BY <1>1, <1>2 DEF Goes, LockTypes
  <1>3. ~Wipe(p) /\ ~ZeroAllocLock(p) /\ ~ZeroHashLock(p)
    BY DEF LockInv, LockTypes, Wipe, ZeroAllocLock, ZeroHashLock, Goes
  <1>4. CASE LockStep(p) \/ Sweep(p) \/ SweepUnlock(p) \/ Collect(p)
    BY <1>2, <1>4 DEF LockStep, HashLock, HashUnlock, TakeAllocLock, AllocUnlock, Sweep,
                      SweepUnlock, Collect, frame
  <1>5. CASE WriteStep(p) \/ KeyStep(p)
    BY <1>2, <1>5 DEF WriteStep, Replace, Insert, InsertFails, Signal, KeyStep, Get, Has,
                      DeleteMisses, Unlink, FreeEntry, frame
  <1>6. CASE CountStep(p)
    BY <1>2, <1>6 DEF CountStep, DecCheck, DecLoad, DecStore, IncLoad, IncStore, TickLoad,
                      TickStore, frame
  <1>7. CASE OtherStep(p)
    BY <1>2, <1>7 DEF OtherStep, ReadSize, Measure, BufferAlloc, BufferFree, WaitEnds,
                      WaitTimesOut, frame
  <1>8. CASE Return(p) \/ \E c \in Calls : Invoke(p, c)
    BY <1>1, <1>8 DEF Return, Invoke, Goes, LockTypes
  <1> QED
    BY <1>3, <1>4, <1>5, <1>6, <1>7, <1>8 DEF Step, SweepStep

\* The steps at which no block changes hands.
LEMMA QuietRoom ==
  ASSUME LockInv, NoClear, MapInv, RoomInv, NEW p \in Procs,
         Step(p) \/ \E c \in Calls : Invoke(p, c),
         ~Replace(p), ~Insert(p), ~Unlink(p), ~FreeEntry(p), ~BufferAlloc(p), ~BufferFree(p)
  PROVE  UNCHANGED <<chain, room, buffers>> /\ BufferOK(p)' /\ Detached(p)' = Detached(p)
  <1>1. LockTypes /\ ProcOK(p) /\ NoOp \notin Calls /\ BufferOK(p)
    BY SharedDictAssumption DEF LockInv, RoomInv
  <1>2. ASSUME NEW from, NEW to, Goes(p, from, to),
               from \notin {"allocLock", "free"}, to \notin {"allocLock", "bufFree", "free"}
        PROVE  BufferOK(p)' /\ Detached(p)' = Detached(p)
    BY <1>1, <1>2 DEF BufferOK, Detached, Goes, LockTypes
  <1>3. ~Wipe(p) /\ ~ZeroAllocLock(p) /\ ~ZeroHashLock(p)
    BY DEF LockInv, LockTypes, Wipe, ZeroAllocLock, ZeroHashLock, Goes
  <1>4. CASE HashLock(p)
    <2>1. /\ pc[p] = "hashLock" /\ pc'[p] \in {"allocLock", "get", "has", "unlink"}
          /\ pc'[p] = "allocLock" => Kind(p) \in Writers
          /\ Kind(p)' = Kind(p)
      BY <1>1, <1>4 DEF HashLock, Goes, LockTypes, ProcOK, KindOK, Keyed, Writers,
                        AfterHashLock, frame, Kind
    <2> QED
      BY <1>4, <2>1 DEF HashLock, data, BufferOK, Detached, Writers
  <1>5. CASE TakeAllocLock(p)
    <2>1. /\ pc[p] = "allocLock" /\ pc'[p] = AfterAllocLock(Kind(p))
          /\ Kind(p) \in {"Set", "Add", "Delete", "Status", "Alloc", "Free"}
          /\ Kind(p)' = Kind(p) /\ UNCHANGED <<op, old, chain, room, buffers>>
      BY <1>1, <1>5 DEF TakeAllocLock, Goes, LockTypes, ProcOK, KindOK, frame, data, Kind
    <2>2. /\ pc'[p] \in {"replace", "free", "measure", "bufAlloc", "bufFree"}
          /\ pc'[p] = "free" <=> Kind(p) = "Delete"
      BY <2>1 DEF AfterAllocLock
    <2> QED
      BY <1>1, <2>1, <2>2 DEF BufferOK, Detached
  <1>6. CASE HashUnlock(p) \/ AllocUnlock(p) \/ Sweep(p) \/ SweepUnlock(p) \/ Collect(p)
    <2>1. CASE AllocUnlock(p)
      <3>1. AfterAllocUnlock(Kind(p)) \in {"hashUnlock", "decCheck", "return"}
        BY <1>1, <2>1 DEF AllocUnlock, Goes, ProcOK, KindOK, AfterAllocUnlock
      <3> QED
        BY <1>2, <2>1, <3>1 DEF AllocUnlock, data
    <2>2. CASE Sweep(p)
      <3>1. Kind(p) = "Keys"
        BY <1>1, <2>2 DEF Sweep, Goes, ProcOK, KindOK
      <3> QED
        BY <1>2, <2>2, <3>1 DEF Sweep, data
    <2> QED
      BY <1>2, <1>6, <2>1, <2>2 DEF HashUnlock, SweepUnlock, Collect, data
  <1>7. CASE InsertFails(p) \/ Signal(p) \/ Get(p) \/ Has(p) \/ DeleteMisses(p)
    BY <1>2, <1>7 DEF InsertFails, Signal, Get, Has, DeleteMisses, data
  <1>8. CASE CountStep(p)
    BY <1>2, <1>8 DEF CountStep, DecCheck, DecLoad, DecStore, IncLoad, IncStore, TickLoad,
                      TickStore, data, AfterDec
  <1>9. CASE ReadSize(p) \/ Measure(p) \/ WaitEnds(p) \/ WaitTimesOut(p) \/ Return(p)
    BY <1>2, <1>9 DEF ReadSize, Measure, WaitEnds, WaitTimesOut, Return, data
  <1>10. ASSUME NEW c \in Calls, Invoke(p, c)
         PROVE  UNCHANGED <<chain, room, buffers>> /\ BufferOK(p)' /\ Detached(p)' = Detached(p)
    <2>1. op'[p] = c /\ pc[p] = "idle" /\ pc'[p] = FirstPlace(c.kind)
      BY <1>1, <1>10 DEF Invoke, Goes, LockTypes
    <2>2. /\ FirstPlace(c.kind) \in {"hashLock", "sweep", "allocLock", "size", "wait"}
          /\ FirstPlace(c.kind) = "allocLock" => c.kind # "Delete"
      BY DEF NoClear, FirstPlace, Keyed
    <2>3. c.kind = "Free" => buffers[p] > 0
      BY <1>10 DEF Invoke
    <2> QED
      BY <1>10, <2>1, <2>2, <2>3 DEF Invoke, data, BufferOK, Detached, Kind
  <1> QED
    BY <1>3, <1>4, <1>5, <1>6, <1>7, <1>8, <1>9, <1>10
       DEF Step, LockStep, WriteStep, KeyStep, SweepStep, OtherStep

\* What the steps that move blocks have in common.
Apart(p) ==
  \A q \in Procs \ {p} : /\ pc'[q] = pc[q] /\ op'[q] = op[q] /\ old'[q] = old[q]
                        /\ buffers'[q] = buffers[q]

\* The steps on a key's entry: it goes, it comes, it is kept in hand.
LEMMA EntryRoom ==
  ASSUME LockInv, LockInv', MapInv, MapInv', TypedCalls, Finite, RoomInv, RoomTypes, RoomTypes',
         NEW p \in Procs, Apart(p), Replace(p) \/ Insert(p) \/ Unlink(p)
  PROVE  RoomInv'
  <1> DEFINE k == Key(p)
             m == EntryBlocks(Value(k))
             n == EntryBlocks(ValueIn(chain', k))
  <1>1. /\ pc[p] \in {"replace", "insert", "unlink"} /\ AtKey(p) /\ k \in Keys
        /\ LockTypes /\ TableOK(chain) /\ TableOK(chain') /\ op[p] \in Calls /\ op' = op
        /\ NoOp \notin Calls /\ buffers' = buffers /\ room \in Nat
        /\ buffers \in [Procs -> Nat] /\ old \in [Procs -> Vals \cup {Absent}]
    BY AtKeyIs, SharedDictAssumption
       DEF Replace, Insert, Unlink, Goes, AtKey, LockInv, MapInv, Functions, RoomInv, frame
  <1>2. ASSUME \A x \in Keys \ {k} : ValueIn(chain', x) = ValueIn(chain, x),
               room' \in Nat, pc'[p] # "free", pc'[p] = "allocLock" => Kind(p) = "Delete",
               room - room' = n - m + Detached(p)'
        PROVE  RoomInv'
    <2>1. m \in Int /\ n \in Int /\ KeySum' = KeySum + (n - m)
      BY <1>1, <1>2, KeySumChange
    <2>2. Detached(p) = 0 /\ Detached(p)' \in Int /\ Kind(p)' = Kind(p)
      BY <1>1 DEF Detached, RoomTypes, Detacheds, Kind
    <2>3. BufferOK(p)'
      <3>1. pc'[p] # "bufFree"
        BY <1>1 DEF Replace, Insert, Unlink, Goes, Removed, LockTypes
      <3> QED
        BY <1>2, <2>2, <3>1 DEF BufferOK
    <2> DEFINE d == n - m
    <2>4. d \in Int /\ KeySum' = KeySum + d
      BY <2>1
    <2>5. room - room' = d + (buffers'[p] - buffers[p]) + (Detached(p)' - Detached(p))
      BY <1>1, <1>2, <2>1, <2>2
    <2>6. buffers' \in [Procs -> Nat]
      BY <1>1
    <2> HIDE DEF d
    <2> QED
      BY <1>2, <2>3, <2>4, <2>5, <2>6, RoomStep DEF Apart
  <1>3. m \in Nat /\ EntryBlocks(Absent) = 0
    BY <1>1, ValueIs, Lookups, EntryBlocksType
  <1>4. CASE Replace(p) \/ Unlink(p)
    <2>1. /\ \A x \in Keys \ {k} : ValueIn(chain', x) = ValueIn(chain, x)
          /\ ValueIn(chain', k) = Absent
      <3>1. chain' = RemoveKey(k)
        BY <1>4 DEF Replace, Unlink
      <3> QED
        BY <1>1, <3>1, Removal, ValueIs
    <2>2. n = 0
      BY <1>3, <2>1
    <2>3. CASE Replace(p)
      <3>1. pc'[p] \in {"insert", "decCheck"} /\ room' = room + m
        BY <1>1, <2>3 DEF Replace, Removed, Goes, LockTypes
      <3>2. Detached(p)' = 0
        BY <3>1 DEF Detached
      <3> HIDE DEF m, n
      <3>3. room' \in Nat /\ room - room' = n - m + Detached(p)'
        BY <1>1, <1>3, <2>2, <3>1, <3>2
      <3> QED
        BY <1>2, <2>1, <3>1, <3>3
    <2>4. CASE Unlink(p)
      <3>1. /\ pc'[p] = "allocLock" /\ room' = room /\ old'[p] = Value(k)
            /\ Kind(p) = "Delete" /\ Kind(p)' = "Delete"
        BY <1>1, <2>4, AtKeyIs DEF Unlink, Goes, LockTypes, Kind
      <3>2. Detached(p)' = m
        BY <1>1, <3>1 DEF Detached, EntryBlocks
      <3> HIDE DEF m, n
      <3>3. room' \in Nat /\ room - room' = n - m + Detached(p)'
        BY <1>1, <1>3, <2>2, <3>1, <3>2
      <3> QED
        BY <1>2, <2>1, <3>1, <3>3
    <2> QED
      BY <1>4, <2>3, <2>4
  <1>5. CASE Insert(p)
    <2>1. /\ pc[p] = "insert" /\ pc'[p] = "incLoad" /\ Kind(p) \in Writers
          /\ GoneFrom(chain, k)
      BY <1>1, <1>5, AtKeyIs DEF Insert, Goes, LockTypes, AtKey, GoneOK, Removing
    <2>2. NewValue(p) \in Vals
      BY <1>1, <2>1, NewValueIs DEF MapInv
    <2>3. /\ \A x \in Keys \ {k} : ValueIn(chain', x) = ValueIn(chain, x)
          /\ ValueIn(chain', k) = NewValue(p) /\ Value(k) = Absent
      <3>1. chain' = LinkEntry(k, NewValue(p))
        BY <1>5 DEF Insert
      <3> QED
        BY <1>1, <2>1, <2>2, <3>1, Linking, ValueIs, Lookups
    <2>4. n \in Nat /\ m = 0 /\ room >= n /\ room' = room - n
      BY <1>3, <1>5, <2>2, <2>3, EntryBlocksType DEF Insert, MayFind
    <2>5. Detached(p)' = 0
      BY <2>1 DEF Detached
    <2> HIDE DEF m, n
    <2>6. room' \in Nat /\ room - room' = n - m + Detached(p)'
      BY <1>1, <2>4, <2>5
    <2> QED
      BY <1>2, <2>1, <2>3, <2>6
  <1> QED
    BY <1>4, <1>5

\* The steps on blocks alone: Delete frees its entry, buffers come and go.
LEMMA BlockRoom ==
  ASSUME LockInv, TypedCalls, MapInv, Finite, RoomInv, RoomTypes, RoomTypes', NEW p \in Procs,
         Apart(p), FreeEntry(p) \/ BufferAlloc(p) \/ BufferFree(p)
  PROVE  RoomInv'
  <1>1. /\ LockTypes /\ ProcOK(p) /\ BufferOK(p) /\ NoOp \notin Calls /\ op' = op
        /\ chain' = chain /\ room \in Nat /\ buffers \in [Procs -> Nat] /\ old' = old
        /\ old \in [Procs -> Vals \cup {Absent}]
    BY SharedDictAssumption
       DEF LockInv, RoomInv, MapInv, Functions, FreeEntry, BufferAlloc, BufferFree, frame
  <1>2. /\ pc[p] \in {"free", "bufAlloc", "bufFree"} /\ pc'[p] = "allocUnlock"
        /\ pc[p] = "free" => Kind(p) = "Delete" /\ op[p] # NoOp
        /\ pc[p] = "bufFree" => Kind(p) = "Free"
    BY <1>1 DEF FreeEntry, BufferAlloc, BufferFree, Goes, LockTypes, ProcOK, KindOK
  <1>3. BufferOK(p)' /\ Detached(p)' = 0
    BY <1>2 DEF BufferOK, Detached
  <1>4. KeySum' = KeySum + 0
    <2>1. KeySum \in Int
      BY SumType DEF Finite, RoomTypes, KeySum
    <2> QED
      BY <1>1, <2>1 DEF KeySum, KeyBlocks
  <1>5. ASSUME room' \in Nat, buffers' \in [Procs -> Nat],
               room - room' = buffers'[p] - buffers[p] - Detached(p)
        PROVE  RoomInv'
    <2>1. Detached(p) \in Int /\ buffers[p] \in Int /\ buffers'[p] \in Int
      BY <1>1, <1>5, DetachedType
    <2>2. room - room' = 0 + (buffers'[p] - buffers[p]) + (Detached(p)' - Detached(p))
      BY <1>3, <1>5, <2>1
    <2> QED
      BY <1>3, <1>4, <1>5, <2>2, RoomStep DEF Apart
  <1>6. CASE FreeEntry(p)
    <2>1. pc[p] = "free" /\ room' = room + EntryBlocks(old[p]) /\ buffers' = buffers
      BY <1>6 DEF FreeEntry, Goes
    <2>2. Detached(p) = EntryBlocks(old[p]) /\ Detached(p) \in Nat
      BY <1>1, <1>2, <2>1, DetachedType DEF Detached
    <2> QED
      BY <1>1, <1>5, <2>1, <2>2
  <1>7. CASE BufferAlloc(p)
    <2>1. Detached(p) = 0
      BY <1>7 DEF BufferAlloc, Goes, Detached
    <2>2. \/ room >= 1 /\ room' = room - 1 /\ buffers' = [buffers EXCEPT ![p] = @ + 1]
          \/ room' = room /\ buffers' = buffers
      BY <1>7 DEF BufferAlloc
    <2>3. CASE room >= 1 /\ room' = room - 1 /\ buffers' = [buffers EXCEPT ![p] = @ + 1]
      BY <1>1, <1>5, <2>1, <2>3
    <2>4. CASE room' = room /\ buffers' = buffers
      BY <1>1, <1>5, <2>1, <2>4
    <2> QED
      BY <2>2, <2>3, <2>4
  <1>8. CASE BufferFree(p)
    <2>1. pc[p] = "bufFree" /\ Detached(p) = 0
      BY <1>8 DEF BufferFree, Goes, Detached
    <2>2. buffers[p] > 0
      BY <1>1, <1>2, <2>1 DEF BufferOK
    <2> QED
      BY <1>1, <1>5, <1>8, <2>1, <2>2 DEF BufferFree
  <1> QED
    BY <1>6, <1>7, <1>8

LEMMA RoomInvInit ==
  ASSUME Init, Finite, TypedCalls
  PROVE  RoomInv
  <1>1. /\ \A p \in Procs : pc[p] = "idle" /\ buffers[p] = 0
        /\ room = Capacity /\ Capacity \in Nat /\ buffers \in [Procs -> Nat]
    BY SharedDictAssumption DEF Init
  <1>2. \A p \in Procs : BufferOK(p)
    BY <1>1 DEF BufferOK
  <1>3. \A p \in Procs : Detacheds[p] = 0
    BY <1>1 DEF Detacheds, Detached
  <1>4. \A k \in Keys : KeyBlocks(chain)[k] = 0
    <2>1. ASSUME NEW k \in Keys PROVE ValueIn(chain, k) = Absent
      <3>1. chain[SlotOf[k]] = << >>
        BY SlotInSlots DEF Init
      <3> QED
        BY <3>1 DEF ValueIn, FindIn, MatchesIn
    <2> QED
      BY <2>1 DEF KeyBlocks, EntryBlocks
  <1>5. /\ SumFunctionOnSet(KeyBlocks(chain), Keys) = 0
        /\ SumFunctionOnSet(buffers, Procs) = 0 /\ SumFunctionOnSet(Detacheds, Procs) = 0
    <2>1. ASSUME NEW f, NEW S, IsFiniteSet(S), \A x \in S : f[x] = 0
          PROVE  SumFunctionOnSet(f, S) = 0
      <3>1. \A x \in S : f[x] \in Int
        BY <2>1
      <3>2. {} \in SUBSET S /\ \A x \in S \ {} : f[x] = 0
        BY <2>1
      <3>3. SumFunctionOnSet(f, S) = SumFunctionOnSet(f, {})
        BY <2>1, <3>1, <3>2, SumSupport
      <3> QED
        BY <3>3, SumEmpty
    <2> QED
      BY <1>1, <1>3, <1>4, <2>1 DEF Finite
  <1> QED
    BY <1>1, <1>2, <1>5 DEF RoomInv

LEMMA RoomInvNext ==
  ASSUME LockInv, NoClear, TypedCalls, Finite, MapInv, RoomInv, [Next]_vars
  PROVE  RoomInv'
  <1>1. LockInv' /\ MapInv' /\ RoomTypes /\ RoomTypes'
    BY LockInvNext, MapInvNext, TypesOfRoom, TypesOfRoomNext
  <1>2. CASE UNCHANGED vars
    <2>1. UNCHANGED <<chain, room, buffers, pc, op, old>>
      BY <1>2 DEF vars
    <2>2. Detacheds' = Detacheds /\ KeyBlocks(chain)' = KeyBlocks(chain)
      BY <2>1 DEF Detacheds, Detached, Kind, KeyBlocks
    <2> QED
      BY <2>1, <2>2 DEF RoomInv, BufferOK, Kind
  <1>3. ASSUME NEW p \in Procs, Step(p) \/ \E c \in Calls : Invoke(p, c)
        PROVE  RoomInv'
    <2>1. Apart(p)
      BY <1>3, OneActs DEF Apart
    <2>2. CASE Replace(p) \/ Insert(p) \/ Unlink(p)
      BY <1>1, <2>1, <2>2, EntryRoom
    <2>3. CASE FreeEntry(p) \/ BufferAlloc(p) \/ BufferFree(p)
      BY <1>1, <2>1, <2>3, BlockRoom
    <2>4. CASE ~(Replace(p) \/ Insert(p) \/ Unlink(p) \/ FreeEntry(p) \/ BufferAlloc(p)
                 \/ BufferFree(p))
      <3>1. UNCHANGED <<chain, room, buffers>> /\ BufferOK(p)' /\ Detached(p)' = Detached(p)
        BY <1>3, <2>4, QuietRoom
      <3> QED
        BY <1>1, <2>1, <3>1, SameRoom DEF Apart
    <2> QED
      BY <2>2, <2>3, <2>4
  <1> QED
    BY <1>2, <1>3 DEF Next

-----------------------------------------------------------------------------
(* What the invariant says of the entries. *)

LEMMA BlocksOfEntries ==
  ASSUME TableOK(chain), TypedCalls, Finite
  PROVE  SumFunction([x \in Entries |-> EntryBlocks(Entry(x).val)])
           = SumFunctionOnSet(KeyBlocks(chain), Keys)
  <1> DEFINE b == [x \in Entries |-> Entry(x).key]
             f == [x \in Entries |-> EntryBlocks(Entry(x).val)]
             g == KeyBlocks(chain)
             R == {b[x] : x \in Entries}
  <1>1. ASSUME NEW x \in Entries
        PROVE  /\ Entry(x) \in EntryType /\ x[1] \in Slots
               /\ Entry(x) \in EntriesIn(chain, x[1]) /\ SlotOf[Entry(x).key] = x[1]
    <2>1. PICK s \in Slots : x \in {<<s, i>> : i \in DOMAIN chain[s]}
      BY DEF Entries
    <2>2. PICK i \in DOMAIN chain[s] : x = <<s, i>>
      BY <2>1
    <2>3. DOMAIN chain[s] = 1 .. Len(chain[s]) /\ chain[s] \in Seq(EntryType)
      BY DEF TableOK
    <2>4. Entry(x) = chain[s][i] /\ chain[s][i] \in EntryType
      BY <2>2, <2>3 DEF Entry
    <2>5. Entry(x) \in EntriesIn(chain, s)
      BY <2>2, <2>3, <2>4 DEF EntriesIn
    <2> QED
      BY <2>2, <2>4, <2>5 DEF TableOK
  <1>2. \A x \in Entries : b[x] \in Keys /\ Entry(x).val \in Vals
    BY <1>1 DEF EntryType
  <1>3. \A x \in Entries : f[x] \in Int
    BY <1>2, EntryBlocksType
  <1>4. ASSUME NEW x \in Entries PROVE g[b[x]] = f[x]
    <2>1. ValueIn(chain, b[x]) = Entry(x).val
      BY <1>1, <1>2, ValueIs
    <2> QED
      BY <1>2, <2>1 DEF KeyBlocks
  <1>5. \A x, y \in Entries : b[x] = b[y] => x = y
    BY TableHasOneEntry DEF OneEntryPerKey
  <1>6. R \in SUBSET Keys /\ IsFiniteSet(R) /\ IsFiniteSet(Entries)
    <2>1. R \in SUBSET Keys
      BY <1>2
    <2>2. IsFiniteSet(R)
      BY <2>1, FS_Subset DEF Finite
    <2>3. b \in Injection(Entries, R)
      BY <1>5 DEF Injection, IsInjective
    <2> HIDE DEF b, R
    <2> QED
      BY <2>1, <2>2, <2>3, FS_Injection
  <1>7. ASSUME NEW k \in Keys \ R PROVE g[k] = 0
    <2>1. GoneFrom(chain, k)
      <3> SUFFICES ASSUME ~GoneFrom(chain, k) PROVE FALSE
        OBVIOUS
      <3>1. PICK i \in 1 .. Len(chain[SlotOf[k]]) : chain[SlotOf[k]][i].key = k
        BY DEF GoneFrom, EntriesIn
      <3>2. SlotOf[k] \in Slots /\ DOMAIN chain[SlotOf[k]] = 1 .. Len(chain[SlotOf[k]])
        BY SlotInSlots DEF TableOK
      <3>3. <<SlotOf[k], i>> \in Entries
        BY <3>1, <3>2 DEF Entries
      <3>4. b[<<SlotOf[k], i>>] = k
        BY <3>1, <3>3 DEF Entry
      <3> QED
        BY <3>3, <3>4
    <2>2. ValueIn(chain, k) = Absent
      BY <2>1, ValueIs
    <2> QED
      BY <2>2, EntryBlocksType DEF KeyBlocks
  <1>8. \A k \in Keys : g[k] \in Int
    BY KeyBlocksType
  <1>9. SumFunction(f) = SumFunctionOnSet(f, Entries)
    BY DEF SumFunction, SumFunctionOnSet, FoldFunction
  <1> HIDE DEF f, g, b
  <1>10. SumFunctionOnSet(g, R) = SumFunctionOnSet(f, Entries)
    BY <1>3, <1>4, <1>5, <1>6, SumRenamed
  <1> HIDE DEF R
  <1>11. SumFunctionOnSet(g, Keys) = SumFunctionOnSet(g, R)
    BY <1>6, <1>7, <1>8, SumSupport DEF Finite
  <1>12. SumFunction(f) = SumFunctionOnSet(g, Keys)
    BY <1>9, <1>10, <1>11
  <1> QED
    BY <1>12 DEF f, g

LEMMA RoomIs ==
  ASSUME MapInv, RoomInv, TypedCalls, Finite
  PROVE  RoomExact /\ room \in 0 .. Capacity
  <1>1. TableOK(chain) /\ RoomTypes
    BY TypesOfRoom DEF MapInv
  <1>2. /\ SumFunction(buffers) = SumFunctionOnSet(buffers, Procs)
        /\ SumFunction([p \in Procs |-> Detached(p)]) = SumFunctionOnSet(Detacheds, Procs)
    <2>1. ASSUME NEW f, DOMAIN f = Procs PROVE SumFunction(f) = SumFunctionOnSet(f, Procs)
      BY <2>1 DEF SumFunction, SumFunctionOnSet, FoldFunction
    <2>2. DOMAIN buffers = Procs /\ DOMAIN Detacheds = Procs
      BY DEF RoomInv, Detacheds
    <2>3. Detacheds = [p \in Procs |-> Detached(p)]
      BY DEF Detacheds
    <2> QED
      BY <2>1, <2>2, <2>3
  <1>3. RoomExact
    BY <1>1, <1>2, BlocksOfEntries DEF RoomExact, RoomInv
  <1>4. /\ SumFunctionOnSet(KeyBlocks(chain), Keys) \in Nat
        /\ SumFunctionOnSet(buffers, Procs) \in Nat
        /\ SumFunctionOnSet(Detacheds, Procs) \in Nat
    BY <1>1, SumNat DEF Finite, RoomTypes, RoomInv
  <1>5. Capacity \in Nat
    BY SharedDictAssumption
  <1> QED
    BY <1>3, <1>4, <1>5 DEF RoomInv

-----------------------------------------------------------------------------

\* Set, the counters, Delete, Alloc and Free take and give back blocks at
\* several steps, some of them after an entry is out of the table and before
\* its blocks are free (dict.cpp:310-327), and a Set may fail with OOM in between
\* (dict.cpp:236-247): with any number of processes no block is lost and none
\* is counted twice.
THEOREM NothingLeaks ==
  ASSUME NoClear, TypedCalls, Finite
  PROVE  Spec => []RoomExact
  <1>1. Init => LockInv /\ MapInv /\ RoomInv
    BY LockInvInit, MapInvInit, RoomInvInit
  <1>2. LockInv /\ MapInv /\ RoomInv /\ [Next]_vars => LockInv' /\ MapInv' /\ RoomInv'
    BY LockInvNext, MapInvNext, RoomInvNext
  <1>3. MapInv /\ RoomInv => RoomExact
    BY RoomIs
  <1> QED
    BY <1>1, <1>2, <1>3, PTL DEF Spec

-----------------------------------------------------------------------------
(* The types of the rest. *)

RestTypes ==
  /\ entryCount \in Counter /\ generation \in Counter
  /\ count \in [Procs -> Counter]
  /\ calls \in [Procs -> 0 .. MaxCalls]
  /\ writes \in Nat

EventType == event \in BOOLEAN

LEMMA RestTypesNext ==
  ASSUME LockInv, NoClear, RestTypes, NEW p \in Procs, Step(p) \/ \E c \in Calls : Invoke(p, c)
  PROVE  RestTypes'
  <1>1. \A n \in Int : n % Width \in Counter
    BY SharedDictAssumption, SMT DEF Counter
  <1>2. MaxCalls \in Nat /\ \A n \in Counter : n - 1 \in Int /\ n + 1 \in Int
    BY SharedDictAssumption DEF Counter
  <1>3. ~Wipe(p) /\ ~ZeroAllocLock(p) /\ ~ZeroHashLock(p)
    BY DEF LockInv, LockTypes, Wipe, ZeroAllocLock, ZeroHashLock, Goes
  <1>4. ASSUME UNCHANGED <<counts, count, calls>>, writes' = writes \/ writes' = writes + 1
        PROVE  RestTypes'
    BY <1>4 DEF RestTypes, counts
  <1>5. CASE LockStep(p) \/ Sweep(p) \/ SweepUnlock(p) \/ Collect(p) \/ Return(p)
    BY <1>4, <1>5 DEF LockStep, HashLock, HashUnlock, TakeAllocLock, AllocUnlock, Sweep,
                      SweepUnlock, Collect, Return, frame
  <1>6. CASE WriteStep(p)
    BY <1>4, <1>6 DEF WriteStep, Replace, Insert, InsertFails, Signal, frame
  <1>7. CASE KeyStep(p)
    BY <1>4, <1>7 DEF KeyStep, Get, Has, DeleteMisses, Unlink, FreeEntry, frame
  <1>8. CASE OtherStep(p)
    BY <1>4, <1>8 DEF OtherStep, ReadSize, Measure, BufferAlloc, BufferFree, WaitEnds,
                      WaitTimesOut, frame
  <1>9. CASE DecCheck(p) \/ DecLoad(p) \/ IncLoad(p) \/ TickLoad(p)
    <2>1. /\ UNCHANGED <<entryCount, generation, calls, writes>>
          /\ \/ count' = count
             \/ count' = [count EXCEPT ![p] = entryCount]
             \/ count' = [count EXCEPT ![p] = generation]
      BY <1>9 DEF DecCheck, DecLoad, IncLoad, TickLoad, counts, frame
    <2> QED
      BY <2>1 DEF RestTypes
  <1>10. CASE DecStore(p) \/ IncStore(p) \/ TickStore(p)
    <2>1. count[p] - 1 \in Int /\ count[p] + 1 \in Int
      BY <1>2 DEF RestTypes
    <2>2. /\ UNCHANGED <<count, calls, writes>>
          /\ entryCount' = entryCount \/ entryCount' \in Counter
          /\ generation' = generation \/ generation' \in Counter
      BY <1>1, <1>10, <2>1 DEF DecStore, IncStore, TickStore, frame
    <2> QED
      BY <2>2 DEF RestTypes
  <1>11. ASSUME NEW c \in Calls, Invoke(p, c) PROVE RestTypes'
    <2>1. calls[p] + 1 \in 0 .. MaxCalls
      BY <1>2, <1>11 DEF RestTypes, Invoke
    <2>2. UNCHANGED <<counts, count, writes>> /\ calls' = [calls EXCEPT ![p] = @ + 1]
      BY <1>11 DEF Invoke
    <2> QED
      BY <2>1, <2>2 DEF RestTypes, counts
  <1> QED
    BY <1>3, <1>5, <1>6, <1>7, <1>8, <1>9, <1>10, <1>11 DEF Step, CountStep, SweepStep

\* In particular the counters stay in their 32 bits, and there are never more
\* free blocks than blocks: nothing is freed twice.
THEOREM TypeCorrect ==
  ASSUME NoClear, TypedCalls, Finite
  PROVE  Spec => []TypeOK
  <1>1. Init => LockInv /\ MapInv /\ RoomInv /\ RestTypes /\ EventType
    <2> SUFFICES ASSUME Init PROVE RestTypes /\ EventType
      BY LockInvInit, MapInvInit, RoomInvInit
    <2>1. 0 \in Counter /\ 0 \in 0 .. MaxCalls
      BY SharedDictAssumption DEF Counter
    <2>2. RestTypes
      BY <2>1 DEF Init, RestTypes
    <2>3. EventType
      BY Zenon DEF Init, EventType
    <2> QED
      BY <2>2, <2>3
  <1>2. LockInv /\ MapInv /\ RoomInv /\ RestTypes /\ EventType /\ [Next]_vars =>
          LockInv' /\ MapInv' /\ RoomInv' /\ RestTypes' /\ EventType'
    <2> SUFFICES ASSUME LockInv, MapInv, RoomInv, RestTypes, EventType, [Next]_vars
                 PROVE  RestTypes' /\ EventType'
      BY LockInvNext, MapInvNext, RoomInvNext
    <2>1. CASE UNCHANGED vars
      BY <2>1 DEF vars, RestTypes, EventType
    <2>2. ASSUME NEW p \in Procs, Step(p) \/ \E c \in Calls : Invoke(p, c)
          PROVE  RestTypes' /\ EventType'
      <3>1. event' = event \/ event' = TRUE \/ event' = FALSE
        BY <2>2, EventSteps, Zenon DEF WaitEnds
      <3>2. EventType'
        BY <3>1, Zenon DEF EventType
      <3> QED
        BY <2>2, <3>2, RestTypesNext
    <2> QED
      BY <2>1, <2>2 DEF Next
  <1>3. LockInv /\ MapInv /\ RoomInv /\ RestTypes /\ EventType => TypeOK
    <2> SUFFICES ASSUME LockInv, MapInv, RoomInv, RestTypes, EventType PROVE TypeOK
      OBVIOUS
    <2>1. room \in 0 .. Capacity
      BY RoomIs
    <2>2. pc \in [Procs -> Places]
      BY DEF LockInv, LockTypes
    <2>3. /\ word \in [Locks -> {0, 1}] /\ held \in [Procs -> SUBSET Locks]
          /\ op \in [Procs -> Calls \cup {NoOp}] /\ at \in [Procs -> 0 .. Pool]
      BY DEF LockInv, LockTypes
    <2> QED
      BY <2>1, <2>2, <2>3 DEF TypeOK, RoomInv, RestTypes, EventType
  <1> QED
    BY <1>1, <1>2, <1>3, PTL DEF Spec

-----------------------------------------------------------------------------
(* entryCount and generation.                                              *)

\* entryCount can count all the keys there are.
FewKeys == Finite /\ Cardinality(Keys) < Width

\* p has removed an entry that is still counted.
Dropping(p) ==
  \/ pc[p] \in {"decCheck", "decLoad", "decStore"}
  \/ pc[p] \in {"allocLock", "free", "allocUnlock"} /\ Kind(p) = "Delete"

\* p has linked an entry that is not counted yet.
Adding(p) == pc[p] \in {"incLoad", "incStore"}

\* The write of p has taken effect and generation does not have it yet.
Ticking(p) ==
  \/ pc[p] \in {"incLoad", "incStore", "tickLoad", "tickStore"}
  \/ Dropping(p) /\ Kind(p) = "Delete"

\* entryCount has the key k.
Counted(k) ==
  \/ ~GoneFrom(chain, k) /\ \A p \in Procs : ~(Adding(p) /\ Key(p) = k)
  \/ \E p \in Procs : Dropping(p) /\ Key(p) = k

CountedKeys == {k \in Keys : Counted(k)}
Tickers     == {p \in Procs : Ticking(p)}

Multiple(n) == \E q \in Int : n = q * Width

Numbers ==
  /\ entryCount \in Counter /\ generation \in Counter
  /\ count \in [Procs -> Counter]
  /\ writes \in Nat

PlaceOK(p) ==
  /\ Dropping(p) => GoneFrom(chain, Key(p))
  /\ Adding(p) => ~GoneFrom(chain, Key(p))

\* Nobody has changed a counter since p has loaded it.
Loaded(p) ==
  /\ pc[p] \in {"decStore", "incStore"} => count[p] = entryCount
  /\ pc[p] = "tickStore" => count[p] = generation

Exact ==
  /\ ~Races
  /\ \A p \in Procs : Loaded(p)
  /\ entryCount = Cardinality(CountedKeys)
  /\ Multiple(writes - Cardinality(Tickers) - generation)

CountInv ==
  /\ Numbers
  /\ \A p \in Procs : PlaceOK(p)
  /\ ~raced => Exact

-----------------------------------------------------------------------------
(* Arithmetic of the counters.                                             *)

LEMMA Modulo ==
  ASSUME NEW n \in Int
  PROVE  /\ n % Width \in Counter
         /\ n \in Counter => n % Width = n
         /\ n = Width => n % Width = 0
  <1>1. Width \in Nat \ {0}
    BY SharedDictAssumption
  <1> QED
    BY <1>1, Z3 DEF Counter

LEMMA Multiples ==
  ASSUME NEW n \in Int, Multiple(n)
  PROVE  Multiple(n + Width)
  <1>1. Width \in Nat
    BY SharedDictAssumption
  <1>2. PICK q \in Int : n = q * Width
    BY DEF Multiple
  <1>3. n + Width = (q + 1) * Width
    BY <1>1, <1>2, Z3
  <1> QED
    BY <1>3 DEF Multiple

\* What a number that has lost a few multiples leaves.
LEMMA Remainder ==
  ASSUME NEW n \in Int, NEW t \in Nat, NEW b \in Nat, t <= b, Multiple(n - t)
  PROVE  n % Width <= b
  <1>1. Width \in Nat \ {0}
    BY SharedDictAssumption
  <1>2. PICK q \in Int : n - t = q * Width
    BY DEF Multiple
  <1>3. CASE t < Width
    <2>1. q * Width \in Int
      BY <1>1
    <2>2. n = t + q * Width
      BY <1>2, <2>1
    <2>3. (t + q * Width) % Width = t
      BY <1>1, <1>3, Z3
    <2> QED
      BY <2>2, <2>3
  <1>4. CASE ~(t < Width)
    <2>1. n % Width \in 0 .. Width - 1
      BY <1>1, Z3
    <2> QED
      BY <1>1, <1>4, <2>1
  <1> QED
    BY <1>3, <1>4

-----------------------------------------------------------------------------
(* Who counts.                                                             *)

\* Set and the counters count under the allocator lock, so that without a race
\* one process counts at a time.
OneCounts == \A p, q \in InCounters : p = q

LEMMA Counters == LockInv /\ ~Races => OneCounts
  <1> SUFFICES ASSUME LockInv, ~Races, NEW p \in InCounters, NEW q \in InCounters, p # q
               PROVE  FALSE
    BY DEF OneCounts
  <1>1. p \in Procs /\ q \in Procs /\ ProcOK(p) /\ ProcOK(q)
    BY DEF InCounters, LockInv
  <1>2. Kind(p) # "Delete" /\ Kind(q) # "Delete"
    BY DEF Races
  <1>3. WithAllocLock(p) /\ WithAllocLock(q)
    BY <1>1, <1>2 DEF ProcOK, KindOK, InCounters, CounterPlaces, WithAllocLock, Counting
  <1>4. AllocLock \in held[p] /\ AllocLock \in held[q]
    BY <1>1, <1>3, LockIndices DEF ProcOK, Holding
  <1> QED
    BY <1>1, <1>4 DEF LockInv, LockExclusion

LEMMA CountersNext == LockInv' /\ ~Races' => OneCounts'
  BY Counters, PTL

\* Who is about to count has the lock of its key.
LEMMA WriterHasLock ==
  ASSUME LockInv, NEW p \in Procs, Dropping(p) \/ Adding(p)
  PROVE  WithHashLock(p) /\ Kind(p) \in Keyed /\ Key(p) \in Keys
  <1>1. ProcOK(p)
    BY DEF LockInv
  <1>2. Kind(p) \in Writers \cup {"Delete"} /\ op[p] \in Calls
    BY <1>1 DEF ProcOK, KindOK, Dropping, Adding, Counting
  <1>3. Kind(p) \in Keyed /\ Key(p) \in Keys
    BY <1>2, SharedDictAssumption DEF Keyed, Writers, Kind, Key
  <1>4. WithHashLock(p)
    BY <1>3 DEF Dropping, Adding, WithHashLock, Counting
  <1> QED
    BY <1>3, <1>4

\* Whether a key is counted shows at the process that has its lock.
CountedBy(p) == Dropping(p) \/ (~GoneFrom(chain, Key(p)) /\ ~Adding(p))

LocksTell ==
  \A p \in Procs : WithHashLock(p) /\ Kind(p) \in Keyed => (Counted(Key(p)) <=> CountedBy(p))

LEMMA CountedIs == LockInv => LocksTell
  <1> SUFFICES ASSUME LockInv, NEW p \in Procs, WithHashLock(p), Kind(p) \in Keyed
               PROVE  Counted(Key(p)) <=> CountedBy(p)
    BY DEF LocksTell
  <1>1. \A q \in Procs : (Dropping(q) \/ Adding(q)) /\ Key(q) = Key(p) => q = p
    BY WriterHasLock, SlotExclusion
  <1> QED
    BY <1>1 DEF Counted, CountedBy

LEMMA CountedIsNext == LockInv' => LocksTell'
  BY CountedIs, PTL

-----------------------------------------------------------------------------
(* What a step of p does to the keys that are counted.                     *)

Others(p) ==
  \A q \in Procs \ {p} : pc'[q] = pc[q] /\ op'[q] = op[q] /\ count'[q] = count[q]

\* History does not forget a race.
RaceSeen == ~raced' => ~raced /\ ~Races'

LEMMA OthersStay ==
  ASSUME NEW p \in Procs, Others(p), NEW q \in Procs, q # p
  PROVE  /\ Dropping(q)' <=> Dropping(q)
         /\ Adding(q)' <=> Adding(q)
         /\ Ticking(q)' <=> Ticking(q)
         /\ Key(q)' = Key(q)
         /\ Loaded(q) /\ UNCHANGED <<entryCount, generation>> => Loaded(q)'
  BY DEF Others, Dropping, Adding, Ticking, Key, Kind, Loaded

LEMMA TickersAre ==
  ASSUME NEW p \in Procs, Others(p)
  PROVE  /\ (Ticking(p)' <=> Ticking(p)) => Tickers' = Tickers
         /\ Ticking(p) /\ ~Ticking(p)' => p \in Tickers /\ Tickers' = Tickers \ {p}
         /\ ~Ticking(p) /\ Ticking(p)' => p \notin Tickers /\ Tickers' = Tickers \cup {p}
  <1>1. \A q \in Procs \ {p} : Ticking(q)' <=> Ticking(q)
    BY OthersStay
  <1> QED
    BY <1>1 DEF Tickers

\* A step at which nobody's entry comes or goes and no counter changes.
LEMMA NeutralStep ==
  ASSUME CountInv, RaceSeen, NEW p \in Procs, Others(p),
         UNCHANGED <<chain, entryCount, generation, writes>>,
         Dropping(p)' <=> Dropping(p), Adding(p)' <=> Adding(p), Ticking(p)' <=> Ticking(p),
         Dropping(p) \/ Adding(p) => Key(p)' = Key(p),
         count' \in [Procs -> Counter], Loaded(p) => Loaded(p)'
  PROVE  CountInv'
  <1>1. Numbers'
    BY DEF CountInv, Numbers
  <1>2. \A q \in Procs : /\ Dropping(q)' <=> Dropping(q)
                         /\ Adding(q)' <=> Adding(q)
                         /\ Dropping(q) \/ Adding(q) => Key(q)' = Key(q)
                         /\ Loaded(q) => Loaded(q)'
    BY OthersStay
  <1>3. \A q \in Procs : PlaceOK(q)'
    BY <1>2 DEF CountInv, PlaceOK
  <1>4. ASSUME ~raced' PROVE Exact'
    <2>1. Exact /\ ~Races'
      BY <1>4 DEF RaceSeen, CountInv
    <2>2. \A k \in Keys : Counted(k)' <=> Counted(k)
      BY <1>2 DEF Counted
    <2>3. CountedKeys' = CountedKeys
      BY <2>2 DEF CountedKeys
    <2>4. Tickers' = Tickers
      BY TickersAre
    <2> QED
      BY <1>2, <2>1, <2>3, <2>4 DEF Exact
  <1>5. ~raced' => Exact'
    BY <1>4
  <1> QED
    BY <1>1, <1>3, <1>5 DEF CountInv

\* A step at the key whose lock p has.
LEMMA LockedStep ==
  ASSUME LockInv, LockInv', CountInv, NEW p \in Procs, Others(p), op' = op,
         WithHashLock(p), WithHashLock(p)', Kind(p) \in Keyed, Key(p) \in Keys,
         \A x \in Keys \ {Key(p)} : GoneFrom(chain', x) <=> GoneFrom(chain, x)
  PROVE  /\ \A q \in Procs \ {p} : PlaceOK(q)'
         /\ (CountedBy(p)' <=> CountedBy(p)) => CountedKeys' = CountedKeys
         /\ CountedBy(p) /\ ~CountedBy(p)' =>
              Key(p) \in CountedKeys /\ CountedKeys' = CountedKeys \ {Key(p)}
         /\ ~CountedBy(p) /\ CountedBy(p)' =>
              Key(p) \notin CountedKeys /\ CountedKeys' = CountedKeys \cup {Key(p)}
  <1>1. Kind(p)' = Kind(p) /\ Key(p)' = Key(p)
    BY DEF Kind, Key
  <1>2. (Counted(Key(p)) <=> CountedBy(p)) /\ (Counted(Key(p))' <=> CountedBy(p)')
    BY <1>1, CountedIs, CountedIsNext DEF LocksTell
  <1>3. ASSUME NEW x \in Keys \ {Key(p)} PROVE Counted(x)' <=> Counted(x)
    BY <1>1, OthersStay DEF Counted
  <1>4. ASSUME NEW q \in Procs \ {p} PROVE PlaceOK(q)'
    <2>1. PlaceOK(q)
      BY DEF CountInv
    <2>2. Dropping(q) \/ Adding(q) => Key(q) \in Keys \ {Key(p)}
      BY WriterHasLock, SlotExclusion
    <2> QED
      BY <2>1, <2>2, OthersStay DEF PlaceOK
  <1>5. Key(p) \in Keys /\ \A x \in Keys \ {Key(p)} : x \in CountedKeys' <=> x \in CountedKeys
    BY <1>3 DEF CountedKeys
  <1>6. (Key(p) \in CountedKeys <=> CountedBy(p)) /\ (Key(p) \in CountedKeys' <=> CountedBy(p)')
    BY <1>1, <1>2 DEF CountedKeys
  <1>7. CountedKeys \subseteq Keys /\ CountedKeys' \subseteq Keys
    BY DEF CountedKeys
  <1> QED
    BY <1>4, <1>5, <1>6, <1>7

-----------------------------------------------------------------------------
(* The steps, one by one.                                                  *)

LEMMA OthersAre ==
  ASSUME LockInv, NoClear, MapInv, Numbers, NEW p \in Procs,
         Step(p) \/ \E c \in Calls : Invoke(p, c)
  PROVE  Others(p)
  <1>1. \A q \in Procs \ {p} : count'[q] = count[q]
    <2>1. ASSUME NEW n, count' = [count EXCEPT ![p] = n]
          PROVE  \A q \in Procs \ {p} : count'[q] = count[q]
      BY <2>1 DEF Numbers
    <2>2. ~Wipe(p) /\ ~ZeroAllocLock(p) /\ ~ZeroHashLock(p)
      BY DEF LockInv, LockTypes, Wipe, ZeroAllocLock, ZeroHashLock, Goes
    <2>3. CASE CountStep(p)
      BY <2>1, <2>3 DEF CountStep, DecCheck, DecLoad, DecStore, IncLoad, IncStore, TickLoad,
                        TickStore
    <2>4. CASE LockStep(p) \/ Sweep(p) \/ SweepUnlock(p) \/ Collect(p)
      BY <2>4 DEF LockStep, HashLock, HashUnlock, TakeAllocLock, AllocUnlock, Sweep,
                  SweepUnlock, Collect
    <2>5. CASE WriteStep(p) \/ KeyStep(p)
      BY <2>5 DEF WriteStep, Replace, Insert, InsertFails, Signal, KeyStep, Get, Has,
                  DeleteMisses, Unlink, FreeEntry
    <2>6. CASE OtherStep(p) \/ Return(p) \/ \E c \in Calls : Invoke(p, c)
      BY <2>6 DEF OtherStep, ReadSize, Measure, BufferAlloc, BufferFree, WaitEnds,
                  WaitTimesOut, Return, Invoke
    <2> QED
      BY <2>2, <2>3, <2>4, <2>5, <2>6 DEF Step, SweepStep
  <1> QED
    BY <1>1, OnlyOneMoves DEF Others

\* A step from one place to another with nothing to count.
LEMMA IdleStep ==
  ASSUME CountInv, RaceSeen, NEW p \in Procs, Others(p),
         UNCHANGED <<chain, entryCount, generation, writes, count>>,
         ~Dropping(p), ~Adding(p), ~Ticking(p), ~Dropping(p)', ~Adding(p)', ~Ticking(p)'
  PROVE  CountInv'
  <1>1. pc'[p] \notin {"decStore", "incStore", "tickStore"}
    BY DEF Dropping, Adding, Ticking
  <1>2. Loaded(p)'
    BY <1>1 DEF Loaded
  <1>3. count' \in [Procs -> Counter]
    BY DEF CountInv, Numbers
  <1> QED
    BY <1>2, <1>3, NeutralStep

LEMMA LockCounts ==
  ASSUME LockInv, CountInv, RaceSeen, NEW p \in Procs, Others(p), LockStep(p)
  PROVE  CountInv'
  <1>1. LockTypes /\ ProcOK(p) /\ count' \in [Procs -> Counter]
    BY DEF LockInv, CountInv, Numbers, LockStep, HashLock, HashUnlock, TakeAllocLock,
           AllocUnlock
  <1>2. /\ UNCHANGED <<chain, entryCount, generation, writes, count>>
        /\ Kind(p)' = Kind(p) /\ Key(p)' = Key(p)
    BY DEF LockStep, HashLock, HashUnlock, TakeAllocLock, AllocUnlock, data, counts, frame,
           Kind, Key
  <1>3. CASE HashLock(p)
    <2>1. pc[p] = "hashLock" /\ pc'[p] \in {"allocLock", "get", "has", "unlink"}
          /\ (pc'[p] = "allocLock" => Kind(p) \in Writers)
      BY <1>1, <1>3 DEF HashLock, Goes, LockTypes, ProcOK, KindOK, Keyed, Writers,
                        AfterHashLock
    <2> QED
      BY <1>2, <2>1, IdleStep DEF Dropping, Adding, Ticking, Writers
  <1>4. CASE HashUnlock(p)
    <2>1. pc[p] = "hashUnlock" /\ pc'[p] \in {"signal", "return"}
      BY <1>1, <1>4 DEF HashUnlock, Goes, LockTypes
    <2> QED
      BY <1>2, <2>1, IdleStep DEF Dropping, Adding, Ticking
  <1>5. CASE TakeAllocLock(p)
    <2>1. /\ pc[p] = "allocLock" /\ pc'[p] = AfterAllocLock(Kind(p))
          /\ Kind(p) \in {"Set", "Add", "Delete", "Status", "Alloc", "Free"}
      BY <1>1, <1>5 DEF TakeAllocLock, Goes, LockTypes, ProcOK, KindOK
    <2>2. pc'[p] \in {"replace", "free", "measure", "bufAlloc", "bufFree"}
          /\ (pc'[p] = "free" <=> Kind(p) = "Delete")
      BY <2>1 DEF AfterAllocLock
    <2>3. /\ Dropping(p)' <=> Dropping(p)
          /\ Adding(p)' <=> Adding(p)
          /\ Ticking(p)' <=> Ticking(p)
          /\ Loaded(p)'
      BY <1>2, <2>1, <2>2 DEF Dropping, Adding, Ticking, Loaded
    <2> QED
      BY <1>1, <1>2, <2>3, NeutralStep
  <1>6. CASE AllocUnlock(p)
    <2>1. /\ pc[p] = "allocUnlock" /\ pc'[p] = AfterAllocUnlock(Kind(p))
          /\ Kind(p) \in {"Set", "Add", "Delete", "Status", "Alloc", "Free"}
      BY <1>1, <1>6 DEF AllocUnlock, Goes, LockTypes, ProcOK, KindOK
    <2>2. pc'[p] \in {"hashUnlock", "decCheck", "return"}
          /\ (pc'[p] = "decCheck" <=> Kind(p) = "Delete")
      BY <2>1 DEF AfterAllocUnlock
    <2>3. /\ Dropping(p)' <=> Dropping(p)
          /\ Adding(p)' <=> Adding(p)
          /\ Ticking(p)' <=> Ticking(p)
          /\ Loaded(p)'
      BY <1>2, <2>1, <2>2 DEF Dropping, Adding, Ticking, Loaded
    <2> QED
      BY <1>1, <1>2, <2>3, NeutralStep
  <1> QED
    BY <1>3, <1>4, <1>5, <1>6 DEF LockStep

\* The calls, Keys, and what a call on a key does with no entry coming or going.
LEMMA OtherCounts ==
  ASSUME LockInv, NoClear, CountInv, RaceSeen, NEW p \in Procs, Others(p),
         \/ Signal(p) \/ InsertFails(p) \/ Get(p) \/ Has(p) \/ DeleteMisses(p)
         \/ Sweep(p) \/ SweepUnlock(p) \/ Collect(p) \/ OtherStep(p)
         \/ Return(p) \/ \E c \in Calls : Invoke(p, c)
  PROVE  CountInv'
  <1>1. LockTypes /\ ProcOK(p)
    BY DEF LockInv
  <1>2. ASSUME NEW from \in {"signal", "get", "has", "unlink", "sweep", "sweepUnlock", "collect",
                             "size", "measure", "bufAlloc", "bufFree", "wait", "return", "idle"},
               NEW to \in {"return", "hashUnlock", "sweep", "sweepUnlock", "collect", "allocUnlock",
                           "idle", "hashLock", "allocLock", "size", "wait"},
               Goes(p, from, to),
               to \in {"allocLock", "allocUnlock"} => Kind(p)' # "Delete",
               UNCHANGED <<chain, entryCount, generation, writes, count>>
        PROVE  CountInv'
    <2>1. pc[p] = from /\ pc'[p] = to
      BY <1>1, <1>2 DEF Goes, LockTypes
    <2> QED
      BY <1>2, <2>1, IdleStep DEF Dropping, Adding, Ticking
  <1>3. CASE Signal(p) \/ Get(p) \/ Has(p) \/ DeleteMisses(p)
    BY <1>2, <1>3 DEF Signal, Get, Has, DeleteMisses, data, counts
  <1>4. CASE InsertFails(p)
    <2>1. pc[p] = "insert" /\ pc'[p] = "allocUnlock" /\ Kind(p)' = Kind(p) /\ Kind(p) \in Writers
      BY <1>1, <1>4 DEF InsertFails, Goes, LockTypes, ProcOK, KindOK, frame, Kind
    <2>2. UNCHANGED <<chain, entryCount, generation, writes, count>>
      BY <1>4 DEF InsertFails, data, counts
    <2> QED
      BY <2>1, <2>2, IdleStep DEF Dropping, Adding, Ticking, Writers
  <1>5. CASE Sweep(p) \/ SweepUnlock(p) \/ Collect(p)
    <2>1. Kind(p) = "Keys" /\ Kind(p)' = Kind(p)
      BY <1>1, <1>5 DEF Sweep, SweepUnlock, Collect, Goes, ProcOK, KindOK, frame, Kind
    <2> QED
      BY <1>2, <1>5, <2>1 DEF Sweep, SweepUnlock, Collect, data, counts
  <1>6. CASE OtherStep(p)
    <2>1. pc[p] \in {"measure", "bufAlloc", "bufFree"} => Kind(p)' # "Delete"
      BY <1>1, <1>6 DEF OtherStep, ReadSize, Measure, BufferAlloc, BufferFree, WaitEnds,
                        WaitTimesOut, ProcOK, KindOK, frame, Kind
    <2>2. PICK from \in {"size", "measure", "bufAlloc", "bufFree", "wait"},
               to \in {"return", "allocUnlock"} :
            /\ Goes(p, from, to)
            /\ to = "allocUnlock" => from \in {"measure", "bufAlloc", "bufFree"}
      BY <1>6 DEF OtherStep, ReadSize, Measure, BufferAlloc, BufferFree, WaitEnds, WaitTimesOut
    <2>3. UNCHANGED <<chain, entryCount, generation, writes, count>>
      BY <1>6 DEF OtherStep, ReadSize, Measure, BufferAlloc, BufferFree, WaitEnds,
                  WaitTimesOut, data, counts
    <2> QED
      BY <1>2, <2>1, <2>2, <2>3 DEF Goes
  <1>7. CASE Return(p)
    BY <1>2, <1>7 DEF Return, data, counts
  <1>8. ASSUME NEW c \in Calls, Invoke(p, c) PROVE CountInv'
    <2>1. op'[p] = c
      BY <1>1, <1>8 DEF Invoke, LockTypes
    <2>2. Goes(p, "idle", FirstPlace(c.kind)) /\ Kind(p)' = c.kind
      BY <1>8, <2>1 DEF Invoke, Kind
    <2>3. /\ FirstPlace(c.kind) \in {"hashLock", "sweep", "allocLock", "size", "wait"}
          /\ FirstPlace(c.kind) = "allocLock" => c.kind # "Delete"
      BY DEF NoClear, FirstPlace, Keyed
    <2>4. UNCHANGED <<chain, entryCount, generation, writes, count>>
      BY <1>8 DEF Invoke, data, counts
    <2> QED
      BY <1>2, <2>2, <2>3, <2>4
  <1> QED
    BY <1>3, <1>4, <1>5, <1>6, <1>7, <1>8

\* The blocks of an entry that Delete has removed are freed.
LEMMA FreeEntryCounts ==
  ASSUME LockInv, CountInv, RaceSeen, NEW p \in Procs, Others(p), FreeEntry(p)
  PROVE  CountInv'
  <1>1. /\ pc[p] = "free" /\ pc'[p] = "allocUnlock"
        /\ Kind(p) = "Delete" /\ Kind(p)' = Kind(p) /\ Key(p)' = Key(p)
    BY DEF LockInv, LockTypes, ProcOK, KindOK, FreeEntry, Goes, frame, Kind, Key
  <1>2. UNCHANGED <<chain, entryCount, generation, writes, count>>
    BY DEF FreeEntry, counts
  <1>3. /\ Dropping(p)' <=> Dropping(p)
        /\ Adding(p)' <=> Adding(p)
        /\ Ticking(p)' <=> Ticking(p)
        /\ Loaded(p)'
    BY <1>1 DEF Dropping, Adding, Ticking, Loaded
  <1>4. count' \in [Procs -> Counter]
    BY <1>2 DEF CountInv, Numbers
  <1> QED
    BY <1>1, <1>2, <1>3, <1>4, NeutralStep

\* A counter is loaded.
LEMMA LoadCounts ==
  ASSUME LockInv, CountInv, RaceSeen, NEW p \in Procs, Others(p),
         \/ DecCheck(p) /\ entryCount > 0
         \/ DecLoad(p) \/ IncLoad(p) \/ TickLoad(p)
  PROVE  CountInv'
  <1>1. /\ LockTypes /\ count \in [Procs -> Counter]
        /\ entryCount \in Counter /\ generation \in Counter
    BY DEF LockInv, CountInv, Numbers
  <1>2. /\ UNCHANGED <<chain, entryCount, generation, writes>>
        /\ Kind(p)' = Kind(p) /\ Key(p)' = Key(p)
    BY DEF DecCheck, DecLoad, IncLoad, TickLoad, data, counts, frame, Kind, Key
  <1>3. \/ pc[p] = "decCheck" /\ pc'[p] = "decLoad" /\ count' = count
        \/ pc[p] \in {"decCheck", "decLoad"} /\ pc'[p] = "decStore"
             /\ count' = [count EXCEPT ![p] = entryCount]
        \/ pc[p] = "incLoad" /\ pc'[p] = "incStore" /\ count' = [count EXCEPT ![p] = entryCount]
        \/ pc[p] = "tickLoad" /\ pc'[p] = "tickStore" /\ count' = [count EXCEPT ![p] = generation]
    BY <1>1 DEF DecCheck, DecLoad, IncLoad, TickLoad, Goes, LockTypes, Counter
  <1>4. /\ Dropping(p)' <=> Dropping(p)
        /\ Adding(p)' <=> Adding(p)
        /\ Ticking(p)' <=> Ticking(p)
    BY <1>2, <1>3 DEF Dropping, Adding, Ticking
  <1>5. count' \in [Procs -> Counter] /\ Loaded(p)'
    BY <1>1, <1>2, <1>3 DEF Loaded
  <1> QED
    BY <1>2, <1>4, <1>5, NeutralStep

-----------------------------------------------------------------------------
(* The steps that take an entry out or in, and those that count it.        *)

\* Which keys RemoveKey, LinkEntry and FindKey speak of.
LEMMA RemovedIs ==
  ASSUME TableOK(chain), TypedCalls, NEW k \in Keys, chain' = RemoveKey(k)
  PROVE  /\ GoneFrom(chain', k)
         /\ \A x \in Keys \ {k} : GoneFrom(chain', x) <=> GoneFrom(chain, x)
  BY Removal, ValueIs

LEMMA LinkedIs ==
  ASSUME TableOK(chain), TypedCalls, NEW k \in Keys, NEW v \in Vals, GoneFrom(chain, k),
         chain' = LinkEntry(k, v)
  PROVE  /\ ~GoneFrom(chain', k)
         /\ \A x \in Keys \ {k} : GoneFrom(chain', x) <=> GoneFrom(chain, x)
  BY Linking, ValueIs DEF TypedCalls

LEMMA FoundIs ==
  ASSUME TableOK(chain), TypedCalls, NEW k \in Keys
  PROVE  GoneFrom(chain, k) <=> Find(k) = 0
  BY ValueIs, Lookups

\* No counter reaches its width.
LEMMA FiniteCounts ==
  ASSUME FewKeys
  PROVE  /\ IsFiniteSet(Tickers) /\ Cardinality(Tickers) \in Nat
         /\ IsFiniteSet(CountedKeys) /\ Cardinality(CountedKeys) \in Nat
         /\ IsFiniteSet(CountedKeys') /\ Cardinality(CountedKeys') \in Nat
         /\ Cardinality(CountedKeys') < Width
  <1>1. Tickers \subseteq Procs /\ CountedKeys \subseteq Keys /\ CountedKeys' \subseteq Keys
    BY DEF Tickers, CountedKeys
  <1>2. /\ IsFiniteSet(Tickers) /\ IsFiniteSet(CountedKeys) /\ IsFiniteSet(CountedKeys')
        /\ Cardinality(CountedKeys') <= Cardinality(Keys)
    BY <1>1, FS_Subset DEF FewKeys, Finite
  <1>3. Width \in Nat /\ Cardinality(Keys) \in Nat /\ Cardinality(Keys) < Width
    BY FS_CardinalityType, SharedDictAssumption DEF FewKeys, Finite
  <1> QED
    BY <1>2, <1>3, FS_CardinalityType

\* The old entry of a Set leaves the table: it is still counted.
LEMMA Replaced ==
  ASSUME LockInv, LockInv', MapInv, TypedCalls, CountInv, RaceSeen, NEW p \in Procs, Others(p),
         Replace(p)
  PROVE  CountInv'
  <1> DEFINE k == Key(p)
  <1>1. /\ AtKey(p) /\ k \in Keys /\ Kind(p) \in Writers /\ pc[p] = "replace"
        /\ LockTypes /\ TableOK(chain)
    BY AtKeyIs DEF Replace, Goes, AtKey, LockInv, MapInv
  <1>2. /\ pc'[p] = IF Find(k) = 0 THEN "insert" ELSE "decCheck"
        /\ chain' = RemoveKey(k)
        /\ UNCHANGED <<op, entryCount, generation, writes, count>>
    BY <1>1 DEF Replace, Goes, Removed, LockTypes, counts, frame
  <1>3. Kind(p)' = Kind(p) /\ Key(p)' = k
    BY <1>2 DEF Kind, Key
  <1>4. /\ GoneFrom(chain', k)
        /\ \A x \in Keys \ {k} : GoneFrom(chain', x) <=> GoneFrom(chain, x)
        /\ GoneFrom(chain, k) <=> Find(k) = 0
    BY <1>1, <1>2, RemovedIs, FoundIs
  <1>5. /\ PlaceOK(p)' /\ Loaded(p)'
        /\ CountedBy(p)' <=> CountedBy(p)
        /\ Ticking(p)' <=> Ticking(p)
    BY <1>1, <1>2, <1>3, <1>4
       DEF PlaceOK, Loaded, CountedBy, Ticking, Dropping, Adding, Writers
  <1>6. WithHashLock(p) /\ WithHashLock(p)' /\ Kind(p) \in Keyed
    BY <1>1, <1>2 DEF AtKey, WithHashLock, Counting
  <1>7. (\A q \in Procs \ {p} : PlaceOK(q)') /\ CountedKeys' = CountedKeys
    BY <1>1, <1>2, <1>4, <1>5, <1>6, LockedStep
  <1>8. Numbers'
    BY <1>2 DEF CountInv, Numbers
  <1>9. ASSUME ~raced' PROVE Exact'
    <2>1. Exact /\ ~Races'
      BY <1>9 DEF RaceSeen, CountInv
    <2>2. \A q \in Procs : Loaded(q)'
      BY <1>2, <1>5, <2>1, OthersStay DEF Exact
    <2>3. Tickers' = Tickers
      BY <1>5, TickersAre
    <2> QED
      BY <1>2, <1>7, <2>1, <2>2, <2>3 DEF Exact
  <1> QED
    BY <1>5, <1>7, <1>8, <1>9 DEF CountInv

\* A write takes effect: an entry is linked or removed, and generation has to
\* be told.
LEMMA Written ==
  ASSUME LockInv, LockInv', FewKeys, CountInv, RaceSeen, NEW p \in Procs, Others(p),
         UNCHANGED <<op, entryCount, generation, count>>, writes' = writes + 1,
         WithHashLock(p), WithHashLock(p)', Kind(p) \in Keyed, Key(p) \in Keys,
         \A x \in Keys \ {Key(p)} : GoneFrom(chain', x) <=> GoneFrom(chain, x),
         PlaceOK(p)', Loaded(p)', CountedBy(p)' <=> CountedBy(p), ~Ticking(p), Ticking(p)'
  PROVE  CountInv'
  <1>1. (\A q \in Procs \ {p} : PlaceOK(q)') /\ CountedKeys' = CountedKeys
    BY LockedStep
  <1>2. Numbers'
    BY DEF CountInv, Numbers
  <1>3. ASSUME ~raced' PROVE Exact'
    <2>1. Exact /\ ~Races'
      BY <1>3 DEF RaceSeen, CountInv
    <2>2. \A q \in Procs : Loaded(q)'
      BY <2>1, OthersStay DEF Exact
    <2>3. p \notin Tickers /\ Tickers' = Tickers \cup {p}
      BY TickersAre
    <2>4. Cardinality(Tickers') = Cardinality(Tickers) + 1 /\ Cardinality(Tickers) \in Nat
      BY <2>3, FiniteCounts, FS_AddElement
    <2>5. writes' - Cardinality(Tickers') - generation' =
            writes - Cardinality(Tickers) - generation
      BY <2>4 DEF CountInv, Numbers, Counter
    <2> QED
      BY <1>1, <2>1, <2>2, <2>5 DEF Exact
  <1> QED
    BY <1>1, <1>2, <1>3 DEF CountInv

\* The new entry is in the table: it is not counted yet.
LEMMA Inserted ==
  ASSUME LockInv, LockInv', MapInv, TypedCalls, FewKeys, CountInv, RaceSeen, NEW p \in Procs,
         Others(p), Insert(p)
  PROVE  CountInv'
  <1> DEFINE k == Key(p)
  <1>1. /\ AtKey(p) /\ k \in Keys /\ Kind(p) \in Writers /\ pc[p] = "insert"
        /\ LockTypes /\ TableOK(chain) /\ Functions
    BY AtKeyIs DEF Insert, Goes, AtKey, LockInv, MapInv
  <1>2. /\ pc'[p] = "incLoad" /\ chain' = LinkEntry(k, NewValue(p)) /\ writes' = writes + 1
        /\ UNCHANGED <<op, entryCount, generation, count>>
    BY <1>1 DEF Insert, Goes, LockTypes, counts, frame
  <1>3. Key(p)' = k
    BY <1>2 DEF Key
  <1>4. GoneFrom(chain, k) /\ NewValue(p) \in Vals
    BY <1>1, NewValueIs DEF AtKey, GoneOK, Removing
  <1>5. /\ ~GoneFrom(chain', k)
        /\ \A x \in Keys \ {k} : GoneFrom(chain', x) <=> GoneFrom(chain, x)
    BY <1>1, <1>2, <1>4, LinkedIs
  <1>6. /\ PlaceOK(p)' /\ Loaded(p)'
        /\ CountedBy(p)' <=> CountedBy(p)
        /\ ~Ticking(p) /\ Ticking(p)'
    BY <1>1, <1>2, <1>3, <1>4, <1>5 DEF PlaceOK, Loaded, CountedBy, Ticking, Dropping, Adding
  <1>7. WithHashLock(p) /\ WithHashLock(p)' /\ Kind(p) \in Keyed
    BY <1>1, <1>2 DEF AtKey, WithHashLock
  <1> QED
    BY <1>1, <1>2, <1>5, <1>6, <1>7, Written

\* Delete has removed an entry: it is still counted.
LEMMA Unlinked ==
  ASSUME LockInv, LockInv', MapInv, TypedCalls, FewKeys, CountInv, RaceSeen, NEW p \in Procs,
         Others(p), Unlink(p)
  PROVE  CountInv'
  <1> DEFINE k == Key(p)
  <1>1. /\ AtKey(p) /\ k \in Keys /\ Kind(p) = "Delete" /\ pc[p] = "unlink"
        /\ LockTypes /\ TableOK(chain)
    BY AtKeyIs DEF Unlink, Goes, AtKey, LockInv, MapInv
  <1>2. /\ pc'[p] = "allocLock" /\ chain' = RemoveKey(k) /\ writes' = writes + 1
        /\ UNCHANGED <<op, entryCount, generation, count>> /\ Find(k) # 0
    BY <1>1 DEF Unlink, Goes, LockTypes, counts, frame
  <1>3. Kind(p)' = Kind(p) /\ Key(p)' = k
    BY <1>2 DEF Kind, Key
  <1>4. /\ GoneFrom(chain', k) /\ ~GoneFrom(chain, k)
        /\ \A x \in Keys \ {k} : GoneFrom(chain', x) <=> GoneFrom(chain, x)
    BY <1>1, <1>2, RemovedIs, FoundIs
  <1>5. /\ PlaceOK(p)' /\ Loaded(p)'
        /\ CountedBy(p)' <=> CountedBy(p)
        /\ ~Ticking(p) /\ Ticking(p)'
    BY <1>1, <1>2, <1>3, <1>4 DEF PlaceOK, Loaded, CountedBy, Ticking, Dropping, Adding
  <1>6. WithHashLock(p) /\ WithHashLock(p)' /\ Kind(p) \in Keyed
    BY <1>1, <1>2, <1>3 DEF AtKey, WithHashLock
  <1> QED
    BY <1>1, <1>2, <1>4, <1>5, <1>6, Written

\* Without a race nobody else has loaded the counter that p stores.
LEMMA StoreStep ==
  ASSUME LockInv, CountInv, RaceSeen, NEW p \in Procs, Others(p),
         UNCHANGED <<op, chain>>, p \in InCounters, Numbers',
         Dropping(p)' => Dropping(p), Adding(p)' => Adding(p),
         Exact => /\ Loaded(p)'
                  /\ entryCount' = Cardinality(CountedKeys')
                  /\ Multiple(writes' - Cardinality(Tickers') - generation')
  PROVE  CountInv'
  <1>1. Key(p)' = Key(p)
    BY DEF Key
  <1>2. ASSUME NEW q \in Procs PROVE PlaceOK(q)'
    <2>1. PlaceOK(q) /\ UNCHANGED chain
      BY DEF CountInv
    <2>2. (Dropping(q)' => Dropping(q)) /\ (Adding(q)' => Adding(q)) /\ Key(q)' = Key(q)
      BY <1>1, OthersStay
    <2> QED
      BY <2>1, <2>2 DEF PlaceOK
  <1>3. ASSUME ~raced' PROVE Exact'
    <2>1. Exact /\ ~Races'
      BY <1>3 DEF RaceSeen, CountInv
    <2>2. ASSUME NEW q \in Procs \ {p} PROVE Loaded(q)'
      <3>1. q \notin InCounters
        BY <2>1, Counters DEF Exact, OneCounts
      <3>2. pc'[q] \notin {"decStore", "incStore", "tickStore"}
        BY <3>1 DEF InCounters, CounterPlaces, Others
      <3> QED
        BY <3>2 DEF Loaded
    <2> QED
      BY <2>1, <2>2 DEF Exact
  <1> QED
    BY <1>2, <1>3 DEF CountInv

\* What is known of p where it counts its key.
LEMMA AtCount ==
  ASSUME LockInv, NEW p \in Procs, Dropping(p) \/ Adding(p), pc[p] \in CounterPlaces
  PROVE  /\ p \in InCounters /\ LockTypes /\ Kind(p) \in Writers \cup {"Delete"}
         /\ WithHashLock(p) /\ Kind(p) \in Keyed /\ Key(p) \in Keys
         /\ AfterDec(Kind(p)) \in {"insert", "tickLoad"}
  <1>1. LockTypes /\ ProcOK(p)
    BY DEF LockInv
  <1>2. Kind(p) \in Writers \cup {"Delete"}
    BY <1>1 DEF ProcOK, KindOK, Dropping, Adding, Counting, CounterPlaces
  <1> QED
    BY <1>1, <1>2, WriterHasLock DEF InCounters, AfterDec

\* entryCount is positive while a removed entry is counted.
LEMMA NothingToDrop ==
  ASSUME LockInv, FewKeys, CountInv, RaceSeen, NEW p \in Procs, Others(p),
         DecCheck(p), entryCount = 0
  PROVE  CountInv'
  <1>1. pc[p] = "decCheck" /\ Dropping(p) /\ pc[p] \in CounterPlaces
    BY DEF DecCheck, Goes, Dropping, CounterPlaces
  <1>2. /\ p \in InCounters /\ LockTypes /\ WithHashLock(p) /\ Kind(p) \in Keyed
        /\ Key(p) \in Keys /\ AfterDec(Kind(p)) \in {"insert", "tickLoad"}
    BY <1>1, AtCount
  <1>3. /\ pc'[p] \in {"insert", "tickLoad"}
        /\ UNCHANGED <<op, chain, entryCount, generation, writes, count>>
    BY <1>2 DEF DecCheck, Goes, LockTypes, data, counts, frame
  <1>4. Numbers'
    BY <1>3 DEF CountInv, Numbers
  <1>5. ~Exact
    <2>1. Key(p) \in CountedKeys
      BY <1>1, <1>2 DEF CountedKeys, Counted
    <2>2. Cardinality(CountedKeys) # 0
      BY <2>1, FiniteCounts, FS_EmptySet
    <2> QED
      BY <2>2 DEF Exact
  <1>6. ~Dropping(p)' /\ ~Adding(p)'
    BY <1>3 DEF Dropping, Adding
  <1> QED
    BY <1>2, <1>3, <1>4, <1>5, <1>6, StoreStep

LEMMA Decremented ==
  ASSUME LockInv, LockInv', FewKeys, CountInv, RaceSeen, NEW p \in Procs, Others(p), DecStore(p)
  PROVE  CountInv'
  <1>1. pc[p] = "decStore" /\ Dropping(p) /\ ~Adding(p) /\ pc[p] \in CounterPlaces
    BY DEF DecStore, Goes, Dropping, Adding, CounterPlaces
  <1>2. /\ p \in InCounters /\ LockTypes /\ Kind(p) \in Writers \cup {"Delete"}
        /\ WithHashLock(p) /\ Kind(p) \in Keyed
        /\ Key(p) \in Keys /\ AfterDec(Kind(p)) \in {"insert", "tickLoad"}
    BY <1>1, AtCount
  <1>3. /\ pc'[p] = AfterDec(Kind(p)) /\ entryCount' = (count[p] - 1) % Width
        /\ UNCHANGED <<op, chain, generation, writes, count>>
    BY <1>2 DEF DecStore, Goes, LockTypes, data, frame
  <1>4. Kind(p)' = Kind(p) /\ Key(p)' = Key(p) /\ PlaceOK(p)
    BY <1>3 DEF Kind, Key, CountInv
  <1>5. ~Dropping(p)' /\ ~Adding(p)' /\ Loaded(p)' /\ WithHashLock(p)'
    BY <1>2, <1>3 DEF Dropping, Adding, Loaded, WithHashLock, Counting
  <1>6. Ticking(p)' <=> Ticking(p)
    BY <1>1, <1>2, <1>3, <1>4, <1>5 DEF Ticking, AfterDec, Writers
  <1>7. CountedBy(p) /\ ~CountedBy(p)'
    BY <1>1, <1>3, <1>4, <1>5 DEF CountedBy, PlaceOK
  <1>8. Key(p) \in CountedKeys /\ CountedKeys' = CountedKeys \ {Key(p)}
    BY <1>2, <1>3, <1>5, <1>7, LockedStep
  <1>9. Numbers'
    <2>1. count[p] - 1 \in Int
      BY DEF CountInv, Numbers, Counter
    <2>2. entryCount' \in Counter
      BY <1>3, <2>1, Modulo
    <2> QED
      BY <1>3, <2>2 DEF CountInv, Numbers
  <1>10. ASSUME Exact PROVE entryCount' = Cardinality(CountedKeys')
    <2>1. Cardinality(CountedKeys') = Cardinality(CountedKeys) - 1
      BY <1>8, FiniteCounts, FS_RemoveElement
    <2>2. count[p] - 1 = Cardinality(CountedKeys')
      BY <1>1, <1>10, <2>1 DEF Exact, Loaded
    <2>3. Cardinality(CountedKeys') \in Counter /\ Cardinality(CountedKeys') \in Int
      BY FiniteCounts, SharedDictAssumption DEF Counter
    <2> QED
      BY <1>3, <2>2, <2>3, Modulo
  <1>11. Exact => Multiple(writes' - Cardinality(Tickers') - generation')
    BY <1>3, <1>6, TickersAre DEF Exact
  <1> QED
    BY <1>2, <1>3, <1>5, <1>9, <1>10, <1>11, StoreStep

LEMMA Incremented ==
  ASSUME LockInv, LockInv', FewKeys, CountInv, RaceSeen, NEW p \in Procs, Others(p), IncStore(p)
  PROVE  CountInv'
  <1>1. pc[p] = "incStore" /\ ~Dropping(p) /\ Adding(p) /\ Ticking(p) /\ pc[p] \in CounterPlaces
    BY DEF IncStore, Goes, Dropping, Adding, Ticking, CounterPlaces
  <1>2. /\ p \in InCounters /\ LockTypes /\ WithHashLock(p) /\ Kind(p) \in Keyed
        /\ Key(p) \in Keys
    BY <1>1, AtCount
  <1>3. /\ pc'[p] = "tickLoad" /\ entryCount' = (count[p] + 1) % Width
        /\ UNCHANGED <<op, chain, generation, writes, count>>
    BY <1>2 DEF IncStore, Goes, LockTypes, data, frame
  <1>4. Key(p)' = Key(p) /\ PlaceOK(p)
    BY <1>3 DEF Key, CountInv
  <1>5. ~Dropping(p)' /\ ~Adding(p)' /\ Ticking(p)' /\ Loaded(p)' /\ WithHashLock(p)'
    BY <1>3 DEF Dropping, Adding, Ticking, Loaded, WithHashLock, Counting
  <1>6. ~CountedBy(p) /\ CountedBy(p)'
    BY <1>1, <1>3, <1>4, <1>5 DEF CountedBy, PlaceOK
  <1>7. Key(p) \notin CountedKeys /\ CountedKeys' = CountedKeys \cup {Key(p)}
    BY <1>2, <1>3, <1>5, <1>6, LockedStep
  <1>8. Numbers'
    <2>1. count[p] + 1 \in Int
      BY DEF CountInv, Numbers, Counter
    <2>2. entryCount' \in Counter
      BY <1>3, <2>1, Modulo
    <2> QED
      BY <1>3, <2>2 DEF CountInv, Numbers
  <1>9. ASSUME Exact PROVE entryCount' = Cardinality(CountedKeys')
    <2>1. Cardinality(CountedKeys') = Cardinality(CountedKeys) + 1
      BY <1>7, FiniteCounts, FS_AddElement
    <2>2. count[p] + 1 = Cardinality(CountedKeys')
      BY <1>1, <1>9, <2>1 DEF Exact, Loaded
    <2>3. Cardinality(CountedKeys') \in Counter /\ Cardinality(CountedKeys') \in Int
      BY FiniteCounts, SharedDictAssumption DEF Counter
    <2> QED
      BY <1>3, <2>2, <2>3, Modulo
  <1>10. Exact => Multiple(writes' - Cardinality(Tickers') - generation')
    BY <1>1, <1>3, <1>5, TickersAre DEF Exact
  <1> QED
    BY <1>2, <1>3, <1>5, <1>8, <1>9, <1>10, StoreStep

LEMMA Ticked ==
  ASSUME LockInv, FewKeys, CountInv, RaceSeen, NEW p \in Procs, Others(p), TickStore(p)
  PROVE  CountInv'
  <1>1. /\ pc[p] = "tickStore" /\ ~Dropping(p) /\ ~Adding(p) /\ Ticking(p) /\ p \in InCounters
        /\ LockTypes /\ count[p] \in Counter
    BY DEF TickStore, Goes, Dropping, Adding, Ticking, InCounters, CounterPlaces, LockInv,
           CountInv, Numbers
  <1>2. /\ pc'[p] = IF Kind(p) = "Delete" THEN "hashUnlock" ELSE "allocUnlock"
        /\ generation' = (count[p] + 1) % Width
        /\ UNCHANGED <<op, chain, entryCount, writes, count>>
    BY <1>1 DEF TickStore, Goes, LockTypes, data, frame
  <1>3. Kind(p)' = Kind(p) /\ Key(p)' = Key(p)
    BY <1>2 DEF Kind, Key
  <1>4. ~Dropping(p)' /\ ~Adding(p)' /\ ~Ticking(p)' /\ Loaded(p)'
    BY <1>2, <1>3 DEF Dropping, Adding, Ticking, Loaded
  <1>5. count[p] + 1 \in Int /\ generation' \in Counter
    BY <1>1, <1>2, Modulo DEF Counter
  <1>6. Numbers'
    BY <1>2, <1>5 DEF CountInv, Numbers
  <1>7. CountedKeys' = CountedKeys
    <2>1. \A q \in Procs : /\ Dropping(q)' <=> Dropping(q)
                           /\ Adding(q)' <=> Adding(q)
                           /\ Key(q)' = Key(q)
      BY <1>1, <1>3, <1>4, OthersStay
    <2> QED
      BY <1>2, <2>1 DEF CountedKeys, Counted
  <1>8. ASSUME Exact PROVE Multiple(writes' - Cardinality(Tickers') - generation')
    <2> DEFINE n == writes - Cardinality(Tickers) - generation
               m == writes' - Cardinality(Tickers') - generation'
    <2>1. p \in Tickers /\ Tickers' = Tickers \ {p}
      BY <1>1, <1>4, TickersAre
    <2>2. Cardinality(Tickers') = Cardinality(Tickers) - 1 /\ Cardinality(Tickers) \in Nat
      BY <2>1, FiniteCounts, FS_RemoveElement
    <2>3. n \in Int /\ Multiple(n) /\ Width \in Nat
      BY <1>8, <2>2, SharedDictAssumption DEF CountInv, Numbers, Counter, Exact
    <2>4. count[p] = generation /\ generation \in Counter
      BY <1>1, <1>8 DEF Exact, Loaded
    <2>5. CASE count[p] + 1 \in Counter
      <3>1. generation' = generation + 1
        BY <1>2, <1>5, <2>4, <2>5, Modulo
      <3>2. m = n
        BY <1>2, <2>2, <2>4, <3>1 DEF CountInv, Numbers, Counter
      <3> QED
        BY <2>3, <3>2
    <2>6. CASE count[p] + 1 \notin Counter
      <3>1. generation + 1 = Width
        BY <2>3, <2>4, <2>6 DEF Counter
      <3>2. generation' = 0
        BY <1>2, <1>5, <2>4, <3>1, Modulo
      <3>3. m = n + Width
        BY <1>2, <2>2, <2>4, <3>1, <3>2 DEF CountInv, Numbers, Counter
      <3> QED
        BY <2>3, <3>3, Multiples
    <2> QED
      BY <2>5, <2>6
  <1>9. Exact => entryCount' = Cardinality(CountedKeys')
    BY <1>2, <1>7 DEF Exact
  <1> QED
    BY <1>1, <1>2, <1>4, <1>6, <1>8, <1>9, StoreStep

-----------------------------------------------------------------------------
LEMMA CountInvInit ==
  ASSUME HInit
  PROVE  CountInv
  <1>1. Init /\ ~raced /\ \A p \in Procs : pc[p] = "idle"
    BY DEF HInit, Init
  <1>2. \A p \in Procs : ~Dropping(p) /\ ~Adding(p) /\ ~Ticking(p) /\ Loaded(p)
    BY <1>1 DEF Dropping, Adding, Ticking, Loaded
  <1>3. 0 \in Counter
    BY SharedDictAssumption DEF Counter
  <1>4. Numbers
    BY <1>1, <1>3 DEF Init, Numbers
  <1>5. Tickers = {} /\ InCounters = {}
    BY <1>1, <1>2 DEF Tickers, InCounters, CounterPlaces
  <1>6. CountedKeys = {}
    <2>1. \A k \in Keys : GoneFrom(chain, k)
      BY <1>1, SlotInSlots DEF Init, GoneFrom, EntriesIn
    <2> QED
      BY <1>2, <2>1 DEF CountedKeys, Counted
  <1>7. entryCount = 0 /\ generation = 0 /\ writes = 0 /\ Cardinality({}) = 0
    BY <1>1, FS_EmptySet DEF Init
  <1>8. Multiple(writes - Cardinality(Tickers) - generation)
    <2>1. writes - Cardinality(Tickers) - generation = 0 * Width
      BY <1>5, <1>7, SharedDictAssumption
    <2> QED
      BY <2>1 DEF Multiple
  <1>9. Exact
    BY <1>2, <1>5, <1>6, <1>7, <1>8 DEF Exact, Races
  <1> QED
    BY <1>2, <1>4, <1>9 DEF CountInv, PlaceOK

LEMMA CountInvNext ==
  ASSUME LockInv, MapInv, NoClear, TypedCalls, FewKeys, CountInv, [HNext]_historyVars
  PROVE  CountInv'
  <1>1. CASE UNCHANGED historyVars
    <2>1. UNCHANGED <<vars, raced>>
      BY <1>1 DEF historyVars
    <2>2. Tickers' = Tickers /\ CountedKeys' = CountedKeys /\ (Races' <=> Races)
      BY <2>1 DEF vars, Tickers, Ticking, CountedKeys, Counted, Dropping, Adding, Kind, Key,
                  Races, InCounters
    <2>3. Exact => Exact'
      BY <2>1, <2>2 DEF vars, Exact, Loaded
    <2>4. Numbers' /\ \A p \in Procs : PlaceOK(p)'
      BY <2>1 DEF vars, CountInv, Numbers, PlaceOK, Dropping, Adding, Kind, Key
    <2> QED
      BY <2>1, <2>3, <2>4 DEF CountInv
  <1>2. CASE HNext
    <2>1. PICK p \in Procs : Step(p) \/ \E c \in Calls : Invoke(p, c)
      BY <1>2 DEF HNext, Next
    <2>2. LockInv' /\ Others(p)
      <3>1. [Next]_vars
        BY <1>2 DEF HNext
      <3> QED
        BY <2>1, <3>1, LockInvNext, OthersAre DEF CountInv
    <2>3. RaceSeen
      BY <1>2 DEF HNext, RaceSeen
    <2>4. ~Wipe(p) /\ ~ZeroAllocLock(p) /\ ~ZeroHashLock(p)
      BY DEF LockInv, LockTypes, Wipe, ZeroAllocLock, ZeroHashLock, Goes
    <2>5. CASE LockStep(p)
      BY <2>2, <2>3, <2>5, LockCounts
    <2>6. CASE WriteStep(p)
      BY <2>2, <2>3, <2>6, Replaced, Inserted, OtherCounts DEF WriteStep
    <2>7. CASE DecCheck(p)
      <3>1. entryCount = 0 \/ entryCount > 0
        BY DEF CountInv, Numbers, Counter
      <3> QED
        BY <2>2, <2>3, <2>7, <3>1, NothingToDrop, LoadCounts
    <2>8. CASE CountStep(p) /\ ~DecCheck(p)
      BY <2>2, <2>3, <2>8, LoadCounts, Decremented, Incremented, Ticked DEF CountStep
    <2>9. CASE KeyStep(p)
      BY <2>2, <2>3, <2>9, Unlinked, FreeEntryCounts, OtherCounts DEF KeyStep
    <2>10. CASE SweepStep(p) \/ OtherStep(p) \/ Return(p) \/ \E c \in Calls : Invoke(p, c)
      BY <2>2, <2>3, <2>4, <2>10, OtherCounts DEF SweepStep
    <2> QED
      BY <2>1, <2>5, <2>6, <2>7, <2>8, <2>9, <2>10 DEF Step
  <1> QED
    BY <1>1, <1>2

-----------------------------------------------------------------------------
(* What the invariant says of Size and of generation.                      *)

EntryKeys == {k \in Keys : ~GoneFrom(chain, k)}

\* A table that has each key once has as many entries as keys.
LEMMA EntriesAreKeys ==
  ASSUME TableOK(chain), FewKeys
  PROVE  Cardinality(Entries) = Cardinality(EntryKeys)
  <1> DEFINE f == [x \in Entries |-> Entry(x).key]
  <1>1. ASSUME NEW x \in Entries
        PROVE  /\ x[1] \in Slots /\ x[2] \in 1 .. Len(chain[x[1]])
               /\ Entry(x) \in EntriesIn(chain, x[1]) /\ Entry(x).key \in Keys
               /\ SlotOf[Entry(x).key] = x[1]
    <2>1. PICK s \in Slots : x \in {<<s, i>> : i \in DOMAIN chain[s]}
      BY DEF Entries
    <2>2. PICK i \in DOMAIN chain[s] : x = <<s, i>>
      BY <2>1
    <2>3. DOMAIN chain[s] = 1 .. Len(chain[s]) /\ chain[s] \in Seq(EntryType)
      BY DEF TableOK
    <2>4. Entry(x) = chain[s][i] /\ chain[s][i] \in EntryType
      BY <2>2, <2>3 DEF Entry
    <2>5. Entry(x) \in EntriesIn(chain, s)
      BY <2>2, <2>3, <2>4 DEF EntriesIn
    <2> QED
      BY <2>2, <2>3, <2>4, <2>5 DEF TableOK, EntryType
  <1>2. f \in [Entries -> EntryKeys]
    BY <1>1 DEF EntryKeys, GoneFrom
  <1>3. \A x, y \in Entries : f[x] = f[y] => x = y
    BY TableHasOneEntry DEF OneEntryPerKey
  <1>4. ASSUME NEW k \in EntryKeys PROVE \E x \in Entries : f[x] = k
    <2>1. PICK e \in EntriesIn(chain, SlotOf[k]) : e.key = k
      BY DEF EntryKeys, GoneFrom
    <2>2. PICK i \in 1 .. Len(chain[SlotOf[k]]) : chain[SlotOf[k]][i].key = k
      BY <2>1 DEF EntriesIn
    <2>3. SlotOf[k] \in Slots /\ DOMAIN chain[SlotOf[k]] = 1 .. Len(chain[SlotOf[k]])
      BY SlotInSlots DEF EntryKeys, TableOK
    <2>4. <<SlotOf[k], i>> \in Entries
      BY <2>2, <2>3 DEF Entries
    <2>5. f[<<SlotOf[k], i>>] = k
      BY <2>2, <2>4 DEF Entry
    <2> QED
      BY <2>4, <2>5
  <1> HIDE DEF f
  <1>5. f \in Injection(Entries, EntryKeys) /\ f \in Surjection(Entries, EntryKeys)
    BY <1>2, <1>3, <1>4 DEF Injection, IsInjective, Surjection
  <1>6. IsFiniteSet(EntryKeys)
    BY FS_Subset DEF FewKeys, Finite, EntryKeys
  <1> QED
    BY <1>5, <1>6, FS_Injection

\* A set that is another but for the keys of running writes.
LEMMA OffByWriting ==
  ASSUME FewKeys, NEW A \in SUBSET Keys, NEW B \in SUBSET Keys,
         \A k \in A \ B : \E p \in Writing : Key(p) = k
  PROVE  Cardinality(A) <= Cardinality(B) + Cardinality(Writing)
  <1> DEFINE K == A \ B
             W == {p \in Writing : Key(p) \in K}
             g == [p \in W |-> Key(p)]
  <1>1. W \subseteq Writing /\ Writing \subseteq Procs
    BY DEF Writing
  <1>2. IsFiniteSet(Writing) /\ IsFiniteSet(A) /\ IsFiniteSet(B)
    BY <1>1, FS_Subset DEF FewKeys, Finite
  <1>3. IsFiniteSet(W) /\ Cardinality(W) <= Cardinality(Writing)
    BY <1>1, <1>2, FS_Subset
  <1>4. g \in Surjection(W, K)
    BY DEF Surjection
  <1> HIDE DEF g, W
  <1>5. IsFiniteSet(K) /\ Cardinality(K) <= Cardinality(W)
    BY <1>3, <1>4, FS_Surjection
  <1>6. IsFiniteSet(A \cap B) /\ Cardinality(A \cap B) <= Cardinality(B)
    BY <1>2, FS_Intersection
  <1>7. Cardinality(K) = Cardinality(A) - Cardinality(A \cap B)
    BY <1>2, FS_Difference
  <1> HIDE DEF K
  <1> QED
    BY <1>2, <1>3, <1>5, <1>6, <1>7, FS_CardinalityType

LEMMA SizeIs ==
  ASSUME LockInv, MapInv, FewKeys, CountInv
  PROVE  SizeOffByRunning
  <1> SUFFICES ASSUME ~raced
               PROVE  /\ Abs(entryCount - Cardinality(Entries)) <= Cardinality(Writing)
                      /\ (writes - generation) % Width <= Cardinality(Writing)
    BY DEF SizeOffByRunning
  <1>1. Exact /\ Numbers /\ TableOK(chain)
    BY DEF CountInv, MapInv
  <1>2. ASSUME NEW p \in Procs, Dropping(p) \/ Adding(p) \/ Ticking(p) PROVE p \in Writing
    <2>1. ProcOK(p) /\ pc[p] # "idle"
      BY <1>2 DEF LockInv, Dropping, Adding, Ticking
    <2>2. op[p] # NoOp /\ Kind(p) \in {"Set", "Add", "Delete"}
      BY <1>2, <2>1, SharedDictAssumption
         DEF ProcOK, KindOK, Dropping, Adding, Ticking, Counting, Writers
    <2> QED
      BY <2>2 DEF Writing
  <1>3. IsFiniteSet(Writing) /\ Cardinality(Writing) \in Nat
    <2>1. Writing \subseteq Procs
      BY DEF Writing
    <2> QED
      BY <2>1, FS_Subset, FS_CardinalityType DEF FewKeys, Finite
  <1>4. CountedKeys \subseteq Keys /\ EntryKeys \subseteq Keys
    BY DEF CountedKeys, EntryKeys
  <1>5. /\ \A k \in CountedKeys \ EntryKeys : \E p \in Writing : Key(p) = k
        /\ \A k \in EntryKeys \ CountedKeys : \E p \in Writing : Key(p) = k
    BY <1>2 DEF CountedKeys, EntryKeys, Counted
  <1>6. /\ Cardinality(CountedKeys) <= Cardinality(EntryKeys) + Cardinality(Writing)
        /\ Cardinality(EntryKeys) <= Cardinality(CountedKeys) + Cardinality(Writing)
    BY <1>4, <1>5, OffByWriting
  <1>7. Cardinality(EntryKeys) \in Nat /\ Cardinality(CountedKeys) \in Nat
    BY <1>4, FS_Subset, FS_CardinalityType DEF FewKeys, Finite
  <1>8. Abs(entryCount - Cardinality(Entries)) <= Cardinality(Writing)
    BY <1>1, <1>3, <1>6, <1>7, EntriesAreKeys DEF Exact, Abs
  <1>9. Tickers \subseteq Writing
    BY <1>2 DEF Tickers
  <1>10. Cardinality(Tickers) \in Nat /\ Cardinality(Tickers) <= Cardinality(Writing)
    BY <1>3, <1>9, FS_Subset, FS_CardinalityType
  <1>11. writes - generation \in Int
         /\ writes - generation - Cardinality(Tickers) = writes - Cardinality(Tickers) - generation
    BY <1>1, <1>10 DEF Numbers, Counter
  <1> QED
    BY <1>1, <1>3, <1>8, <1>10, <1>11, Remainder DEF Exact

\* Size reads entryCount with no lock (dict.cpp:346), and the counters are
\* loaded and stored in separate steps (dict_store.hpp:67-71): no update is lost, with
\* any number of Sets, counters and Deletes running, until a Delete, which counts
\* after it has given the allocator lock back (dict.cpp:324-327), has its
\* counters open together with another call.
THEOREM NoCountIsLost ==
  ASSUME NoClear, TypedCalls, FewKeys
  PROVE  HSpec => []SizeOffByRunning
  <1>1. HInit => LockInv /\ MapInv /\ CountInv
    BY LockInvInit, MapInvInit, CountInvInit DEF HInit
  <1>2. [HNext]_historyVars => [Next]_vars
    BY DEF HNext, historyVars
  <1>3. LockInv /\ MapInv /\ CountInv /\ [HNext]_historyVars => LockInv' /\ MapInv' /\ CountInv'
    BY <1>2, LockInvNext, MapInvNext, CountInvNext
  <1>4. LockInv /\ MapInv /\ CountInv => SizeOffByRunning
    BY SizeIs
  <1> QED
    BY <1>1, <1>3, <1>4, PTL DEF HSpec
=============================================================================
