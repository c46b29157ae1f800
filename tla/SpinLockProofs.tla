--------------------------- MODULE SpinLockProofs ---------------------------
(***************************************************************************)
(* Mutual exclusion of the spin lock for any set of processes, any spin    *)
(* limit, any set of crashing processes and any set of processes the probe *)
(* cannot open, and its refinement of Mutex.                               *)
(***************************************************************************)
EXTENDS SpinLock, TLAPS

-----------------------------------------------------------------------------
(* Every variable keeps its type, and a process spins at most SpinLimit + 1 *)
(* times between two resets of its counter.                                 *)

\* The counter of a process that is about to exchange is at most SpinLimit,
\* because every way back to the exchange resets it.
SpinBound ==
  \A p \in Procs : pc[p] = "exchange" => spinCount[p] \in 0 .. SpinLimit

TypeInv == TypeOK /\ SpinBound

\* The variables of SpinLock have their types in every reachable state; the
\* spin counter of Lock() (lock.cpp:31, 45) never passes SpinLimit + 1.
THEOREM TypeCorrect == Spec => []TypeOK
<1>1. Init => TypeInv
  BY SpinLockAssumption DEF Init, TypeInv, TypeOK, SpinBound, Places
<1>2. TypeInv /\ [Next]_vars => TypeInv'
  <2> SUFFICES ASSUME TypeInv, [Next]_vars
               PROVE  TypeInv'
    OBVIOUS
  <2> USE SpinLockAssumption DEF TypeInv, TypeOK, SpinBound, Places, Goes,
                                 shared, local
  <2>1. ASSUME NEW p \in Procs, Call(p) PROVE TypeInv'
    BY <2>1 DEF Call
  <2>2. ASSUME NEW p \in Procs, Take(p) PROVE TypeInv'
    BY <2>2 DEF Take
  <2>3. ASSUME NEW p \in Procs, Spin(p) PROVE TypeInv'
    BY <2>3 DEF Spin
  <2>4. ASSUME NEW p \in Procs, Claim(p) PROVE TypeInv'
    BY <2>4 DEF Claim
  <2>5. ASSUME NEW p \in Procs, ReadOwner(p) PROVE TypeInv'
    BY <2>5 DEF ReadOwner
  <2>6. ASSUME NEW p \in Procs, Probe(p) PROVE TypeInv'
    BY <2>6 DEF Probe
  <2>7. ASSUME NEW p \in Procs, Disown(p) PROVE TypeInv'
    BY <2>7 DEF Disown
  <2>8. ASSUME NEW p \in Procs, ClearOwner(p) PROVE TypeInv'
    BY <2>8 DEF ClearOwner
  <2>9. ASSUME NEW p \in Procs, Release(p) PROVE TypeInv'
    BY <2>9 DEF Release
  <2>10. ASSUME NEW p \in Procs, Crash(p) PROVE TypeInv'
    BY <2>10 DEF Crash
  <2>11. CASE UNCHANGED vars
    BY <2>11 DEF vars
  <2>12. QED
    BY <2>1, <2>2, <2>3, <2>4, <2>5, <2>6, <2>7, <2>8, <2>9, <2>10, <2>11
       DEF Next, Step
<1>3. TypeInv => TypeOK
  BY DEF TypeInv
<1>4. QED
  BY <1>1, <1>2, <1>3, PTL DEF Spec

-----------------------------------------------------------------------------
(* Mutual exclusion.  The inductive invariant ties the lock word to the     *)
(* places of the processes; the PID word does not occur in it, which is why *)
(* no outcome of a probe can break it.                                      *)

LockInv == WordTellsHeld /\ MutualExclusion

\* Init establishes the invariant.
LEMMA LockInvInit == Init => LockInv
BY DEF Init, LockInv, WordTellsHeld, MutualExclusion, Holds

\* Every step of every process preserves the invariant.
LEMMA LockInvNext == TypeOK /\ LockInv /\ [Next]_vars => LockInv'
<1> SUFFICES ASSUME TypeOK, LockInv, [Next]_vars
             PROVE  LockInv'
  OBVIOUS
<1> USE DEF TypeOK, LockInv, WordTellsHeld, MutualExclusion, Holds, Goes,
            shared, local
<1>1. ASSUME NEW p \in Procs, Call(p) PROVE LockInv'
  BY <1>1 DEF Call
<1>2. ASSUME NEW p \in Procs, Take(p) PROVE LockInv'
  <2>1. \A q \in Procs : ~Holds(q)
    BY <1>2 DEF Take, WordWasFree
  <2>2. \A q \in Procs : Holds(q)' <=> q = p
    BY <1>2, <2>1 DEF Take
  <2>3. QED
    BY <1>2, <2>2 DEF Take
<1>3. ASSUME NEW p \in Procs, Spin(p) PROVE LockInv'
  BY <1>3 DEF Spin
<1>4. ASSUME NEW p \in Procs, Claim(p) PROVE LockInv'
  BY <1>4 DEF Claim
<1>5. ASSUME NEW p \in Procs, ReadOwner(p) PROVE LockInv'
  BY <1>5 DEF ReadOwner
<1>6. ASSUME NEW p \in Procs, Probe(p) PROVE LockInv'
  BY <1>6 DEF Probe
<1>7. ASSUME NEW p \in Procs, Disown(p) PROVE LockInv'
  BY <1>7 DEF Disown
<1>8. ASSUME NEW p \in Procs, ClearOwner(p) PROVE LockInv'
  BY <1>8 DEF ClearOwner
<1>9. ASSUME NEW p \in Procs, Release(p) PROVE LockInv'
  <2>1. \A q \in Procs : Holds(q) => q = p
    BY <1>9 DEF Release
  <2>2. \A q \in Procs : ~Holds(q)'
    BY <1>9, <2>1 DEF Release
  <2>3. QED
    BY <1>9, <2>2 DEF Release
<1>10. ASSUME NEW p \in Procs, Crash(p) PROVE LockInv'
  BY <1>10 DEF Crash
<1>11. CASE UNCHANGED vars
  BY <1>11 DEF vars
<1>12. QED
  BY <1>1, <1>2, <1>3, <1>4, <1>5, <1>6, <1>7, <1>8, <1>9, <1>10, <1>11
     DEF Next, Step

\* LockInv holds in every reachable state.
LEMMA LockInvHolds == Spec => []LockInv
<1>1. QED
  BY LockInvInit, LockInvNext, TypeCorrect, PTL DEF Spec

\* Two processes are never both inside a section protected by the lock
\* (lock.cpp:28-66, 76-81), whatever crashes and whatever the probes answer.
THEOREM Exclusion == Spec => []MutualExclusion
<1>1. LockInv => MutualExclusion
  BY DEF LockInv
<1>2. QED
  BY <1>1, LockInvHolds, PTL

\* The lock word is 1 exactly while a living or crashed process has the lock;
\* so the word of a crashed holder stays 1 for ever (lock.cpp:56-58).
THEOREM WordIsExact == Spec => []WordTellsHeld
<1>1. LockInv => WordTellsHeld
  BY DEF LockInv
<1>2. QED
  BY <1>1, LockInvHolds, PTL

-----------------------------------------------------------------------------
(* The PID word.                                                            *)

\* What OwnerHoldsLock needs to be inductive: the process the word names is
\* past the store of its PID and has not cleared it again.
OwnerInv == owner # NoPid => pc[owner] = "critical"

\* The PID word is 0 or names the process that has the lock (lock.cpp:39, 78).
THEOREM OwnerIsHolder == Spec => []OwnerHoldsLock
<1>1. Init => OwnerInv
  BY DEF Init, OwnerInv
<1>2. TypeOK /\ LockInv /\ OwnerInv /\ [Next]_vars => OwnerInv'
  <2> SUFFICES ASSUME TypeOK, LockInv, OwnerInv, [Next]_vars
               PROVE  OwnerInv'
    OBVIOUS
  <2> USE SpinLockAssumption DEF TypeOK, OwnerInv, Goes, shared, local
  <2>1. ASSUME NEW p \in Procs, Call(p) PROVE OwnerInv'
    BY <2>1 DEF Call
  <2>2. ASSUME NEW p \in Procs, Take(p) PROVE OwnerInv'
    BY <2>2 DEF Take
  <2>3. ASSUME NEW p \in Procs, Spin(p) PROVE OwnerInv'
    BY <2>3 DEF Spin
  <2>4. ASSUME NEW p \in Procs, Claim(p) PROVE OwnerInv'
    BY <2>4 DEF Claim
  <2>5. ASSUME NEW p \in Procs, ReadOwner(p) PROVE OwnerInv'
    BY <2>5 DEF ReadOwner
  <2>6. ASSUME NEW p \in Procs, Probe(p) PROVE OwnerInv'
    BY <2>6 DEF Probe
  <2>7. ASSUME NEW p \in Procs, Disown(p) PROVE OwnerInv'
    BY <2>7 DEF Disown
  <2>8. ASSUME NEW p \in Procs, ClearOwner(p) PROVE OwnerInv'
    BY <2>8 DEF ClearOwner
  <2>9. ASSUME NEW p \in Procs, Release(p) PROVE OwnerInv'
    BY <2>9 DEF Release
  <2>10. ASSUME NEW p \in Procs, Crash(p) PROVE OwnerInv'
    BY <2>10 DEF Crash
  <2>11. CASE UNCHANGED vars
    BY <2>11 DEF vars
  <2>12. QED
    BY <2>1, <2>2, <2>3, <2>4, <2>5, <2>6, <2>7, <2>8, <2>9, <2>10, <2>11
       DEF Next, Step
<1>3. OwnerInv => OwnerHoldsLock
  BY DEF OwnerInv, OwnerHoldsLock, Holds
<1>4. QED
  BY <1>1, <1>2, <1>3, TypeCorrect, LockInvHolds, PTL DEF Spec

-----------------------------------------------------------------------------
(* Refinement of Mutex.                                                     *)

\* The abstract holder is the process that holds, when one does.
LEMMA HolderIs ==
  ASSUME TypeOK, LockInv
  PROVE  /\ \A p \in Procs : Holds(p) => LockHolder = p
         /\ (\A p \in Procs : ~Holds(p)) => LockHolder = NoPid
BY DEF LockInv, MutualExclusion, LockHolder

\* A step that changes nobody's possession of the lock is a stutter.
LEMMA SameHolder ==
  ASSUME \A q \in Procs : Holds(q)' <=> Holds(q)
  PROVE  UNCHANGED LockHolder
BY DEF LockHolder

\* Seen from outside, the spin lock with its probes and its crashing callers
\* is a lock: free, or held by one process that alone can give it up.
THEOREM Refinement == Spec => ImplementsMutex
<1>1. Init => Abstract!Init
  BY DEF Init, Abstract!Init, LockHolder, Holds
<1>2. TypeOK /\ LockInv /\ TypeOK' /\ LockInv' /\ [Next]_vars
        => [Abstract!Next]_LockHolder
  <2> SUFFICES ASSUME TypeOK, LockInv, TypeOK', LockInv', [Next]_vars
               PROVE  [Abstract!Next]_LockHolder
    OBVIOUS
  <2>a. /\ \A p \in Procs : Holds(p)' => LockHolder' = p
        /\ (\A p \in Procs : ~Holds(p)') => LockHolder' = NoPid
    BY DEF LockInv, MutualExclusion, LockHolder
  <2>1. ASSUME NEW p \in Procs, Take(p) PROVE Abstract!Acquire(p)
    <3>1. \A q \in Procs : ~Holds(q)
      BY <2>1 DEF Take, WordWasFree, LockInv, WordTellsHeld
    <3>2. Holds(p)'
      BY <2>1 DEF Take, Goes, Holds, TypeOK
    <3>3. QED
      BY <3>1, <3>2, <2>a, HolderIs DEF Abstract!Acquire
  <2>2. ASSUME NEW p \in Procs, Release(p) PROVE Abstract!Release(p)
    <3>1. Holds(p)
      BY <2>2 DEF Release, Goes, Holds
    <3>2. \A q \in Procs : ~Holds(q)'
      BY <2>2 DEF Release, LockInv, WordTellsHeld
    <3>3. QED
      BY <3>1, <3>2, <2>a, HolderIs DEF Abstract!Release
  <2>3. ASSUME NEW p \in Procs,
               \/ Call(p) \/ Spin(p) \/ Claim(p) \/ ReadOwner(p) \/ Probe(p)
               \/ Disown(p) \/ ClearOwner(p) \/ Crash(p)
        PROVE  UNCHANGED LockHolder
    <3>1. \A q \in Procs : Holds(q)' <=> Holds(q)
      BY <2>3 DEF Call, Spin, Claim, ReadOwner, Probe, Disown, ClearOwner,
                  Crash, Goes, Holds, TypeOK, local
    <3>2. QED
      BY <3>1, SameHolder
  <2>4. CASE UNCHANGED vars
    <3>1. \A q \in Procs : Holds(q)' <=> Holds(q)
      BY <2>4 DEF vars, Holds
    <3>2. QED
      BY <3>1, SameHolder
  <2>5. QED
    BY <2>1, <2>2, <2>3, <2>4 DEF Next, Step, Abstract!Next
<1>3. QED
  BY <1>1, <1>2, TypeCorrect, LockInvHolds, PTL
     DEF Spec, ImplementsMutex, Abstract!Spec
=============================================================================
