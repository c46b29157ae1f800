------------------------------ MODULE SpinLock ------------------------------
(***************************************************************************)
(* One lock of the shared region: SharedSpinLock (lock.cpp), and the same  *)
(* algorithm written again in Dict::_HashLock and Dict::_HashUnlock        *)
(* (dict.cpp).  A lock is a word and the PID of its holder, both in shared *)
(* memory.  A caller spins on an atomic exchange of the word; every        *)
(* SpinLimit failures it looks whether the process named by the PID word   *)
(* still exists, and clears that word if not.                              *)
(*                                                                         *)
(* One step is one access to shared memory or one system call.  The        *)
(* bindings hold the interpreter lock through a call, so the actors are    *)
(* processes: a process never contends with itself.                        *)
(*                                                                         *)
(* A definition named X_Y next to X is X with a plausible mistake in it;   *)
(* no specification uses it, and the README says which property it breaks. *)
(***************************************************************************)
EXTENDS Naturals

CONSTANTS Procs,      \* PIDs that use the region; a restarted process is a new PID
          NoPid,      \* 0 in the PID word
          SpinLimit,  \* failed exchanges before the holder is probed (8192)
          Mortal,     \* processes that may crash
          Opaque      \* processes whose handle the others may not open

ASSUME SpinLockAssumption ==
  /\ NoPid \notin Procs
  /\ SpinLimit \in Nat
  /\ Mortal \subseteq Procs
  /\ Opaque \subseteq Procs

VARIABLES lock,       \* *m_lock: 0 or 1
          owner,      \* *m_owner
          alive,      \* the processes that have not crashed
          pc,         \* where each process is, or was when it crashed
          spinCount,  \* local spinCount
          ownedBy     \* local ownedBy

shared == <<lock, owner>>
local  == <<spinCount, ownedBy>>
vars   == <<lock, owner, alive, pc, spinCount, ownedBy>>

Places == {"idle", "exchange", "readOwner", "probe", "disown",
           "claim", "critical", "release"}

TypeOK ==
  /\ lock \in {0, 1}
  /\ owner \in Procs \cup {NoPid}
  /\ alive \subseteq Procs
  /\ pc \in [Procs -> Places]
  /\ spinCount \in [Procs -> 0 .. SpinLimit + 1]
  /\ ownedBy \in [Procs -> Procs \cup {NoPid}]

Init ==
  /\ lock = 0
  /\ owner = NoPid
  /\ alive = Procs
  /\ pc = [p \in Procs |-> "idle"]
  /\ spinCount = [p \in Procs |-> 0]
  /\ ownedBy = [p \in Procs |-> NoPid]

Goes(p, from, to) ==
  /\ p \in alive
  /\ pc[p] = from
  /\ pc' = [pc EXCEPT ![p] = to]

-----------------------------------------------------------------------------
(* Lock *)

WordWasFree_Ignored == lock \in {0, 1}

\* The exchange takes the lock when the old value of the word is 0.
WordWasFree == lock = 0

\* Lock is called: spinCount = 0.
Call(p) ==
  /\ Goes(p, "idle", "exchange")
  /\ spinCount' = [spinCount EXCEPT ![p] = 0]
  /\ UNCHANGED <<shared, alive, ownedBy>>

\* The successful InterlockedExchange.  The PID is not stored yet.
Take(p) ==
  /\ Goes(p, "exchange", "claim")
  /\ WordWasFree
  /\ lock' = 1
  /\ UNCHANGED <<owner, alive, local>>

\* The failed InterlockedExchange writes 1 over 1.
Spin(p) ==
  /\ \/ Goes(p, "exchange", "exchange") /\ spinCount[p] < SpinLimit
     \/ Goes(p, "exchange", "readOwner") /\ spinCount[p] >= SpinLimit
  /\ lock = 1
  /\ spinCount' = [spinCount EXCEPT ![p] = @ + 1]
  /\ UNCHANGED <<shared, alive, ownedBy>>

\* The PID is stored and the call returns with the lock.
Claim(p) ==
  /\ Goes(p, "claim", "critical")
  /\ owner' = p
  /\ UNCHANGED <<lock, alive, local>>

\* The PID word is read; 0 and the caller's own PID are not probed.
ReadOwner(p) ==
  /\ ownedBy' = [ownedBy EXCEPT ![p] = owner]
  /\ \/ /\ owner \in {NoPid, p}
        /\ Goes(p, "readOwner", "exchange")
        /\ spinCount' = [spinCount EXCEPT ![p] = 0]
     \/ /\ owner \notin {NoPid, p}
        /\ Goes(p, "readOwner", "probe")
        /\ UNCHANGED spinCount
  /\ UNCHANGED <<shared, alive>>

\* OpenProcess(PROCESS_QUERY_LIMITED_INFORMATION, ...) returns a handle.
CanOpen(q) == q \in alive \ Opaque

Probe_NoReset(p) ==
  /\ \/ CanOpen(ownedBy[p]) /\ Goes(p, "probe", "exchange")
     \/ ~CanOpen(ownedBy[p]) /\ Goes(p, "probe", "disown")
  /\ UNCHANGED <<shared, alive, local>>

\* The process read from the PID word is probed.
Probe(p) ==
  /\ \/ /\ CanOpen(ownedBy[p])
        /\ Goes(p, "probe", "exchange")
        /\ spinCount' = [spinCount EXCEPT ![p] = 0]
     \/ /\ ~CanOpen(ownedBy[p])
        /\ Goes(p, "probe", "disown")
        /\ UNCHANGED spinCount
  /\ UNCHANGED <<shared, alive, ownedBy>>

Disown_FreesWord(p) ==
  /\ Goes(p, "disown", "exchange")
  /\ owner' = NoPid
  /\ lock' = 0
  /\ spinCount' = [spinCount EXCEPT ![p] = 0]
  /\ UNCHANGED <<alive, ownedBy>>

\* "Stealing" the lock: the PID word is cleared, the lock word is not touched.
Disown(p) ==
  /\ Goes(p, "disown", "exchange")
  /\ owner' = NoPid
  /\ spinCount' = [spinCount EXCEPT ![p] = 0]
  /\ UNCHANGED <<lock, alive, ownedBy>>

-----------------------------------------------------------------------------
(* Unlock, and the crash of a process *)

ClearOwner_NotCleared(p) ==
  /\ Goes(p, "critical", "release")
  /\ UNCHANGED <<shared, alive, local>>

\* The PID word is cleared first ...
ClearOwner(p) ==
  /\ Goes(p, "critical", "release")
  /\ owner' = NoPid
  /\ UNCHANGED <<lock, alive, local>>

Release_Forgotten(p) ==
  /\ Goes(p, "release", "idle")
  /\ UNCHANGED <<shared, alive, local>>

\* ... and then the lock word.
Release(p) ==
  /\ Goes(p, "release", "idle")
  /\ lock' = 0
  /\ UNCHANGED <<owner, alive, local>>

\* A process dies between any two of its steps.  Shared memory stays as it is.
Crash(p) ==
  /\ p \in Mortal
  /\ alive' = alive \ {p}
  /\ p \in alive
  /\ UNCHANGED <<shared, local, pc>>

\* The steps of a process inside Lock or Unlock, or in its critical section.
Step(p) ==
  \/ Take(p) \/ Spin(p) \/ Claim(p)
  \/ ReadOwner(p) \/ Probe(p) \/ Disown(p)
  \/ ClearOwner(p) \/ Release(p)

Next == \E p \in Procs : Call(p) \/ Step(p) \/ Crash(p)

Spec == Init /\ [][Next]_vars

\* A process that is inside a call and has not crashed keeps being scheduled.
FairSpec == Spec /\ \A p \in Procs : WF_vars(Step(p))

-----------------------------------------------------------------------------
(* Properties *)

\* p has taken the lock and has not given it back; it may have crashed since.
Holds(p) == pc[p] \in {"claim", "critical", "release"}

\* p is inside Lock and still without the lock.
Waits(p) == pc[p] \in {"exchange", "readOwner", "probe", "disown"}

\* No two processes are inside the section the lock protects, even when a
\* probe found the holder dead and "stole" the lock (lock.cpp:55, dict.cpp:68).
MutualExclusion == \A p, q \in Procs : Holds(p) /\ Holds(q) => p = q

\* The lock word is 1 exactly while some process, living or crashed, has the
\* lock: no unlock is lost and none frees a lock it does not own.
WordTellsHeld == lock = 1 <=> \E p \in Procs : Holds(p)

\* The PID word never names a process that does not hold the lock, so a probe
\* never clears it because of a process that left long ago.
OwnerHoldsLock == owner # NoPid => Holds(owner)

\* The lock as its callers see it.
LockHolder == IF \E p \in Procs : Holds(p)
              THEN CHOOSE p \in Procs : Holds(p) ELSE NoPid

Abstract == INSTANCE Mutex WITH holder <- LockHolder

\* Spinning, probing, clearing PID words and crashing are invisible outside:
\* the lock passes from free to one holder and back, by the holder's own steps.
ImplementsMutex == Abstract!Spec

\* A crash blocks nobody unless it was the holder that crashed: while no holder
\* is dead, waiting makes somebody acquire the lock, also when a holder cannot
\* be probed.  (A given process may wait for ever: nothing orders the exchanges.)
WaitingEndsInAcquisition ==
  (\E p \in alive : Waits(p))
    ~> \/ \E p \in Procs : pc[p] = "claim"
       \/ \E p \in Procs \ alive : Holds(p)
       \/ ~ \E p \in alive : Waits(p)

\* lock.hpp:18-19: if the process named by the PID word is dead, the lock is
\* stolen: a living process that waits ends up seeing a living holder.
DeadOwnerIsReplaced ==
  \A p \in Procs :
    /\ p \in alive /\ Waits(p)
    /\ owner \in Procs \ alive
    ~> p \notin alive \/ \E q \in alive : Holds(q)

=============================================================================
