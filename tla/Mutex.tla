------------------------------- MODULE Mutex -------------------------------
(***************************************************************************)
(* What a lock promises its callers: it is free or has one holder, it is   *)
(* taken only when free and given up only by its holder.  SpinLock         *)
(* implements this module, and SharedDict uses its locks as if they were   *)
(* this one.                                                               *)
(***************************************************************************)
CONSTANTS Procs,   \* the processes that share the lock
          NoPid    \* the holder of a free lock

VARIABLE holder

TypeOK == holder \in Procs \cup {NoPid}

Init == holder = NoPid

Acquire(p) == holder = NoPid /\ holder' = p

Release(p) == holder = p /\ holder' = NoPid

Next == \E p \in Procs : Acquire(p) \/ Release(p)

Spec == Init /\ [][Next]_holder
=============================================================================
