------------------------- MODULE SharedDictHistory -------------------------
(***************************************************************************)
(* The instances of MCSharedDict with two history variables, for the       *)
(* properties that speak of what has happened: of counters that a Delete   *)
(* has changed at the same time as another call, and of writes that no     *)
(* Wait has been woken for.  History follows the steps and restricts none. *)
(***************************************************************************)
EXTENDS MCSharedDict

VARIABLES raced,   \* a Delete has had its counters open together with another call
          unseen   \* a write has taken effect since a Wait last returned true

historyVars == <<vars, raced, unseen>>

CounterPlaces ==
  {"decCheck", "decLoad", "decStore", "incLoad", "incStore", "tickLoad", "tickStore"}

InCounters == {p \in Procs : pc[p] \in CounterPlaces}

\* Delete counts after it has given the allocator lock back (dict.cpp:324-327).
Races == \E p, q \in InCounters : p # q /\ Kind(p) = "Delete"

\* A Set or a counter has linked an entry: its result is there.
Links(p) == pc[p] = "insert" /\ pc'[p] = "incLoad"

Wakes(p) == pc[p] = "wait" /\ ret'[p] = TRUE

HInit == Init /\ raced = FALSE /\ unseen = FALSE

HNext ==
  /\ Next
  /\ raced' = (raced \/ Races')
  /\ unseen' = IF \E p \in Procs : Wakes(p) THEN FALSE
               ELSE unseen \/ \E p \in Procs : Links(p)

HSpec == HInit /\ [][HNext]_historyVars
-----------------------------------------------------------------------------
Abs(n) == IF n < 0 THEN -n ELSE n

Writing == {p \in Procs : op[p] # NoOp /\ Kind(p) \in {"Set", "Add", "Delete"}}

\* Size (dict.cpp:346) reads entryCount without a lock.  Unless a Delete has
\* raced, what it reads is off by at most one for each write under way, and
\* generation lags by at most one for each: so both are exact when no call is
\* under way, and no interleaving of Sets and counters loses an update.
SizeOffByRunning ==
  ~raced => /\ Abs(entryCount - Cardinality(Entries)) <= Cardinality(Writing)
            /\ (writes - generation) % Width <= Cardinality(Writing)

\* Between the linking of its entry and its SetEvent (dict.cpp:263-274).
AboutToSignal(p) ==
  /\ op[p] # NoOp /\ Kind(p) \in {"Set", "Add"} /\ ret[p] \notin {NoRet, OOM}
  /\ pc[p] \in CounterPlaces \cup {"allocUnlock", "hashUnlock", "signal"}

\* Signals coalesce in the auto-reset event and come after the locks are given
\* up, but no write is left without one: after it, until a Wait is woken, the
\* event is set or its writer is on the way to setting it.
WritesAreAnnounced == unseen => event \/ \E p \in Procs : AboutToSignal(p)
=============================================================================
