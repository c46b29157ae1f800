----------------------------- MODULE Lifecycle -----------------------------
(***************************************************************************)
(* The life of a region: Dict::OpenOrCreate, Close, Reset and Clear        *)
(* (dict.cpp) over DictStore::Init (dict_store.cpp) and over the file and  *)
(* the mapping object of SharedMemoryRegion (mem_region.cpp).              *)
(*                                                                         *)
(* A process is here one life of one Dict object: after Close, or after a  *)
(* crash, it may come back with nothing but the name.  Opening goes in     *)
(* steps, because nothing orders the openers; a write of an open process   *)
(* is one step (SharedDict has its steps, and the lock words).  The        *)
(* entries are abstracted to the set of processes that have written one.   *)
(*                                                                         *)
(* A definition named X_Y next to X is X with a plausible mistake in it;   *)
(* no specification uses it, and the README says which property it breaks. *)
(***************************************************************************)
EXTENDS Integers, FiniteSets

CONSTANTS Procs,
          SizeOf,     \* the total_size each process asks for, in blocks
          MaxWrites   \* bound: writes since the header was last reset

ASSUME LifecycleAssumption ==
  /\ SizeOf \in [Procs -> Nat \ {0}]
  /\ MaxWrites \in Nat

VARIABLES
  file,        \* the file %TEMP%\pyczan_<name>.bin exists
  mapping,     \* size of the named mapping object, 0 when there is none
  \* in the region, and so in the file
  magic,       \* magic and version are those of this program
  generation,
  cleanFlag,
  crashed,
  total,       \* totalBlocks of the allocator
  table,       \* writers whose entry is in the hash table
  allocated,   \* writers whose entry's blocks the allocator regards as in use
  \* in the processes
  pc,
  isNew,
  \* ghosts
  owed,        \* writers of an entry into a settled region that nobody cleared
  crashes,     \* processes have crashed with this file open
  unclean      \* one of them in a settled region that had been written to

region == <<magic, generation, cleanFlag, crashed, total, table, allocated>>
ghosts == <<owed, crashes, unclean>>
vars   == <<file, mapping, magic, generation, cleanFlag, crashed, total, table,
            allocated, pc, isNew, owed, crashes, unclean>>

Sizes == {SizeOf[p] : p \in Procs}

Init ==
  /\ file = FALSE
  /\ mapping = 0
  /\ magic = FALSE
  /\ generation = 0
  /\ cleanFlag = 0
  /\ crashed = 0
  /\ total = 0
  /\ table = {}
  /\ allocated = {}
  /\ pc = [p \in Procs |-> "closed"]
  /\ isNew = [p \in Procs |-> FALSE]
  /\ owed = {}
  /\ crashes = FALSE
  /\ unclean = FALSE

Goes(p, from, to) == pc[p] = from /\ pc' = [pc EXCEPT ![p] = to]

\* The processes that have the file, and those that have the mapping, open.
WithFile    == {p \in Procs : pc[p] # "closed"}
WithMapping == {p \in Procs : pc[p] \notin {"closed", "extend", "createMapping"}}

\* The region is set up, and nobody is about to set it up or to clear it again.
Settled ==
  /\ magic
  /\ \A p \in Procs :
       /\ pc[p] \notin {"initAlloc", "initMagic", "initCounts", "initFlags",
                        "clearTable", "clearAlloc", "clearHeader"}
       /\ pc[p] \in {"extend", "createMapping", "mapView"} => ~isNew[p]

\* p gives up its handles; the mapping object goes with its last one.
Leaves(p) ==
  /\ pc' = [pc EXCEPT ![p] = "closed"]
  /\ mapping' = IF WithMapping \subseteq {p} THEN 0 ELSE mapping

-----------------------------------------------------------------------------
(* SharedMemoryRegion::OpenOrCreate *)

\* CreateFile with OPEN_ALWAYS: the file is new to one process.
CreateFile(p) ==
  /\ Goes(p, "closed", IF file THEN "createMapping" ELSE "extend")
  /\ isNew' = [isNew EXCEPT ![p] = ~file]
  /\ file' = TRUE
  /\ UNCHANGED <<mapping, region, ghosts>>

\* SetEndOfFile: the new file is all zeroes.
Extend(p) ==
  /\ Goes(p, "extend", "createMapping")
  /\ UNCHANGED <<file, mapping, region, isNew, ghosts>>

\* CreateFileMapping: an object of that name that exists keeps its size.
CreateMapping(p) ==
  /\ Goes(p, "createMapping", "mapView")
  /\ mapping' = IF mapping = 0 THEN SizeOf[p] ELSE mapping
  /\ UNCHANGED <<file, region, isNew, ghosts>>

MapView(p) ==
  /\ Goes(p, "mapView", IF isNew[p] THEN "initAlloc" ELSE "validate")
  /\ UNCHANGED <<file, mapping, region, isNew, ghosts>>

\* The mapping or the view cannot be made: the call throws, the file stays.
MapFails(p) ==
  /\ pc[p] \in {"createMapping", "mapView"}
  /\ Leaves(p)
  /\ UNCHANGED <<file, region, isNew, ghosts>>

-----------------------------------------------------------------------------
(* DictStore::Init of a new region *)

InitAlloc(p) ==
  /\ Goes(p, "initAlloc", "initMagic")
  /\ total' = SizeOf[p]
  /\ allocated' = {}
  /\ UNCHANGED <<file, mapping, magic, generation, cleanFlag, crashed, table, isNew, ghosts>>

InitMagic(p) ==
  /\ Goes(p, "initMagic", "initCounts")
  /\ magic' = TRUE
  /\ UNCHANGED <<file, mapping, generation, cleanFlag, crashed, total, table, allocated,
                 isNew, ghosts>>

InitCounts(p) ==
  /\ Goes(p, "initCounts", "initFlags")
  /\ generation' = 0
  /\ UNCHANGED <<file, mapping, magic, cleanFlag, crashed, total, table, allocated,
                 isNew, ghosts>>

\* It also zeroes the lock words, which are SharedDict's.
InitFlags(p) ==
  /\ Goes(p, "initFlags", "open")
  /\ cleanFlag' = 0
  /\ crashed' = 0
  /\ UNCHANGED <<file, mapping, magic, generation, total, table, allocated, isNew, ghosts>>

-----------------------------------------------------------------------------
(* Dict::OpenOrCreate of a file that was there *)

Validate_Inverted(p) ==
  /\ Goes(p, "validate", IF magic THEN "clearTable" ELSE "checkDirty")
  /\ UNCHANGED <<file, mapping, region, isNew, ghosts>>

Validate_Skipped(p) ==
  /\ Goes(p, "validate", "checkDirty")
  /\ UNCHANGED <<file, mapping, region, isNew, ghosts>>

\* IsValid: a region of another version, or none yet, is cleared.
Validate(p) ==
  /\ Goes(p, "validate", IF magic THEN "checkDirty" ELSE "clearTable")
  /\ UNCHANGED <<file, mapping, region, isNew, ghosts>>

IsDirty == cleanFlag = 0 /\ generation > 0

CheckDirty(p) ==
  /\ Goes(p, "checkDirty", "open")
  /\ crashed' = IF IsDirty THEN 1 ELSE crashed
  /\ UNCHANGED <<file, mapping, magic, generation, cleanFlag, total, table, allocated,
                 isNew, ghosts>>

\* _ClearAll, called with no lock held: the table, ...
ClearTable(p) ==
  /\ Goes(p, "clearTable", "clearAlloc")
  /\ table' = {}
  /\ UNCHANGED <<file, mapping, magic, generation, cleanFlag, crashed, total, allocated,
                 isNew, ghosts>>

\* ... the allocator, ...
ClearAlloc(p) ==
  /\ Goes(p, "clearAlloc", "clearHeader")
  /\ total' = SizeOf[p]
  /\ allocated' = {}
  /\ UNCHANGED <<file, mapping, magic, generation, cleanFlag, crashed, table, isNew, ghosts>>

\* ... the header, and zeroes the lock words (SharedDict has ZeroAllocLock and
\* ZeroHashLock for that).
ClearHeader(p) ==
  /\ Goes(p, "clearHeader", "open")
  /\ magic' = TRUE
  /\ generation' = 0
  /\ cleanFlag' = 1
  /\ crashed' = 1
  /\ UNCHANGED <<file, mapping, total, table, allocated, isNew, ghosts>>

-----------------------------------------------------------------------------
(* An open dictionary *)

\* A Set of a key of p's own.
Write(p) ==
  /\ pc[p] = "open"
  /\ generation < MaxWrites
  /\ table' = table \cup {p}
  /\ allocated' = allocated \cup {p}
  /\ generation' = generation + 1
  /\ owed' = IF Settled THEN owed \cup {p} ELSE owed
  /\ UNCHANGED <<file, mapping, magic, cleanFlag, crashed, total, pc, isNew, crashes, unclean>>

Clear_WholeRegion(p) ==
  /\ pc[p] = "open"
  /\ table' = {} /\ allocated' = {} /\ owed' = {}
  /\ total' = SizeOf[p] + 1
  /\ magic' = TRUE
  /\ generation' = 0
  /\ cleanFlag' = 1
  /\ crashed' = 1
  /\ UNCHANGED <<file, mapping, pc, isNew, crashes, unclean>>

\* Clear, with all locks held: _ClearAll with the size this process asked for.
Clear(p) ==
  /\ pc[p] = "open"
  /\ table' = {} /\ allocated' = {} /\ owed' = {}
  /\ total' = SizeOf[p]
  /\ magic' = TRUE
  /\ generation' = 0
  /\ cleanFlag' = 1
  /\ crashed' = 1
  /\ UNCHANGED <<file, mapping, pc, isNew, crashes, unclean>>

Close_MarksClean(p) ==
  /\ pc[p] = "open"
  /\ cleanFlag' = 1
  /\ Leaves(p)
  /\ UNCHANGED <<file, magic, generation, crashed, total, table, allocated, isNew, ghosts>>

\* The "clean" mark Close leaves is crashed = 1.
Close(p) ==
  /\ pc[p] = "open"
  /\ crashed' = 1
  /\ Leaves(p)
  /\ UNCHANGED <<file, magic, generation, cleanFlag, total, table, allocated, isNew, ghosts>>

\* DeleteFile fails while a process has the file open: it is not shared for
\* deletion.  The next file of the name is all zeroes.
Reset ==
  /\ file /\ WithFile = {}
  /\ file' = FALSE
  /\ magic' = FALSE
  /\ generation' = 0 /\ cleanFlag' = 0 /\ crashed' = 0
  /\ total' = 0
  /\ table' = {} /\ allocated' = {} /\ owed' = {}
  /\ crashes' = FALSE /\ unclean' = FALSE
  /\ UNCHANGED <<mapping, pc, isNew>>

\* A process dies anywhere; the region stays as it is.
Crash(p) ==
  /\ pc[p] # "closed"
  /\ Leaves(p)
  /\ crashes' = TRUE
  /\ unclean' = (unclean \/ (pc[p] = "open" /\ generation > 0 /\ Settled))
  /\ UNCHANGED <<file, region, isNew, owed>>

\* The steps of OpenOrCreate after the file is open.
OpenStep(p) ==
  \/ Extend(p) \/ CreateMapping(p) \/ MapView(p) \/ MapFails(p)
  \/ InitAlloc(p) \/ InitMagic(p) \/ InitCounts(p) \/ InitFlags(p)
  \/ Validate(p) \/ CheckDirty(p)
  \/ ClearTable(p) \/ ClearAlloc(p) \/ ClearHeader(p)

Next ==
  \/ \E p \in Procs :
       CreateFile(p) \/ OpenStep(p) \/ Write(p) \/ Clear(p) \/ Close(p) \/ Crash(p)
  \/ Reset

Spec == Init /\ [][Next]_vars

-----------------------------------------------------------------------------
(* Properties *)

Places == {"closed", "extend", "createMapping", "mapView", "initAlloc", "initMagic",
           "initCounts", "initFlags", "validate", "checkDirty", "clearTable",
           "clearAlloc", "clearHeader", "open"}

TypeOK ==
  /\ file \in BOOLEAN
  /\ mapping \in Sizes \cup {0}
  /\ magic \in BOOLEAN
  /\ generation \in 0 .. MaxWrites
  /\ cleanFlag \in {0, 1}
  /\ crashed \in {0, 1}
  /\ total \in Sizes \cup {0}
  /\ table \subseteq Procs /\ allocated \subseteq Procs /\ owed \subseteq Procs
  /\ pc \in [Procs -> Places]
  /\ isNew \in [Procs -> BOOLEAN]
  /\ crashes \in BOOLEAN /\ unclean \in BOOLEAN

IsOpen(p) == pc[p] = "open"

\* When OpenOrCreate has returned, the region is one of this program and its
\* allocator is set up, however many processes were creating it meanwhile, and
\* whichever of them died on the way.
OpenedIsInitialised == \A p \in Procs : IsOpen(p) => magic /\ total > 0

\* dict.hpp:35-36: what a process has written into a region that is set up is
\* there, and its blocks are in use, until somebody clears the dictionary:
\* opening, closing and crashing of others do not undo it.
WritesSurvive == owed \subseteq table /\ owed \subseteq allocated

\* The same when the region is still being created: no step of OpenOrCreate
\* takes an entry out (dict.cpp:186: who clears has all locks).
OpeningLosesNothing ==
  [][\A p \in Procs : OpenStep(p) => table \subseteq table' /\ allocated \subseteq allocated']_vars

\* A process that opens a region after another crashed in it, having written,
\* is told so, whoever closed or cleared the region in between.
CrashIsReported ==
  [][\A p \in Procs : pc[p] = "checkDirty" /\ pc'[p] = "open" /\ unclean => crashed' = 1]_vars

\* dict.hpp:103: was_crashed says that the last exit was not a normal one, so
\* a normal Close of a region nobody has crashed in does not raise it.
CloseIsNoCrash ==
  [][\A p \in Procs :
       IsOpen(p) /\ pc'[p] = "closed" /\ ~crashes' /\ crashed = 0 => crashed' = 0]_vars
=============================================================================
