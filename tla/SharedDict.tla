----------------------------- MODULE SharedDict -----------------------------
(***************************************************************************)
(* Dict (dict.cpp) over DictStore (dict_store.cpp): the dictionary that    *)
(* processes share, with its hash locks, its allocator lock, its hash      *)
(* chains, its entry count, its write count and its event.                 *)
(*                                                                         *)
(* The locks are words that are 0 or 1: SpinLock shows that, while nobody  *)
(* crashes, spinning on them is waiting for the word to be 0.  What a      *)
(* process does with a chain or with the allocator between two lock        *)
(* operations is one step; the two counters, which are not always under    *)
(* the same lock, are loaded and stored in steps of their own.  The        *)
(* allocator is the number of its free blocks (FreeList has the rest).     *)
(* Crashes are in SpinLock.  A buffer does not outlive a Clear: what Free   *)
(* does to one that does is outside this module.                           *)
(*                                                                         *)
(* A definition named X_Y next to X is X with a plausible mistake in it;   *)
(* no specification uses it, and the README says which property it breaks. *)
(***************************************************************************)
EXTENDS Integers, Sequences, SequencesExt, FiniteSetsExt

CONSTANTS Procs,      \* processes that have the dictionary open
          Keys,
          SlotOf,     \* the hash slot of each key: FNV-1a modulo HASH_SLOTS
          Pool,       \* HASH_LOCK_POOL, the number of hash locks (256)
          Calls,      \* calls the processes make: records of a kind, a key, a value
          MaxCalls,   \* bound: calls a process makes
          Capacity,   \* blocks of the allocator
          BlocksOf,   \* blocks of an entry by the type of its value
          Modulus,    \* 2^w of a counter value, w = 64
          Width,      \* 2^w of entryCount and generation, w = 32
          Absent, NoOp, NoRet, OOM

ASSUME SharedDictAssumption ==
  /\ Pool \in Nat \ {0}
  /\ SlotOf \in [Keys -> Nat]
  /\ MaxCalls \in Nat
  /\ Capacity \in Nat
  /\ Modulus \in Nat \ {0}
  /\ Width \in Nat \ {0}
  /\ NoOp \notin Calls
  /\ \A c \in Calls : c.kind \in {"Set", "Add", "Get", "Has", "Delete"} => c.key \in Keys
  /\ \A c \in Calls : c.kind \in {"Set", "Add"} => BlocksOf[c.val.type] \in Nat

HashLocks == 0 .. Pool - 1
AllocLock == Pool
Locks     == HashLocks \cup {AllocLock}
Slots     == {SlotOf[k] : k \in Keys}

VARIABLES
  \* in the shared region
  word,        \* the lock words
  chain,       \* the entries of each slot, from the head
  room,        \* free blocks of the allocator
  entryCount,
  generation,
  event,       \* the auto-reset event is signalled
  \* in each process
  pc, op, ret,
  at,          \* index of the loops over the hash locks
  old,         \* the value of the entry it has just removed
  count,       \* a counter it has loaded
  buffers,     \* buffers it has from Alloc
  calls,       \* calls made so far
  \* ghosts
  held,        \* the locks it believes to hold
  writes       \* writes that have taken effect since the last Clear

locks  == <<word, held>>
data   == <<chain, room>>
counts == <<entryCount, generation>>
frame  == <<op, calls>>
vars   == <<word, chain, room, entryCount, generation, event, pc, op, ret, at,
            old, count, buffers, calls, held, writes>>

Kind(p) == op[p].kind
Key(p)  == op[p].key

Goes(p, from, to) == pc[p] = from /\ pc' = [pc EXCEPT ![p] = to]

Result(p, r) == ret' = [ret EXCEPT ![p] = r]

Init ==
  /\ word = [i \in Locks |-> 0]
  /\ chain = [s \in Slots |-> << >>]
  /\ room = Capacity
  /\ entryCount = 0
  /\ generation = 0
  /\ event = FALSE
  /\ pc = [p \in Procs |-> "idle"]
  /\ op = [p \in Procs |-> NoOp]
  /\ ret = [p \in Procs |-> NoRet]
  /\ at = [p \in Procs |-> 0]
  /\ old = [p \in Procs |-> Absent]
  /\ count = [p \in Procs |-> 0]
  /\ buffers = [p \in Procs |-> 0]
  /\ calls = [p \in Procs |-> 0]
  /\ held = [p \in Procs |-> {}]
  /\ writes = 0

-----------------------------------------------------------------------------
(* Locks *)

\* slot & (HASH_LOCK_POOL - 1)
LockOf(k) == SlotOf[k] % Pool

WordIsFree_Ignored(i) == word[i] \in {0, 1}

\* The InterlockedExchange that returns 0.
WordIsFree(i) == word[i] = 0

Acquire(p, i) ==
  /\ WordIsFree(i)
  /\ word' = [word EXCEPT ![i] = 1]
  /\ held' = [held EXCEPT ![p] = @ \cup {i}]

Release(p, i) ==
  /\ word' = [word EXCEPT ![i] = 0]
  /\ held' = [held EXCEPT ![p] = @ \ {i}]

-----------------------------------------------------------------------------
(* The calls *)

FirstPlace(kind) ==
  CASE kind \in {"Set", "Add", "Get", "Has", "Delete"} -> "hashLock"
    [] kind \in {"Keys", "Clear"}                      -> "sweep"
    [] kind \in {"Status", "Alloc", "Free"}            -> "allocLock"
    [] kind = "Size"                                   -> "size"
    [] kind = "Wait"                                   -> "wait"

Inside(kinds) == {p \in Procs : op[p] # NoOp /\ Kind(p) \in kinds}

\* A buffer does not outlive a Clear: the callers see to that, not the code.
KeepsBuffersFromClear(c) ==
  /\ c.kind = "Clear" => Inside({"Alloc", "Free"}) = {} /\ \A p \in Procs : buffers[p] = 0
  /\ c.kind = "Alloc" => Inside({"Clear"}) = {}

Invoke(p, c) ==
  /\ calls[p] < MaxCalls
  /\ c.kind = "Free" => buffers[p] > 0
  /\ KeepsBuffersFromClear(c)
  /\ Goes(p, "idle", FirstPlace(c.kind))
  /\ op' = [op EXCEPT ![p] = c]
  /\ calls' = [calls EXCEPT ![p] = @ + 1]
  /\ at' = [at EXCEPT ![p] = 0]
  /\ old' = [old EXCEPT ![p] = Absent]
  /\ UNCHANGED <<locks, data, counts, event, ret, count, buffers, writes>>

Return(p) ==
  /\ Goes(p, "return", "idle")
  /\ op' = [op EXCEPT ![p] = NoOp]
  /\ Result(p, NoRet)
  /\ UNCHANGED <<locks, data, counts, event, at, old, count, buffers, calls, writes>>

AfterHashLock(kind) ==
  CASE kind \in {"Set", "Add"} -> "allocLock"
    [] kind = "Get"            -> "get"
    [] kind = "Has"            -> "has"
    [] kind = "Delete"         -> "unlink"

HashLock(p) ==
  /\ Goes(p, "hashLock", AfterHashLock(Kind(p)))
  /\ Acquire(p, LockOf(Key(p)))
  /\ UNCHANGED <<data, counts, event, frame, ret, at, old, count, buffers, writes>>

HashUnlock_Silent(p) ==
  /\ Goes(p, "hashUnlock", IF Kind(p) = "Set" /\ ret[p] # OOM THEN "signal" ELSE "return")
  /\ Release(p, LockOf(Key(p)))
  /\ UNCHANGED <<data, counts, event, frame, ret, at, old, count, buffers, writes>>

\* After HashUnlock: a write that succeeded signals the event.
HashUnlock(p) ==
  /\ Goes(p, "hashUnlock",
          IF Kind(p) \in {"Set", "Add"} /\ ret[p] # OOM THEN "signal" ELSE "return")
  /\ Release(p, LockOf(Key(p)))
  /\ UNCHANGED <<data, counts, event, frame, ret, at, old, count, buffers, writes>>

AfterAllocLock(kind) ==
  CASE kind \in {"Set", "Add"} -> "replace"
    [] kind = "Delete"         -> "free"
    [] kind = "Clear"          -> "wipe"
    [] kind = "Status"         -> "measure"
    [] kind = "Alloc"          -> "bufAlloc"
    [] kind = "Free"           -> "bufFree"

TakeAllocLock(p) ==
  /\ Goes(p, "allocLock", AfterAllocLock(Kind(p)))
  /\ Acquire(p, AllocLock)
  /\ UNCHANGED <<data, counts, event, frame, ret, at, old, count, buffers, writes>>

AfterAllocUnlock(kind) ==
  CASE kind \in {"Set", "Add"}              -> "hashUnlock"
    [] kind = "Delete"                      -> "decCheck"
    [] kind = "Clear"                       -> "sweepUnlock"
    [] kind \in {"Status", "Alloc", "Free"} -> "return"

AllocUnlock(p) ==
  /\ Goes(p, "allocUnlock", AfterAllocUnlock(Kind(p)))
  /\ Release(p, AllocLock)
  /\ UNCHANGED <<data, counts, event, frame, ret, at, old, count, buffers, writes>>

-----------------------------------------------------------------------------
(* The hash chains: FindKey, RemoveKey, LinkEntry *)

IsKey(e, k) == e.key = k

\* The position of k in its chain, 0 if it is not there.
Find(k) == SelectInSeq(chain[SlotOf[k]], LAMBDA e : IsKey(e, k))

Value(k) == IF Find(k) = 0 THEN Absent ELSE chain[SlotOf[k]][Find(k)].val

RemoveKey_FromHead(k) == [chain EXCEPT ![SlotOf[k]] = IF @ = << >> THEN @ ELSE Tail(@)]

RemoveKey(k) ==
  [chain EXCEPT ![SlotOf[k]] = RemoveFirstMatch(@, LAMBDA e : IsKey(e, k))]

LinkEntry(k, v) == [chain EXCEPT ![SlotOf[k]] = <<[key |-> k, val |-> v]>> \o @]

EntryBlocks(v) == IF v = Absent THEN 0 ELSE BlocksOf[v.type]

-----------------------------------------------------------------------------
(* Set, Increment, Decrement, AtomicAdd *)

Removed_NotCounted(p) == "insert"

\* Where a call that has removed an entry goes: it counts it if there was one.
Removed(p) == IF Find(Key(p)) = 0 THEN "insert" ELSE "decCheck"

Replace_Keeps(p) ==
  /\ Goes(p, "replace", "insert")
  /\ UNCHANGED <<locks, data, counts, event, frame, ret, at, old, count, buffers, writes>>

Replace_Leaks(p) ==
  /\ Goes(p, "replace", Removed(p))
  /\ old' = [old EXCEPT ![p] = Value(Key(p))]
  /\ chain' = RemoveKey(Key(p))
  /\ UNCHANGED <<locks, room, counts, event, frame, ret, at, count, buffers, writes>>

\* The old entry leaves the chain and its blocks are freed.
Replace(p) ==
  /\ Goes(p, "replace", Removed(p))
  /\ old' = [old EXCEPT ![p] = Value(Key(p))]
  /\ chain' = RemoveKey(Key(p))
  /\ room' = room + EntryBlocks(Value(Key(p)))
  /\ UNCHANGED <<locks, counts, event, frame, ret, at, count, buffers, writes>>

\* _ReadInt64 and _ReadDouble: a value of another type reads as 0.
ReadCounter(v, type) == IF v # Absent /\ v.type = type THEN v.n ELSE 0

NewValue(p) ==
  IF Kind(p) = "Set" THEN op[p].val
  ELSE [type |-> op[p].val.type,
        n |-> (ReadCounter(old[p], op[p].val.type) + op[p].val.n) % Modulus]

MayFind_Unchecked(n) == TRUE

\* Alloc finds n blocks in a row: one free block is always found, more are in
\* an empty region or in the gap the caller has just made; otherwise the free
\* blocks may be scattered.
MayFind(n) == room >= n
MayMiss(p, n) == room < n \/ (n > 1 /\ n > EntryBlocks(old[p]) /\ room < Capacity)

\* The new entry is allocated, filled and linked ...
Insert(p) ==
  /\ Goes(p, "insert", "incLoad")
  /\ MayFind(EntryBlocks(NewValue(p)))
  /\ room' = room - EntryBlocks(NewValue(p))
  /\ chain' = LinkEntry(Key(p), NewValue(p))
  /\ Result(p, NewValue(p))
  /\ writes' = writes + 1
  /\ UNCHANGED <<locks, counts, event, frame, at, old, count, buffers>>

InsertFails_KeepsLock(p) ==
  /\ Goes(p, "insert", "hashUnlock")
  /\ MayMiss(p, EntryBlocks(NewValue(p)))
  /\ Result(p, OOM)
  /\ UNCHANGED <<locks, data, counts, event, frame, at, old, count, buffers, writes>>

\* ... or there is no room for it: the locks are given up and OOM is thrown.
InsertFails(p) ==
  /\ Goes(p, "insert", "allocUnlock")
  /\ MayMiss(p, EntryBlocks(NewValue(p)))
  /\ Result(p, OOM)
  /\ UNCHANGED <<locks, data, counts, event, frame, at, old, count, buffers, writes>>

\* SetEvent, with no lock held.
Signal(p) ==
  /\ Goes(p, "signal", "return")
  /\ event' = TRUE
  /\ UNCHANGED <<locks, data, counts, frame, ret, at, old, count, buffers, writes>>

-----------------------------------------------------------------------------
(* DecEntryCount, IncEntryCount, TickGeneration *)

AfterDec(kind) == IF kind = "Delete" THEN "tickLoad" ELSE "insert"

\* entryCount > 0 is tested; the compiled code may load it again to decrement
\* it, or use what it has loaded.
DecCheck(p) ==
  /\ \/ entryCount = 0 /\ Goes(p, "decCheck", AfterDec(Kind(p))) /\ UNCHANGED count
     \/ entryCount > 0 /\ Goes(p, "decCheck", "decLoad") /\ UNCHANGED count
     \/ /\ entryCount > 0 /\ Goes(p, "decCheck", "decStore")
        /\ count' = [count EXCEPT ![p] = entryCount]
  /\ UNCHANGED <<locks, data, counts, event, frame, ret, at, old, buffers, writes>>

DecLoad(p) ==
  /\ Goes(p, "decLoad", "decStore")
  /\ count' = [count EXCEPT ![p] = entryCount]
  /\ UNCHANGED <<locks, data, counts, event, frame, ret, at, old, buffers, writes>>

DecStore(p) ==
  /\ Goes(p, "decStore", AfterDec(Kind(p)))
  /\ entryCount' = (count[p] - 1) % Width
  /\ UNCHANGED <<locks, data, generation, event, frame, ret, at, old, count, buffers, writes>>

IncLoad(p) ==
  /\ Goes(p, "incLoad", "incStore")
  /\ count' = [count EXCEPT ![p] = entryCount]
  /\ UNCHANGED <<locks, data, counts, event, frame, ret, at, old, buffers, writes>>

IncStore(p) ==
  /\ Goes(p, "incStore", "tickLoad")
  /\ entryCount' = (count[p] + 1) % Width
  /\ UNCHANGED <<locks, data, generation, event, frame, ret, at, old, count, buffers, writes>>

TickLoad(p) ==
  /\ Goes(p, "tickLoad", "tickStore")
  /\ count' = [count EXCEPT ![p] = generation]
  /\ UNCHANGED <<locks, data, counts, event, frame, ret, at, old, buffers, writes>>

TickStore(p) ==
  /\ Goes(p, "tickStore", IF Kind(p) = "Delete" THEN "hashUnlock" ELSE "allocUnlock")
  /\ generation' = (count[p] + 1) % Width
  /\ UNCHANGED <<locks, data, entryCount, event, frame, ret, at, old, count, buffers, writes>>

-----------------------------------------------------------------------------
(* Get, Has, Delete *)

Get(p) ==
  /\ Goes(p, "get", "hashUnlock")
  /\ Result(p, Value(Key(p)))
  /\ UNCHANGED <<locks, data, counts, event, frame, at, old, count, buffers, writes>>

Has(p) ==
  /\ Goes(p, "has", "hashUnlock")
  /\ Result(p, Find(Key(p)) # 0)
  /\ UNCHANGED <<locks, data, counts, event, frame, at, old, count, buffers, writes>>

\* Delete of a key that is not there.
DeleteMisses(p) ==
  /\ Goes(p, "unlink", "hashUnlock")
  /\ Find(Key(p)) = 0
  /\ Result(p, FALSE)
  /\ UNCHANGED <<locks, data, counts, event, frame, at, old, count, buffers, writes>>

Unlink(p) ==
  /\ Goes(p, "unlink", "allocLock")
  /\ Find(Key(p)) # 0
  /\ old' = [old EXCEPT ![p] = Value(Key(p))]
  /\ chain' = RemoveKey(Key(p))
  /\ Result(p, TRUE)
  /\ writes' = writes + 1
  /\ UNCHANGED <<locks, room, counts, event, frame, at, count, buffers>>

\* The entry's blocks are freed under the allocator lock; entryCount and
\* generation change after it has been given up.
FreeEntry(p) ==
  /\ Goes(p, "free", "allocUnlock")
  /\ room' = room + EntryBlocks(old[p])
  /\ UNCHANGED <<locks, chain, counts, event, frame, ret, at, old, count, buffers, writes>>

-----------------------------------------------------------------------------
(* Keys, Clear *)

Sweep_KeysDown(p) ==
  LET i == IF Kind(p) = "Keys" THEN Pool - 1 - at[p] ELSE at[p] IN
  /\ Goes(p, "sweep",
          IF at[p] + 1 < Pool THEN "sweep"
          ELSE IF Kind(p) = "Keys" THEN "collect" ELSE "allocLock")
  /\ Acquire(p, i)
  /\ at' = [at EXCEPT ![p] = @ + 1]
  /\ UNCHANGED <<data, counts, event, frame, ret, old, count, buffers, writes>>

\* The hash locks are taken from 0 to Pool - 1 ...
Sweep(p) ==
  /\ Goes(p, "sweep",
          IF at[p] + 1 < Pool THEN "sweep"
          ELSE IF Kind(p) = "Keys" THEN "collect" ELSE "allocLock")
  /\ Acquire(p, at[p])
  /\ at' = [at EXCEPT ![p] = @ + 1]
  /\ UNCHANGED <<data, counts, event, frame, ret, old, count, buffers, writes>>

\* ... and given up from Pool - 1 to 0.
SweepUnlock(p) ==
  /\ Goes(p, "sweepUnlock", IF at[p] = 1 THEN "return" ELSE "sweepUnlock")
  /\ Release(p, at[p] - 1)
  /\ at' = [at EXCEPT ![p] = @ - 1]
  /\ UNCHANGED <<data, counts, event, frame, ret, old, count, buffers, writes>>

Collect(p) ==
  /\ Goes(p, "collect", "sweepUnlock")
  /\ Result(p, UNION {{e.key : e \in ToSet(chain[s])} : s \in Slots})
  /\ UNCHANGED <<locks, data, counts, event, frame, at, old, count, buffers, writes>>

\* _ClearAll: the table, the allocator and the header are reset ...
Wipe(p) ==
  /\ Goes(p, "wipe", "zeroAlloc")
  /\ chain' = [s \in Slots |-> << >>]
  /\ room' = Capacity
  /\ entryCount' = 0
  /\ generation' = 0
  /\ buffers' = [q \in Procs |-> 0]
  /\ writes' = 0
  /\ Result(p, {})
  /\ UNCHANGED <<locks, event, frame, at, old, count>>

\* ... the allocator lock is zeroed ...
ZeroAllocLock(p) ==
  /\ Goes(p, "zeroAlloc", "zeroHash")
  /\ word' = [word EXCEPT ![AllocLock] = 0]
  /\ at' = [at EXCEPT ![p] = 0]
  /\ UNCHANGED <<held, data, counts, event, frame, ret, old, count, buffers, writes>>

\* ... and every hash lock, though the caller holds and will give up all.
ZeroHashLock(p) ==
  /\ Goes(p, "zeroHash", IF at[p] + 1 = Pool THEN "allocUnlock" ELSE "zeroHash")
  /\ word' = [word EXCEPT ![at[p]] = 0]
  /\ at' = [at EXCEPT ![p] = @ + 1]
  /\ UNCHANGED <<held, data, counts, event, frame, ret, old, count, buffers, writes>>

-----------------------------------------------------------------------------
(* Size, Status, Alloc, Free, Wait *)

\* Size reads entryCount with no lock.
ReadSize(p) ==
  /\ Goes(p, "size", "return")
  /\ Result(p, entryCount)
  /\ UNCHANGED <<locks, data, counts, event, frame, at, old, count, buffers, writes>>

Measure(p) ==
  /\ Goes(p, "measure", "allocUnlock")
  /\ Result(p, Capacity - room)
  /\ UNCHANGED <<locks, data, counts, event, frame, at, old, count, buffers, writes>>

\* A raw buffer, of one block here.
BufferAlloc(p) ==
  /\ Goes(p, "bufAlloc", "allocUnlock")
  /\ \/ /\ room >= 1
        /\ room' = room - 1
        /\ buffers' = [buffers EXCEPT ![p] = @ + 1]
        /\ Result(p, TRUE)
     \/ /\ room < 1
        /\ Result(p, FALSE)
        /\ UNCHANGED <<room, buffers>>
  /\ UNCHANGED <<locks, chain, counts, event, frame, at, old, count, writes>>

BufferFree(p) ==
  /\ Goes(p, "bufFree", "allocUnlock")
  /\ room' = room + 1
  /\ buffers' = [buffers EXCEPT ![p] = @ - 1]
  /\ Result(p, TRUE)
  /\ UNCHANGED <<locks, chain, counts, event, frame, at, old, count, writes>>

\* The event is auto-reset: the wait that it ends resets it.
WaitEnds(p) ==
  /\ Goes(p, "wait", "return")
  /\ event
  /\ event' = FALSE
  /\ Result(p, TRUE)
  /\ UNCHANGED <<locks, data, counts, frame, at, old, count, buffers, writes>>

WaitTimesOut(p) ==
  /\ Goes(p, "wait", "return")
  /\ ~event
  /\ Result(p, FALSE)
  /\ UNCHANGED <<locks, data, counts, event, frame, at, old, count, buffers, writes>>

-----------------------------------------------------------------------------
LockStep(p) ==
  HashLock(p) \/ HashUnlock(p) \/ TakeAllocLock(p) \/ AllocUnlock(p)

WriteStep(p) == Replace(p) \/ Insert(p) \/ InsertFails(p) \/ Signal(p)

CountStep(p) ==
  \/ DecCheck(p) \/ DecLoad(p) \/ DecStore(p)
  \/ IncLoad(p) \/ IncStore(p) \/ TickLoad(p) \/ TickStore(p)

KeyStep(p) == Get(p) \/ Has(p) \/ DeleteMisses(p) \/ Unlink(p) \/ FreeEntry(p)

SweepStep(p) ==
  \/ Sweep(p) \/ SweepUnlock(p) \/ Collect(p)
  \/ Wipe(p) \/ ZeroAllocLock(p) \/ ZeroHashLock(p)

OtherStep(p) ==
  \/ ReadSize(p) \/ Measure(p) \/ BufferAlloc(p) \/ BufferFree(p)
  \/ WaitEnds(p) \/ WaitTimesOut(p)

\* What a process does inside a call.
Step(p) ==
  \/ LockStep(p) \/ WriteStep(p) \/ CountStep(p) \/ KeyStep(p)
  \/ SweepStep(p) \/ OtherStep(p) \/ Return(p)

Next == \E p \in Procs : Step(p) \/ \E c \in Calls : Invoke(p, c)

Spec == Init /\ [][Next]_vars

\* A process inside a call keeps being scheduled.
FairSpec == Spec /\ \A p \in Procs : WF_vars(Step(p))
-----------------------------------------------------------------------------
(* Properties *)

Places == {"idle", "return", "hashLock", "hashUnlock", "allocLock", "allocUnlock",
           "replace", "insert", "signal", "decCheck", "decLoad", "decStore",
           "incLoad", "incStore", "tickLoad", "tickStore", "get", "has", "unlink",
           "free", "sweep", "sweepUnlock", "collect", "wipe", "zeroAlloc",
           "zeroHash", "size", "measure", "bufAlloc", "bufFree", "wait"}

Counter == 0 .. Width - 1

TypeOK ==
  /\ word \in [Locks -> {0, 1}]
  /\ held \in [Procs -> SUBSET Locks]
  /\ room \in 0 .. Capacity
  /\ entryCount \in Counter
  /\ generation \in Counter
  /\ event \in BOOLEAN
  /\ pc \in [Procs -> Places]
  /\ op \in [Procs -> Calls \cup {NoOp}]
  /\ at \in [Procs -> 0 .. Pool]
  /\ count \in [Procs -> Counter]
  /\ buffers \in [Procs -> Nat]
  /\ calls \in [Procs -> 0 .. MaxCalls]
  /\ writes \in Nat

\* No two processes believe to hold the same lock: all 256 hash locks and the
\* allocator lock are exclusive, those of Keys and Clear too (dict.cpp:355).
LockExclusion == \A p, q \in Procs : p # q => held[p] \cap held[q] = {}

\* A lock word is 1 exactly when a process inside a call holds the lock: every
\* lock is free again when the calls are over, whatever path they took.
WordsTellHeld ==
  \A i \in Locks : word[i] = 1 <=> \E p \in Procs : op[p] # NoOp /\ i \in held[p]

Entries == UNION {{<<s, i>> : i \in DOMAIN chain[s]} : s \in Slots}

Entry(x) == chain[x[1]][x[2]]

\* A key is in its own slot, and in no slot twice: concurrent writes of a key
\* leave one entry, and Get finds what Keys lists.
OneEntryPerKey ==
  /\ \A x \in Entries : SlotOf[Entry(x).key] = x[1]
  /\ \A x, y \in Entries : Entry(x).key = Entry(y).key => x = y

\* The entry Delete has unlinked and not yet freed.
Detached(p) ==
  IF op[p] # NoOp /\ Kind(p) = "Delete" /\ pc[p] \in {"allocLock", "free"}
  THEN EntryBlocks(old[p]) ELSE 0

\* The blocks that are not free belong to linked entries, to buffers, or to the
\* entry a Delete is about to free: nothing leaks, OOM and all.
RoomExact ==
  Capacity - room =
    SumFunction([x \in Entries |-> EntryBlocks(Entry(x).val)])
    + SumFunction(buffers)
    + SumFunction([p \in Procs |-> Detached(p)])

Quiet == \A p \in Procs : op[p] = NoOp

\* dict.hpp:97, 102: with no call under way entryCount is the number of entries
\* and generation the number of writes.
CountsExact ==
  Quiet => /\ entryCount = Cardinality(Entries) % Width
           /\ generation = writes % Width

MapKinds == {"Set", "Add", "Get", "Has", "Delete", "Keys", "Clear"}

OnMap(p) == op[p] # NoOp /\ Kind(p) \in MapKinds

\* Set and the counters take the old entry out before the new one is in.
Replacing(p, k) ==
  /\ OnMap(p)
  /\ Kind(p) \in {"Set", "Add"} /\ Key(p) = k
  /\ pc[p] \in {"decCheck", "decLoad", "decStore", "insert"}

\* The map as the processes see it: an entry being replaced counts until then.
Seen ==
  [k \in Keys |->
     IF \E p \in Procs : Replacing(p, k)
     THEN old[CHOOSE p \in Procs : Replacing(p, k)] ELSE Value(k)]

Abstract ==
  INSTANCE KVMap WITH
    map <- Seen,
    op  <- [p \in Procs |-> IF OnMap(p) THEN op[p] ELSE NoOp],
    ret <- [p \in Procs |-> IF OnMap(p) THEN ret[p] ELSE NoRet],
    Calls <- {c \in Calls : c.kind \in MapKinds}

\* Linearizability: every call on the map takes effect at one instant, in
\* particular no process sees the key of a running Set or counter missing.
ImplementsKVMap == Abstract!Spec

\* Every call ends: the order of the locks (dict.cpp:219, 357) excludes
\* deadlock, and every path gives its locks back.
EveryCallReturns == \A p \in Procs : op[p] # NoOp ~> op[p] = NoOp
=============================================================================
