# pyczan: a TLA+ model of the shared dictionary

`pyczan.shmem` is a dictionary that several Windows processes share through a
memory-mapped file, `pyczan.simd` a few string functions; both are bound to
Python with nanobind, whose headers are part of the repository. This directory
holds TLA+ modules written from the C++ code, the TLC runs that check them on
small instances, and theorems about them checked by TLAPS. File names below are
relative to `src/cpp/pyczan_shmem/` (`.cpp`), `src/cpp/include/pyczan/shmem/`
(`.hpp`) and `src/cpp/include/nanobind/` (`.h`) of the repository; `PROJECT.json`
maps each definition to its lines.

    tlc -config SpinLockCrash.cfg SpinLock.tla      # one run
    tlapm SpinLockProofs.tla                        # the proofs of one module

## The system

| component | state | operations | interacts with |
|---|---|---|---|
| spin locks: `SharedSpinLock` (`lock.cpp`), and the same code in `Dict::_HashLock/_HashUnlock` (`dict.cpp:39-89`) | a lock word and the PID of the holder, in the region; spin count and the PID read, local | `Lock`, `Unlock` | all processes through the two words; the system (`OpenProcess`) |
| block allocator: `FreeListAlloc` (`freelist.cpp`) | a size word, a link and a footer per block, the head of the free list | `Init`, `Alloc`, `Free`, `UsedBlocks`, `FreeFragments` | called by `Dict` under the allocator lock; the bytes of its clients lie between its words |
| data layer: `DictStore` (`dict_store.cpp`), `HashIndex` (`hash_index.hpp`) | header (magic, version, entryCount, generation, cleanFlag, crashed), lock words, 65521 hash slots, entries linked by offsets | `Init`, `IsValid`, `IsDirty`, `FindKey`, `RemoveKey`, `LinkEntry`, `CollectKeys`, `Clear` | called by `Dict`, which does all the locking |
| dictionary: `Dict` (`dict.cpp`) | none of its own in the region; each process has handles and pointers | `Set`, `Get`, `Delete`, `Has`, `Size`, `Keys`, `Clear`, `Increment`, `Decrement`, `AtomicAdd`, `Alloc`, `Free`, `Status`, `Wait` | 256 hash locks (slot & 255), then the allocator lock; the event |
| lifecycle: `Dict::OpenOrCreate/Close/Reset`, `SharedMemoryRegion` (`mem_region.cpp`) | the file, the named mapping object, the header | open or create, close, delete the file | the system (`CreateFile`, `CreateFileMapping`, `DeleteFile`) |
| notification: a named auto-reset event | signalled or not | `SetEvent` after each write, `Wait` | the system |
| Python binding (`bindings.cpp`) | the objects `Dict` of one interpreter, open or not | type tags of values, conversions both ways, counters, buffers, errors | calls `Dict`; holds the interpreter lock during a call, so the actors of the concurrent models are *processes* |
| string functions (`pyczan_simd/simd_ops.cpp`) | none | `CountChar`, `Trim`, `ReplaceChar` | bytes of a `str`, through nanobind's casters |
| nanobind: references (`nb_types.h`, `nb_accessor.h`, `ndarray.h`) | a pointer in each variable; the count in each Python object | copy, move, assign, `reset`, `release`, `steal`, `borrow`, `list[i] = x` | Python finalizers, which call back |
| nanobind: casters (`nb_cast.h`, `stl/*.h`, `stl/detail/*.h`) | a C++ value being filled, a Python container being filled | `from_python`, `from_cpp` | the Python API, any call of which may fail; one another |
| nanobind: calls (`nb_call.h`, `nb_func.h`) | the array of arguments; the overload that is tried | calling Python, being called | casters; libnanobind (external) |
| nanobind: bound containers (`stl/bind_vector.h`, `stl/bind_map.h`, `make_iterator.h`) | the vector or map, iterators over it | a list's methods; iteration and views of a dict | Python code that changes the container meanwhile |
| nanobind: ownership (`stl/unique_ptr.h`, `stl/shared_ptr.h`) | who deletes an object: its instance, a `unique_ptr`, `shared_ptr`s | handing over in both directions | flags of the instance in libnanobind (external) |

What makes each correct:

- *Spin locks*: one holder, whoever crashes; the two words tell the truth; a
  waiter gets in unless the holder is dead; a lock whose holder is dead comes
  back (it does not).
- *Allocator*: the runs tile the region; a block is never in two runs; free
  neighbours are merged; an allocation fails only when there is no gap for it;
  the footer tells the truth about its run whatever the clients write.
- *Dictionary*: the calls are linearizable; one entry per key; blocks neither
  leak nor are freed twice, out of memory included; `entryCount` and
  `generation` are exact when nothing is under way; no deadlock, no lock kept.
- *Lifecycle*: who has the region open has it initialised; opening loses
  nothing that was written; a crash after a write is reported, and only that.
- *Notification*: no write is left without a signal.
- *Data layer*: the chains in memory are the map, and hold every allocated block
  once.
- *Binding and strings*: callers see a `dict` and a `str`, whatever the format in
  memory.
- *nanobind*: a reference count is the number of references that will be given
  back; a conversion does all or nothing and comes back as it was; an argument
  arrives where it was meant to; a bound container acts like Python's; an object
  has one owner.

The hard parts are the interleavings of processes under 257 locks, two counters
that are not always under the same lock, crashes between any two instructions,
the creation of a region while others open it, and a footer that shares its
bytes with the clients; on the Python side, failures halfway through a
conversion and finalizers that call back into an operation. `PROJECT.json` lists them under `hazards`, each at the
line where it bites and with the properties aimed at it.

## The modules

| module | models | abstracts |
|---|---|---|
| `Mutex` | what a lock promises | |
| `SpinLock` | one lock, one step per access to shared memory or system call, crashes between any two | bounded spin count instead of 8192 |
| `SpinLockProofs` | theorems about `SpinLock` | |
| `Heap` | what the allocator promises: disjoint intervals of blocks | |
| `FreeList` (`MCFreeList`) | `freelist.cpp`, the first, second and last word of every block, and the clients' writes | inner bytes of a block |
| `FreeListProofs` | theorems about `FreeList`, and that it implements `Heap` | |
| `KVMap` | what the dictionary promises: a map with atomic calls | |
| `SharedDict` (`MCSharedDict`) | every call of an open `Dict` by several processes | chains as sequences, the allocator as its number of free blocks, locks as words without PIDs |
| `SharedDictHistory` | the same with two history variables: a `Delete` has raced on the counters; a write is unseen | |
| `SharedDictProofs` | theorems about `SharedDict`: its locks and chains, that it implements `KVMap`, its event, counters and room | |
| `SetInduction` | lemmas: induction stated with sets, iterated functions, sums over finite sets, sequences put together from others | |
| `Lifecycle` (`MCLifecycle`) | opening, creating, closing, deleting and crashing | entries as the set of their writers, a write as one step |
| `LifecycleProofs` | theorems about `Lifecycle` | |
| `DictStore` | `dict_store.cpp`: the table of slots and the offsets in the entries' last words, stale ones included | keys and values as such; one block per entry |
| `PyDict` | `bindings.cpp`: tags, conversions, calls and errors of several `Dict` objects on one region | a call on the region is one step |
| `SimdOps` | `simd_ops.cpp` and its binding: bytes in chunks and one by one | 16 bytes as `Width`; characters of one or two bytes |
| `ObjectRefs` | reference counts through every constructor and assignment, with finalizers nested in them | a wrapper's other methods |
| `ObjectRefsProofs` | theorem about the counts | |
| `Casters` | a conversion of a container, element by element, with a failure possible at each call | the elements' values |
| `Conversions` | what the casters of scalars, strings, optionals, variants, lists and pairs do to a value, what a caster keeps for the next element, and where a cast throws | the digits of numbers, zero bytes and characters of several bytes |
| `Calls` | `call_init`, with `*args` and `**kwargs` that raise or have changed, and `obj_vectorcall`'s use of its array; the order of overloads, casters and casts, which may throw `next_overload` | |
| `BoundVector` | the methods of a bound `std::vector`, also with itself as argument, beside those of a list | `__repr__`, comparisons |
| `Iterators` | `make_iterator`, the views of a bound `std::map` and what they keep alive, while the map is changed, at the iterator's element too | values of the map |
| `Ownership` | one object among an instance, `unique_ptr`s of both kinds and `shared_ptr`s, also as several arguments of one call | what it points to |
| `Python` | one instance of each of these but `Conversions`; a behaviour is one of them alone | |
| `PythonProofs` | theorems about the binding, the strings and the chains in `Python` | |
| `NanobindProofs` | theorems about the components of nanobind in `Python` | |
| `MCPython` | `Python` with small values, and `Conversions` beside it, which is recursive | |

How they fit: `SharedDict` waits for a word to be 0 where the code spins, which
`SpinLock` justifies (it implements `Mutex`); it changes a number of free blocks
where the code calls the allocator, which `FreeList` justifies (it implements
`Heap`, and an allocation fails only when no gap is long enough, which is what
`MayMiss` allows); it assumes an initialised region, about which `Lifecycle`
tells when that is so. `DictStore` shows that its offsets are the sequences and
the map `SharedDict` has for chains (`Chain`, `StoreIsMap`) as long as one process
at a time is in a chain, which `SharedDict` shows. `PyDict` takes each call on the
region for one step, which `KVMap` allows. `Casters` leaves the elements'
conversions to `Conversions`, and `Calls` the arguments' to both.

Each action is the code between two points where another process can
interfere. In `SpinLock` these are the accesses to the two words. In
`SharedDict` they are the lock operations, and the loads and stores of
`entryCount` and `generation`, because `Delete` changes these outside the
allocator lock (`dict.cpp:326-327`); what a process does with a chain while it
has the chain's hash lock is one step. In `Lifecycle` they are the system calls
and the groups of header fields, since `DictStore::Init` and `_ClearAll` write
them with no lock held.

Ghost variables: `live` (`FreeList`) is the set of buffers handed out; `held`
and `writes` (`SharedDict`) are the locks a process believes to hold and the
number of writes since the last `Clear`; `owed`, `crashes`, `unclean`
(`Lifecycle`) record what should survive and who crashed; `raced` and `unseen`
(`SharedDictHistory`) are described there; `map` (`DictStore`), `py` (`PyDict`) and
`list` (`BoundVector`) are the map, dict and list that the callers have in mind,
changed by the same calls in the way Python says; `parted`
(`BoundVector`) says that a call was not a list's; `seen`, `steady`, `done` and `lost`
(`Iterators`) are what an iteration has returned, should return, whether it
has ended, and whether its element has been erased (what comes of using that is
undefined, so that `IterNext` looks at it); `fixed` and `skipped` (`Calls`)
are whether `*args` and `**kwargs` have kept their length, and which overloads threw
`next_overload`. No guard of a program step reads one, but for `Free`, which frees a
live buffer.

Two choices of the compiled code are left open: `DecEntryCount` may load
`entryCount` once or twice (`DecCheck`), and whether a fragmented region has
room for an entry of several blocks (`MayFind`, `MayMiss`).

## The runs

Passing runs:

| run | instance | what it shows |
|---|---|---|
| `spin_crash` | 3 processes, all may crash at any place, one of them cannot be opened by the others, probe after 2 failures | exclusion, exact words, `Mutex` implemented, and only a dead holder blocks the others |
| `freelist_entries` | 5 blocks, requests of 60 bytes (one block, to the last byte) and 121 (two, reaching into the footer), any inner bytes | tiling, truthful footers, no missed gap, exact status, `Heap` implemented |
| `dict_linear` | 2 processes, 2 calls each of `Set`, counters of two types, `Get`, `Delete`, `Keys` and `Wait`, 3 keys in 2 chains, 2 locks, room for 3 blocks | linearizability (`KVMap` implemented), one entry per key, no leak, out of memory included, locks all given back; `Size` is off by no more than the writes under way unless a `Delete` races; no write without a signal |
| `dict_progress` | 2 processes, 2 calls each out of all twelve kinds | every call returns: no deadlock in the order of the locks, out of memory and the sweeps of `Keys` and `Clear` included, although `Clear` zeroes words that others have taken |
| `life_create` | 3 processes that open, write, clear, close, reset, crash | initialised when open, settled entries stay, crashes reported |
| `python_side` | the ten sequential components, one at a time, each with its own small instance (below) | each component keeps its promise in every order of calls, with failures and callbacks, up to the departures listed below |

Runs that TLC refutes, each for one sentence of a comment or test:

| run | what happens |
|---|---|
| `spin_dead_owner` | The holder crashes; the waiter clears the PID word (`lock.cpp:55`) and spins for ever, because the lock word is still 1. "Stealing" (`lock.hpp:18-19`) never happens. |
| `freelist_raw_buffer` | A raw buffer of 60 bytes ends with the footer; data with the highest bit set make the live run look free, and the next `Free` merges it (`freelist.cpp:217-226`). |
| `dict_deletes` | Two deletions under different hash locks lose an update of `entryCount` or `generation`. |
| `dict_clear` | `_ClearAll` zeroes the locks its caller holds (`dict.cpp:208-214`); `Clear` then unlocks a lock that another process has taken meanwhile, and a third enters. |
| `life_create_race` | One process opens the file while its creator is still in `DictStore::Init`: it clears the region with no lock, or is cleared by the creator. |
| `life_clean_close` | `Close` stores 1 in `crashed` (`dict.cpp:164`), so a normal exit reads as a crash. |

The bounds, and why they are enough. The lock algorithms treat all processes
alike; a third one is needed only for a probe of a stale PID and for the lock
that `Clear` frees twice. `SpinLimit = 1` makes both the exchange loop and the
probe reachable. Two hash locks and two chains, one of them with two keys, give
every relation between two keys: same chain, same lock, different locks; the
other 254 locks and 65519 slots add none, and the theorems do not bound them.
Five blocks allow a buffer with live, free and no neighbours on either side and
free lists of three nodes, hence unlinking from the head, middle and end. Three
blocks of room against entries of one and two blocks make `Set` fail for want of
room both after it has removed an old value and without one. Width and modulus
of 4 make the counters wrap. `MaxWrites` and `MaxCalls` cut off repetitions;
`WordSize` is 2^12 and plays no part for requests far from it.

In `python_side` the components share no state, so a behaviour of one leaves the
others where they begin, and one run costs the sum of their states, not the
product. Its bounds: three keys, two of them in one of two slots, and three
blocks (`DictStore`: a chain of 0, 1 and 2 entries, found, removed and linked at
either end, and blocks used again with stale offsets); chunks of two bytes and
texts of five characters with a blank, a zero byte and one of two bytes
(`SimdOps`: up to two whole chunks and a rest, a wide character across a chunk's
end); integers of two bits (`PyDict`, `Conversions`: both limits, one beyond);
finalizers nested twice (`ObjectRefs`); containers of three elements, arrays and
tuples of two (`Casters`: a failure at the first, a middle and the last); types
nested twice, and lists of two pairs with an optional (`Conversions`: a caster used a second time); three arguments as written, `*args` and `**kwargs` of up
to two elements (`Calls`: every order of two positional or keyword forms and a third; two overloads of two parameters); vectors of three with slices from
-4 to 4 and steps of -2, -1, 1, 2 and 3 (`BoundVector`: beyond both ends, and
steps that divide the length or do not; all the vector backwards); keys 1 to 3 (`Iterators`); two
references or shares of each kind (`Ownership`).
`CHECK_DEADLOCK FALSE` stands where processes may all have crashed or made their
last call.

Fairness. `FairSpec` lets a process that is inside a call and alive take its
next step: weak fairness per process, which is what the system's scheduler gives
to a busy thread. Starting a call, crashing, opening and closing are never
forced. There is no strong fairness: a given process may lose every race for a
lock, so `WaitingEndsInAcquisition` speaks of some process. `EveryCallReturns`
holds in runs with a bounded number of calls: with endless calls of others a
process could starve, as it can in the code.

## Mutations

A definition `X_Y` beside `X` is `X` with a mistake in it. Putting it in the
place of `X` makes TLC refute the property:

| mutation | property |
|---|---|
| `Disown_FreesWord` a probe frees the lock word of an opaque or new holder | `MutualExclusion` |
| `Release_Forgotten` the lock word is not cleared | `WordTellsHeld`, `WaitingEndsInAcquisition` |
| `ClearOwner_NotCleared` the PID stays | `OwnerHoldsLock` |
| `WordWasFree_Ignored` the old value is not looked at | `ImplementsMutex` |
| `Probe_NoReset` the spin count is not reset | `SpinLock!TypeOK` |
| `RestOf_Beyond`, `RestOf_Overlaps` the rest of a split run starts one block off | `FreeList!TypeOK`, `Tiling` |
| `WriteFooter_Missing` no footers | `FooterMarksFree` |
| `MergesBack_Never`, `MergesOn_Never` no merging on one side | `AllocFindsGap`, `StatusExact` |
| `BlocksNeeded_RoundsDown` the division is not rounded up | `BufferFits` |
| `Unlink_Never` a merged run stays in the list | `ImplementsHeap` |
| `WordIsFree_Ignored` locks do not exclude | `LockExclusion` |
| `Replace_Keeps` the old entry stays | `OneEntryPerKey` |
| `Replace_Leaks` its blocks are not freed | `RoomExact` |
| `RemoveKey_FromHead` the head of the chain goes instead of the key | `ImplementsKVMap` |
| `MayFind_Unchecked` room is not checked | `SharedDict!TypeOK` |
| `Removed_NotCounted` a replaced entry is not subtracted | `SizeOffByRunning` |
| `HashUnlock_Silent` counters do not signal the event | `WritesAreAnnounced` |
| `InsertFails_KeepsLock` out of memory keeps the allocator lock | `WordsTellHeld` |
| `Sweep_KeysDown` `Keys` takes the locks from 255 to 0 | `EveryCallReturns` |
| `Clear_WholeRegion` the allocator is given one block too many | `Lifecycle!TypeOK` |
| `Validate_Inverted`, `Validate_Skipped` the check of the magic is wrong or missing | `WritesSurvive`, `OpenedIsInitialised` |
| `Close_MarksClean` Close sets cleanFlag, so that the close of one process hides the crash of another | `CrashIsReported` |
| `Unhook_AlwaysHead` RemoveKey changes the slot although the entry is not the first | `StoreIsMap` |
| `LinkEntry_KeepsNext` the new entry keeps the next offset its block had | `ChainsHoldTaken` |
| `IsChar_AnyLength` a str of several characters passes for one | `BytesAreCharacters` |
| `ReadInt64_BinaryOnly` counters in text are not read | `ActsLikeDict` |
| `CopyAssign_DecFirst` the old object is counted down before the new one up | `RefsExact` |
| `AddElement_AsHandles` a set or dict is taken to keep the caller's reference, as a list does: the reference of each element is never given back | `NoReferenceLost` |
| `Open_KeepsValue` the C++ container is not emptied first | `LoadsAllOrNothing` |
| `LoadVariant_LastFirst` the alternatives are tried from the last | `RoundTrip` |
| `Offset_NotArgs` keywords are put after the first arguments, not after `*args` | `ArgumentsArrive` |
| `FromPython_TakesAtOnce` a caster takes its argument before all have matched | `TakenOnlyByMatch` |
| `DelSlice_FirstToLast` positions are erased in ascending order | `ActsLikeList` |
| `StopsHere_Forgets` an iterator that has ended goes on | `VisitsOnce` |
| `KeptBy_ViewForgotten` a view does not keep its map alive | `MapOutlivesViews` |
| `Released_NotReset` a `unique_ptr` that gives its object away keeps the pointer | `OneOwner` |

## What is proved

For any number of processes, and in `SharedDict` of keys, slots and locks, with
no bound on the calls; in `FreeList` for any number and size of blocks and any
requests; in `ObjectRefs` and `Ownership` for any number of variables and pointers;
in `DictStore`, `SimdOps` and `Calls` for any number of blocks and slots, texts of any
length and arguments of any number.
`NoClear`, `TypedCalls`, `FailureIsNoValue`, `FewKeys`, `Finite`, `EntriesOnly`,
`NoWrap` and `Wellformed` below are hypotheses of the theorems; the other
assumptions are declared with the constants.

`SpinLockProofs` (assumption: `SpinLockAssumption`, that 0 is nobody's PID and
the other parameters have their types):

- `TypeCorrect`. `TypeOK` alone is not inductive: `Spin` increments the count of
  a process that has not yet passed the limit, so the invariant `TypeInv` adds
  that at `"exchange"` the count is at most the limit.
- `Exclusion` and `WordIsExact`, from the invariant `LockInv`: the word is 1 iff
  somebody holds the lock, and two holders are one. Neither half is inductive
  without the other. That nobody's crash changes the word, and that `Disown`
  does not either, is the whole reason why the lock excludes, and also why it
  never recovers.
- `OwnerIsHolder`: the PID word names a process in its critical section
  (`OwnerInv`, stronger than the property by the place), because it is cleared
  before the lock word.
- `Refinement`: every step is a step of `Mutex` or leaves the holder alone.

`SharedDictProofs` (assumptions: `SharedDictAssumption`; and `NoClear`, that the
calls are of known kinds other than `Clear`, without which the theorems are
false, see `dict_clear`):

- `Exclusion`: no lock is held twice.
- `NoLockLeaks`: a lock word is 1 exactly while a process in a call holds it.

Both follow from `LockInv`: what a process holds is a function of its place, its
call and its loop index (`Holding`), each place is reached only by the calls that
belong there (`KindOK`), a word is 1 iff somebody holds its lock, and no two
processes do. The proof has one lemma per kind of step: acquiring, releasing,
and everything that leaves the locks alone.

Also in `SharedDictProofs` (in addition `TypedCalls`: what calls write are numbers
with a type tag, and the marks for "absent" and "no result yet" are neither values
nor results):

- `OneEntry`: `OneEntryPerKey`, no chain holds a key twice.
- `Linearizable`: `ImplementsKVMap`, every step of `SharedDict` is a step of the
  abstract map, in which each call takes effect at once, or a stutter.

The invariant is `MapInv`, together with `LockInv`. Its parts: `TableOK`, every
chain has entries of its own slot, each key once; `CallOK`, which says for each
process, from its place, whether its call is still pending in `KVMap`, and which
result it has; `GoneOK`, a key whose old entry has been removed and whose new one
is not linked yet is in no chain. The last is what needs the locks: `Set` first
removes the old entry and links the new one after other steps, and nobody may see
the key in between or link another entry. `SlotExclusion` and `SweepExclusion` draw
from `LockInv` that who is between a slot's lock and unlock is alone in the chain,
`Keys` included. What a step does to a chain is in two lemmas without variables,
`Removal` and `Linking`. The steps at which a call takes effect are `Insert`,
`InsertFails`, `Get`, `Has`, `DeleteMisses`, `Unlink` and the last `Collect`; all
others, `Replace` among them, are stutters (`SilentSteps`).

And what it counts (in addition, for the first, `FailureIsNoValue`: "out of memory" is not
a value):

- `Announced`: `WritesAreAnnounced`, a write that nobody was told of yet has its
  signal still to come or the event is set. The invariant is the property itself
  with `LockInv` and `MapInv`: a process that has linked an entry is at a place
  from which it reaches `Signal` before it returns (`SignalComes`,
  `LinkerSignals`), and only a `Wait` that succeeds resets the event
  (`EventSteps`).
- `NoCountIsLost`: `SizeOffByRunning`, if there are finitely many processes, and
  fewer keys than `Width`, so that `entryCount` does not wrap (`FewKeys`;
  `generation` may). The invariant `CountInv` says which keys
  `entryCount` has at each moment: those in the table but for the one that is
  linked and not counted yet (`Adding`), and those that have been removed and are
  still counted (`Dropping`). One set, `CountedKeys`, gives its value, and each
  step of a process changes it at one key at most, the key whose lock it has
  (`LockedStep`). That no update is lost is `Loaded`: nobody changes a counter
  between another's load and store, because Sets count under the allocator lock
  and a `Delete`, which does not, has not raced (`Counters`). `generation` is
  followed modulo `Width` by the number of writes that have not ticked yet.

- `NothingLeaks`: `RoomExact`, with finitely many keys, processes and slots
  (`Finite`): free blocks, the blocks of the entries, those of the buffers and
  those on their way (a new entry that is allocated and not linked yet, an old one
  that is removed and not freed yet: `Detached`) add up to the region. Each step
  moves blocks between two of these sums, and that a sum over the table changes
  at one key only is again what the locks give. `TypeCorrect`, `TypeOK` with the
  number of free blocks between 0 and the region's, follows from it: nothing else
  keeps the number that `Free` adds to below the limit.

`SetInduction` has what these sums need. The provers cannot use an induction rule
for a formula, but they can for membership in a set: a set of naturals that is not
empty has a least element, so the set of counterexamples is empty. From this come
induction over finite sets (`FiniteSubsets`), that a recursive function as in `Walk`
exists (`IterationExists`, and `RoundsExist` where each round has its own function),
and what `SumFunctionOnSet` of the community modules
does when an element is added, removed or renamed, although it is defined by a
`CHOOSE` over a recursive function.

`FreeListProofs` (assumption: `FreeListAssumption`; hypothesis `EntriesOnly`: what
clients write are words, and the last word of a run, when a client's buffer covers
it, does not have the highest bit set, without which the theorems are false, see
`freelist_raw_buffer`):

- `TypeCorrect`, `EveryBlockOnce` (`Tiling`), `FootersTell` (`FooterMarksFree`),
  `GapIsFound` (`AllocFindsGap`), `StatusIsExact` (`StatusExact`) and `Refinement`
  (`ImplementsHeap`), all from one invariant; and `BuffersFit` (`BufferFits`) with
  the hypothesis `NoWrap`, that no request is so near to the limit of the word that
  rounding it up wraps.

The invariant `Inv` has three parts: the types; `Has`, that the links make a list
of the free runs with each once; and `Shape`, that the free runs and the live
buffers tile the region, that the footer of each tells which it is, and that no
free run begins where another ends. None is inductive alone: `Free` finds its
neighbours by their words (`Neighbours`: a word that looks free is the footer of
the run before, which needs the tiling and all footers), takes them out of the
list, which needs that they are in it, and merges them, which keeps the tiling
only if they lie next to it. What the operations do to the list is in lemmas about
lists alone (`HasCut`, `HasUnlink`, `HasPut`, `HasPush`), and what they do to the runs
in lemmas about tilings alone (`TileSplit`, `TileJoin`, `ShapeSplit`, `ShapeTake`,
`ShapeFree`, `ShapeFill`). That free runs never touch is also why an allocation
fails only when it must: a gap between live buffers is one run. `StatusIsExact`
counts with the sums of `SetInduction`.

`LifecycleProofs` (assumption: `LifecycleAssumption`, that sizes are positive; they
may differ):

- `TypeCorrect`, and `Initialised`, from `InitInv`: both `DictStore::Init` and
  `_ClearAll` write the magic after the allocator's size, and neither is undone
  while a process has the file open, so whoever has written or seen the magic
  (`Marked`) has a region with both.
- `Survival`, from `OwedInv`: what is owed is there, and while something is owed
  the region is settled. The second half is what makes it inductive: the steps
  that empty the table or the allocator are taken in unsettled regions only, and
  `SettledNext` shows that nothing but `Reset` unsettles one. In a region that is
  still being created this fails, see `life_create_race`.
- `CrashReport`, from `CrashInv`: after a crash in a region that was written to,
  either the header is still dirty or `crashed` is 1. It needs that `cleanFlag`
  is 1 only together with `crashed`, which is how `_ClearAll` leaves them.

`ObjectRefsProofs` (hypothesis `Wellformed`: there are finitely many variables,
`Null` is neither a variable nor an object, and list elements are not variables):

- `CountsAreExact`: `RefsExact`, each object's count is the number of holders that
  point to it, to any depth of finalizers. What makes it inductive is `StackOK`: no
  two of the operations that wait for a finalizer use the same variable, so that
  the reference one of them has already taken is given up by nobody below it.
  There is one lemma per operation, which reduces it to one of four kinds of steps
  (one target gains or loses a holder, a variable moves from one target to
  another, an operation waits, an operation goes on after its finalizer).

`PythonProofs` and `NanobindProofs` (assumptions: those of `Python` on its constants): a behaviour of
`Python` is one component's, and a step of the whole is a step of each component or
leaves it alone (`ComponentSteps`), so that each invariant is shown for its
component and holds of the whole. `DictInMind`, `ChainsKeepMap`,
`ChainsAreExact` and `TextsAreRead` are in `PythonProofs`, the others in `NanobindProofs`.

- `DictInMind`: `ActsLikeDict`, from `PyType` and `KeptAll`: for each key the region
  has what the caller last put in, as a tag and bytes, and a value that is put in
  reads back as itself (`PutsKept`, `ReadsKept`). The numbers are what is hard: an
  integer of 64 bits is written modulo 2^64 and read back with its sign
  (`BytesAreSigned`, `SignedFits`).
- `NoPartLeaks` (`NoReferenceLost`), from `PythonInv`: until element `i` is put in,
  the container has exactly one reference to each part of the elements before, and
  the temporaries that are not given up yet have the others; and `LoadsAll`
  (`LoadsAllOrNothing`), from `CppInv`. Both for any number of elements, with any
  number of parts each, and a failure at any call.
- `EachKeyOnce` (`VisitsOnce`), from `IterInv`: an iterator has
  given, in the order of the keys, those up to its place that were there all the while,
  whichever others have been erased or put in, and it is never used beyond the end;
  that its own element has not been erased matters for its next step only; and `ViewsKeepMaps`
  (`MapOutlivesViews`), from `KeepInv`: what keeps a view alive leads to its map in
  one or two steps.
- `ChainsKeepMap` (`StoreIsMap`) and `ChainsAreExact` (`ChainsHoldTaken`), from
  `StoreInv`: following the offsets from a slot visits a list of entries without
  repetition that ends in 0, and these are exactly the allocated entries whose keys
  have that slot, no two with the same key. Blocks that are free again still have
  their old offsets, which is why the invariant speaks of the lists and not of the
  words: what `Unhook` and `LinkEntry` do to a list is in lemmas about lists
  (`ChainCut`, `ChainPush`). `FindKey` and `CollectKeys` follow the chain with recursive
  functions, which end because a list without repetition is no longer than the
  number of blocks (`StoreAssumption`: finitely many, and a slot for each key).
- `TextsAreRead` (`BytesAreCharacters`), which is inductive as it stands, since a
  call is a single step. The work is in the operators: where the bytes of a
  character lie (`EncodeIs`), that a byte of its own is nowhere a part of a wide
  character (`SinglePlaces`, from `TextAssumption`), that the chunks and the rest are
  all bytes, each once (`CountIs`, `ReplaceIs`), and that cutting a text cuts its
  bytes (`EncodePart`).
- `EachArgumentArrives` (`ArgumentsArrive`), from `OutInv`: what the arguments before
  the next one have put in lies where the lengths before say, the other places are
  unset, and there is one reference for each place that owns one. It holds while
  `*args` and `**kwargs` are as long as `call_analyze` found them (`fixed`). The places are
  sums of lengths (`Before`: each place is in one part, `BeforeMeets`, `OnePlace`), and
  `FlattenSeq` of the community modules, a recursive function as well, puts parts
  where these sums say (`FlatIs`, `PlacesTell`); `TextsAreRead` rests on the same lemmas,
  which are in `SetInduction`.
- `VectorIsList` (`ActsLikeList`), from `VecInv`, which is the property and the type
  of the vector; calls that are not a list's set `parted`, and that all others are a
  list's is the theorem (an insertion within the vector, a slice of any step that
  keeps its size, the vector assigned to itself forwards). The work is in the operators again. What `PySlice_AdjustIndices`
  counts are the positions a list means, in their order and within the vector
  (`MeantIs`, by the multiples of the step between the two ends: `StrideUp`,
  `StrideDown`, `Fits`). The erasures are a fold, of which the lemma says what is
  left after each: as long as a position lies before all that are gone, erasing it
  is leaving it out of the list (`EraseNext`), and the positions go from the last to
  the first, whichever way the step points (`DelSliceIs`); the first-to-last mutant
  breaks just this. For the assignments no two positions of a slice are the same
  (`SetSliceIs`). `Ascending` is defined by counting what is below, from which there
  is at most one way to order a set of numbers (`AscendingIs`). Steps are not 0
  (`VectorAssumption`): Python refuses such a slice.
- `MatchTakes` (`TakenOnlyByMatch`), from `InInv`: what has been taken was taken by the
  overload whose casts are under way or done, or by one that has been skipped since;
  while an overload casts, what it takes is either still to be cast and nobody's, or
  its own (`CastingOK`), because casters refuse an object that has been taken.
- `CountsAreExact` (`RefsExact`), from the theorem of `ObjectRefsProofs`.
- `OneOwnerAlways`: `OneOwner`, from `OwnInv`, which says how the flags of the
  instance and its references go together. `UniqueOK`: at most one `unique_ptr`
  has the object, the instance is not ready meanwhile, and one that deletes the
  object itself is its only owner. `InstanceOK`: whoever gets at the object through
  the instance finds it either deleting the object or keeping a share of it, or, if it
  is a `shared_ptr` made from the instance, that a `unique_ptr` has taken the object.

Only model-checked: liveness and everything about fairness; all calls of
`SharedDict` when `Clear` is one of them; and `RoundTrip`, whose conversions are
recursive over types of any depth, which needs induction over data.

## Where the code departs from what its users expect

On the nanobind side some calls do something else than a reader of the Python
documentation would think. The modules have these calls as the code has them, the
properties name them as exceptions, and say that there are no others:

- A caster that is used again keeps an optional's value when the next element is
  `None` (`stl/optional.h:35`, `stl/detail/nb_list.h:38-47`): `[5, None]` is loaded as twice
  5, and the pairs `[(False, False), (None, False)]` as twice the first (`RoundTrip`). So do arrays, dicts and sets.
- A `char` within an optional, a variant or a list ends the process for a `str` of
  other than one character: its cast throws (`nb_cast.h:206`) within a `from_python` that
  is `noexcept` (`stl/variant.h:78`). `RoundTrip` says that no other value does.
- When `len()` or an element of `*args` raises, the references that are already in the
  array are never given back (`nb_call.h:58-59`; `SpreadRaises`). When `*args` or
  `**kwargs` change their length between `call_analyze` and `call_init`, the code
  writes beyond the array or passes on what was never written (`Undefined`).
  `ArgumentsArrive` speaks of the other calls.
- When a cast or a function throws `next_overload`, arguments that have been taken stay
  taken: a `std::unique_ptr` deletes its object although the overload was given up
  (`CastThrows`, `Skip`; `TakenOnlyByMatch` says that each was taken once).
- A bound vector refuses to insert out of range where a list clips, and to give a
  slice of step 1 another size; `v[::-1] = v` reads what it has just written
  (`bind_vector.h:156-159`); `v.extend(v)` is undefined (`bind_vector.h:119`).
  `ActsLikeList` holds up to such a call (`parted`).
- Erasing the element an iterator of a bound map is at breaks the iterator: `del`,
  `clear`, and setting or updating a value whose class has no assignment
  (`bind_map.h:29-34`). `m.update(m)` may do so within its own loop. `VisitsOnce` says that
  nothing else does. Elements that Python got from the map may dangle then, too.
- A `std::unique_ptr` argument takes the object although `shared_ptr`s made from the same
  instance exist, also as arguments of the same call (`unique_ptr.h:127-135`): these
  lead to a deleted object when it is gone. `OneOwner` says that this is the only way.

## Not modelled

- Of the binding: the view that `Alloc` returns, and the dict that `Status`
  returns. Where it goes on with a null pointer (a `str` that has no UTF-8 form,
  `bindings.cpp:20`) `PyDict` lets the process die or the call raise an error.
- Buffers across a `Clear`: not to use them is their owner's duty
  (`KeepsBuffersFromClear`), since no text promises anything else. `Status` after
  `Close`, which reads unmapped memory.
- A crash in the middle of a call of `SharedDict`: the locks it leaves behind are
  those of `SpinLock`, and nobody gets past them.
- PIDs that are used again; failures of `CreateFile` and `SetEndOfFile`; weak
  memory (the code's barriers and interlocked operations are full fences on x64).
- The hash function: any assignment of keys to slots (`SlotOf`).
- What comes of different sizes: `m_size` is the size asked for
  (`mem_region.cpp:45`), not that of the mapping, and `_ClearAll` trusts it.
  `Lifecycle` lets the sizes differ and its theorems cover that, but no run has
  two sizes and no property compares `total` with `mapping`.
- Requests within 67 bytes of 2^32, whose block count wraps (`freelist.cpp:52`).
- The lock words in `Lifecycle`, which `DictStore::Init` and `_ClearAll` zero
  (`dict_store.cpp:70-82`, `dict.cpp:207-214`); `SharedDict` has the latter.
- Of `RoundTrip`: zero bytes and characters of several bytes in a `char` or a string
  (`SimdOps` has them), and doubles that are no integers. Optionals and variants of a
  `void*` do not compile. Of `RoomExact`: the buffers of `Alloc` in `dict_linear`, among whose
  calls `Alloc` and `Free` are not (the theorem `NothingLeaks` has them).
- References to elements of a bound vector after it has grown, or of a map after an
  erasure, which dangle.
- Of nanobind: the templates that describe classes, signatures and annotations at
  compile time (`nb_class.h`, `nb_attr.h`, `nb_descr.h`), the library itself, which
  is prebuilt (what the headers rely on is modelled as external); casters for
  `string_view`, paths and Eigen matrices; wrappers that forward one call to the
  Python API.
- Build files, tests and the benchmark, which have no state of the program.

## Plan

What is left, in the order of what it would add:

1. A probe of a stale PID that clears the PID of a living holder, in a run of its
   own; a `Lifecycle` run with two sizes; `FreeList` at the limit of the word.
