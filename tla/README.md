# TWlib: a verification project

TWlib (`src/`) is a C++ utility library: queues and semaphores for pthreads,
reference-counted buffers, tasks, allocators, hash tables and small containers.
Nearly all of its concurrency is in the blocking queues of `include/TW/` and the
semaphores they are built on; the rest of its own logic is in the chains of
buffers, the tasks and the containers. This project models both in TLA+, checks
them with TLC on small instances, and proves with TLAPS, for every instance, their
safety properties: those of everything that threads share (the queues, the
semaphores, the tasks, the shared pointers, the locked tables) and those of nearly
every container.

## 1. Inventory

| Component | State | Operations | Interacts through |
|---|---|---|---|
| `TW_SemaTwoWay` (`tw_sema2.h`) | count, maximum, one mutex, two condition variables (`gtZeroCond`, `decrementCond`) | acquire (plain, timed, non-blocking, keeping the lock), release (same), waitForAcquirers (same), reset, releaseAll, releaseAllAcquireLocks | called by `tw_safeCircular`, which borrows its mutex |
| `tw_safeCircular` (`tw_circular.h`) | array, `nextIn`, `nextOut`, `_reverse`, `enabled`, a `TW_SemaTwoWay` whose count is the free slots | add, addIfRoom, remove, removeOrBlock (moving and timed forms), get, set, iterator, reverse, clear, enable, disable, unblockAll, unblockAllRemovers, cloneFrom, transferFrom | callers' threads |
| `TW_Sema` (`tw_sema.h`) | count, mutex, `gtZeroCond` | acquire, timed acquire, release, releaseAll | called by `tw_bndSafeFIFO` |
| `tw_safeFIFO`, `tw_safeFIFOmv` (`tw_fifo.h`) | linked list with `in`, `out`, `remain`; `enabled`, `_block_cnt`, mutex, `newdataCond` | add, addToHead, addEmpty, remove, removeOrBlock, peek, peekOrBlock, unblock, unblockAll, clearAll, iterator, operator= | used by `tw_bndSafeFIFO` and `TaskManager` |
| `tw_bndSafeFIFO` (`tw_fifo.h`) | a `tw_safeFIFO` and a `TW_Sema` of free slots | the same, bounded | composes the two above |
| `tw_FIFO` (`tw_fifo.h`) | the same list without locks | add, addToHead, remove, transferFrom, operator=, clearAll, iterator | one thread |
| `MemBlk`, `BufBlk`, `BufBlkIter` (`tw_bufblk.h`) | reference-counted blocks; chains of views (`rd_ptr`, `wr_ptr`, mark) on them; a cursor over a duplicate | checkout, release, copyFrom, duplicate, deepCopy, assign, eatBytes, getContigBlock, getNextChunk, previewNextChunk, copyNextChunks | views share blocks, threads share counts |
| `BaseTask`, `TaskManager` (`tw_task.*`) | `_running`, `_completed`, a pthread; a list of tasks | startTask, do_work, waitForTask; addTask, joinAll, shutdownAll | the list is a `tw_safeFIFO`, whose mutex joinAll() holds |
| `autoPointer` (`tw_autopointer.h`) | pointer, reference count, list of callbacks, mutex | dupP, release, reset, registerCallback, destroy | shared by threads |
| `TW_KHash_32` (`tw_khash.h`) | buckets with empty/deleted flags, counts, pointers to data | add, replace, remove, find, findOrNew, iterator | one lock around each call |
| `TW_StringStringMap`, `TW_StringMapGeneric` (`tw_stringmap.*`) | a `TW_KHash_32` of boxed C strings, strong or weak | the same calls on strings | boxes share strings with callers |
| `TWDenseHash`, `TWSparseHash` | an external table of pointers, a lock, the number of iterators out | the same calls; iterators | shared by threads |
| `TW_KTree_32` (`tw_ktree.h`) | B-tree nodes, number of keys | put, del, get, traverse | one thread |
| `tw_List`, `tw_Stack`, `DynArray` | links, cells, an array and its size | at both ends, through an iterator; push, pop; put, append, insert, resize | one thread |
| allocators, log, configuration, utilities | | wrappers and formatting | |

What is hard to get right here, and what correct means for each part:

* **Wakeups.** Calls sleep on condition variables, `signal` wakes one sleeper, and
  any third thread may take what the sleeper was woken for. Correct: while a call
  sleeps, everything it could use is spoken for by a call that was woken.
* **Single waits.** `removeOrBlock` waits once and does not loop: it may report
  failure only when it finds the queue empty.
* **Time-outs** race with signals; a timed call must return, and neither take what
  it does not report nor use up a signal.
* **Index arithmetic.** `nextIn = -1` after a reset, wrap-around in both
  directions, a reset on some paths and not on others.
* **Critical sections that are too small.** `tw_safeFIFO::add` signals in a second
  section, `startIter` reads before it locks, `TW_Sema::acquire` decrements after
  it unlocks, `reverse` does not lock.
* **Retiring a queue.** `clear`, `unblockAll`, `disable`.
* **Two objects, two locks.** Copies between rings, with other calls in between.
* **Shared memory blocks.** Several views on a block; relinking a chain while it is
  taken apart; an iterator whose place moves from block to block. Correct: a chain
  reads as the byte string its calls describe, and a block goes with its last view.
* **Ownership.** Who frees a string, a link, a data object; a destroyed mutex; data
  that callbacks still have to see.
* **Rearranging structures.** A rehash in place, a B-tree deletion that merges on the
  way down, memory that is moved over itself. Correct: what was put in is found, in
  order, and the bounds the algorithm relies on hold again after each call.

`PROJECT.json` lists each hazard at its line with the properties that watch it.

## 2. Modules

| Module | Models | Role |
|---|---|---|
| `TwoWaySema` | `TW_SemaTwoWay` | state and building blocks of its operations |
| `SemaPool` | `TW_SemaTwoWay` used by itself | the operations as calls, by threads that share units |
| `SafeCircular` | `tw_safeCircular` | the ring buffer, extends `TwoWaySema` |
| `BoundedQueue` | | abstract specification: what a blocking queue promises |
| `CircularRefinement` | | the ring buffer implements `BoundedQueue` |
| `CircularArray` | `get`, `set`, `setMv` | array-like access beside the queue operations |
| `CircularUnblock` | `unblockAll` | a program that retires a ring |
| `SafeFIFO`, `FIFORefinement` | `tw_safeFIFO(mv)` | the linked list, and that it implements `BoundedQueue` |
| `TWSema` | `TW_Sema` | with the unlocked read and write of `cnt--` |
| `BndSafeFIFO` | `tw_bndSafeFIFO` | composes `TWSema` with a list given by its length |
| `CircularPair` | `cloneFrom`, `transferFrom` | two rings, two locks, calls in between |
| `BufBlk` | `BufBlk`, `BufBlkIter`, `MemBlk` | chains of views beside the byte strings they stand for |
| `Tasks` | `BaseTask`, `TaskManager` | starting, running, waiting, joinAll |
| `AutoPointer` | `autoPointer` | count, callbacks, deletion |
| `DenseHash` | `TWDenseHash`, `TWSparseHash` | calls of threads in two steps (look up; act), iterators |
| `KHash` | `TW_KHash_32` | buckets, probing, rehash in place, iterator |
| `StringMap`, `StringKeys` | `TW_StringStringMap`; `TW_StringMapGeneric` | who owns a stored word; what a key reads as |
| `KTree` | `TW_KTree_32` | the B-tree |
| `LList`, `PlainFIFO`, `Stack`, `DynArray` | `tw_List`, `tw_FIFO`, `tw_Stack`, `DynArray` | memory beside the sequence it stands for |
| `Chains` | the loops over linked containers | what a walk along `next` visits |
| `MCSafeCircular` | | symmetry sets for TLC |
| `MCThreads`, `MCContainers` | | a behaviour picks one component (`use`); the theorems are about these |
| `MCStructures` | | `MCContainers` with the B-tree, for TLC |
| `SharedLemmas` | | induction over sets of numbers, walks along chains, sequences, sleepers and woken threads |
| `SafeCircularProofs`, `SafeFIFOProofs` | the ring, the list | theorems: safety, wakeups, refinement |
| `ThreadsProofs` | everything in `MCThreads` | theorems |
| `FifoProofs` | `tw_Stack`, `tw_FIFO` | theorems |
| `ListProofs` | `tw_List` | theorem |
| `TableProofs` | `TW_KHash_32`, the string maps, `DynArray` | theorems |
| `BufProofs` | `MemBlk`, `BufBlk`, `BufBlkIter` | theorem |

### How code and model correspond

*A critical section is one action.* Between lock and unlock nobody else can look
at the state, so a section that does not wait is a single step, guarded by the
mutex being free. A blocking call is two or more steps: it enters the wait set of
its condition variable and its `pc` names the blocking point; a signal takes it out
of the set (any of the sleepers, as POSIX allows); it then competes for the mutex
and runs on. Every sleeper may also wake up spuriously, and a timed wait may time
out. Only a thread that returns with the mutex (an iterator, a `...KeepLock` call)
leaves `localMutex` set between steps. The mutex and the condition variables are
external: they are modelled by what POSIX says of them, and in one point by what
glibc does beyond it: a timed wait that reports `ETIMEDOUT` has not used up a signal
that another sleeper could have had. POSIX does not promise that, and without it
`NoLostRelease` and `NoLostAdd` would not hold.

*Code without the lock is split at every shared access*: the read and the write of
`cnt--` in `TWSema` (and of the `cnt++` that races with it), `startIter()`'s read of
`out`, in `SafeFIFO` and in the `joinAll()` of `Tasks`.

*The copying and moving forms of an operation are one action.* They differ in how an
element is assigned. `tw_safeFIFOmv` is `tw_safeFIFO` with moving assignments, line
for line; some definitions of `SafeFIFO` are mapped to the one, some to the other.

*Data.* An element is a model value; allocation always succeeds; a freed link gets
the null `next` and the default element, and can be allocated again. `ret` records
what each thread's last call returned.

*Containers: memory beside meaning.* `BufBlk`, `LList`, `PlainFIFO`, `Stack`,
`DynArray`, `KHash`, `StringMap`, `StringKeys` and `KTree` each keep the structure as
the code has it (links, flags, offsets, counts, who owns a string) and, in a variable
of its own, the sequence, byte string or function that the calls describe. Each
action changes both, the first as the code does, the second as the call's name says;
the invariants say that they agree. One call is one action: these classes are used by
one thread, or hold one lock throughout. Allocation takes a free cell, and a freed
cell reads as junk.

*Locked calls that are not atomic.* In `DenseHash` a call is a lookup and a rest,
because `find()` releases a lock it did not take; in `Tasks` `startTask()` is three
steps, because it lets go of the mutex between them, so that two callers may start one
task, and a wait reads `_pthread_dat` before it joins; `AutoPointer` makes each callback a step, with the mutex held;
`CircularPair` takes its two locks in two steps.

*Conditions on the program.* Where the code leaves no defined outcome (a null or
uninitialised pointer, freed memory), or makes a promise that only some programs can
rely on, the guard of the action says which programs are meant, with a comment:

| Module | The program ... |
|---|---|
| `BufBlk` | writes only into blocks nobody else views (`Alone`); in the `containers` run, eats no bytes from the start of one block across others (`EatStaysClear`) |
| `Tasks` | joins a thread once, and leaves the tasks of a manager's list to `joinAll()`; the `work()` of a task does not use the list it is in |
| `AutoPointer` | resets a pointer only when nobody has a reference and no callback was registered |
| `DenseHash` | adds no key with an iterator out; in the `threads` run, makes the calls that acquire the lock they release (`find()` does not) |
| `KHash` | inserts nothing with an iterator out |
| `StringMap` | does not ask `find()` for a copy of a value whose pointer `find()` has given it; looks up without fill only what is there |
| `PlainFIFO`, `LList` | does not copy an empty list, nor join two empty ones |
| `DynArray` | inserts at a place up to the size (`loc <= size`); does not append, insert or assign an array to itself |
| `KTree` | deletes only keys that are there |
| `CircularPair` | copies between rings in one direction; transfers from no reversed ring, nor from one that another thread clones to |
| `BndSafeFIFO` | in the `threads` run and its theorem, adds from one thread; removes from any number |

What goes wrong outside of four of these is shown by a run of its own: `find()` among
the calls (`hash_find_unlocks`), `eatBytes()` across blocks (`bufblk_eat_blocks`; there
the first block leaks too), two adders (`bndfifo_overfull`), and, for the list, peeks
that wait beside removals (`fifo_peek_steals`). The locks of `CircularPair` taken in
both directions deadlock, which TLC reports when `LockOwn` allows it.

*Reversal.* `reverse()` takes no lock, so in `SafeCircular` it runs as one step, as
for a caller that keeps other calls away.

*A removal's reset.* `remove()` and the immediate branch of `removeOrBlock()` put
the ring back to its start when they take the last element. The branch after a
wait has the same test, but makes it before the release of the slot, where it never
succeeds, so `RemoveResume` has no reset.

*Bounds.* `MaxBlockCnt` caps `_block_cnt`, which the code lets grow with every
time-out; `Link` is the heap of the list; an iterator's `n` stops at the number of
elements. `Size` and the thread sets are parameters of the real system. `MaxCalls` and
`MaxBuilt` bound the calls on a chain of buffers, `MaxKeys` and `MaxCopies` the tree,
`MaxBuckets` the table, `MaxSize` the array, `MaxWorkers` and `MaxCallbacks` the
threads' calls, `MaxSlots` the slots that lost updates of the bounded FIFO's count make
up (its adder stops calling beyond it; the theorem has no such bound); `Uses` names the
containers of a run; `Link`, `Node`, `Cell`, `Blk`, `Chars` and `Object` are heaps.

## 3. Runs

Passing runs:

| Run | Instance | Shows |
|---|---|---|
| `circular_wakeups` | 4 threads, 2 slots, 1 element | no lost wakeup for either side (`NoLostRelease`, `NoLostAcquire`), never all asleep (`NotAllAsleep`); large enough for two sleepers on one side, one more that was woken, and a fourth thread that takes what it was woken for |
| `circular_ring` | 2 threads, 3 slots, 2 elements | every call on one ring, `clear()`, `get()` and `set()` included: `RingConsistent`, `IterInOrder`, `ArrayMissesOnlyWrapped` (in an upward ring the walk of `get(n)` reaches every element but that of slot 0 behind a wrap, for which it stops outside the storage), refinement of `BoundedQueue`; 3 slots is the least that tells the directions apart |
| `circular_liveness` | 3 threads, 1 slot | elements and slots reach sleepers, a timed add returns, after `unblockAll()` blocked removals return; deadlock is allowed because a retired ring is not called again |
| `fifo_queue` | 3 threads, 2 links, an ordinary and an urgent element | `_block_cnt` covers the sleepers, no lost wakeup although add signals late, list shape, refinement of `BoundedQueue`, data reaches removals; provided nobody waits in `peekOrBlock()` |
| `threads` | one component at a time, see below | what threads share is neither lost, made up nor freed early; the adder of a bounded FIFO is never stranded, `joinAll()` returns |
| `containers` | one container at a time, see below | each container holds what its calls put there and accounts for its memory |

`threads` (`MCThreads`). Each component is small, so one run has them all: the
variable `use`, fixed by the initial state, says which one the threads call, and the
others stay as constructed. Each component's constants are constants of `MCThreads`,
which `threads.cfg` gives their values, so that the theorems about `MCThreads!Spec` are
about every choice of them.

| `use` | Instance | Properties |
|---|---|---|
| `bnd` | 4 threads, 2 slots; one thread adds, all of them remove, in every interleaving with the unlocked `cnt--`, so that slots are made up | `AdderNotStranded`, `SlotReachesAdder` |
| `pool` | 3 threads, 2 units: one is always left to overtake a woken one | `PoolKept` |
| `tasks` | 2 callers, 2 tasks, 2 threads, which may both be of one task; both forms of `joinAll()`, tasks added between its look at the list and its lock | `JoinedMeansDone`, `JoinAllReturns` |
| `dense`, `sparse` | 2 threads, 2 keys, 3 objects; every call but `find()`: enough for a replacement while a removal is about to delete | `DataAccounted`, `IteratorsStand` |
| `auto` | 3 threads, 2 callbacks | `CallbacksBeforeDelete` |
| `pair` | 2 threads, 2 rings of 2 slots, 2 elements | `RingsKeepElements` |

`containers` (`MCStructures`), in the same way:

| `use` | Instance | Properties |
|---|---|---|
| `buf` | chains of up to 3 blocks of 2 bytes, 2 chains, an iterator, 5 calls | `ReadsAsText`, `RefCountsViews`, `ReadersServed` |
| `list` | 3 links, two lists, an iterator | `ListsHold` |
| `hash` | 4 keys, three of which want one bucket, tables of 4 and 8 buckets | `TableHolds`, `CountsAgree` |
| `strings` | 2 keys, 2 words, 4 strings | `StringsKept` |
| `keys` | 2 names, 5 strings | `NamesFound` |
| `tree` | degree 2, 7 keys, up to 9 with copies: three levels, every kind of merge | `TreeHolds` |
| `fifo` | 3 links, two queues, an iterator | `QueuesHold` |
| `stack`, `array` | 3 cells; two arrays of up to 3 | `StackHolds`; `ArrayHolds` |

Deadlock is checked in both. `Done` lets a behaviour end where the program may be
through with a component or its bound is reached; the threads of a FIFO, a pool, two
rings or a table may not all wait for each other.

Runs that end in a counterexample, each against a sentence of the repository
(quoted under `findings` in `PROJECT.json`):

| Run | What the code does |
|---|---|
| `circular_timed_remove` | the timed removal waits without a deadline |
| `fifo_peek_steals` | a waiting peek uses up the signal of an add |
| `fifo_iter_dangling` | `startIter()` keeps a link that is freed before it locks |
| `bufblk_eat_blocks` | `eatBytes()` from the start of a block across two others releases the rest of the chain |
| `bndfifo_overfull` | `TW_Sema::acquire()` decrements after it unlocks, so two adders share a slot |
| `hash_find_unlocks` | `find()` releases the lock of a call under way; two calls act on one lookup, and an object leaks or is deleted twice |

Met while modelling, and part of the model as the code has it, without a run of
their own: `unblockAll()` wakes every adder and gives out one unit, so that the others
sleep again (`SlotReachesAdder` is what the adders have, and only `RemoversReturn` is
stated of all blocked calls of a kind); `clear()` frees all slots of the ring and wakes
no adder (the runs of `NoLostRelease` and `SlotReachesAdder` leave it out); no add of
the ring reads `enabled`; the ring's iterator goes up in a ring that runs down; `get(n)`
wraps a slot late and starts in the wrong slot of a reversed ring; `reverse()` takes no
lock; two callers can start one task, which then has two threads (against "-1 if already
started", `tw_task.h:172`), and `_running` of a task is never reset; a `find()` with fill
after a `find()` without hands out the map's own string of `TW_StringStringMap`, and the
caller who frees it as told frees the value of a key that is still there;
`TWDenseHash::addNoreplace()` stores `DATA()`; `removeLink()` of a list does not free;
`shutdownAll()` shuts nothing down; `TW_KTree_32` uses no lock, and its `get()` does not
compile (the search behind it is modelled).

Met and not modelled: `MemBlk::release()` destroys the mutex of the block whether or not
references remain, after which threads change the count without exclusion, so `BufBlk`
is about the calls of one thread at a time; the timed `TW_Sema::acquire` does not
decrement a positive count.

Each property of a passing run has a mutant: a definition under the comment
"Mutant of ...", beside the one it stands in for. With the mutant in its place TLC
finds the property violated.

**Fairness.** Weak fairness of `Resume`: a thread that was woken eventually gets
the mutex, because no call keeps it and the scheduler is assumed to let waiting
threads have it. Strong fairness of `TimedOut`: the deadline is absolute, so once
it has passed it ends whichever wait of the call comes next, although the call may
be woken and sleep again in between. In the bounded FIFO and in `Tasks` weak fairness
of each step in the middle of a call, by the same argument; a task's `work()` is
assumed to end, without which `joinAll()` can promise nothing. Nothing is assumed of
callers: no thread has to call anything, and `SpuriousWakeup` is never fair.

**Symmetry** of threads and elements is used in `circular_wakeups` and
`circular_ring`, which have no liveness property.

## 4. Proofs

Every invariant of the passing runs but `ReadsAsText`, `ReadersServed` and `TreeHolds`,
and both refinements, are theorems: they hold for any finite set of threads and any
value of the other constants that meets the named assumptions of the modules
(`SemaAssumption`, `CircularAssumption`, `FIFOAssumption`, `TWSemaAssumption`,
`AdderAssumption`; in `MCThreads` `PoolAssumption`, `TaskAssumption`, `HashAssumption`,
`AutoAssumption`, `PairAssumption`; in `MCContainers` `BufAssumption`, `NodeAssumption`,
`ArrayAssumption`, `HashAssumption`, `StringsAssumption`, `StackAssumption`,
`FifoAssumption`, `KeysAssumption`). They say that thread sets and heaps are finite,
capacities at least one and markers such as `NoThread` no element of the sets they mark;
the `HashAssumption` of `MCThreads` also that the keys are numbers below the marker for
the end of the table, that of `MCContainers` that the steps of the double hashing are
odd, which the code sees to with `| 1`.

| Theorem | States | Of |
|---|---|---|
| `TypeCorrect`, `RingAlwaysConsistent` | `TypeOK`, `RingConsistent` | the ring, `Spec` |
| `SlotWakeupsKept`, `ElementWakeupsKept`, `NeverAllAsleep` | `NoLostRelease`, `NoLostAcquire`, `NotAllAsleep` | the ring, `Spec` |
| `RingConsistentWithArray`, `IteratorsInOrder`, `ArrayAlwaysMissesOnlyWrapped` | `RingConsistent`, `IterInOrder`, `ArrayMissesOnlyWrapped` | the ring with `clear()`, `get()`, `set()`, `ArraySpec` |
| `RingImplementsQueue` | `ImplementsQueue` | the same |
| `ListAlwaysWellFormed`, `BlockCntAlwaysCovers`, `AddsNeverLost` | `ListWellFormed`, `BlockCntCoversSleepers`, `NoLostAdd` | the list, `Spec` |
| `ListImplementsQueue` | `ImplementsQueue` | the list, `Spec` |
| `AdderNeverStranded` | `AdderNotStranded` | the bounded FIFO, `OneAdderSpec` |
| `UnitsAlwaysKept` | `PoolKept` | `TW_SemaTwoWay` by itself |
| `CallbacksAlwaysBeforeDelete` | `CallbacksBeforeDelete` | `autoPointer` |
| `JoinedTasksDone` | `JoinedMeansDone` | tasks |
| `DataAlwaysAccounted`, `IteratorsAlwaysStand` | `DataAccounted`, `IteratorsStand` | both locked tables, without `find()` |
| `RingsAlwaysKeepElements` | `RingsKeepElements` | copies between rings |
| `StackAlwaysHolds`, `QueuesAlwaysHold`, `ListsAlwaysHold`, `ArraysAlwaysHold` | `StackHolds`, `QueuesHold`, `ListsHold`, `ArrayHolds` | `tw_Stack`, `tw_FIFO`, `tw_List`, `DynArray` |
| `TableAlwaysHolds`, `CountsAlwaysAgree` | `TableHolds`, `CountsAgree` | `TW_KHash_32` |
| `StringsAlwaysKept`, `NamesAlwaysFound` | `StringsKept`, `NamesFound` | the string maps |
| `RefCountsAlwaysRight` | `RefCountsViews` | `MemBlk`, `BufBlk`, `BufBlkIter` |

The arguments, by the inductive invariant each rests on:

*The ring: `Ring`.* `TypeOK` is not inductive: `reverse()` copies `nextIn` into
`nextOut`, and `nextIn` may be -1. That this happens only in an empty ring, which
`reverse()` leaves alone, is part of `RingConsistent`; and `RingConsistent` needs
the types for its arithmetic. `Ring`, their conjunction, is inductive: one lemma per
kind of step (`PutKeepsRing`, `TakeKeepsRing`, `RemoveResumeKeepsRing`,
`ControlKeepsRing`, ...), joined in `RingStep`. `Slot` is written with a conditional
subtraction and not with `%`, which keeps the obligations linear.

*Its wakeups: `Wake`.* It says, for each condition variable, that if somebody sleeps
then the units do not outnumber the woken. A step that takes a unit removes itself
from the woken (`TakerGone`); a step that gives one adds a sleeper to them, or leaves
nobody asleep (`SignalCovers`); a call goes to sleep only when there are no units;
everything else only wakes (`MoreAwake`). `Wake` is inductive together with `Ring`,
which keeps the count within bounds and each sleeper at the blocking point of its
condition variable. `NotAllAsleep` follows: with nobody woken both the free slots and
the elements would be zero, and together they are `Size`. `clear()` is not in `Spec`:
with it `NoLostRelease` does not hold.

*Its refinement: `RingInUse`.* `Ring`, `IterInOrder` and what calls under way rely on
(`Calls`: a blocked add still has its element, the holder of an iterator waits for
nothing). The queue is read off the slots from `nextOut` on; a put appends to it, a
take drops its head, `reverse()` reverses it, and every other step leaves it alone.
The walk of `get(n)` is a recursive function; a lemma gives its closed form
(`IndexFound`), from which `ArrayMissesOnlyWrapped` follows by arithmetic.

*The list: `List`.* `ListWellFormed` counts the links that are reached from `out`. The
proof needs more: that they are reached one after the other and differ (`Shape`).
`LinkAt` is a recursive function over a chain that changes; `SharedLemmas` shows
that a chain has exactly one walk (`WalkExists`, `WalkUnique`), so that a lemma about
an add or a removal only has to exhibit the new one.

*Its wakeups* are counted as the ring's are, with one more kind of witness: an add
that has linked its element and not yet signalled.

*Its refinement* reads the queue off the walk from `out`. Every critical section is a
step of the queue or none; the second section of an add is none.

*The pool: `UnitsKept`.* A woken acquirer takes its unit without looking at what it
already has, so one has to know that a thread inside `acquire()` has none (`Asking`).

*The bounded FIFO: `OneAdderInv`.* Releases of other threads come between the read and
the write of the adder's `cnt--`, so the count may be wrong, upwards. The invariant says
what cannot happen: the adder has read a positive count (`CountSeen`), and there is
always a slot left, in the count, in the list, or with a removal that has yet to release
(`SlotLeft`). So a sleeping adder has somebody to wake it, and the last wakeup is not
lost. With two adders the bound itself fails (`bndfifo_overfull`); nothing about the
bound is claimed.

*References: `Pointer`.* The references of all threads are counted as pairs of a thread
and a number. What was called and what is still to be walked together are the list of
callbacks, and there is a walk only when the last reference has gone.

*Tasks: `TasksKept`.* Nothing limits the threads of a task: two starters may both pass
the test. What holds is that a thread, in whatever state, agrees with its task about
completion (`Threads`), that a task which is marked as running knows one of its own
threads (`Started`), and that every task a `joinAll()` has passed has a thread that was
joined (`Calls`): the place it read before it locked the list stays good because tasks
are only appended.

*Locked tables: `HashKept`.* What a call found is still there when it acts, because it
has the lock (`Looked`); so every object is at one key or with one removal (`Placed`).
What is due to an iterator is stored and behind it (`Iterating`). `find()` breaks
`Looked`, which is how `hash_find_unlocks` comes about. The dense and the
sparse table differ in what they offer and in the data an add stores; both make only
steps of `HashStep`.

*Copies between rings: `RingsKept`.* Each ring holds its elements in the slots from
`nextOut` on (`Holds`, with `ElemAt` as the closed form of the walk); nobody transfers
from a ring that may be reversed (`Copying`). With three rings it is not enough that a
program neither reverses the ring it transfers from nor transfers from a reversed one:
a third ring, reversed, may be cloned to it between the two locks. The guard of
`LockOwn` says so; with two rings, as in the run, it changes nothing.

*Stack and FIFO: `StackKept`, `FifoKept`.* The properties speak of what a loop over the
links visits. The invariants name that sequence of links: a chain without repetition
from `top` or `out` to the null pointer, whose data is what the calls put there; every
live link is on one chain; the last one is `in`; the cursor is on a link of its queue.

*Lists: `ListKept`.* Each of two lists is a run of nodes linked both ways, with head and
tail at its ends; no node is on both. Calls cut, join and turn runs.

*Hash table: `HashKept`.* Types, counts, and that every key sits on its probe sequence
with no empty bucket before it (`TabOK`). An odd step reaches every bucket of a table
whose size is a power of two, so a search ends at the key or at an empty bucket. The
rehash in place is a function of its turns; its invariant says that each key is in an old
bucket, in a new one, or in hand (`RehashOK`), and `TurnsLeft` falls with each turn, so
that it ends.

*Strings: `StringsOwned`, `KeysKept`.* Types, and that keys read as their words, boxes are
apart, and the strings that are allocated are the caller's, the strays or a strong box's.
*Arrays: `ArrayKept`.* The storage is the sequence that the calls describe.

*Buffers: `BufKept`.* A call rewrites the counts of all blocks of a chain, so the
invariant has the shape of every chain as well. Each call is a `Recount`: what the new
chain views more often than the old, the counts have more. `deepCopy()`,
`getContigBlock()` and `eatBytes()` are folds or loops over chains, and are shown to be
cuts, copies or replacements of parts of them.

*How the proofs go.* An invariant theorem has three parts: `Init` implies the inductive
invariant, every step keeps it, it implies the property. The second is one lemma per
kind of step. Induction over numbers is stated for sets (`NatSetInduction`), from the
fact that a nonempty set of numbers has a least element.

*Only model-checked*: all liveness and everything with fairness (outside the prover's
reach); `ReadsAsText` and `ReadersServed`, which say what folds over the bytes of a
chain compute, for which the prover would need induction over data; `TreeHolds`, since
`KTree` is written with recursive operators, which the prover does not take (so it is in
`MCStructures` and not in `MCContainers`).

## 5. Not modelled

`PROJECT.json` gives the reason for each component. Within the modelled classes:
constructors with an allocator where they do the same as the plain one, destructors
that only free, `count()`, `size()` and `remaining()` (reads), the timed
`TW_Sema::acquire` (no class of the library uses it), `operator=` of the locked lists,
`clearAll`, `disable`, `unblockAll`, `operator=` and the destructor of the bounded FIFO
(they delete or bypass the semaphore other threads are using; with them
`TW_Sema::releaseAll` and `count`), a block's reference count under several threads, `cloneFrom` of rings without objects, hex dumps,
Windows code, debug output.

Whole files: `tw_bufblk.cpp` and half of `tw_alloc` are compiled out;
`tw_sparsehash.old.h` and `tw_khash2.h` are superseded versions; `khash.h`, `ktree.h`
and `provos_rb_tree.h` are vendored; `tw_llist.h` needs ACE, and `tw_dlist.h`,
`tw_list.cpp` and the iterator of `tw_rbtree.h` do not compile; `tw_socktask.h`,
`tw_disktable.h` and `tw_mmanager.h` are declarations; logging, configuration and
utilities format and convert.

## 6. Plan

Done: the semaphores, the ring buffer with its abstract specification and its copies,
the lists, the bounded FIFO, the buffers, the tasks, the shared pointers, the hash
tables, the maps, the tree and the small containers, and the theorems of section 4. What
would come next:

1. `SafeFIFO` with `operator=`: two locks, as in `CircularPair`.
2. An iterator of a reversed ring, once the code has one.
3. A reference for the chains of `BufBlk` with writes through shared views.
