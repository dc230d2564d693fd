# TLA+ models of the Tamarin ActionScript VM

This directory holds a verification project for Tamarin (avmplus): TLA+ modules
translated from the C++ source of its threading core, its memory manager and its
hash tables, TLC configurations that check them on small instances, and TLAPS
proofs that hold for every instance. `PROJECT.json` lists components, runs,
mutants, the map from definitions to source lines, findings, hazards and theorems.

    tlc -workers 2 -config MCSafepoint.cfg MCSafepoint
    tlapm SafepointProofs.tla

## 1. Inventory

Tamarin is a virtual machine in C++: a garbage collector (`MMgc/`), the language
runtime (`core/`), a JIT (`nanojit/`, `halfmoon/`), a small threading layer
(`vmbase/`), platform wrappers (`VMPI/`, `AVMPI/`) and a command-line shell
(`shell/`). One isolate (worker) runs one `AvmCore` on one thread with its own
collector. Hard to test are two things: the code that starts, interrupts, blocks,
stops and joins those threads, and the code where the program and the collector
run in alternation on one thread and change the same tables.

| Component | State | Operations | Hard part |
|---|---|---|---|
| `vmbase/Safepoint` | per manager: list of records, request mutex, `m_requester`; per record: status, manager, interrupt location; per thread: stack of records | `enter`, `leave`, gates, `SCOPE_LOCK`, `requestSafepointTask`, `SAFEPOINT_POLL` | stop-the-world without stopping threads; lock-free status; nested contexts; back-off from interrupted threads |
| interrupt word (`core/AvmCore`) | `interrupted`, `pending_interrupt` | `raiseInterrupt`, `handleInterruptToplevel` | plain stores racing with a CAS |
| `vmbase/VMThread` | `m_state`, `m_joinerQty`, join monitor | constructor, `start`, `join`, destructor | freeing an object other threads are still leaving |
| isolates (`core/Isolate`, `shell/avmshell`) | per isolate: state, `m_interrupted`, `m_core`, parent; per aggregate: isolate map, thread map, active count, shutdown flag | `newIsolate`, `start`, `terminate`, `run`, `doRun`, `requestAggregateExit`, `waitUntilNoIsolates`, `cleanup` | query and transition in different critical sections; shutdown against starting workers |
| `Mutex`, `Condition`, `InterruptibleState` | owner, recursion count, OS mutex; list of wait records, waiter and signal counts; per isolate the state it blocks in | `lock`, `tryLock`, `unlock`, `wait`, `notify`, `notifyAll`, `signal` | terminating one waiter wakes all; the others must sleep on; timeouts during a signal cycle |
| channels | serialised items | `makeChannelItem`, shared properties | copies between heaps |
| collector (`MMgc/GC`) | mark bits, two mark stacks, overflow flag, phase, weak references | increments of marking, write barrier, final mark, presweep, finalize, sweep | the program between increments, presweep callbacks and finalizers; mark stack overflow |
| small-object allocator (`MMgc/GCAlloc`) | blocks, free lists, blocks to sweep, finalize state of a block | `Alloc`, `Free`, `FinalizationPass`, `Sweep` | allocating and freeing while the blocks are finalized |
| deferred reference counting (`MMgc/ZCT`) | counts, the zero-count table, the index of each object in it, pins | increment, decrement, add, remove, pin, reap | finalizers that change the table being reaped |
| hash tables (`core/avmplusHashtable`) | pairs, size, deleted flag, enumeration cursor | `find`, `put`, `remove`, `grow`, `next` | deleted pairs; a table that changes while it is enumerated; weak keys that die |
| page heap (`MMgc/GCHeap`) | table of block entries with boundary tags, free lists, regions, counters | `Alloc`, `Free`, `ExpandHeap`, `LargeAlloc`, `Decommit` | entries that move while lists and regions refer to them; committed and decommitted neighbours; sizes read outside the lock |
| large-object and fixed allocators, memory status | lists of blocks; callbacks | allocate, free; notify | out-of-memory callbacks |
| verifier, interpreter, JIT, object model, library | large, sequential | | data rather than control |

How they interact. `requestSafepointTask` stores `SafepointPoll` in the interrupt
word of each unsafe thread; ActionScript code tests the word on backward branches
and calls `handleInterruptToplevel`, which polls the manager and blocks in a gate.
`requestIsolateExit` and `requestAggregateExit` store `ExternalInterrupt` in the
same word and signal the `InterruptibleState` the isolate blocks in. `SCOPE_LOCK`
opens a gate when it must block. `Aggregate` starts each worker with a `VMThread`,
whose `Runnable` is the isolate, and joins it at exit.
`runSafepointTaskHoldingIsolateMapLock` requests a task with the isolate-map lock
held. The allocators drive the collector: each allocation may run an increment of
marking, and sweeping happens when a free list is empty. The ZCT is told when a
collection starts and ends its sweep, because finalizers of the sweep change counts.
Dictionaries hold their keys through the collector's weak references. All memory
comes from the page heap, which several collectors and threads share under one
lock; a collector calls `Decommit` after a collection.

What makes each correct: a task runs alone in its context and eventually runs; an
interrupt is not lost; a `VMThread` is freed only when nobody uses it; the main
thread leaves only when every isolate has ended, and does leave; a terminated
worker comes out of every wait, and no other worker does; nothing the program can
reach is reclaimed, by the collector or by the ZCT; a table is the map that the
calls on it have built; the pages of an item belong to nobody else, and what the
page heap believes of its pages is what the system has done to them.

## 2. Modules

| Module | Models | Checked by |
|---|---|---|
| `Safepoint` | `vmbase/Safepoint*`, the lockers that use gates, the interrupt word | `MCSafepoint` |
| `SafepointContract` | what a context promises: code runs, or one task does | `MCSafepoint`, through `Contract` |
| `SafepointProofs`, `SafepointRefinement` | theorems about `Safepoint` | |
| `VMThread` | `vmbase/VMThread.cpp` | `MCVMThread` |
| `VMThreadProofs` | theorems about `VMThread` | |
| `Aggregate` | `core/Isolate.cpp`, `shell/avmshell.cpp`, worker start and terminate | `MCAggregate` |
| `AggregateProofs` | theorems about `Aggregate` | |
| `MutexCondition` | `core/ConcurrencyGlue.*`, `InterruptibleState` in `core/Isolate.*` | `MCMutexCondition` |
| `MutexContract` | what programs see of a mutex and its condition: an owner, its levels, those given up in `wait` | `MCMutexCondition`, through `Contract` |
| `MutexConditionProofs` | theorems about `MutexCondition` | |
| `IncrementalGC` | `MMgc/GC.cpp`, `MMgc/GCAlloc.cpp`, the write barrier | `MCIncrementalGC` |
| `IncrementalGCProofs` | theorems about `IncrementalGC` | |
| `ZCT` | `MMgc/ZCT*`, the counts in `MMgc/GCObject.h` | `MCZCT` |
| `ZCTProofs` | theorems about `ZCT` | |
| `Hashtable` | `core/avmplusHashtable.*` | `MCHashtable` |
| `HashtableProofs` | theorems about `Hashtable` | |
| `GCHeap` | `MMgc/GCHeap.*` | `MCGCHeap` |

A definition whose name extends that of an action (`JoinWakeOnce`, `EndCycleAlways`)
is a mutation of it: what the action would be with a plausible mistake. No
specification uses them; each property has one that breaks it.

### Safepoint and SafepointContract

A record is a pair `<<t, i>>`, the i-th record on the stack of thread `t`;
`records[m]` is a manager's list as a set (a walk may visit it in any order, which
includes the list's own). `pc[t]` is what the thread executes; a step is what lies
between two points where another thread can see or change something: a lock
acquisition, a store to `m_status`, a compare-and-swap, a read of `m_requester`, a
plain read or write of the interrupt word. `EnterBegin`, `EnterLock`, `EnterPush`
are the steps of `enter`; `Leave*` of `leave`; `Gate*` of `SafepointGate`;
`Mutex*` of `MutexLocker` on a lock of the application; `Request*`, `Scan*`,
`Cas*`, `WaitReturn`, `Spin*`, `Task*` of `requestSafepointTask`; `Handle*`,
`Poll*`, `Interrupt` of `handleInterruptToplevel` and `SAFEPOINT_POLL`;
`RaiseTest`, `RaiseStore` of `raiseInterrupt`.

With `StoreBuffer = TRUE` the handler's store of `NotInterrupted` may become
visible late (`StoreDrain`), up to the thread's next barrier or lock operation:
the source has a plain volatile store there, and the builds for x86 and ARM allow
it.

`SafepointContract` says what the users of a manager see: a set of threads
executing code of the context and a set running tasks. Threads resume only when no
task runs, a task begins only when nobody executes, and its thread then executes
on. `Safepoint` implements it with `executing` as the threads whose current record
is of the context and whose location is one of unsafe code, and `tasks` as the
threads inside a task. Records, statuses, the mutex and the interrupt word are
hidden. `MeetsContract` is checked by TLC and proved.

Abstractions: the bodies of tasks are opaque; `ScriptTimeout` and
`ExternalInterrupt` are one value; every record has an interrupt location (the
code also has records without one, which the walk skips); code that never tests
the word (methods marked non-interruptible) is not distinguished, so liveness is
claimed only for code that does; list pointers are not modelled.

### VMThread

One client thread starts and deletes, any number of threads join, and the native
thread runs. `SpuriousWake` lets a condition variable return without a
notification. A joiner exists only if its client knows the thread was started, as
`join`'s assert demands.

### Aggregate

Each critical section of `m_globals.m_lock` is one step. What the code does
between two of them is separate: `StartQuery` and `SpawnThread`/`SpawnFail`
(`internalStart`), `RunTest` and `RunTerminated`/`RunStarting` (`Isolate::run`
tests `m_interrupted` without the lock), `SetupQuery` and `SetupRunning`
(`initToplevel`), `DeleteCore` and `AfterGCDeletion`. Scripts are chosen freely:
they may create, start and terminate workers, return, throw, or catch the
interrupt's error (`ScriptCatch`), as `ShellCore::interrupt` throws one that can be
caught. `core[i]` is the pointer `m_core`, with `"deleted"` for a dangling one;
`word[i]` says whether an external interrupt is pending on that core.
Not modelled: reference counts of `Isolate` and `cleanupIsolate`, descriptors and
their reuse, shared properties, `listWorkers`, run loops of other hosts than the
shell, and errors that end the process.

### MutexCondition and MutexContract

One ActionScript `Mutex` and one `Condition` on it, with the `InterruptibleState`
of each. A section of code under a monitor is one step; `Condition.wait` holds the
condition's monitor while it takes the mutex's, so `condOwner` names the thread in
between. `EnterIsolate`/`LeaveIsolate` are the constructor and destructor of the
helper that publishes in which state an isolate blocks (`active`), under the
isolate's own mutex (`iso`); a killer takes that mutex in `LockIsolate`, sets
`m_interrupted` in `SetInterrupted` and signals the state in `Signal`. `signaled`,
`signaledWaiters` and `waiterCount` are the accounting of a signal cycle. A worker
that is terminated dies in `Die`, and its mutex is given up by `Finalize`. The OS
mutex below the ActionScript one (`osHolder`, `osCount`) is separate from the
owner and count that the code keeps, because `tryLock` and `unlock` move them
differently. `Expire` is a timeout, `SpuriousWakeup` a wait that ends for no
reason.
Not modelled: the `ScriptTimeout` interrupt of the primordial isolate, and the
transfer of these objects to other workers.

`MutexContract` says what the programs of `core/concurrent.as` see: who holds the
mutex, how many times it has to be unlocked, for each worker in `Condition.wait` the
levels it gave up, and who has been told to exit. A free mutex can be taken by
anyone, an owned one only again by its owner; `Wait` frees it whatever its depth and
`Return` restores that depth to a worker only when the mutex is free; `Exit` and
`Abandon`, in which a worker loses the mutex or leaves the wait without it, are for
workers that were told to exit. The mapping (`GivenUp`) reads `saved`, except
between the step that takes the mutex back and the end of the call. `MeetsContract`
is checked by TLC and proved. The contract says nothing of the OS mutex
underneath, so that the finding about `UnlockReleases` does not contradict it: the
mutex that stays locked there has no owner, and the workers that can no longer take
it are missing liveness, not safety.

### IncrementalGC

The objects are the slots of one small-object allocator. `bits` is the mark state
of a slot, `work` and `barrier` the two mark stacks as sets (segments move between
them, so any order can occur), `SegmentSize` what a stack takes without allocating;
beyond it every push may succeed or fail (`Trace`, `PushOne`). The collector's
program counter `pc` is `"run"` when the program runs. `StartIncrementalMark`,
`Mark`, `CheckBarrierWork` are increments; `FinishIncrementalMark` to
`MarkQueueAndStack` the final marking with its restarts after an overflow;
`StartSweep` and `EndPresweep` the presweep callbacks; `StartFinalize`,
`FinalizeBlock`, `StartFinalizer`, `EndFinalizer`, `BlockDone` the finalization of
the blocks, of which `cur` is the block at hand, `nxt` the one read before it and
`after` those behind that; `EndSweep`, and `AllocSweep` later, the sweep. The list
of blocks is a set walked in any order, of which the order of the list is one. Between any two
increments, in presweep callbacks and in finalizers the program reads, writes,
allocates, frees and follows weak references (`Alloc`, `Load`, `WeakGet`,
`GetWeakRef`, `Drop`, `WriteRoot`, `Write`, `Free`), as far as the comments in the
source allow it: a presweep callback makes no pointer disappear and a finalizer's
allocation finds a block unless `Uses` says otherwise.
Not modelled: large objects and objects split over several mark items, exact
tracing, `LazySweepPass`, `abortInProgressMarking`, the forced sweep at shutdown,
collections that skip the stack, and pointers the conservative scan finds by
accident.

### ZCT

`rc` counts references from the heap, `sticky` marks a count at its maximum, `idx`
is the index in the object, `zct` the table in blocks of `BlockSize` entries,
`Capacity` the number of indices the object's header can hold. `StartReap` to
`EndReap` is one reaping: pinning of the objects on the stack, popping the table
from its end, null entries, pinned entries moved to the memory of pinned ones, and
finalizers, in which the program runs. `StartCollecting`, `StartFinalizer` and
`EndCollecting` are what the collector's sweep does to the table. Finalizers drop
references and, with `Uses`, create objects and add and drop references to the
object itself. `Delete` is an explicit `delete`. When the table grows or is reaped
is a choice, as the budget policy decides it.
Not modelled: imminent abort, switching reference counting off,
`dontAddToZCTDuringCollection`, explicit pins of prereap callbacks.

### Hashtable

`atoms` is the array of pairs, with the probe sequence of `find` (`Probe`), deleted
marks, growth and rehash; `Rehashing(t, n)[i]` is the new table after the first `i`
old pairs have been put into it. Capacities are powers of two (`PowerOfTwo`), as
`initialize` rounds up. One module stands for three kinds of table: the
properties of a script object with DontEnum bits, a weak-key dictionary and a
weak-value table. `Collect` clears a weak reference, of an object that no pair holds
strongly in its other half (`Strong`); `Recycle` lets a later object
have the same address. `Advance` is one call of `next` with its cached cursor;
`BeginLoop`, `ContinueLoop` and `InnerLoop` are for-in loops that may be nested
over the same table. `bound`, `due`, `done`, `shape` and `mine` are history
variables: what the calls have bound, and what an enumeration has reported and has
still to report.
Not modelled: `destroy`, reference counts of values, name interning, arrays and
`MultinameHashtable`.

### GCHeap

`heap` is one record with the members of the class: `blocks`, the table, in which a
block's first entry holds its size and the others are cleared, `freelists`, and
`regions` with the last region first; and three sets that are the system's: the
pages it has `reserved` and `backed`, and the `soiled` ones, which may hold
something else than zeros. Each method is an operator from heap to heap (or to a
set of heaps, where the system may answer in several ways), so that `Alloc`,
`Free` and an iteration of Decommit's loop are one step each, as they run under
`m_spinlock`. `Decommit` computes its amount before it takes the lock
(`DecommitPlan`, `DecommitLock`), so that clients act in between. Addresses and
indices count from 1. `table` is the address of the block table, which itself lies
in pages of the heap and moves when it grows. A failed allocation is a step that
may change the heap (it may have expanded it); the second attempt after the
callbacks is the client's next `Alloc`, and what the callbacks free is a `Free`.
Not modelled: the memory status and its callbacks, external pressure, heaps without
virtual memory, the Mac port's lost blocks, `FreeAll`, poisoning, and the
"dispersive" reservation of debug builds.

## 3. Runs

Passing runs:

| Run | Instance | Shows |
|---|---|---|
| `safepoint` | 3 threads, 1 manager, 1 interrupt, delayed stores | `StopTheWorld`, `StatusMatchesLocation`, `FrozenWhileRequested`, `MeetsContract`, types |
| `safepoint_nested` | 2 threads, 2 managers, nesting 2, deadlock checked | `NestedRecordsSafe` across contexts and for recursive entry |
| `safepoint_live` | 3 threads, no interrupts, immediate stores | `RequestRuns`: every request is served |
| `vmthread` | 3 joiners | `FreedIsUnused`, `JoinedIsTerminated`, `RunsRunnable`, `JoinReturns` |
| `aggregate` | primordial and 2 workers, 2 scripts each, 1 terminate | `NeverOvercounted`, `FailedNeverRuns`, `ShutdownCompletes`, types |
| `mutex_condition` | 2 workers, 1 killer, recursion 2 | `Ownership`, `CycleAccounting`, `MeetsContract`, `SignalCycleEnds`, `TerminatedUnblocks`, `FreeMutexIsTakenUnlessTerminated` |
| `gc` | 3 slots in 2 blocks, 1 pointer each, a mark stack of 1, weak references to one slot | `ReachableSafe`, `MarkingSound` (`QueuedIsStacked`, `TriColor`, types), `MarkingComplete`, `WeakRefsAlive` |
| `gc_live` | 3 slots, one without pointers, no roots but the stack | `CollectionEnds` |
| `zct` | 3 objects, blocks of 2, capacity 4, counts that stick at 2, deadlock checked | `ReachableAlive`, `TableConsistent` (`IndexConsistent`, `EntriesReapable`, types), `CountsAccurate` |
| `hashtable` | 3 keys, tables of 2 to 8 pairs, all kinds, deadlock checked | `FindReturns`, `TableIsMap` (`IsMap`, types), `EnumeratesOnce` |
| `gcheap` | 14 pages, a limit of 12, 2 places for regions, 2 items of 2 or 4 pages (the latter aligned, with a region of its own), with and without `sloppyCommit`, deadlock checked | `ItemsIntact`, `TableWellFormed` (`BoundaryTags`, `EndsAtCommitTop`, `TableFits`, types), `FreeListsSound` (`FreeListsExact`, `Coalesced`), `CleanIsZero`, `PagesKnown` (`PagesBacked`, `ReservationsOwned`), `CountersExact` (`NothingLeaks`, and `DecommittedCounted` without `sloppyCommit`) |

Why the bounds are enough to be interesting. With three threads a requester, a
thread that leaves a gate and a second requester meet; with two managers and depth
two a thread can nest both ways round and re-enter; one raised interrupt is enough
to reach the undo-and-wait path; two workers allow a worker to start or terminate
another while the main thread shuts down; two scripts allow one exception per
script. Two workers and a killer let one worker be terminated in each position of
a wait while the other notifies, locks recursively or waits as well; recursion two
distinguishes a count restored from a count set to one. Three slots in two blocks
let a block be finalized while another is not, and chains of two pointers; a stack
of one item overflows at once. In the ZCT two blocks force a growth and a
capacity of four is reached; a count of two makes objects stick. The three keys
collide with each other in tables of 2, 4 and 8 pairs; nested loops are explored
for the first kind of table only (`Nested`), which bounds the run's time.
The page heap's constants are scaled down together: increments of 2 pages, regions
of 4, table pages of 10 entries, region pages of 2. So the table moves to new
memory, region pages are taken both by an expansion and by `EnsureFreeRegion`,
expansions bridge two regions or open a separate one, decommitted blocks are
merged, pruned and put together with committed ones, and regions are released with
a sentinel added, removed or kept. With `sloppyCommit` the count of decommitted
pages drifts (section 4); `MaxDrift` bounds it by stopping allocations below it.
`HeapLimit` is a little less than the address space, so the system's refusals and
the limit both occur; regions are at odd addresses, which keeps the excess of an aligned
reservation before the item (`gcheap_slack` of section 4 shows the other case).
Of these bounds only the page heap's and the hash tables' limit what is known about
safety: for the other modules the properties are also proved (section 5).

Deadlock is not checked where the system may stop: threads with interrupts
(a requester can block for ever, section 4), a thread object that has been
freed, a process that has ended, workers that all wait for a notification (a
program may do that), a heap whose bounds are exhausted.

Fairness. `Safepoint`: each thread keeps executing, running ActionScript code
tests the word (it does on every backward branch), an unwinding exception reaches
`leave`, stores reach memory, tasks return; a waiter that was notified gets the
mutex in the end (strong fairness, as other threads may take it in between).
Nothing forces running code into a gate, and a call inside a gate may block for
ever. `VMThread`: started threads run, `run()` returns, woken threads continue;
spurious wake-ups are not relied on. `Aggregate`: threads continue, and every
script ends (`EndingSpec`); the shell itself does not force this, because a script
may catch the interrupt, so `ShutdownCompletes` is claimed under that condition.
`MutexCondition`: a called operation goes on and competes successfully for
monitors and mutexes in the end (strong fairness, as they can be taken in
between), timeouts expire, polling loops test again; programs may stop calling at
any time, so nothing forces an unlock or a notification. `IncrementalGC`: only the
collector's own steps, since it runs to the end on the program's thread once it
has taken over; the program may call no increment ever again, and
`CollectionEnds` does not depend on it. `ZCT` and `Hashtable` are sequential and
have no liveness property: reaping is a loop whose end is that of the table.
Neither has `GCHeap`: Decommit's loop has a quantity left that only falls.

## 4. Disagreements found

One has a run, `gcheap_slack`, in which TLC finds `ItemsIntact` violated: the
second reservation for an aligned large item happens to be aligned already, so that
the excess lies behind the item. The next expansion takes these pages for blocks
(`lastRegion` is the large item's; `GCHeap.cpp:1943`). The item now seems longer,
against the assertion at `GCHeap.cpp:570`, and a small item at their start is taken
for a large one, whose release releases the region of the first. The run has 17
pages and one more place for a region, the one behind which the excess lies.

The others are stated as properties in the modules. TLC finds each violated when
the property is added to the configuration named here; they have no run of their
own.

| Property | Where | What happens |
|---|---|---|
| `RequestRuns` with `MaxRaises = 1`, deadlock not checked | `MCSafepointLive` | A requester that meets a raised interrupt undoes its request and waits to be notified by `leave` (`Safepoint.cpp:82`; the comment at 74-77 expects the thread to unwind). The interrupted script catches the error of `ShellCore::interrupt` and stays; nobody notifies. |
| `RequestRuns` with `StoreBuffer = TRUE` | `MCSafepointLive` | The handler's delayed store of `NotInterrupted` (`AvmCore.cpp:5648`) erases a new `SafepointPoll` after `hasRequest()` saw no request: the race that `Safepoint-inlines.h:277-278` calls benign loses the poll. |
| `InterruptNotLost` | `MCSafepoint` | The requester's "don't interrupt oneself" store (`Safepoint.cpp:130`) erases an external interrupt raised just before, against `AvmCore.h:541-542`. |
| `DtorReturns` | `MCVMThread` | The destructor wakes before the last joiner, waits again, and is not notified when the joiner leaves (`VMThread.cpp:162`), against the comment at `VMThread.cpp:91-93`. |
| `RaisedOnLiveCore` | `MCAggregate` | Shutdown raises an interrupt on a core that its worker has deleted: `m_core` is cleared only in `afterGCDeletion` (`Isolate.cpp:1151`; the comment at 157-158 expects NULL). |
| `ShutdownInterruptsAll` | `MCAggregate` | A worker that tested `m_interrupted` (`Isolate.cpp:612`) just before shutdown runs its scripts after it, uninterrupted, against the comment at 186-188. |
| `DoneIsQuiet` | `MCAggregate` | An isolate counted out twice (`Isolate.cpp:282`) lets the main thread leave while a thread still runs, against the comment at 963-965. |
| `UnlockReleases` | `MCMutexCondition` | `tryLock` by the owner takes the OS mutex once more, and `unlock` releases it once when the count reaches zero: the mutex stays locked although every lock request was undone, against `concurrent.as:89-91`. |
| `FreeMutexIsTaken` | `MCMutexCondition` | A worker that `unlock` has woken is marked by a signal meant for another worker before it runs: it takes its wake-up for that signal and sleeps again while the mutex is free, although the comment at `Isolate.cpp:541-548` says such threads "will get another chance to contend". |
| `NotifiedReturns` | `MCMutexCondition` | A notified waiter is woken, finds that it is not the head of the condition's list and goes on waiting for older waiters that were not notified, against `concurrent.as:285`. |
| `ReachableSafe` with `Uses = {"detach"}` | `MCIncrementalGC` | A presweep callback reads a weak reference, keeps a pointer it finds in the object and frees or overwrites the object before marking resumes: what it kept is reclaimed. The source leaves this obligation to the callbacks. |
| `ReachableSafe` with `Uses = {"grow"}`, `ThreeBlocks`, `MaxFields = 0`, `MaxFrame = 1`, `WeaklyHeld = {}` | `MCIncrementalGC` | A finalizer allocates and needs a new block. `CreateChunk` enters the block as one that is done (`GCAlloc.cpp:216`) and the newborn is left unmarked, but the loop over the blocks comes to it later and reclaims the newborn while it is reachable, against the comment at `GC.cpp:3191-3192`. |
| `IndexConsistent` with `Uses = {"retain"}` | `MCZCT` | A finalizer retains an object of the stack that reaping has already moved to the pinned entries: its removal clears the wrong index, against the assertion at `ZCT-inlines.h:66`. The self-test in `GCTests.cpp` has such finalizers. |
| `EnumeratesOnce` without its exception for nested loops | `MCHashtable` | Two nested for-in loops over one table with an edit in between make the outer one repeat or skip a key, in the case the comment at `avmplusHashtable.cpp:384-387` says "won't happen with 'normal' ABC". |
| `DecommittedCounted` | `MCGCHeap` | With `sloppyCommit`, `Commit` of a whole sequence subtracts from `numDecommitted` pages that were never decommitted (`GCHeap.cpp:1624`), so that `GetTotalHeapSize` counts pages twice, against `GCHeap.h:539-540`. |
| `KeepsInitialSize` | `MCGCHeap` | A large item is freed between the reading of the sizes (`GCHeap.cpp:732`) and the lock in `Decommit`, which then takes the heap below its initial size, against the comment at 762. |
| `ReservationsOwned` with `Faults = {"commit"}` | `MCGCHeap` | A failing commit in a contiguous expansion releases one page, or the pages asked for, of all that were reserved (`GCHeap.cpp:2010`), against the comments at 2008-2009 and 2018-2020. |
| `UsedCounted` | `MCGCHeap` | `EnsureFreeRegion` takes a page that is never counted as used (`GCHeap.cpp:3033`), although the comment at 2170 says "this space counts as used space". |

Three more follow from the same steps. The requester that sleeps for ever in the
first row may have begun to wait with the isolate-map lock held
(`runSafepointTaskHoldingIsolateMapLock`),
while the thread that would notify blocks on that lock in a gate. The shutdown of
`ShutdownInterruptsAll` takes an isolate from CANSTART to TERMINATED, which an
assert of `stateTransition` (`Isolate.cpp:276`) excludes. `PinObject` and
`GrowPinningMemory` never compare the index with `ZCT_CAPACITY`; the run has
fewer objects than indices and does not come to that case.

## 5. Proofs

All theorems are for arbitrary constants under the module's named assumption
(`SafepointAssumption`, `VMThreadAssumption`, `AggregateAssumption`,
`MutexConditionAssumption`, `ZCTAssumption`, `GCAssumption`, `HashtableAssumption`),
which TLC evaluates in
every run. Where a theorem needs more, the condition is a hypothesis in its
statement (`NoRetain`, `Ample`, `NoUses`) and explained below. Each inductive
invariant is a conjunction of named parts and was checked by TLC before it was
proved; each action has a lemma that says it preserves the invariant.

**Safepoint.** `StopTheWorld` is not inductive: that no other thread executes
during a task follows from what the busy-wait established earlier and from who may
change a status since. `IInv` says: a thread's location fits its stack depth
(`StackDepth`); the lists are exactly the records on the stacks
(`ListsMatchStacks`); the mutex of a manager is held by exactly the thread inside
one of its critical sections, and `m_requester` is that thread once it has marked
its request (`OwnerInside`); records below the top are safe; a current record's
status follows from the location (`StatusFollowsPc`); what the busy-wait has
passed is safe and stays so until the task returns (`PassedIsSafe`). Its
preservation rests on the fact that a record turns unsafe, or joins a list, only
under the mutex, which the requester holds. `StopTheWorldHolds`, `NestedSafe`,
`StatusCorrect` and `TypeCorrect` follow; `FrozenHolds` is the action property.
They include raised interrupts and delayed stores.

**Refinement.** `Refinement` in `SafepointRefinement` is
`Spec => MeetsContract`: the initial state maps to the contract's, and under
`IInv` every step maps to `Resume`, `Pause`, `BeginTask`, `EndTask` or a stutter.
`MovesStep` says which thread's view a step can change, `ContractStep` which
contract step it is. That a task begins only in a context that has stopped is
where `StopTheWorld`, and so the whole invariant, is needed; that nobody resumes
during a task needs that only the owner of the mutex is inside it.

**VMThread.** `IInv` adds to the types that monitor, state and native thread
advance together, that joiners are where the state allows, that `m_joinerQty` is
the number of threads inside `join` (a cardinality), and that the condition the
destructor tested last stays true. `FreedUnused`, `JoinedTerminated`, `Runnable`
and `TypeCorrect` follow; `Runnable` needs that the native thread, which start()
creates under the monitor, gets that monitor only when start() has set the state.

**Aggregate.** `Counted` is shown from the types with lemmas on cardinalities: a
transition counts out at least what leaves the active set, `requestAggregateExit`
as many as it terminates. `FailedStopped` needs that the worker between
`internalStart`'s check and the spawn is touched by nobody but shutdown and
started by nobody else (`StartOnce`), that an isolate not started has no thread
(`NewUnstarted`), and that shutdown passes over what is terminated
(`TerminatedInterrupted`). `TypeCorrect` needs `BlobsLeft`.

**MutexCondition.** Neither `Ownership` nor `CycleAccounting` is inductive.
`IInv` adds what each location implies: in which loop a worker is and how far
(`Loops`); that one who may still acquire the mutex has room for a level of
recursion (`Depths`); that `Condition.wait` keeps the OS mutex until its record is
in the condition's list, has a count of at least one to restore, and owns nothing
until it locks again (`WaitHolds`); that the list of a state holds the record of
each worker waiting in it exactly once (`Listed`), without which taking out the
head, or the record of a worker that is terminated or whose time is up, could
leave a second one behind; who can sleep in a monitor (`Sleepers`), and who holds
the condition's (`Holders`). `waiterCount` and `signaledWaiters` are cardinalities
and are only known to be integers at first (`Typed`); their bounds, and so
`TypeCorrect`, follow from `CycleAccounting`. `Refinement` is
`Spec => MeetsContract`. Besides `IInv` it needs `Unwinding`: a worker outside
`Condition.wait` has no count to restore, one that sleeps does not own the mutex, and
only a worker that was told to exit unwinds; it is proved invariant first. Then
`ContractStep` goes through the actions: most are invisible (`UnseenSame`), and a
turn of the locking loop (`LockTurnMeets`) is an `Acquire` or a `Return` because
`Ownership` makes a mutex whose OS mutex can be taken one without owner.

**IncrementalGC.** `IInv` says who runs when (`Modes`), that queued bits and mark
stacks agree (`Queues`), and that every block still to be finalized is at hand,
next or behind it (`Layout`). The rest is about `Live`, what the program reaches if
weak references count as well: it shrinks in every step but an allocation, and is
what the collector must keep. While no marking is under way, and in the
finalization pass, objects in `Live` have the color of their block, marked in those
not finalized and in those that wait to be swept, white in the others (`Colors`).
While marking, no marked object of `Live` points to a white one, the slots excepted
that a restart has yet to look at, and unless the overflow flag is set (`Tri`);
`Scanned` says which of roots, stack and barrier stack the final scan has behind
it. Together they give `MarkedClosed`: when the second loop ends, marked objects
reach only marked ones, which is `MarkingComplete`. Weak references are not
followed by marking, so that presweep callbacks can bring unmarked objects to
light; `Covered` says that whatever they find is marked or can be reached from the
mark stack through unmarked objects (`Grey`), and so is marked when the third loop
ends. `TraceKeeps` and `TraceCovers` prove this of tracing in general, with a stack
that takes as much or as little as memory permits, and are instantiated for the
roots, the native stack, an item of the mark stack and a slot of the restart.
The hypothesis `NoUses` says that presweep callbacks make no pointer disappear
and finalizers' allocations need no new block: with either, TLC finds
`ReachableSafe` violated (section 4), so the theorems do not hold without it.

**ZCT.** `IInv` keeps the invariant of the pair "entry, index" (`Indexed`) for the
table and the memory of pinned entries together, since reaping moves an entry
between them while the object keeps one index. `Live` is what survives the reaper
or the sweep that runs: it contains the roots (`Roots`) and points only to itself
(`Closed`); a cell that is free is referred to by nothing, has no count and no
index (`Unused`); an object with an index has no counted reference (`Counted`);
`Pins` says that while the reaper runs every object on the stack is pinned or moved
already, and what runs or was created since is not moved, which is why a finalizer
can drop references to either. `Added` follows the object that `AddSlow` adds after
a reaping it has started itself. The hypothesis `NoRetain` excludes finalizers that retain an
object of the stack: there `IndexConsistent` fails (section 4). `NothingInUseIsFreed`,
`CountsHold` and `EntriesAgree` hold for any capacity. That no index reaches
`Capacity` (`TableHolds`) needs `Ample`, that the memory for pinned entries of all objects
fits below it: `PinObject` and `GrowPinningMemory` never compare an
index with `ZCT_CAPACITY`. The run's instance is smaller than `Ample` asks for, so
`TableConsistent` is checked there for a case the theorem leaves out.

**Hashtable.** The theorems hold for any keys, hash values and capacities. Three
arguments carry them. *The probe* (`AllProbed`): the steps of `find` add up to
`8j + j(j-1)/2`; for even `j = 2m` that is `m(2m+15)`, and two such sums differ by
`(m-l)(2(m+l)+15)`, a product with an odd factor, so that they fall on different
slots of a table of `2^k` pairs (`OddFactor`). The even steps alone therefore visit
every slot, and `find` ends where one is free (`Ends`). *The map* (`MapInv`): the
table has a free slot and `find` of a live key ends at the key's own slot (`Good`);
`m_size` counts the slots in use, deleted ones included, and leaves room for one more
(`Sized`, without which neither a put nor the rehash that follows it would find its
slot); live pairs are the bindings the calls have made, and a dead weak reference
binds nothing (`Bindings`). `GoodKept` shows that changing values or marking pairs as
deleted moves no other key's probe, `GoodPut` the same of a put, and
`RehashingHolds`, step by step, that the table into which a rehash has put the first
`i` pairs holds exactly those. *The loop* (`LoopInv`): entries are ordered by a rank, and
the public index of the cursor is at most one more than the rank of its slot
(`Counted`), so that it stays within the bound `next` tests; while the table is as it was
when the loop began, a public index names the entry with as many others before it
(`Steady`); every key in `due` has a live entry after the loop's position and every key
in `done` one that is not (`Pending`). `FindReturnsAlways`, `TableIsMapAlways` and
`EnumeratesOnceAlways` follow.

Induction over data, which the rehash and the powers of two need, is done with the
least counterexample: `LeastNat` says that a set of naturals that is not empty has a
least element, and follows from the well-founded order on the naturals; a proof
supposes that the property fails for some number and takes the smallest.

Only model-checked, and why. Liveness (`RequestRuns`, `JoinReturns`,
`ShutdownCompletes`, `SignalCycleEnds`, `TerminatedUnblocks`,
`FreeMutexIsTakenUnlessTerminated`, `CollectionEnds`) is outside the prover's
reach. `GCHeap`: an operation of the heap is a composition of up to ten changes of the
table, the lists, the regions and the counters, which break the invariants and
restore them together, so that each needs lemmas of its own about the states in
between; they are not written.

## 6. Plan

1. Proofs: the steps of `GCHeap` that are not folds (`Split`, `AddToFreeList`,
   `Alloc` from a free list) as lemmas that preserve `BoundaryTags` and
   `FreeListsExact`; an abstract collector, a set of objects of which only
   unreachable ones leave, that `IncrementalGC` implements.
2. The memory status of `GCHeap` and its callbacks, which run without the lock and
   may allocate, free and remove callbacks; an abstract heap, a map from addresses
   to sizes, that `GCHeap` implements.
3. `Aggregate` extended by reference counts and `cleanupIsolate`, and by
   descriptor reuse after wrap-around; composed with `MutexCondition` for the
   release of active resources at shutdown.
4. Large objects and `abortInProgressMarking` in `IncrementalGC`; the ZCT under it.
5. Channels: the buffer between two isolates and the lifetime of shared objects.

Not modelled, and not planned: the verifier, interpreter and code generators as a
whole (their correctness is about the data of some 170 opcodes), the ABC parser,
string, XML, regular expression, date and number libraries (conversions of data),
the collection policy (floating-point tuning), the profiler and debugger, and
vendored or generated code. They make up most of the source, which is why the map
covers the state machines of the VM and only a small share of its lines.
