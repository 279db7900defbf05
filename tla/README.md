# SimpleTaskSystem in TLA+

This directory specifies, model-checks and proves properties of the scheduler in
`src/libs/simpleTaskSystem`: a pool of tasks with dependencies, worker threads
that execute them on fibers, the queues between them, and the parallel
algorithms on top.  The modules are written from the source; every definition
that stands for code is listed with its lines in `PROJECT.json` under "map".

## The system

| Part | State | Operations | Talks to |
| --- | --- | --- | --- |
| `Task`, `TaskHandle` | `m_numberOfChildTasks` (atomic), function, three dependant handles, storage | `CreateNewTask`, `AddDependants`, `SetTaskFunction`, `Run`, `UpdateDependecies`, `Clear` | clients through `ITaskHandle`; worker instances |
| `TaskAllocator`, `TaskFiberAllocator` | the objects and a free list that starts full | allocate, release, "all released" | `LockFreePtrQueue` |
| `LockFreePtrQueue` | ring of pointers, read / write / committed counters (atomic, 32 bits) | `PushBack`, `PopFront`, `GetCurrentSize` | any thread |
| `LockBasedPtrQueue`, `SpinLock` | ring, two counters, an atomic flag | `PushBack`, `PopFront`, `PopBack`, `GetCurrentSize` | any thread |
| `TaskWorkerInstance`, `TaskFiber` | pending tasks, suspended fibers, current fiber, "converted" flag; per fiber: state, task, parent | one execution step, conversion of a thread, suspension, flush | its thread, the dispatcher |
| `Dispatcher` | the registered instances | dispatch, redispatch, steal | instances, worker events |
| `TaskWorkerThread`, `TaskWorkersPool` | manual reset event, `m_shouldFinishWork` | main loop, wake up, finish | its instance |
| frontend / backend | the parts above, the helper instance | `SubmitTask`, `ReleaseTask`, `WaitUntil`, initialise, deinitialise | everything |
| `TaskBatch`, `ParallelForEach`, `ParallelMergeSort` | the tasks of one call | fork, wait, join, release | `ITaskSystem` only |
| `TaskStorageWriter`, `TaskStorageReader`, `BufferWrapper`, `LambdaTaskMaker` | the bytes inside a task, an offset | write, read, checked or chained; a lambda as a task | the task they belong to |
| threading library | events, threads, fibers, atomics, locks | one call of the Windows API each | the above |

A task is created, wired, submitted and, when its counter reaches 1, dispatched
to the pending queue of a worker instance (`SubmitTask` does it, or the worker
that finishes the last prerequisite).  The thread of the instance takes it (or
another instance steals it), switches to a task fiber that runs its function,
and then decrements the counters of its dependants.  A function that calls
`WaitUntil` leaves its fiber suspended; the instance resumes it later.  The main
thread, or any other that is not a worker, drives the one helper instance for the
time of its `WaitUntil`: it is converted to a fiber, works, is converted back, and
then hands what is left in the instance to the workers.

What is hard, and which properties answer for it:

* *Tasks.*  One atomic counter carries three meanings (still waiting, ready,
  finished with or without an error) and is decremented by several threads; the
  end of a task is published before its dependants have been read; tasks are
  used again.  `CounterIsExact`, `DispatchedTasksAreReady`,
  `ExecutedAtMostOnce`, `PrerequisitesFinishFirst`, `ResultIsStable`,
  `EventuallyExecuted`.
* *Queues and pools.*  A slot is reserved, written and published in three steps
  and read before it is claimed; counters wrap onto the same slots.
  `ImplementsPtrQueue`, `SlotsAreExclusive`, `SizeIsExact`,
  `NothingLostOrShared`, `ReleasesAreComplete`, `FailsOnlyWhenExhausted`,
  `EveryCallReturns`.
* *Running system.*  A fiber moves between queues, threads and instances; a
  worker sleeps on an event that is set and reset without a lock around the
  queue it stands for; stealing competes with the owner; waits are nested; the
  flush moves work while workers run; shutdown.  `FibersHaveOnePlace`,
  `CurrentFiberIsIdle`, `FibersReturnHome`, `SleepersHaveNoWork`,
  `ImplementsTaskGraph`, `NothingForgotten`, `EventuallyAllDone`, `AllFibersReleased`.
* *Helper instance.*  It serves one external thread after the other, keeps its
  current task fiber from one to the next, and has to leave each thread as it
  found it, be it a fiber or not.  `LeavesAsEntered`, `FibersReturnToTheirThread`,
  `OneThreadInside`, `NothingIsStranded`.
* *Algorithms.*  Recursive forking on a pool that may be used up, results that
  are passed in a union, two containers that swap roles, lambdas that refer to
  a frame.  `RangesAreSorted`, `TrueMeansSorted`, `AllTasksAreReleased`,
  `CalledAtMostOnce`, `ForEachFramesOutliveTheirTasks`, `CallsSucceed`.
* *Storage.*  It is used again without being cleared, a write that does not fit
  tells nobody, and results are written over the lambda that is running.
  `RoundTrip`, `LambdaIsIntact`.

The list of hazards, each at its line, is in `PROJECT.json`.

## Modules

    TaskGraph  <---- implemented by ----  TaskSystem
                                              |  one queue operation = one step,
                                              v  which is what these implement:
                                          PtrQueue
                                           ^    ^
                                        Queues  (one or the other)
                                           |    |
                            LockFreePtrQueue    LockBasedPtrQueue
                                  ^
                              FreeList

    TaskSystem <-- extended by --  TestPrograms (the unit tests, as programs)

    HelperInstance     the fibers and threads that TaskSystem leaves out

    TaskBatch  <-- extended by --  ParallelForEach, ParallelMergeSort

    TaskStorage        what a task carries

The theorems about `X` are in `XProofs`, those about `TaskBatch`, `ParallelForEach`,
`ParallelMergeSort` and `TaskStorage` in `ParallelToolsProofs`; `SequenceLemmas` has what
several proofs need to know about queues.

**`TaskGraph`** is `task.cpp`, `task.h`, `taskAllocator.cpp` and the client side of
the interface.  Variables: the counter, function and dependants of each task;
who holds its handle and whether it was submitted; which task each client is
dispatching; how many queue entries point to a task; for each fiber its task and
where it is in `Run`, `UpdateDependecies` and `OnFinishedTaskFiber`.  Every
atomic access to a counter is a step, and so is every slot that a fiber reads.
Which worker takes a pending task is left open.  `waits` (the edges that have
not yet notified a task) and `executions` are history variables.  What a client
may do is a constant: `SubmitOrder` ("dependantsFirst" or "any") and
`ReleaseTime` ("never", "finished": as soon as `IsFinished()` is true, or
"quiescent": once its fiber has let go of it).

**`LockFreePtrQueue`** has one action for each access to a shared counter or slot;
a `CompareExchange` loop is the action that fails and goes back to the load.
**`LockBasedPtrQueue`** has the `Exchange` that takes the lock, the look at the
counters, the access, and the `Store` that gives the lock back.  Counters are
numbers modulo `CounterModulus` in both.  **`PtrQueue`** is the queue that a
caller wants: a bounded sequence, with a slot that a push may have reserved.
A pop may report an empty queue only if it is empty, a push may be refused only
if the queue, with the reserved slots, is full.  **`Queues`** holds both, a behaviour
uses one of them, and maps either to `PtrQueue`: what a thread is doing (`Calls`) and the
entry that it has to push or has got (`Arguments`) are defined beside each queue's steps.
**`FreeList`** is a lock-free
queue that starts full, with clients that release only what they have
allocated: `TaskAllocator` and `TaskFiberAllocator`.

**`TaskSystem`** follows `taskWorkerInstance.cpp`, `dispatcher.cpp`,
`taskWorkerThread.cpp`, `backendTaskSystem.cpp` and `frontendTaskSystem.cpp`.
Each thread has a program counter (`pc`), the fiber it has switched to
(`running`) and the local variables of its loops.  A queue operation, an access
to an event, to a flag, or to a task counter is one step; a wake-up of all
workers is one `SetEvent` at a time.  A behaviour runs one of a set of programs:
how many workers, what each task submits and awaits, the dependants of every task,
the tasks that wait for a fence that the main thread raises between two
`WaitUntil`, and whether the system is destroyed in the end.  **`TestPrograms`**
translates the tests of `stsTests.cpp` into such programs (some tests make the same program),
and `MCTaskSystem` adds three of its own.  The hash that picks a primary instance is a free choice.  The
conversion of threads, logging and the storage of tasks are left out.

**`HelperInstance`** is the part of `taskWorkerInstance.cpp`, `frontendTaskSystem.cpp`
and `thisFiberHelpers.h` that `TaskSystem` leaves out: several external threads, some
of which may be fibers of their own program, call `WaitUntil` in turns.  A fiber that
a thread becomes has an identity that ends when the thread is converted back, and
`fiberParent` says which one a task fiber returns to.  The workers are one party that
takes tasks and fibers and gives them back; inside `WaitUntil` a thread may take
the parts of an execution step in any order, which is more than the code does.

**`TaskBatch`**, **`ParallelForEach`**, **`ParallelMergeSort`**: a pool of tasks that may
be used up, and the two algorithms as their calls and task functions execute
them.  `ParallelForEach` has a stack of frames for each thread.
`ParallelMergeSort` has both containers element by element.  `std::sort` is its
contract: any arrangement of the elements of the range that is in order, so that two sorts of
one range may differ.  `std::merge` takes a step for each element, as it may read the right
half from the container it writes, and other tasks run in between.

The caller is an external thread, so its `WaitUntil` may be refused (iTaskSystem.h:73, the case
of `Refuse` in `HelperInstance`): `FailToWait` and `FailToFinish` are parallelFor.h:71-72 and
parallelMergeSort.h:151-152.  The call then returns false, the destructor of its batch releases a
task that may be queued or running, and that task is "Abandoned": its references dangle and its own
tasks are not back in the pool.  `FramesOutliveTheirTasks` and `AllTasksAreReleased` have exactly
this case as their exception (`IsAbandoned`: `refused`, and the task released too early); without it TLC
finds both violated by such a return.  A task's own `WaitUntil` runs on a worker and is not refused.

**`TaskStorage`** is `bufferWrapper.h`, `taskStorageBuffer.h` and `lambdaTask.h` on one task that is created again and again.  A word in the storage
says which object it belongs to and where in it it is, so that a read of stale or
torn data shows.

`MCTaskGraph`, `MCTaskSystem`, `MCQueues`, `MCFreeList`, `MCParallelTools` and
`MCHelperInstance` give the constants their values for TLC.  `Queues` and
`MCParallelTools` hold two and three state machines side by side; a behaviour chooses
one and leaves the others alone.  A property of `MCParallelTools` that would hold of the
idle state machines for nothing is stated there for the chosen one only.

## Runs

`tlc -workers 2 -config <cfg> <module>`; the states are distinct states.

| Run | Module, cfg | States | What it shows |
| --- | --- | --- | --- |
| `graph` | `MCTaskGraph`, `TaskGraph.cfg` | 352 273 | Every graph of three tasks that a client builds, submits, releases and builds again, executed by two fibers: the safety properties, the inductive invariant `IInv`, and that what is complete gets executed |
| `graph_order` | `MCTaskGraph`, `TaskGraph_order.cfg` | violation | Submitting a prerequisite before its dependant: the dependant is dispatched by two threads |
| `graph_early` | `MCTaskGraph`, `TaskGraph_early.cfg` | violation | Releasing a task when `IsFinished()` says so, and using it again, lets the old execution notify the new dependants |
| `queues` | `MCQueues`, `Queues.cfg` | 415 792 (symmetry) | Both ring buffers implement `PtrQueue`; slots, commits and sizes are right |
| `pool` | `MCFreeList`, `FreeList_pool.cfg` | 377 810 | The pools hand nothing out twice and lose nothing, no release is refused, no call is stuck |
| `system` | `MCTaskSystem`, `TaskSystem.cfg` | 370 649 | Nine programs, from the first thread to the last `Join`: fibers, wake-ups, termination, and that no task is forgotten when all threads rest; with one worker, the system implements `TaskGraph` |
| `system_flush` | `MCTaskSystem`, `TaskSystem_flush.cfg` | 1 397 363 | The test `FlushingSuspendedTasks`: the end of a `WaitUntil` with suspended fibers and an empty fiber pool |
| `system_astray` | `MCTaskSystem`, `TaskSystem_astray.cfg` | violation | A flushed fiber is resumed before its new parent is set |
| `helper` | `MCHelperInstance`, `HelperInstance_pass.cfg` | 208 886 | Three external threads in and out of the helper instance, all of them fibers or none |
| `helper_fiber` | `MCHelperInstance`, `HelperInstance_fiber.cfg` | violation | With a plain thread and one that is a fiber, the second is converted to a thread on its way out |
| `tools` | `MCParallelTools`, `ParallelTools_pass.cfg` | 210 492 | Both algorithms on every pool of up to five tasks, with and without a `WaitUntil` that is refused; arguments, results and lambdas through one storage |
| `sort_odd` | `MCParallelTools`, `ParallelTools_sort_odd.cfg` | violation | An odd leaf length leaves the container unsorted |

### Bounds, and why they are enough

* *Graphs.*  Three tasks with two slots make the cases that differ: a chain, a
  task with two prerequisites, a prerequisite with two dependants, the same
  dependant twice, and a task that is used again while the others still run.  One
  client is enough for those.  The safety properties hold with two clients, too
  (2 360 000 states), which the run leaves out for the sake of liveness.
  The theorems below hold for any number of each.
* *Queues.*  Three threads on two slots: two producers at different stages, and
  a consumer; with four pushes every slot is used twice, which is what a stale
  slot or counter needs.  `CounterModulus = 8` is never reached by a sum of four
  writes and two slots: the counters do not wrap.  With `MaxWrites` above that,
  TLC finds the case of `m_readCounter + SIZE` wrapping before `m_writeCounter`
  does, in both queues: a queue that is not full refuses a push.  In the code
  that takes 2^32 - SIZE operations on one queue.
* *System.*  Two workers and the helper make every pair of an owner, a thief and
  a flush; `Nested` has them with a nested wait and somebody who depends on it, and
  `FlushingSuspendedTasks` with a pool of fibers that is used up (`NumFibers = 4`: one
  spare fiber).  In the other programs 5 fibers are enough for every
  suspension at once.  `ImplementsTaskGraph` is evaluated where a program has one
  worker besides the helper, as it is expensive: `Join` and `MaxDependenciesTest` have
  joins of two and three prerequisites, finished by two threads.  The theorem is for any number.
* *Helper instance.*  A thread that comes, one that comes after it, and one that is
  refused meanwhile; two calls each, so that a thread comes back to what
  another has left.  Two tasks and four fibers let the instance be left with
  a suspended fiber and a task at once.
* *Algorithms.*  Five elements on two workers give a tree whose right branch is
  deeper than its left one, so that the halves of the last merge lie in
  different containers; `Keys = {0, 1}` is enough to tell a wrong order and a lost
  element (the theorems are for any set of integers).  `MaxRanges = {0, 2}` are the even leaf lengths: 0 means fewer elements
  than workers, where splitting ends only when the pool is used up.  `CallsSucceed` has three parts:
  every call ends (`CallsEnd`), whatever its cut-off and pool and whether or not it is refused; and
  with enough tasks and no refusal either algorithm does what it promises.
* *Storage.*  Three words and objects of one to four: objects that fit together,
  that fit alone, that fit exactly and that never fit.  Two uses show what the
  first leaves behind.

### Fairness

* `TaskGraph!FairSpec`: weak fairness of every fiber, and of a dispatch that a
  client has begun.  Workers run until they are told to stop, and task functions
  return.  Clients are not fair: nothing makes them submit.  Nor is the choice of
  a task: an instance takes its newest one first (taskWorkerInstance.cpp:238), so
  with submissions that never end an old task may never have its turn, and
  `EventuallyExecuted` says so.
* `FreeList!FairPoolSpec`: a thread inside an operation keeps running.  A thread that
  waits for an earlier producer to publish is helped by that producer's fairness.
* `TaskSystem!FairSpec`: weak fairness of the main thread and of each worker thread,
  that is, the operating system schedules every thread that can go on.  A worker
  asleep on its event cannot, and nothing assumes that it wakes up by itself.
* `ForSpec`, `SortSpec`, `ToolsSpec`: some worker takes a step as long as one is possible.  The
  fairness is that of `ForStep`, `SortStep` and `ToolsStep`, which leave the refusals out: a call
  may be refused at any time it waits, and need never be.

Deadlock checking is off where the system really stops: after the main thread has
returned or the system has been shut down, after the last call of `WaitUntil`, and
after an algorithm has returned.

## Proofs

`tlapm <module>` for each of the eight modules below.  A theorem holds for every value of
the constants that satisfies the named assumptions of the model; these say what the code
takes for granted (a queue has a slot, a pool's queue has one for each object, `nullptr` is
no object, the widths are powers of two that the sizes divide, there is one task fiber more
than there are workers) and TLC evaluates each in a run.  Every theorem on a state is three facts, `Init => Inv`, `Inv /\ [Next]_vars => Inv'`,
`Inv => property`, with one lemma for each action or group of actions.

**`TaskGraphProofs`**, for any finite or infinite sets of tasks, fibers and clients: for a
`CarefulClient` (one that submits dependants first and does not release a task before its
fiber is done) `DispatchedTasksAreReady`, `ExecutedAtMostOnce`, `PendingAtMostOnce` (a task is
in one queue, once), `PrerequisitesFinishFirst`, `CounterIsExact`, the action property
`ResultIsStable`, and `NoneForgotten`: a task that has been submitted, waits for nothing and has
not been executed is in a queue, in a ready array or with a client that dispatches it.  Without that assumption they are false, which `graph_order` and
`graph_early` show.  The argument is one inductive invariant, `IInv`, which TLC checks in
`graph`.  None of the properties is inductive alone:

* `LifeInv`: a task in the pool is clear, and a task is not executed before it
  is complete.
* `CountInv`: the counter is the number of edges that still wait plus the task's
  own share; a task that waits has not been executed.
* `EdgeInv`: an edge waits exactly until its prerequisite, finished, has read the
  slot.  This ties the counter of the dependant to the progress of another
  task's fiber, and with "a submitted prerequisite has a submitted dependant" it
  is what makes the last decrement, and no other, find a complete task.
* `DispatchInv`: a task on its way to execution is ready, not executed, and in one
  place only (one queue entry, one client, or one slot of one ready array).
* `FiberInv`: a fiber has its task for itself, and what it has done shows.

For `NoneForgotten`, `ReadyArrays` adds that a fiber keeps a task in its ready array only as long as
its loop has still to dispatch it.

**`LockFreePtrQueueProofs`**, for any number of threads, any size and any width:
`SlotsAreExclusive`, from `RingInv`: read, committed and write counter are in this order and
within `Size`; every counter from the committed one up to the write counter belongs to one
push; a push that is about to reserve has looked at a read counter that can only have grown;
and the slots in use keep what was stored.  That two reserved counters mean two slots is
arithmetic: they differ by less than `Size`.

**`QueuesProofs`**: both ring buffers implement `PtrQueue` (`ImplementsPtrQueueCorrect`), and
`SizeIsExact`.  For the lock-free queue a push takes effect where the committed counter
moves, and a pop where it claims its counter, as then the slot it has read before
is still the first one (`RingInv`); a refusal and an empty return take effect where the
counters are compared.  For the lock-based queue the step is the one between the `Exchange` and
the `Store`, as the spin lock excludes (`LockInv`) and what a thread has found out
under it stays true.  This is what lets `TaskSystem` take a queue operation as one step.

**`FreeListProofs`**, for any number of threads and objects: `NothingLostOrShared`,
`ReleasesAreComplete`, and the action property `FailsOnlyWhenExhausted`.  To `RingInv` the
invariant adds where each object is: in a slot in use, in the hands of the push
that brings it back, or allocated, and in one of these only.  A bijection between objects and
places then gives that a release always finds room (`RoomForOutside`) and that the
pool is full exactly when nothing is outside.

The queue and pool theorems that depend on the counters are about behaviours in which no
counter has wrapped: `NoWrap` says that the pushes so far, plus `Size`, are below
`CounterModulus`.  Type correctness and `SizeIsExact` are proved without it.  It is not
a matter of taste: TLC finds the case in which a queue that is not full refuses a push once
`m_readCounter + SIZE` wraps (see the bounds), and `Queues.cfg` stays below it.

**`HelperInstanceProofs`**, for any number of threads, fibers and calls: `OneThreadInside`,
`FibersReturnToTheirThread`, `NothingIsStranded`, and, for a program that makes fibers of all
its threads that call `WaitUntil` or of none (`UniformUse`), `LeavesAsEntered`; `helper_fiber`
shows that it is false for others.  The invariant says that at most one thread is neither idle nor
refused, that every fiber of the instance, current, suspended or switched to, has that
thread's present fiber as its parent, and that each fiber has one place.  `UniformUse`
adds that the flag of the instance, which is never reset, is right by chance:
`ConvertedOnlyIfNeeded`.

**`ParallelToolsProofs`**: for `ParallelForEach`, any number of elements, any cut-off and any
pool, `CalledAtMostOnce` and `FramesOutliveTheirTasks`, with the exception above (`RangesAreShared`: the ranges of
calls that have not begun and of tasks that have not run are disjoint, and nothing in them has been
called); for `ParallelMergeSort`, `AllTasksAreReleased` (`OwnersInv`: a task that is not free
belongs to one batch, and going from a task to its owner ends at the call; "ends"
is stated without recursion, as: no non-empty set of tasks has all its owners in
itself; a call that is refused to wait may leave that invariant for `CallIsLost`, where it has
returned false and tasks are left behind, and nothing happens any more), and `RangesAreSorted` and `TrueMeansSorted` for a container of any length and keys, see
below; for `TaskStorage`, any sizes, `RoundTrip` and `LambdaIsIntact` (`OffsetsAgree`: the
reader is where the writer was, so what has been written and not been read
is there word by word, whatever earlier uses left).  `ToolsTypeOK` is proved from the three
invariants.

What `ParallelMergeSort` does to the containers is `SortInv` (`LostInv` after a refusal: what was
sorted stays so).  That nothing is lost is counted:
each key occurs in a range as often as in the input.

* A task holds its range until it has submitted two halves of it, which lie side by side.  No two
  tasks hold the same place (`HoldersAreDisjoint`), so none writes where another one reads.
* The range of a task that has not run is still what it was in the input, place by place
  (`UnsortedIsInput`); that of a task that has returned true is in order, in the container it names.
* While a task merges, what it has written is in order, no key in it is greater than one of those
  still to be taken, and together with those it has each key as often as the input (`MergeAgrees`,
  `AreMerged`).  The place it writes is never past the next one of the right half, so
  what is still to be read is not overwritten even if both are in one container.
* `LevelsInv`: the parity of what a task returns as `m_levels` tells the container, which
  `TrueMeansSortedCorrect` needs.  It holds only if `MAX_RANGE`, up to which a range is not split, is even: the hypothesis of that
  theorem (`\A m \in MaxRanges : m % 2 = 0`); `sort_odd` shows that the code needs it.
  `RangesAreSortedCorrect` does not.

**`TaskSystemProofs`**, for every program, any number of workers, tasks and fibers:
`TypeOK`, `FibersHaveOnePlace` (run in `system_flush` only, where fibers move most),
`SleepersHaveNoWork`, and `CurrentFiberIsIdle`.  `SystemInv` has four parts:

* `Typed` and `Contents`: where a thread is in its step decides whether it is on a fiber, and
  a fiber that is not idle has a task and a function on its stack.
* `Placed`: the fibers of the free list, and those that each instance and its thread hold,
  are disjoint, without repetition, and all there are.
* `Awaited`: work that a worker will not look at before it sleeps has been announced, where
  announced means that its event is set or that a thread is on its way to set it.  It is
  stated for each step of the loop, as what the worker has still to look at
  depends on where it is: between `Reset` and the look at the queues nothing need be
  announced, after it everything.  `isThereMoreWork` counts as an announcement to itself.

`CurrentFiberIsIdle` needs that a suspension finds a free fiber: without one,
taskWorkerInstance.cpp keeps the current fiber and gives it the next task.  The
theorem is about behaviours with `[]PoolSuffices` (see below for when that holds).  TLC finds that `PoolSuffices` always holds in
the programs of `TaskSystem.cfg`, and fails in that of `TaskSystem_flush.cfg`, which has one spare
fiber; with six fibers it holds there, too.

The running system implements the task graph (`ImplementsTaskGraphCorrect`).  `TaskSystem` has
no variable of its own for the graph: `GraphSubmitted`, `GraphPending`, `GraphFiberStates` and
so on compute it from queues, fibers, stacks and the variables of the threads.  The argument:

* `Linked`: the free and the current fibers have no task, and no two fibers have the same one;
  `Stepping`: a thread that calls the dispatcher or notifies dependants has the task, the index
  and the ready array of that call.
* `EveryStep`: every step of every thread is quiet, that is, leaves alone everything the
  graph is computed from, or is one of ten steps on a task (`TaskStep`).
* `QuietGraph`: a quiet step leaves the graph as it is, so a theft, a suspension, a resumption
  and a hand-over to the helper instance are nothing to the graph.  The flush is not quiet,
  but `FlushTaskGraph` and `FlushDispatchGraph` show that the task stays pending in between.
* For each other step one lemma, `...Graph`, that it is the step of that name of `TaskGraph`.
  The guards of `TaskGraph` that the code does not check come from the invariant of
  `TaskGraph` in the state before, by `GraphReady`: they are the assertions of task.cpp and
  dispatcher.cpp.
* `GraphInvariantStep`: that invariant is preserved, by the proof in `TaskGraphProofs`, of which
  `GraphProofs` is the instance with the mapped variables.  The two arguments depend on each
  other: the refinement needs the invariant, and the invariant the refinement.
* `Known`: where the client submits dependants first, a task that is submitted has only
  dependants that have been submitted before.

The hypotheses are those the code needs.  `ClientsSubmitDependantsFirst` is what
`graph_order` shows to be necessary; TLC evaluates it for the programs of each run.
`[]PoolSuffices`, as above.  `[]FibersReturnHome`: after the step that `system_astray` finds,
the model has no more to say of that thread.  `HasOneWorker` in the property is there for the sake
of TLC: `GraphSystemInvCorrect` has it without.  `GraphOfTheSystemCorrect` carries
the properties of the graph over to the system.

When do the two temporal hypotheses hold?  Each follows from one on the programs:

* `EnoughFibers`: the pool has a fiber for every instance and one for every task that waits for
  something (128 fibers in the code, common.h:19, and `ASSERT( false )` if a client needs more).  Then
  `PoolSufficesCorrect`, by counting: a fiber is suspended, or about to be, only with a task that
  waits (`OnlyWaitersWait`), and no two fibers have the same task; if the free list were empty
  when a current fiber is suspended, all fibers would be those of waiting tasks or the current
  ones of the *other* instances, which are too few.
* `MainEndsLast`: what the main thread waits for is finished only after all tasks that wait.
  It is stated of the graph: every set of tasks that holds what the main thread waits for, and
  with a task its prerequisites and what it waits for, holds all tasks that wait.  In
  the system the set of finished tasks is such a set (`FinishedIsClosed`: a task that has finished
  waits for no prerequisite, by the invariant of the graph, and has got what it waited for,
  by `Waited`).  So when the condition of `WaitUntil` holds, no task is suspended and the flush of
  the helper instance finds no fiber (`NothingSuspended`).  Then all steps are of the kind
  `OwnMove`: no fiber goes from one thread to another, and the parent of each is its thread
  (`AtHome`).

With the three hypotheses on programs, and nothing else, `FibersReturnHome`, `AllFibersReleased`
(`FibersReturnHomeCorrect`, `AllFibersReleasedCorrect`), `CurrentFiberIsIdle` and
`ImplementsTaskGraph` (`CurrentFiberIsAlwaysIdle`, `AlwaysImplementsTaskGraph`) hold for any number
of workers.  The nine programs of `TaskSystem.cfg` satisfy them; those of `system_flush` and
`system_astray` do not satisfy `MainEndsLast`, and that of `system_flush` not `EnoughFibers` (the
assumptions of `MCTaskSystem` say so, and TLC evaluates them).  `MainEndsLast` excludes the
fence, too, as the fence exists to have a `WaitUntil` end while a task is suspended.

No task is forgotten (`NothingForgottenCorrect`): when the main thread has returned and every worker
sleeps on an event that is not set (`AtRest`), every task that has been submitted has finished.
This is where the parts meet:

* Every queue is empty: those of a worker by `SleepersHaveNoWork`, those of the helper instance
  since its flush, which the main thread has behind it (`Emptied`).  So by `Placed` and `Linked`
  no fiber has a task, and nothing is dispatched.
* Every task has been submitted by whoever submits it and has finished (`AllSubmitted`).
* Of the tasks that have not finished take, by `NoCycles`, one that none of the others submits or
  has to notify.  It has been submitted and waits for nothing, so by `NoneForgotten` it is
  dispatched: a contradiction.

`NoCycles` is a hypothesis on the programs that TLC evaluates in every run of `MCTaskSystem`; a client
that makes a cycle waits for ever by its own fault.  What tasks wait for inside their functions
does not matter here, as a task that waits keeps its fiber.  `NothingIsEverForgotten` has the four
hypotheses on programs and no temporal one.

### Only model-checked

* Liveness under fairness (`EventuallyExecuted`, `EveryCallReturns`, `CallsSucceed`,
  `EventuallyAllDone`): out of the prover's reach.  What `EventuallyAllDone` says of a system that has
  come to rest is proved, as `NothingForgotten`; that it comes to rest is not.
* `AllFibersReleased` without `MainEndsLast` (a shutdown while a task waits violates it) and
  `FibersReturnHome` without it (`system_astray`) do not hold, so there is nothing to prove.

## What the violations say

* `graph_order`: `SubmitTask` reads the counter of a task (backendTaskSystem.cpp:65)
  while a worker that finishes a prerequisite decrements it.  If the prerequisite
  has been submitted first, as the test at stsTests.cpp:420 does, both dispatch
  the task: the assertion of dispatcher.cpp:40 fails or the task runs twice.
* `graph_early`: the counter drops to 0 in `Run` (task.cpp:40) before
  `UpdateDependecies` reads the dependants, so "IsFinished" is too early for a
  release that is followed by a new use.
* `system_astray`: `TakeOwnershipOfSuspendedTaskFiber` queues the fiber before it
  calls `Setup` (taskWorkerInstance.cpp:292-295).
* `helper_fiber`: `m_convertedToFiberByThisWorkerInstance` is set when the instance
  converts a thread (taskWorkerInstance.cpp:41) and never reset, so every later
  thread is converted to a thread on its way out (line 61), also one that was a fiber
  before it called `WaitUntil`.
* `sort_odd`: the leaf increments `m_levels` in a union that still holds `MAX_RANGE`
  (parallelMergeSort.h:74), so the parity at line 161 is inverted when `MAX_RANGE`
  is odd.

Seen while modelling and not kept as runs; each takes one change of a
configuration:

* `\/ IsAbandoned(t)` taken out of `FramesOutliveTheirTasks`, or `\/ \E t \in Tasks : IsAbandoned(t)`
  out of `AllTasksAreReleased`: a refused `WaitUntil` violates them, see above.
* `INVARIANT TrueMeansDone` in `ParallelTools_pass.cfg`: `ParallelForEach` returns
  true although elements were not processed, when the first half could not
  create its task (parallelFor.h:68); a cut-off of 1 or 2 leads there by itself.
* `MaxWrites = 8` in `Queues.cfg`: the wrap described under the bounds.
* `NestedAwaitsInner` with `shutsDown` in the programs of `TaskSystem.cfg`: a system that
  is shut down while a task waits does not get all fibers back
  (`AllFibersReleased`, the assertion of taskFiberAllocator.h:37).

## Not modelled

* Two external threads that overlap on their way in or out of `WaitUntil`.  The code
  says in its log that this is not supported (frontendTaskSystem.cpp:68) and checks
  without a lock; `MayCall` of `HelperInstance` keeps it out.  A call that
  meets a thread inside the loop, and is refused, is modelled.
* `StaticTaskTreeTest` and `DynamicTaskTreeTestWithLambdas2` are in `TestPrograms` and not
  run: they submit prerequisites first (`TestsAssumption` of `MCTaskSystem`), which is what
  `graph_order` is about.  The tests of queues, pools, algorithms and fibers are sequences
  of calls that the modules of those have among their behaviours; the threads that the queue
  tests start and join, and what they assert in the end, are not modelled.
* What a task does after its batch has released it while it was queued or running, which a refused
  `WaitUntil` of its caller leads to.  `Task::Clear` asserts that there is no such task (task.h:129); it
  uses variables of a function that has returned.
* In `TaskSystem`, a flush takes a fiber from the helper instance (`PopBack`,
  taskWorkerInstance.cpp:280) and puts it into the queue of its new instance (line 292) in one step.
  In between only the flushing thread knows the fiber, and no property depends on that; lines 292
  and 295, between which others see it, are two steps.
* `Mutex`, `ConditionVariable` and `FunctorThread`, which only tests use, and the plain
  flag of `ManualResetEvent`, which nobody reads.  Each is one call of the Windows
  API; there is no state of the repository's own to model.
* Memory order: atomics are sequentially consistent here.  The code targets x86,
  where a load acquires and a store releases, and every compare-exchange is a
  full barrier.
* `m_shouldFinishWork` is a plain `bool` written by one thread and read by another;
  it is taken as an atomic one, as the compiler must reload it after the calls
  in the loop.
* The wrap of 32-bit counters (see the bounds), captures of a lambda that own
  something (the lambda is copied as bytes), timers, assertions as such, logging.

## State of the plan

Done: the task graph and its invariant, the queues and pools and that they implement
what their users take them for, the running system with the programs of its tests, the
helper instance, the algorithms, the storage, and the proofs above.  Every safety
property of a passing run is a theorem, most without a hypothesis and the others with those
named above.  Left to TLC is liveness, and left out is what "Not modelled" lists.
