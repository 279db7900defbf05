---------------------------- MODULE HelperInstance ----------------------------
(***************************************************************************)
(* The helper worker instance and the external threads that take turns in  *)
(* it: every WaitUntil that is not called from a task converts its thread  *)
(* to a fiber, unless the thread is one already because its program uses   *)
(* fibers itself, works for the instance, converts the thread back and     *)
(* flushes what the instance has left.                                     *)
(*                                                                         *)
(* Module TaskSystem has one such thread and all of the workers' control.  *)
(* Here the workers are one pool of task fibers, a thread in WaitUntil may *)
(* do the parts of an execution step in any order, and a condition may     *)
(* hold at any time.  The fiber that a thread becomes has an identity of   *)
(* its own, which is void when the thread is converted back.               *)
(***************************************************************************)
EXTENDS Integers, Sequences, FiniteSets, Functions

CONSTANTS
    Threads,        \* External threads.
    FiberUsers,     \* The sets of threads that may be the ones that use fibers themselves.
    NoThread, NoFiber, Worker,
    NumFibers,      \* Task fibers in the pool.
    MaxCalls,       \* Bound: how often a thread calls WaitUntil.
    MaxPending      \* Bound: tasks in the queue of the helper instance.

ASSUME ThreadsAssumption == IsFiniteSet(Threads) /\ NoThread \notin Threads
ASSUME FiberUsersAssumption == FiberUsers \subseteq SUBSET Threads
ASSUME BoundsAssumption ==
    /\ NumFibers \in Nat \ {0} /\ MaxCalls \in Nat /\ MaxPending \in Nat
    /\ NoFiber \notin 1 .. NumFibers

Fibers == 1 .. NumFibers

\* The identities of the fibers that threads are: <<thread, call>>.
ThreadFibers == Threads \X (0 .. MaxCalls)

\* NULL is no fiber's address.
ASSUME NoFiberAssumption == NoFiber \notin ThreadFibers

VARIABLES
    ownFibers,      \* The threads that the program itself has converted to fibers.
    threadFiber,    \* The fiber that a thread is, NoFiber if it is not converted.
    calls,          \* How often a thread has called WaitUntil.
    pc,
    running,        \* The task fiber that a thread has switched to.
    m_convertedToFiberByThisWorkerInstance,
    m_convertedFlag,
    m_thisFiberID,
    m_convertedThreadID,
    m_currentFiber,
    m_suspendedTaskFibers,
    m_pendingTaskQueue,     \* How many tasks are in the queue.
    fiberParent,    \* m_parentFiberID of a task fiber, Worker: one of the workers'.
    freeFibers,     \* The free list of the TaskFiberAllocator, as a set.
    workersFibers   \* The task fibers that are with the workers.

threadVars   == <<ownFibers, threadFiber, calls>>
convertVars  == <<m_convertedToFiberByThisWorkerInstance, m_convertedFlag, m_thisFiberID,
                  m_convertedThreadID>>
queueVars    == <<m_suspendedTaskFibers, m_pendingTaskQueue>>
poolVars     == <<fiberParent, freeFibers, workersFibers>>
vars == <<threadVars, pc, running, convertVars, m_currentFiber, queueVars, poolVars>>

\* The identities of the fibers that a thread is: its own, or the one of a call.
OwnFiber(e) == <<e, 0>>
CallFiber(e) == <<e, calls[e]>>

\* The instance has taken its first fiber.
Init ==
    /\ ownFibers \in FiberUsers
    /\ threadFiber = [e \in Threads |-> IF e \in ownFibers THEN OwnFiber(e) ELSE NoFiber]
    /\ calls = [e \in Threads |-> 0]
    /\ pc = [e \in Threads |-> "Idle"]
    /\ running = [e \in Threads |-> NoFiber]
    /\ m_convertedToFiberByThisWorkerInstance = FALSE
    /\ m_convertedFlag = FALSE
    /\ m_thisFiberID = NoFiber
    /\ m_convertedThreadID = NoThread
    /\ m_currentFiber = 1
    /\ m_suspendedTaskFibers = <<>>
    /\ m_pendingTaskQueue = 0
    /\ fiberParent = [f \in Fibers |-> NoFiber]
    /\ freeFibers = Fibers \ {1}
    /\ workersFibers = {}

GoTo(e, step) == pc' = [pc EXCEPT ![e] = step]

IsConvertedToWorkerInstance == m_convertedFlag /\ m_thisFiberID # NoFiber

\* The steps of a thread in the loop of WaitUntil.
Inside == {"Loop", "OnFiber"}

-----------------------------------------------------------------------------
(***************************************************************************)
(* Into WaitUntil.                                                         *)
(***************************************************************************)

\* "Calling ConvertMainThreadToWorker from two different threads?"  A call must not
\* meet another thread on its way in or out.  One that meets a thread inside fails.
MayCall(e) == \A o \in Threads \ {e} : pc[o] = "Idle" \/ pc[o] \in Inside

\* WaitUntil checks whether the instance is in use.
WaitUntil(e) ==
    /\ pc[e] = "Idle" /\ calls[e] < MaxCalls /\ MayCall(e)
    /\ calls' = [calls EXCEPT ![e] = @ + 1]
    /\ ~IsConvertedToWorkerInstance /\ GoTo(e, "Convert")
    /\ UNCHANGED <<ownFibers, threadFiber, running, convertVars, m_currentFiber, queueVars,
                   poolVars>>

\* WaitUntil returns false.
Refuse(e) ==
    /\ pc[e] = "Idle" /\ calls[e] < MaxCalls /\ MayCall(e)
    /\ calls' = [calls EXCEPT ![e] = @ + 1]
    /\ IsConvertedToWorkerInstance
    /\ UNCHANGED <<ownFibers, threadFiber, pc, running, convertVars, m_currentFiber, queueVars,
                   poolVars>>

\* ConvertThreadToFiber, for a thread that is not a fiber.
ConvertThreadToFiber(e) ==
    /\ pc[e] = "Convert"
    /\ GoTo(e, "Setup")
    /\ \/ /\ threadFiber[e] = NoFiber
          /\ threadFiber' = [threadFiber EXCEPT ![e] = CallFiber(e)]
          /\ m_convertedToFiberByThisWorkerInstance' = TRUE
       \/ /\ threadFiber[e] # NoFiber
          /\ UNCHANGED <<threadFiber, m_convertedToFiberByThisWorkerInstance>>
    /\ UNCHANGED <<ownFibers, calls, running, m_convertedFlag, m_thisFiberID,
                   m_convertedThreadID, m_currentFiber, queueVars, poolVars>>

\* Mutant: the current fiber is set up for the first thread only.
SetupOnce(e) ==
    /\ pc[e] = "Setup"
    /\ GoTo(e, "Loop")
    /\ m_thisFiberID' = threadFiber[e]
    /\ fiberParent' = IF fiberParent[m_currentFiber] # NoFiber THEN fiberParent
                      ELSE [fiberParent EXCEPT ![m_currentFiber] = threadFiber[e]]
    /\ m_convertedThreadID' = e
    /\ m_convertedFlag' = TRUE
    /\ UNCHANGED <<threadVars, running, m_convertedToFiberByThisWorkerInstance,
                   m_currentFiber, queueVars, freeFibers, workersFibers>>

\* The rest of ConvertToWorkerInstance: the current task fiber gets this thread's fiber
\* as its parent, and the flag tells that the instance is in use.
Setup(e) ==
    /\ pc[e] = "Setup"
    /\ GoTo(e, "Loop")
    /\ m_thisFiberID' = threadFiber[e]
    /\ fiberParent' = [fiberParent EXCEPT ![m_currentFiber] = threadFiber[e]]
    /\ m_convertedThreadID' = e
    /\ m_convertedFlag' = TRUE
    /\ UNCHANGED <<threadVars, running, m_convertedToFiberByThisWorkerInstance,
                   m_currentFiber, queueVars, freeFibers, workersFibers>>

-----------------------------------------------------------------------------
(***************************************************************************)
(* In WaitUntil: parts of PerformOneExecutionStep.                         *)
(***************************************************************************)

\* A suspended fiber is switched to.
ResumeFiber(e) ==
    /\ pc[e] = "Loop" /\ m_suspendedTaskFibers # <<>>
    /\ GoTo(e, "OnFiber")
    /\ running' = [running EXCEPT ![e] = Head(m_suspendedTaskFibers)]
    /\ m_suspendedTaskFibers' = Tail(m_suspendedTaskFibers)
    /\ UNCHANGED <<threadVars, convertVars, m_currentFiber, m_pendingTaskQueue, poolVars>>

\* ExecuteSingleTask, of a task from the queue or of one that a worker had.
ExecuteSingleTask(e) ==
    /\ pc[e] = "Loop"
    /\ GoTo(e, "OnFiber")
    /\ running' = [running EXCEPT ![e] = m_currentFiber]
    /\ m_pendingTaskQueue' = IF m_pendingTaskQueue > 0 THEN m_pendingTaskQueue - 1 ELSE 0
    /\ UNCHANGED <<threadVars, convertVars, m_currentFiber, m_suspendedTaskFibers, poolVars>>

\* A task function submits a task, from the thread that the instance belongs to.
SubmitTask(e) ==
    /\ pc[e] = "OnFiber" /\ m_pendingTaskQueue < MaxPending
    /\ IsConvertedToWorkerInstance /\ m_convertedThreadID = e
    /\ m_pendingTaskQueue' = m_pendingTaskQueue + 1
    /\ UNCHANGED <<threadVars, pc, running, convertVars, m_currentFiber, m_suspendedTaskFibers,
                   poolVars>>

\* The function returns, and a fiber that had been suspended goes back to the pool.
FinishTask(e) ==
    LET f == running[e]
    IN  /\ pc[e] = "OnFiber"
        /\ GoTo(e, "Loop")
        /\ running' = [running EXCEPT ![e] = NoFiber]
        /\ \/ f = m_currentFiber /\ UNCHANGED poolVars
           \/ /\ f # m_currentFiber
              /\ freeFibers' = freeFibers \cup {f}
              /\ fiberParent' = [fiberParent EXCEPT ![f] = NoFiber]
              /\ UNCHANGED workersFibers
        /\ UNCHANGED <<threadVars, convertVars, m_currentFiber, queueVars>>

\* The function waits for something.  The current fiber is replaced by a free one; the
\* pool is not used up here, which TaskSystem has.
SuspendTask(e) ==
    LET f == running[e]
    IN  /\ pc[e] = "OnFiber"
        /\ GoTo(e, "Loop")
        /\ running' = [running EXCEPT ![e] = NoFiber]
        /\ m_suspendedTaskFibers' = Append(m_suspendedTaskFibers, f)
        /\ \/ f # m_currentFiber /\ UNCHANGED <<m_currentFiber, poolVars>>
           \/ /\ f = m_currentFiber
              /\ \E new \in freeFibers :
                    /\ m_currentFiber' = new
                    /\ freeFibers' = freeFibers \ {new}
                    /\ fiberParent' = [fiberParent EXCEPT ![new] = m_thisFiberID]
              /\ UNCHANGED workersFibers
        /\ UNCHANGED <<threadVars, convertVars, m_pendingTaskQueue>>

-----------------------------------------------------------------------------
(***************************************************************************)
(* Out of WaitUntil.                                                       *)
(***************************************************************************)

\* Mutant: the instance forgets the thread but not that it is converted.
LeaveConverted(e) ==
    /\ pc[e] = "Loop" /\ IsConvertedToWorkerInstance
    /\ GoTo(e, "FlushFibers")
    /\ threadFiber' = IF m_convertedToFiberByThisWorkerInstance
                      THEN [threadFiber EXCEPT ![e] = NoFiber] ELSE threadFiber
    /\ m_convertedThreadID' = NoThread
    /\ UNCHANGED <<ownFibers, calls, running, m_convertedToFiberByThisWorkerInstance,
                   m_convertedFlag, m_thisFiberID, m_currentFiber, queueVars, poolVars>>

\* Mutant: the thread is left a fiber.
StayFiber(e) ==
    /\ pc[e] = "Loop" /\ IsConvertedToWorkerInstance
    /\ GoTo(e, "FlushFibers")
    /\ m_thisFiberID' = NoFiber
    /\ m_convertedThreadID' = NoThread
    /\ m_convertedFlag' = FALSE
    /\ UNCHANGED <<threadVars, running, m_convertedToFiberByThisWorkerInstance,
                   m_currentFiber, queueVars, poolVars>>

\* The condition holds: ConvertToNormalThread.
ConvertToNormalThread(e) ==
    /\ pc[e] = "Loop" /\ IsConvertedToWorkerInstance
    /\ GoTo(e, "FlushFibers")
    /\ threadFiber' = IF m_convertedToFiberByThisWorkerInstance
                      THEN [threadFiber EXCEPT ![e] = NoFiber] ELSE threadFiber
    /\ m_thisFiberID' = NoFiber
    /\ m_convertedThreadID' = NoThread
    /\ m_convertedFlag' = FALSE
    /\ UNCHANGED <<ownFibers, calls, running, m_convertedToFiberByThisWorkerInstance,
                   m_currentFiber, queueVars, poolVars>>

\* Mutant: one fiber is flushed.
FlushOneFiber(e) ==
    LET queue == m_suspendedTaskFibers
    IN  /\ pc[e] = "FlushFibers"
        /\ GoTo(e, "FlushTasks")
        /\ \/ queue = <<>> /\ UNCHANGED <<m_suspendedTaskFibers, poolVars>>
           \/ /\ queue # <<>>
              /\ m_suspendedTaskFibers' = SubSeq(queue, 1, Len(queue) - 1)
              /\ workersFibers' = workersFibers \cup {queue[Len(queue)]}
              /\ fiberParent' = [fiberParent EXCEPT ![queue[Len(queue)]] = Worker]
              /\ UNCHANGED freeFibers
        /\ UNCHANGED <<threadVars, running, convertVars, m_currentFiber, m_pendingTaskQueue>>

\* FlushAllPendingAndSuspendedTasks: the fibers, each to a worker that becomes its
\* parent; then the tasks.
FlushFibers(e) ==
    LET queue == m_suspendedTaskFibers
    IN  /\ pc[e] = "FlushFibers"
        /\ \/ queue = <<>> /\ GoTo(e, "FlushTasks") /\ UNCHANGED <<m_suspendedTaskFibers, poolVars>>
           \/ /\ queue # <<>>
              /\ m_suspendedTaskFibers' = SubSeq(queue, 1, Len(queue) - 1)
              /\ workersFibers' = workersFibers \cup {queue[Len(queue)]}
              /\ fiberParent' = [fiberParent EXCEPT ![queue[Len(queue)]] = Worker]
              /\ UNCHANGED <<pc, freeFibers>>
        /\ UNCHANGED <<threadVars, running, convertVars, m_currentFiber, m_pendingTaskQueue>>

FlushTasks(e) ==
    /\ pc[e] = "FlushTasks"
    /\ \/ m_pendingTaskQueue = 0 /\ GoTo(e, "Idle") /\ UNCHANGED m_pendingTaskQueue
       \/ /\ m_pendingTaskQueue > 0
          /\ m_pendingTaskQueue' = m_pendingTaskQueue - 1
          /\ UNCHANGED pc
    /\ UNCHANGED <<threadVars, running, convertVars, m_currentFiber, m_suspendedTaskFibers,
                   poolVars>>

-----------------------------------------------------------------------------
(***************************************************************************)
(* The workers.                                                            *)
(***************************************************************************)

\* Mutant: the queue is not found empty.
StealFromEmpty ==
    /\ m_pendingTaskQueue' = m_pendingTaskQueue - 1
    /\ UNCHANGED <<threadVars, pc, running, convertVars, m_currentFiber, m_suspendedTaskFibers,
                   poolVars>>

\* A worker steals a task.
StealTask ==
    /\ m_pendingTaskQueue > 0
    /\ m_pendingTaskQueue' = m_pendingTaskQueue - 1
    /\ UNCHANGED <<threadVars, pc, running, convertVars, m_currentFiber, m_suspendedTaskFibers,
                   poolVars>>

\* A worker finishes a flushed fiber, which goes back to the pool.
FinishFlushedFiber(f) ==
    /\ f \in workersFibers
    /\ workersFibers' = workersFibers \ {f}
    /\ freeFibers' = freeFibers \cup {f}
    /\ fiberParent' = [fiberParent EXCEPT ![f] = NoFiber]
    /\ UNCHANGED <<threadVars, pc, running, convertVars, m_currentFiber, queueVars>>

Thread(e) ==
    \/ WaitUntil(e) \/ Refuse(e) \/ ConvertThreadToFiber(e) \/ Setup(e)
    \/ ResumeFiber(e) \/ ExecuteSingleTask(e) \/ SubmitTask(e) \/ FinishTask(e) \/ SuspendTask(e)
    \/ ConvertToNormalThread(e) \/ FlushFibers(e) \/ FlushTasks(e)

Next ==
    \/ \E e \in Threads : Thread(e)
    \/ StealTask
    \/ \E f \in Fibers : FinishFlushedFiber(f)

Spec == Init /\ [][Next]_vars

-----------------------------------------------------------------------------
(***************************************************************************)
(* Properties.                                                             *)
(***************************************************************************)

TypeOK ==
    /\ ownFibers \in FiberUsers
    /\ threadFiber \in [Threads -> ThreadFibers \cup {NoFiber}]
    /\ calls \in [Threads -> 0 .. MaxCalls]
    /\ pc \in [Threads -> {"Idle", "Convert", "Setup", "FlushFibers", "FlushTasks"} \cup Inside]
    /\ running \in [Threads -> Fibers \cup {NoFiber}]
    /\ m_convertedToFiberByThisWorkerInstance \in BOOLEAN
    /\ m_convertedFlag \in BOOLEAN
    /\ m_thisFiberID \in ThreadFibers \cup {NoFiber}
    /\ m_convertedThreadID \in Threads \cup {NoThread}
    /\ m_currentFiber \in Fibers
    /\ m_suspendedTaskFibers \in Seq(Fibers)
    /\ m_pendingTaskQueue \in 0 .. MaxPending
    /\ fiberParent \in [Fibers -> ThreadFibers \cup {Worker, NoFiber}]
    /\ freeFibers \subseteq Fibers
    /\ workersFibers \subseteq Fibers

\* "Convert to thread only if this instance has converted this thread": whoever calls
\* WaitUntil is afterwards what it was before, a plain thread or the fiber that its own
\* program made of it.
LeavesAsEntered ==
    \A e \in Threads :
        pc[e] = "Idle" => threadFiber[e] = IF e \in ownFibers THEN OwnFiber(e) ELSE NoFiber

\* A task fiber that a thread switches to, now or when it resumes it, returns to the
\* fiber that this thread is at that moment, not to one of an earlier call.
FibersReturnToTheirThread ==
    \A e \in Threads :
        /\ running[e] # NoFiber => fiberParent[running[e]] = threadFiber[e]
        /\ pc[e] \in Inside =>
              \A f \in Range(m_suspendedTaskFibers) \cup {m_currentFiber} :
                  fiberParent[f] = threadFiber[e]

\* The instance is marked as converted exactly while a thread is in the loop, one thread
\* at a time, and it is this thread that the dispatcher finds and that new fibers
\* return to.
OneThreadInside ==
    /\ IsConvertedToWorkerInstance <=> \E e \in Threads : pc[e] \in Inside
    /\ \A e \in Threads :
          pc[e] \in Inside => m_convertedThreadID = e /\ m_thisFiberID = threadFiber[e]

\* While nobody is in WaitUntil the instance has no task and no suspended fiber, which
\* nobody else would resume.
NothingIsStranded ==
    (\A e \in Threads : pc[e] = "Idle") => m_suspendedTaskFibers = <<>> /\ m_pendingTaskQueue = 0
=============================================================================
