------------------------------ MODULE TaskSystem ------------------------------
(***************************************************************************)
(* The running system: the worker threads and the main thread, the worker  *)
(* instances they drive (pending queue, suspended task fibers, current     *)
(* task fiber), the dispatcher between the instances, the wake-up events   *)
(* of the worker threads, WaitUntil with its helper instance, and the      *)
(* shutdown of the system.                                                 *)
(*                                                                         *)
(* A behaviour runs one program of a given set: its threads, the tasks     *)
(* that the main thread and the function of each task submit, what they    *)
(* then wait for, and the dependants of every task.  Module TaskGraph has  *)
(* the tasks of every graph; this module implements its steps.  A queue    *)
(* operation, an access to an event and an access to a counter are one     *)
(* step each.                                                              *)
(***************************************************************************)
EXTENDS Integers, Sequences, FiniteSets

CONSTANTS
    NumFibers,      \* Task fibers in the pool (TASK_FIBER_POOL_SIZE).
    Tasks,
    Main,           \* The main thread, as a submitter of tasks.
    NoTask, NoFiber, NoInstance,
    MaxDependants,
    MaxWorkers,     \* The most worker threads of a program.
    Programs        \* What the main thread and the tasks may be.

VARIABLE program    \* The program that runs.

NumWorkers == program.numWorkers    \* The number of cores - 1 in the code.
Dependants == program.dependants    \* The dependant slots of every task.
Submits    == program.submits       \* What Main and each task submit, in order.
Awaits     == program.awaits        \* The tasks that they then wait for.
Fenced     == program.fenced        \* The tasks that wait for the fence, too.
ShutsDown  == program.shutsDown     \* Main destroys the system in the end.

Helper == 0
Workers == 1 .. NumWorkers
Instances == {Helper} \cup Workers
Fibers == 1 .. NumFibers
Submitters == Tasks \cup {Main}
Slots == 0 .. MaxDependants - 1
NothingReady == [s \in Slots |-> NoTask]

\* The tasks that program p submits, and every task that one of its functions names.
SubmittedIn(p) == UNION {{p.submits[c][k] : k \in DOMAIN p.submits[c]} : c \in Submitters}

NamedIn(p) ==
    ((UNION {p.awaits[c] : c \in Submitters}) \cup p.fenced
       \cup {p.dependants[t][s] : t \in Tasks, s \in Slots}) \ {NoTask}

\* Each task is submitted at most once.
NothingTwice(p) ==
    \A c, d \in Submitters : \A k \in DOMAIN p.submits[c], j \in DOMAIN p.submits[d] :
        p.submits[c][k] = p.submits[d][j] => c = d /\ k = j

\* What c has submitted of program p before its k-th task, and what it knew before.
KnownBefore(p, known, c, k) ==
    (IF c = Main THEN {} ELSE known[c]) \cup {p.submits[c][j] : j \in 1 .. k - 1}

\* Every submitter submits the tasks of a graph in an order in which the dependants come
\* first: it has submitted a dependant itself, or the dependant was known before it was
\* submitted, too.
IsOrdered(p, known) ==
    \A c \in Submitters : \A k \in DOMAIN p.submits[c] :
        LET t == p.submits[c][k]
        IN  known[t] \cup ({p.dependants[t][s] : s \in Slots} \ {NoTask})
              \subseteq KnownBefore(p, known, c, k)

\* The programs that build their graphs as a client is expected to.
DependantsFirst(p) ==
    /\ \A t \in Tasks \ SubmittedIn(p) : p.dependants[t] = NothingReady
    /\ \E known \in [Tasks -> SUBSET Tasks] : IsOrdered(p, known)

ClientsSubmitDependantsFirst == \A p \in Programs : DependantsFirst(p)

\* The tasks that wait for others or for the fence, and so may be suspended.
Waiters(p) == {t \in SubmittedIn(p) : p.awaits[t] # {} \/ t \in p.fenced}

\* The pool has a fiber for every instance and for every task that may be suspended.
EnoughFibers ==
    \A p \in Programs : p.numWorkers + 1 + Cardinality(Waiters(p)) <= NumFibers

\* What has to be finished before the tasks of S can be: a set with S's prerequisites
\* and what its tasks wait for.
IsClosed(p, S) ==
    /\ \A t \in S : p.awaits[t] \subseteq S
    /\ \A t \in Tasks, s \in Slots : p.dependants[t][s] \in S => t \in S

\* The main thread waits for every task that waits, if only through others.
MainEndsLast ==
    \A p \in Programs :
        /\ p.fenced = {}
        /\ \A S \in SUBSET SubmittedIn(p) :
               IsClosed(p, S) /\ p.awaits[Main] \subseteq S => Waiters(p) \subseteq S

\* Of any tasks there is one that none of them submits and none of them has to notify.
NoCycles ==
    \A p \in Programs : \A S \in SUBSET SubmittedIn(p) :
        S # {} => \E t \in S :
            /\ \A u \in S : \A s \in Slots : p.dependants[u][s] # t
            /\ \A c \in Submitters : (\E k \in DOMAIN p.submits[c] : p.submits[c][k] = t)
                   => c = Main \/ c \in SubmittedIn(p) \ S

ASSUME NamesAssumption ==
    /\ Main \notin Tasks /\ NoTask \notin Submitters
    /\ NoFiber \notin Fibers /\ NoInstance \notin 0 .. MaxWorkers
ASSUME SizesAssumption ==
    /\ IsFiniteSet(Tasks) /\ MaxDependants \in Nat
    /\ NumFibers \in Nat /\ MaxWorkers \in 1 .. NumFibers - 1
ASSUME ProgramsAssumption ==
    \A p \in Programs :
        /\ p.numWorkers \in 1 .. MaxWorkers
        /\ p.dependants \in [Tasks -> [Slots -> Tasks \cup {NoTask}]]
        /\ p.submits \in [Submitters -> Seq(Tasks)]
        /\ p.awaits \in [Submitters -> SUBSET Tasks]
        /\ p.fenced \subseteq Tasks
        /\ p.shutsDown \in BOOLEAN
        /\ NamedIn(p) \subseteq SubmittedIn(p)
        /\ NothingTwice(p)

VARIABLES
    \* Tasks and functions.
    numberOfChildTasks,
    progress,           \* How many tasks a submitter has submitted.
    fence,              \* The variable that fenced tasks wait for.
    \* Task fibers.
    freeFibers,         \* The free list of the TaskFiberAllocator.
    fiberState,         \* m_state of a fiber.
    fiberTask,          \* m_taskToExecute.
    fiberParent,        \* m_parentFiberID, as the instance whose fiber it is.
    stack,              \* The task whose function is on the stack of a fiber.
    \* Worker instances.
    pendingTasks,       \* m_pendingTaskQueue.
    suspendedFibers,    \* m_suspendedTaskFibers.
    currentFiber,       \* m_currentFiber.
    converted,          \* IsConvertedToWorkerInstance.
    \* Threads.
    pc,
    running,            \* The task fiber the thread has switched to.
    index,              \* Counter of the loop the thread is in.
    isThereMoreWork,    \* isThereMoreWorkToDo of PerformOneExecutionStep.
    readyArray,
    dispatching,        \* The task in DispatchTask.
    waking,             \* Next worker to wake up, 0 when not waking any.
    adopting,           \* The fiber in TakeOwnershipOfSuspendedTaskFiber and by whom.
    hasWorkToDoEvent,
    shouldFinishWork

taskVars     == <<numberOfChildTasks, progress, fence>>
fiberVars    == <<freeFibers, fiberState, fiberTask, fiberParent, stack>>
instanceVars == <<pendingTasks, suspendedFibers, currentFiber, converted>>
stepVars     == <<running, index, isThereMoreWork, readyArray>>
dispatchVars == <<dispatching, waking, adopting>>
threadVars   == <<hasWorkToDoEvent, shouldFinishWork>>
vars == <<program, taskVars, fiberVars, instanceVars, pc, stepVars, dispatchVars, threadVars>>

IsFinished(t) == numberOfChildTasks[t] <= 0
IsReadyToBeExecuted(t) == numberOfChildTasks[t] = 1

\* The graph has been built: every task counts its prerequisites and itself.  The
\* worker threads have been created, and each instance has a fiber.
Init ==
    /\ program \in Programs
    /\ numberOfChildTasks =
           [t \in Tasks |->
               IF t \notin SubmittedIn(program) THEN 0
               ELSE 1 + Cardinality({e \in Tasks \X Slots : Dependants[e[1]][e[2]] = t})]
    /\ progress = [c \in Submitters |-> 0]
    /\ fence = FALSE
    /\ freeFibers = [k \in 1 .. NumFibers - NumWorkers - 1 |-> NumWorkers + 1 + k]
    /\ fiberState = [f \in Fibers |-> "Idle"]
    /\ fiberTask = [f \in Fibers |-> NoTask]
    /\ fiberParent = [f \in Fibers |-> NoInstance]
    /\ stack = [f \in Fibers |-> NoTask]
    /\ pendingTasks = [i \in Instances |-> <<>>]
    /\ suspendedFibers = [i \in Instances |-> <<>>]
    /\ currentFiber = [i \in Instances |-> i + 1]
    /\ converted = [i \in Instances |-> FALSE]
    /\ pc = [i \in Instances |-> IF i = Helper THEN "Main" ELSE "Start"]
    /\ running = [i \in Instances |-> NoFiber]
    /\ index = [i \in Instances |-> 0]
    /\ isThereMoreWork = [i \in Instances |-> FALSE]
    /\ readyArray = [i \in Instances |-> NothingReady]
    /\ dispatching = [i \in Instances |-> NoTask]
    /\ waking = [i \in Instances |-> 0]
    /\ adopting = NoFiber
    /\ hasWorkToDoEvent = [w \in Workers |-> FALSE]
    /\ shouldFinishWork = [w \in Workers |-> FALSE]

\* A thread goes from one step to the next, once it is not in the dispatcher.
InDispatcher(i) == dispatching[i] # NoTask \/ waking[i] # 0
At(i, step) == pc[i] = step /\ ~InDispatcher(i)
GoTo(i, step) == pc' = [pc EXCEPT ![i] = step]

-----------------------------------------------------------------------------
(***************************************************************************)
(* The dispatcher.                                                         *)
(***************************************************************************)

\* SubmitTask: a task that is ready goes to the dispatcher.
SubmitNext(c, i) ==
    LET t == Submits[c][progress[c] + 1]
    IN  /\ progress[c] < Len(Submits[c])
        /\ progress' = [progress EXCEPT ![c] = @ + 1]
        /\ dispatching' = [dispatching EXCEPT ![i] = IF IsReadyToBeExecuted(t) THEN t ELSE @]
        /\ UNCHANGED <<numberOfChildTasks, fence, fiberVars, instanceVars, pc, stepVars, waking,
                       adopting, threadVars>>

\* The instance a task is dispatched to: the one of the calling thread, if that is
\* converted, or else the primary instance that a hash of the task's id picks.
Targets(i) == IF converted[i] THEN {i} ELSE Workers

\* AddTask, then WakeUpAllPrimaryWorkerInstances.
DispatchTask(i) ==
    /\ dispatching[i] # NoTask
    /\ \E j \in Targets(i) :
          pendingTasks' = [pendingTasks EXCEPT ![j] = Append(@, dispatching[i])]
    /\ dispatching' = [dispatching EXCEPT ![i] = NoTask]
    /\ waking' = [waking EXCEPT ![i] = 1]
    /\ UNCHANGED <<taskVars, fiberVars, suspendedFibers, currentFiber, converted, pc,
                   stepVars, adopting, threadVars>>

\* Mutant: one worker too many is woken up.
WakeUpOneTooMany(i) ==
    /\ waking[i] # 0
    /\ hasWorkToDoEvent' = [w \in Workers |-> IF w = waking[i] THEN TRUE ELSE hasWorkToDoEvent[w]]
    /\ waking' = [waking EXCEPT ![i] = (@ + 1) % (NumWorkers + 2)]
    /\ UNCHANGED <<taskVars, fiberVars, instanceVars, pc, stepVars, dispatching, adopting,
                   shouldFinishWork>>

\* Mutant: only the first worker is woken up.
WakeUpFirst(i) ==
    /\ waking[i] # 0
    /\ hasWorkToDoEvent' = [hasWorkToDoEvent EXCEPT ![waking[i]] = TRUE]
    /\ waking' = [waking EXCEPT ![i] = 0]
    /\ UNCHANGED <<taskVars, fiberVars, instanceVars, pc, stepVars, dispatching, adopting,
                   shouldFinishWork>>

\* SetEvent for one worker thread.
WakeUp(i) ==
    /\ waking[i] # 0
    /\ hasWorkToDoEvent' = [hasWorkToDoEvent EXCEPT ![waking[i]] = TRUE]
    /\ waking' = [waking EXCEPT ![i] = (@ + 1) % (NumWorkers + 1)]
    /\ UNCHANGED <<taskVars, fiberVars, instanceVars, pc, stepVars, dispatching, adopting,
                   shouldFinishWork>>

-----------------------------------------------------------------------------
(***************************************************************************)
(* A worker thread.                                                        *)
(***************************************************************************)

\* Mutant: the current fiber is not set up.
ConvertWithoutSetup(i) ==
    /\ converted' = [converted EXCEPT ![i] = TRUE]
    /\ UNCHANGED <<taskVars, fiberVars, pendingTasks, suspendedFibers, currentFiber, stepVars,
                   dispatchVars, threadVars>>

\* ConvertToWorkerInstance, by the thread that i belongs to.
Convert(i) ==
    /\ converted' = [converted EXCEPT ![i] = TRUE]
    /\ fiberParent' = [fiberParent EXCEPT ![currentFiber[i]] = i]
    /\ UNCHANGED <<taskVars, freeFibers, fiberState, fiberTask, stack, pendingTasks,
                   suspendedFibers, currentFiber, stepVars, dispatchVars, threadVars>>

\* Mutant: the fiber is reset and forgotten.
ResetFiber(f) ==
    /\ fiberTask' = [fiberTask EXCEPT ![f] = NoTask]
    /\ fiberState' = [fiberState EXCEPT ![f] = "Idle"]
    /\ fiberParent' = [fiberParent EXCEPT ![f] = NoInstance]
    /\ UNCHANGED freeFibers

\* ReleaseTaskFiber: the fiber is reset and goes to the free list.
ReleaseFiber(f) ==
    /\ fiberTask' = [fiberTask EXCEPT ![f] = NoTask]
    /\ fiberState' = [fiberState EXCEPT ![f] = "Idle"]
    /\ fiberParent' = [fiberParent EXCEPT ![f] = NoInstance]
    /\ freeFibers' = Append(freeFibers, f)

StartThread(w) == pc[w] = "Start" /\ GoTo(w, "Wait") /\ Convert(w)

WaitForEvent(w) ==
    /\ pc[w] = "Wait" /\ hasWorkToDoEvent[w]
    /\ GoTo(w, "Reset")
    /\ UNCHANGED <<taskVars, fiberVars, instanceVars, stepVars, dispatchVars, threadVars>>

ResetEvent(w) ==
    /\ pc[w] = "Reset"
    /\ GoTo(w, "Awake")
    /\ hasWorkToDoEvent' = [hasWorkToDoEvent EXCEPT ![w] = FALSE]
    /\ UNCHANGED <<taskVars, fiberVars, instanceVars, stepVars, dispatchVars, shouldFinishWork>>

CheckFinish(w) ==
    /\ pc[w] = "Awake"
    /\ GoTo(w, IF shouldFinishWork[w] THEN "Retire" ELSE "Loop")
    /\ UNCHANGED <<taskVars, fiberVars, instanceVars, stepVars, dispatchVars, threadVars>>

\* The beginning of PerformOneExecutionStep: how many fibers there are to check.
BeginStep(i) ==
    /\ GoTo(i, "Resume")
    /\ index' = [index EXCEPT ![i] = Len(suspendedFibers[i])]
    /\ isThereMoreWork' = [isThereMoreWork EXCEPT ![i] = suspendedFibers[i] # <<>>]
    /\ UNCHANGED <<taskVars, fiberVars, instanceVars, running, readyArray, dispatchVars,
                   threadVars>>

Loop(w) ==
    /\ pc[w] = "Loop"
    /\ \/ ~shouldFinishWork[w] /\ BeginStep(w)
       \/ /\ shouldFinishWork[w]
          /\ GoTo(w, "Wait")
          /\ UNCHANGED <<taskVars, fiberVars, instanceVars, stepVars, dispatchVars, threadVars>>

\* ConvertToNormalThread and Deinitalize: the thread ends, its fiber is released.
Retire(w) ==
    /\ pc[w] = "Retire"
    /\ GoTo(w, "Done")
    /\ converted' = [converted EXCEPT ![w] = FALSE]
    /\ ReleaseFiber(currentFiber[w])
    /\ UNCHANGED <<taskVars, stack, pendingTasks, suspendedFibers, currentFiber, stepVars,
                   dispatchVars, threadVars>>

-----------------------------------------------------------------------------
(***************************************************************************)
(* PerformOneExecutionStep of the instance of thread i.                    *)
(***************************************************************************)

\* Where the thread goes when the step is over.
AfterStep(i, moreWork) ==
    CASE i = Helper -> "Check"
      [] i # Helper /\ moreWork -> "Loop"
      [] OTHER -> "Wait"

\* CheckAndExecuteSuspenedTaskFibers: switch to the next suspended fiber.
ResumeFiber(i) ==
    /\ pc[i] = "Resume"
    /\ index[i] > 0 /\ suspendedFibers[i] # <<>>
    /\ GoTo(i, "OnFiber")
    /\ running' = [running EXCEPT ![i] = Head(suspendedFibers[i])]
    /\ suspendedFibers' = [suspendedFibers EXCEPT ![i] = Tail(@)]
    /\ index' = [index EXCEPT ![i] = @ - 1]
    /\ UNCHANGED <<taskVars, fiberVars, pendingTasks, currentFiber, converted,
                   isThereMoreWork, readyArray, dispatchVars, threadVars>>

EndResume(i) ==
    /\ pc[i] = "Resume"
    /\ index[i] = 0 \/ suspendedFibers[i] = <<>>
    /\ GoTo(i, "Take")
    /\ UNCHANGED <<taskVars, fiberVars, instanceVars, stepVars, dispatchVars, threadVars>>

\* ExecuteSingleTask: the current fiber gets the task and is switched to.
Execute(i, t) ==
    /\ GoTo(i, "OnFiber")
    /\ fiberTask' = [fiberTask EXCEPT ![currentFiber[i]] = t]
    /\ running' = [running EXCEPT ![i] = currentFiber[i]]
    /\ isThereMoreWork' = [isThereMoreWork EXCEPT ![i] = TRUE]
    /\ UNCHANGED <<taskVars, freeFibers, fiberState, fiberParent, stack, suspendedFibers,
                   currentFiber, converted, readyArray, dispatchVars, threadVars>>

\* The newest task of the instance's own queue.
TakeOwnTask(i) ==
    LET queue == pendingTasks[i]
    IN  /\ pc[i] = "Take"
        /\ queue # <<>>
        /\ Execute(i, queue[Len(queue)])
        /\ pendingTasks' = [pendingTasks EXCEPT ![i] = SubSeq(@, 1, Len(@) - 1)]
        /\ UNCHANGED index

StartStealing(i) ==
    /\ pc[i] = "Take"
    /\ pendingTasks[i] = <<>>
    /\ GoTo(i, "Steal")
    /\ index' = [index EXCEPT ![i] = 1]
    /\ UNCHANGED <<taskVars, fiberVars, instanceVars, running, isThereMoreWork, readyArray,
                   dispatchVars, threadVars>>

\* The instance a thief looks at next, starting with the one after its own.
Victim(i) == (index[i] + i) % (NumWorkers + 1)

\* The oldest task of another instance's queue.
StealTask(i) ==
    /\ pc[i] = "Steal"
    /\ index[i] <= NumWorkers
    /\ pendingTasks[Victim(i)] # <<>>
    /\ Execute(i, Head(pendingTasks[Victim(i)]))
    /\ pendingTasks' = [pendingTasks EXCEPT ![Victim(i)] = Tail(@)]
    /\ UNCHANGED index

NothingToSteal(i) ==
    /\ pc[i] = "Steal"
    /\ \/ /\ index[i] <= NumWorkers
          /\ pendingTasks[Victim(i)] = <<>>
          /\ index' = [index EXCEPT ![i] = @ + 1]
          /\ UNCHANGED pc
       \/ /\ index[i] = NumWorkers + 1
          /\ GoTo(i, AfterStep(i, isThereMoreWork[i]))
          /\ UNCHANGED index
    /\ UNCHANGED <<taskVars, fiberVars, instanceVars, running, isThereMoreWork, readyArray,
                   dispatchVars, threadVars>>

\* Mutant: the suspended fiber stays the current one, although there is another.
KeepSuspendedFiber(i) ==
    /\ pc[i] = "Suspended" /\ running[i] = currentFiber[i]
    /\ freeFibers # <<>>
    /\ GoTo(i, AfterStep(i, TRUE))
    /\ running' = [running EXCEPT ![i] = NoFiber]
    /\ UNCHANGED <<taskVars, fiberVars, instanceVars, index, isThereMoreWork, readyArray,
                   dispatchVars, threadVars>>

\* OnSuspendedCurrrentTaskFiber: a new fiber takes the place of the current one.
ReplaceCurrentFiber(i) ==
    LET f == Head(freeFibers)
    IN  /\ pc[i] = "Suspended" /\ running[i] = currentFiber[i]
        /\ freeFibers # <<>>
        /\ GoTo(i, AfterStep(i, TRUE))
        /\ freeFibers' = Tail(freeFibers)
        /\ fiberParent' = [fiberParent EXCEPT ![f] = i]
        /\ suspendedFibers' = [suspendedFibers EXCEPT ![i] = Append(@, currentFiber[i])]
        /\ currentFiber' = [currentFiber EXCEPT ![i] = f]
        /\ running' = [running EXCEPT ![i] = NoFiber]
        /\ UNCHANGED <<taskVars, fiberState, fiberTask, stack, pendingTasks, converted, index,
                       isThereMoreWork, readyArray, dispatchVars, threadVars>>

\* ASSERT( false ): there is no fiber left, and the suspended one stays current.
KeepCurrentFiber(i) ==
    /\ pc[i] = "Suspended" /\ running[i] = currentFiber[i]
    /\ freeFibers = <<>>
    /\ GoTo(i, AfterStep(i, TRUE))
    /\ running' = [running EXCEPT ![i] = NoFiber]
    /\ UNCHANGED <<taskVars, fiberVars, instanceVars, index, isThereMoreWork, readyArray,
                   dispatchVars, threadVars>>

\* A resumed fiber that is suspended again goes to the end of the queue.
RequeueFiber(i) ==
    /\ pc[i] = "Suspended" /\ running[i] # currentFiber[i]
    /\ GoTo(i, "Resume")
    /\ suspendedFibers' = [suspendedFibers EXCEPT ![i] = Append(@, running[i])]
    /\ running' = [running EXCEPT ![i] = NoFiber]
    /\ UNCHANGED <<taskVars, fiberVars, pendingTasks, currentFiber, converted, index,
                   isThereMoreWork, readyArray, dispatchVars, threadVars>>

-----------------------------------------------------------------------------
(***************************************************************************)
(* The function of a task, on the fiber that thread i has switched to.     *)
(***************************************************************************)

\* FiberFunction begins to run the fiber's task.
RunTask(i) ==
    LET f == running[i]
    IN  /\ At(i, "OnFiber")
        /\ fiberState[f] = "Idle"
        /\ fiberState' = [fiberState EXCEPT ![f] = "Running"]
        /\ stack' = [stack EXCEPT ![f] = fiberTask[f]]
        /\ UNCHANGED <<taskVars, freeFibers, fiberTask, fiberParent, instanceVars, pc,
                       stepVars, dispatchVars, threadVars>>

\* Whose function thread i executes.
Caller(i) == IF pc[i] = "OnFiber" THEN stack[running[i]] ELSE Main

InFunction(i) == At(i, "OnFiber") /\ fiberState[running[i]] # "Idle"

SubmitFromTask(i) == InFunction(i) /\ SubmitNext(Caller(i), i)

HasSubmittedAll(c) == progress[c] = Len(Submits[c])
CanProceed(c) == (\A t \in Awaits[c] : IsFinished(t)) /\ (c \in Fenced => fence)

\* SwitchToParentFiber: control is back in thread i, if the parent is its fiber.
SwitchToParent(i, step) ==
    GoTo(i, IF fiberParent[running[i]] = i THEN step ELSE "Astray")

\* WaitUntil in a task, while its condition does not hold.
SuspendTask(i) ==
    /\ InFunction(i)
    /\ HasSubmittedAll(Caller(i)) /\ ~CanProceed(Caller(i))
    /\ SwitchToParent(i, "Suspended")
    /\ fiberState' = [fiberState EXCEPT ![running[i]] = "Suspended"]
    /\ UNCHANGED <<taskVars, freeFibers, fiberTask, fiberParent, stack, instanceVars,
                   stepVars, dispatchVars, threadVars>>

\* The function returns.  Its result is of no interest here, so it is a success.
FinishTask(i) ==
    /\ InFunction(i)
    /\ HasSubmittedAll(Caller(i)) /\ CanProceed(Caller(i))
    /\ SwitchToParent(i, "Update")
    /\ numberOfChildTasks' = [numberOfChildTasks EXCEPT ![Caller(i)] = 0]
    /\ fiberState' = [fiberState EXCEPT ![running[i]] = "Idle"]
    /\ stack' = [stack EXCEPT ![running[i]] = NoTask]
    /\ index' = [index EXCEPT ![i] = 0]
    /\ UNCHANGED <<progress, fence, freeFibers, fiberTask, fiberParent, instanceVars, running,
                   isThereMoreWork, readyArray, dispatchVars, threadVars>>

-----------------------------------------------------------------------------
(***************************************************************************)
(* OnFinishedTaskFiber.                                                    *)
(***************************************************************************)

\* Mutant: the decremented counter is compared with the wrong value.
BecomesReadyTooEarly(d) == numberOfChildTasks[d] <= 3

\* The decrement of a dependant's counter returns 1.
BecomesReady(d) == numberOfChildTasks[d] = 2

UpdateDependecies(i) ==
    LET s == index[i]
        d == Dependants[fiberTask[running[i]]][s]
    IN  /\ pc[i] = "Update"
        /\ s < MaxDependants
        /\ index' = [index EXCEPT ![i] = @ + 1]
        /\ \/ /\ d = NoTask
              /\ UNCHANGED <<numberOfChildTasks, readyArray>>
           \/ /\ d # NoTask
              /\ numberOfChildTasks' = [numberOfChildTasks EXCEPT ![d] = @ - 1]
              /\ readyArray' = [readyArray EXCEPT ![i][s] =
                                    IF BecomesReady(d) THEN d ELSE @]
        /\ UNCHANGED <<progress, fence, fiberVars, instanceVars, pc, running, isThereMoreWork,
                       dispatchVars, threadVars>>

EndUpdate(i) ==
    /\ pc[i] = "Update"
    /\ index[i] = MaxDependants
    /\ GoTo(i, "Add")
    /\ index' = [index EXCEPT ![i] = 0]
    /\ UNCHANGED <<taskVars, fiberVars, instanceVars, running, isThereMoreWork, readyArray,
                   dispatchVars, threadVars>>

\* AddTask for one ready dependant; no worker is woken up.
AddReadyTask(i) ==
    LET t == readyArray[i][index[i]]
    IN  /\ pc[i] = "Add"
        /\ index[i] < MaxDependants
        /\ index' = [index EXCEPT ![i] = @ + 1]
        /\ readyArray' = [readyArray EXCEPT ![i][index[i]] = NoTask]
        /\ pendingTasks' = IF t = NoTask THEN pendingTasks
                           ELSE [pendingTasks EXCEPT ![i] = Append(@, t)]
        /\ UNCHANGED <<taskVars, fiberVars, suspendedFibers, currentFiber, converted, pc,
                       running, isThereMoreWork, dispatchVars, threadVars>>

\* The fiber lets go of its task.  A fiber that had been suspended is not the
\* current one any more and goes back to the pool; the step goes on without the
\* remaining suspended fibers.
ClearFiber(i) ==
    LET f == running[i]
    IN  /\ pc[i] = "Add"
        /\ index[i] = MaxDependants
        /\ running' = [running EXCEPT ![i] = NoFiber]
        /\ \/ /\ f = currentFiber[i]
              /\ GoTo(i, AfterStep(i, TRUE))
              /\ fiberTask' = [fiberTask EXCEPT ![f] = NoTask]
              /\ UNCHANGED <<freeFibers, fiberState, fiberParent>>
           \/ /\ f # currentFiber[i]
              /\ GoTo(i, "Take")
              /\ ReleaseFiber(f)
        /\ UNCHANGED <<taskVars, stack, instanceVars, index, isThereMoreWork, readyArray,
                       dispatchVars, threadVars>>

-----------------------------------------------------------------------------
(***************************************************************************)
(* The main thread: it submits its tasks, and in WaitUntil it becomes the  *)
(* helper instance until its condition holds.  If tasks wait for the       *)
(* fence, it first waits for a timer, then raises the fence and waits      *)
(* again.                                                                  *)
(***************************************************************************)

SubmitFromMain == At(Helper, "Main") /\ SubmitNext(Main, Helper)

ConvertMainThread ==
    /\ At(Helper, "Main")
    /\ HasSubmittedAll(Main)
    /\ GoTo(Helper, "Check")
    /\ Convert(Helper)

WaitsForTimer == Fenced # {} /\ ~fence

CheckCondition ==
    /\ pc[Helper] = "Check"
    /\ \/ (WaitsForTimer \/ ~CanProceed(Main)) /\ BeginStep(Helper)
       \/ /\ WaitsForTimer \/ CanProceed(Main)
          /\ GoTo(Helper, "FlushFibers")
          /\ converted' = [converted EXCEPT ![Helper] = FALSE]
          /\ UNCHANGED <<taskVars, fiberVars, pendingTasks, suspendedFibers, currentFiber,
                         stepVars, dispatchVars, threadVars>>

\* Mutant: the fiber stays in the queue of the helper instance, too.
CopyFiber ==
    LET queue == suspendedFibers[Helper]
        f == queue[Len(queue)]
    IN  /\ At(Helper, "FlushFibers")
        /\ queue # <<>>
        /\ GoTo(Helper, "Adopt")
        /\ \E w \in Workers :
              /\ suspendedFibers' = [suspendedFibers EXCEPT ![w] = Append(@, f)]
              /\ adopting' = <<f, w>>
        /\ UNCHANGED <<taskVars, fiberVars, pendingTasks, currentFiber, converted, stepVars,
                       dispatching, waking, threadVars>>

\* RedispatchSuspendedTaskFiber: the fiber is in the queue of its new instance ...
FlushFiber ==
    LET queue == suspendedFibers[Helper]
        f == queue[Len(queue)]
    IN  /\ At(Helper, "FlushFibers")
        /\ queue # <<>>
        /\ GoTo(Helper, "Adopt")
        /\ \E w \in Workers :
              /\ suspendedFibers' = [suspendedFibers EXCEPT ![Helper] = SubSeq(@, 1, Len(@) - 1),
                                                            ![w] = Append(@, f)]
              /\ adopting' = <<f, w>>
        /\ UNCHANGED <<taskVars, fiberVars, pendingTasks, currentFiber, converted, stepVars,
                       dispatching, waking, threadVars>>

\* Mutant: nobody is told about the fiber.
AdoptSilently ==
    LET f == adopting[1]
        w == adopting[2]
    IN  /\ pc[Helper] = "Adopt"
        /\ GoTo(Helper, "FlushFibers")
        /\ fiberParent' = [fiberParent EXCEPT ![f] = IF converted[w] THEN w ELSE NoInstance]
        /\ adopting' = NoFiber
        /\ UNCHANGED <<taskVars, freeFibers, fiberState, fiberTask, stack, instanceVars,
                       stepVars, dispatching, waking, threadVars>>

\* ... before the instance becomes its parent.
AdoptFiber ==
    LET f == adopting[1]
        w == adopting[2]
    IN  /\ pc[Helper] = "Adopt"
        /\ GoTo(Helper, "FlushFibers")
        /\ fiberParent' = [fiberParent EXCEPT ![f] = IF converted[w] THEN w ELSE NoInstance]
        /\ adopting' = NoFiber
        /\ waking' = [waking EXCEPT ![Helper] = 1]
        /\ UNCHANGED <<taskVars, freeFibers, fiberState, fiberTask, stack, instanceVars,
                       stepVars, dispatching, threadVars>>

EndFlushFibers ==
    /\ At(Helper, "FlushFibers")
    /\ suspendedFibers[Helper] = <<>>
    /\ GoTo(Helper, "FlushTasks")
    /\ UNCHANGED <<taskVars, fiberVars, instanceVars, stepVars, dispatchVars, threadVars>>

\* RedispatchTaskFromHelperWorkerInstance.
FlushTask ==
    LET queue == pendingTasks[Helper]
    IN  /\ At(Helper, "FlushTasks")
        /\ queue # <<>>
        /\ dispatching' = [dispatching EXCEPT ![Helper] = queue[Len(queue)]]
        /\ pendingTasks' = [pendingTasks EXCEPT ![Helper] = SubSeq(@, 1, Len(@) - 1)]
        /\ UNCHANGED <<taskVars, fiberVars, suspendedFibers, currentFiber, converted, pc,
                       stepVars, waking, adopting, threadVars>>

\* Where the main thread goes after WaitUntil.
AfterWaitUntil ==
    CASE WaitsForTimer -> "Fence"
      [] ~WaitsForTimer /\ ShutsDown -> "Stop"
      [] OTHER -> "Returned"

\* Mutant: the tasks stay with the helper instance.
ReturnWithTasks ==
    /\ At(Helper, "FlushTasks")
    /\ GoTo(Helper, AfterWaitUntil)
    /\ index' = [index EXCEPT ![Helper] = 1]
    /\ UNCHANGED <<taskVars, fiberVars, instanceVars, running, isThereMoreWork, readyArray,
                   dispatchVars, threadVars>>

\* WaitUntil returns.  A main thread that shuts the system down starts with worker 1.
ReturnFromWaitUntil ==
    /\ At(Helper, "FlushTasks")
    /\ pendingTasks[Helper] = <<>>
    /\ GoTo(Helper, AfterWaitUntil)
    /\ index' = [index EXCEPT ![Helper] = 1]
    /\ UNCHANGED <<taskVars, fiberVars, instanceVars, running, isThereMoreWork, readyArray,
                   dispatchVars, threadVars>>

\* The fence is raised between one WaitUntil and the next.
RaiseFence ==
    /\ pc[Helper] = "Fence"
    /\ GoTo(Helper, "Main")
    /\ fence' = TRUE
    /\ UNCHANGED <<numberOfChildTasks, progress, fiberVars, instanceVars, stepVars,
                   dispatchVars, threadVars>>

-----------------------------------------------------------------------------
(***************************************************************************)
(* Shutdown.                                                               *)
(***************************************************************************)

\* FinishWork of one worker thread: the flag ...
RequestFinish ==
    /\ pc[Helper] = "Stop"
    /\ index[Helper] \in Workers
    /\ GoTo(Helper, "StopWakeUp")
    /\ shouldFinishWork' = [shouldFinishWork EXCEPT ![index[Helper]] = TRUE]
    /\ UNCHANGED <<taskVars, fiberVars, instanceVars, stepVars, dispatchVars, hasWorkToDoEvent>>

\* Mutant: the flag without the event.
FinishSilently ==
    /\ pc[Helper] = "StopWakeUp"
    /\ GoTo(Helper, "Stop")
    /\ index' = [index EXCEPT ![Helper] = @ + 1]
    /\ UNCHANGED <<taskVars, fiberVars, instanceVars, running, isThereMoreWork, readyArray,
                   dispatchVars, threadVars>>

\* ... and then the event.
WakeUpToFinish ==
    /\ pc[Helper] = "StopWakeUp"
    /\ GoTo(Helper, "Stop")
    /\ hasWorkToDoEvent' = [hasWorkToDoEvent EXCEPT ![index[Helper]] = TRUE]
    /\ index' = [index EXCEPT ![Helper] = @ + 1]
    /\ UNCHANGED <<taskVars, fiberVars, instanceVars, running, isThereMoreWork, readyArray,
                   dispatchVars, shouldFinishWork>>

\* All workers have been joined, and the helper instance releases its fiber.
Deinitialize ==
    /\ pc[Helper] = "Stop"
    /\ index[Helper] = NumWorkers + 1
    /\ \A w \in Workers : pc[w] = "Done"
    /\ GoTo(Helper, "Done")
    /\ ReleaseFiber(currentFiber[Helper])
    /\ UNCHANGED <<taskVars, stack, instanceVars, stepVars, dispatchVars, threadVars>>

-----------------------------------------------------------------------------
ExecutionStep(i) ==
    \/ ResumeFiber(i) \/ EndResume(i)
    \/ TakeOwnTask(i) \/ StartStealing(i) \/ StealTask(i) \/ NothingToSteal(i)
    \/ ReplaceCurrentFiber(i) \/ KeepCurrentFiber(i) \/ RequeueFiber(i)
    \/ RunTask(i) \/ SubmitFromTask(i) \/ SuspendTask(i) \/ FinishTask(i)
    \/ UpdateDependecies(i) \/ EndUpdate(i) \/ AddReadyTask(i) \/ ClearFiber(i)
    \/ DispatchTask(i) \/ WakeUp(i)

WorkerThread(w) ==
    /\ w \in Workers
    /\ \/ StartThread(w) \/ WaitForEvent(w) \/ ResetEvent(w) \/ CheckFinish(w) \/ Loop(w)
       \/ Retire(w)
       \/ ExecutionStep(w)
    /\ UNCHANGED program

MainThread ==
    /\ \/ SubmitFromMain \/ ConvertMainThread \/ CheckCondition
       \/ FlushFiber \/ AdoptFiber \/ EndFlushFibers \/ FlushTask \/ ReturnFromWaitUntil
       \/ RaiseFence
       \/ RequestFinish \/ WakeUpToFinish \/ Deinitialize
       \/ ExecutionStep(Helper)
    /\ UNCHANGED program

Next == MainThread \/ \E w \in 1 .. MaxWorkers : WorkerThread(w)

Spec == Init /\ [][Next]_vars

\* The operating system gives every thread that can go on some processor time.
FairSpec ==
    /\ Spec
    /\ WF_vars(MainThread)
    /\ \A w \in 1 .. MaxWorkers : WF_vars(WorkerThread(w))
-----------------------------------------------------------------------------
(***************************************************************************)
(* Properties.                                                             *)
(***************************************************************************)

WorkerSteps == {"Start", "Wait", "Reset", "Awake", "Loop", "Retire", "Done"}
ExecutionSteps == {"Resume", "Take", "Steal", "OnFiber", "Suspended", "Update", "Add", "Astray"}
MainSteps == {"Main", "Check", "FlushFibers", "Adopt", "FlushTasks", "Returned", "Fence",
              "Stop", "StopWakeUp", "Done"}

TypeOK ==
    /\ program \in Programs
    /\ numberOfChildTasks \in [Tasks -> Int]
    /\ fence \in BOOLEAN
    /\ \A c \in Submitters : progress[c] \in 0 .. Len(Submits[c])
    /\ freeFibers \in Seq(Fibers)
    /\ fiberState \in [Fibers -> {"Idle", "Running", "Suspended"}]
    /\ fiberTask \in [Fibers -> Tasks \cup {NoTask}]
    /\ fiberParent \in [Fibers -> Instances \cup {NoInstance}]
    /\ stack \in [Fibers -> Tasks \cup {NoTask}]
    /\ pendingTasks \in [Instances -> Seq(Tasks)]
    /\ suspendedFibers \in [Instances -> Seq(Fibers)]
    /\ currentFiber \in [Instances -> Fibers]
    /\ converted \in [Instances -> BOOLEAN]
    /\ \A w \in Workers : pc[w] \in WorkerSteps \cup ExecutionSteps
    /\ pc[Helper] \in MainSteps \cup ExecutionSteps
    /\ running \in [Instances -> Fibers \cup {NoFiber}]
    /\ \A i \in Instances :
          pc[i] \in {"OnFiber", "Suspended", "Update", "Add"} => running[i] \in Fibers
    /\ index \in [Instances -> Nat]
    /\ isThereMoreWork \in [Instances -> BOOLEAN]
    /\ readyArray \in [Instances -> [Slots -> Tasks \cup {NoTask}]]
    /\ dispatching \in [Instances -> Tasks \cup {NoTask}]
    /\ waking \in [Instances -> 0 .. NumWorkers]
    /\ adopting \in {NoFiber} \cup (Fibers \X Workers)
    /\ hasWorkToDoEvent \in [Workers -> BOOLEAN]
    /\ shouldFinishWork \in [Workers -> BOOLEAN]

Places(f) ==
    {<<"free", k>> : k \in {k \in DOMAIN freeFibers : freeFibers[k] = f}}
      \cup {<<"current", i>> : i \in {i \in Instances : currentFiber[i] = f /\ pc[i] # "Done"}}
      \cup {<<"resumed", i>> : i \in {i \in Instances : running[i] = f /\ currentFiber[i] # f}}
      \cup UNION {{<<"suspended", i, k>> :
                      k \in {k \in DOMAIN suspendedFibers[i] : suspendedFibers[i][k] = f}} :
                     i \in Instances}

\* Every task fiber is at exactly one place: in the free list, the current fiber of
\* one instance, in one suspended queue, or resumed by one thread.  So no fiber is
\* ever switched to by two threads, and none is lost.
FibersHaveOnePlace == \A f \in Fibers : Cardinality(Places(f)) = 1

\* Who is about to set the event of worker w.
IsAboutToWake(i, w) ==
    \/ waking[i] # 0 /\ waking[i] <= w
    \/ i = Helper /\ pc[i] = "Adopt"
    \/ i = Helper /\ pc[i] = "StopWakeUp" /\ index[i] = w

\* No wake-up is lost: a worker thread sleeps only if its instance has no work, or
\* its event is set, or somebody who has queued the work is about to set it.
SleepersHaveNoWork ==
    \A w \in Workers :
        pc[w] = "Wait" /\ ~hasWorkToDoEvent[w]
            => \/ pendingTasks[w] = <<>> /\ suspendedFibers[w] = <<>> /\ ~shouldFinishWork[w]
               \/ \E i \in Instances : IsAboutToWake(i, w)

\* All threads have come to rest: the main thread has returned from its last WaitUntil and
\* every worker sleeps.
AtRest ==
    /\ pc[Helper] = "Returned"
    /\ \A w \in Workers : pc[w] = "Wait" /\ ~hasWorkToDoEvent[w]
    /\ \A i \in Instances : ~InDispatcher(i)

\* No task is forgotten, whether the main thread waits for it or not: the threads do not
\* come to rest while a submitted task waits in a queue, is suspended, or was never queued
\* ("Flushes all pending and suspened tasks by moving them to other worker instances").
NothingForgotten == AtRest => \A t \in SubmittedIn(program) : IsFinished(t)

\* A task fiber gives control back to the thread that switched to it: "When task
\* is done, fiber will switch to parentFiberID", and the parent is that thread's.
FibersReturnHome == \A i \in Instances : pc[i] # "Astray"

-----------------------------------------------------------------------------
(***************************************************************************)
(* The task graph that the running system implements.                      *)
(***************************************************************************)

Submitted(t) == \E c \in Submitters : \E k \in 1 .. progress[c] : Submits[c][k] = t

\* The element of a set that has one.
The(S) == CHOOSE x \in S : TRUE

Submitter(t) ==
    IF t \notin SubmittedIn(program) THEN NoTask
    ELSE The({c \in Submitters : \E k \in DOMAIN Submits[c] : Submits[c][k] = t})

\* A task that the flush moves between two queues has not been dispatched anew.
IsFlushing(i) == i = Helper /\ pc[i] = "FlushTasks"

PendingEntries(t) ==
    (UNION {{<<i, k>> : k \in {k \in DOMAIN pendingTasks[i] : pendingTasks[i][k] = t}} :
                i \in Instances})
      \cup {<<i, 0>> : i \in {i \in Instances : IsFlushing(i) /\ dispatching[i] = t}}

DispatchedBy(c) ==
    {dispatching[i] : i \in {i \in Instances : Caller(i) = c /\ ~IsFlushing(i)}} \ {NoTask}

\* The thread that executes or finishes the task of fiber f.
ThreadsOn(f, steps) == {i \in Instances : running[i] = f /\ pc[i] \in steps}

GraphFiberState(f) ==
    IF fiberTask[f] = NoTask THEN "Idle"
    ELSE IF ThreadsOn(f, {"Update"}) # {} THEN "Updating"
    ELSE IF ThreadsOn(f, {"Add"}) # {} THEN "Adding"
    ELSE IF stack[f] = NoTask THEN "Starting"
    ELSE "Running"

GraphSlot(f) ==
    IF ThreadsOn(f, {"Update", "Add"}) = {} THEN 0
    ELSE index[The(ThreadsOn(f, {"Update", "Add"}))]

GraphReadyArray(f) ==
    IF ThreadsOn(f, {"Update", "Add"}) = {} THEN NothingReady
    ELSE readyArray[The(ThreadsOn(f, {"Update", "Add"}))]

\* Task p has still to notify its dependant in slot s.
HasToNotify(p, s) ==
    \/ ~IsFinished(p)
    \/ \E f \in Fibers : fiberTask[f] = p /\ GraphFiberState(f) = "Updating" /\ GraphSlot(f) <= s

GraphHasFunction == [t \in Tasks |-> t \in SubmittedIn(program)]
GraphOwner       == [t \in Tasks |-> Submitter(t)]
GraphSubmitted   == [t \in Tasks |-> Submitted(t)]

GraphDispatching ==
    [c \in Submitters |-> IF DispatchedBy(c) = {} THEN NoTask ELSE The(DispatchedBy(c))]

GraphPending     == [t \in Tasks |-> Cardinality(PendingEntries(t))]
GraphFiberStates == [f \in Fibers |-> GraphFiberState(f)]
GraphSlots       == [f \in Fibers |-> GraphSlot(f)]
GraphReadyArrays == [f \in Fibers |-> GraphReadyArray(f)]

GraphWaits ==
    [t \in Tasks |->
        {e \in Tasks \X Slots : Dependants[e[1]][e[2]] = t /\ HasToNotify(e[1], e[2])}]

\* The function of a task has been called if it is on a stack, or the task has finished.
GraphExecutions ==
    [t \in Tasks |-> IF /\ t \in SubmittedIn(program)
                        /\ IsFinished(t) \/ \E f \in Fibers : stack[f] = t THEN 1 ELSE 0]

Graph == INSTANCE TaskGraph WITH
    Clients <- Submitters, NoClient <- NoTask,
    SubmitOrder <- "dependantsFirst", ReleaseTime <- "never",
    hasFunction <- GraphHasFunction, dependants <- Dependants, owner <- GraphOwner,
    submitted <- GraphSubmitted, dispatching <- GraphDispatching, pending <- GraphPending,
    fiberState <- GraphFiberStates, slot <- GraphSlots, readyArray <- GraphReadyArrays,
    waits <- GraphWaits, executions <- GraphExecutions

\* The programs for which TLC evaluates the refinement.
HasOneWorker == NumWorkers = 1

\* The running system starts in a state that the inductive invariant of TaskGraph
\* allows and takes only steps of TaskGraph: with stealing, suspended fibers, the
\* helper instance and its flush, a task is still dispatched when it is ready,
\* executed once, and notifies each of its dependants once.
ImplementsTaskGraph ==
    /\ HasOneWorker => Graph!IInv
    /\ [][HasOneWorker => Graph!Next]_(Graph!vars)

-----------------------------------------------------------------------------
\* Every task that has been submitted is eventually finished, although workers sleep and
\* tasks wait for each other, and the main thread gets its answer.  If it then shuts the
\* system down, no worker thread misses FinishWork: the shutdown ends.
EventuallyAllDone ==
    <>(/\ \A t \in Tasks : IsFinished(t)
       /\ pc[Helper] = IF ShutsDown THEN "Done" ELSE "Returned")

\* ASSERT( m_currentFiber->GetCurrentState() == backend::TaskFiberState::Idle ): a task
\* is given to a fiber that has no function on its stack.
CurrentFiberIsIdle ==
    [][\A i \in Instances :
           (pc[i] \in {"Take", "Steal"} /\ pc'[i] = "OnFiber")
               => fiberState[currentFiber[i]] = "Idle"]_vars

\* ~TaskFiberAllocator: ASSERT( m_freeList.GetCurrentSize() == TASK_FIBER_POOL_SIZE ).
AllFibersReleased == pc[Helper] = "Done" => Len(freeFibers) = NumFibers
=============================================================================
