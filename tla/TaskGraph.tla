------------------------------ MODULE TaskGraph ------------------------------
(***************************************************************************)
(* The life of a task: its counter m_numberOfChildTasks, its function, its *)
(* dependant slots, the free list of the TaskAllocator, the client threads *)
(* that create, wire, submit and release tasks, and the task fibers that   *)
(* run them and then notify their dependants.                              *)
(*                                                                         *)
(* m_numberOfChildTasks is one atomic integer with three meanings: while   *)
(* the task waits it is the number of prerequisites that still have to     *)
(* notify it plus one for its own function; it is 1 when the task may run; *)
(* it is 0 or -1 when the function has returned (-1: with an error).       *)
(*                                                                         *)
(* The pending queues of all the worker instances are one multiset here    *)
(* (any instance can steal any task); module TaskSystem splits it.         *)
(* A client is any code that calls ITaskSystem: an external thread, or the *)
(* function of another task.                                               *)
(***************************************************************************)
EXTENDS Integers, FiniteSets

CONSTANTS
    Tasks,          \* The task pool (TASK_POOL_SIZE tasks in the code).
    Fibers,         \* Task fibers: each runs one task at a time.
    Clients,        \* Threads of control that use the public interface.
    MaxDependants,  \* Dependant slots of a task (3 in the code).
    NoTask, NoClient,
    SubmitOrder,    \* In what order a client submits the tasks of a graph:
                    \* "dependantsFirst" or "any".
    ReleaseTime     \* When a client releases a task: "never", "finished"
                    \* (IsFinished() returned true, all that the interface lets
                    \* a client see) or "quiescent" (its fiber let go of it).

ASSUME NoTaskAssumption == NoTask \notin Tasks
ASSUME NoClientAssumption == NoClient \notin Clients
ASSUME MaxDependantsAssumption == MaxDependants \in Nat
ASSUME SubmitOrderAssumption == SubmitOrder \in {"dependantsFirst", "any"}
ASSUME ReleaseTimeAssumption == ReleaseTime \in {"never", "finished", "quiescent"}

VARIABLES
    numberOfChildTasks, \* m_numberOfChildTasks of every task.
    hasFunction,        \* m_functionPtr # nullptr.
    dependants,         \* m_dependants of every task.
    owner,              \* The client holding a task's handle, NoClient: in the pool.
    submitted,          \* The client has called SubmitTask.
    dispatching,        \* The task a client is dispatching (SubmitTask found it ready).
    pending,            \* How many pending queue entries point to a task.
    fiberState,         \* Where a fiber is in running its task.
    fiberTask,          \* m_task of a fiber.
    slot,               \* Next slot a fiber reads in its two loops over slots.
    readyArray,         \* TReadyToBeExecutedArray of OnFinishedTaskFiber.
    waits,              \* History: edges <<prerequisite, slot>> that have not yet
                        \* notified a task.
    executions          \* History: how often the function of a task was called
                        \* since the task was created.

clientVars == <<owner, submitted, dispatching>>
fiberVars  == <<fiberState, fiberTask, slot, readyArray>>
vars == <<numberOfChildTasks, hasFunction, dependants, pending, waits, executions,
          clientVars, fiberVars>>

Slots == 0 .. MaxDependants - 1

NoDependants == [i \in Slots |-> NoTask]

\* The number of entries a task keeps its counter above zero with by itself.
OwnShare(t) == IF hasFunction[t] THEN 1 ELSE 0

IsFinished(t)            == numberOfChildTasks[t] <= 0
\* Mutant: a task that still waits for prerequisites counts as ready.
IsReadyWhileWaiting(t)   == numberOfChildTasks[t] >= 1
IsReadyToBeExecuted(t)   == numberOfChildTasks[t] = 1
HasDependant(p, t)       == \E i \in Slots : dependants[p][i] = t
InPool(t)                == owner[t] = NoClient

Init ==
    /\ numberOfChildTasks = [t \in Tasks |-> 0]
    /\ hasFunction = [t \in Tasks |-> FALSE]
    /\ dependants = [t \in Tasks |-> NoDependants]
    /\ owner = [t \in Tasks |-> NoClient]
    /\ submitted = [t \in Tasks |-> FALSE]
    /\ dispatching = [c \in Clients |-> NoTask]
    /\ pending = [t \in Tasks |-> 0]
    /\ fiberState = [f \in Fibers |-> "Idle"]
    /\ fiberTask = [f \in Fibers |-> NoTask]
    /\ slot = [f \in Fibers |-> 0]
    /\ readyArray = [f \in Fibers |-> NoDependants]
    /\ waits = [t \in Tasks |-> {}]
    /\ executions = [t \in Tasks |-> 0]

-----------------------------------------------------------------------------
(***************************************************************************)
(* Clients.  A client calls one operation at a time.                       *)
(***************************************************************************)

Calls(c) == dispatching[c] = NoTask

\* A handle may be set up by the client that created it, until it is submitted.
MayBuild(c, t) == Calls(c) /\ owner[t] = c /\ ~submitted[t]

\* The pool hands out a task whose fields Clear() has reset.
CreateNewTask(c, t) ==
    /\ Calls(c)
    /\ InPool(t)
    /\ owner' = [owner EXCEPT ![t] = c]
    /\ executions' = [executions EXCEPT ![t] = 0]
    /\ UNCHANGED <<numberOfChildTasks, hasFunction, dependants, submitted, dispatching,
                   pending, waits, fiberVars>>

\* One slot of AddDependantTasks.  The client wires a task to its dependants
\* before it gives the task prerequisites of its own, as CreateNewTask(function,
\* dependants...) does, so it never builds a cycle.
AddDependantTasks(c, t, i, d) ==
    /\ MayBuild(c, t) /\ MayBuild(c, d)
    /\ t # d
    /\ numberOfChildTasks[t] = OwnShare(t)
    /\ dependants[t][i] = NoTask
    /\ dependants' = [dependants EXCEPT ![t][i] = d]
    /\ numberOfChildTasks' = [numberOfChildTasks EXCEPT ![d] = @ + 1]
    /\ waits' = [waits EXCEPT ![d] = @ \cup {<<t, i>>}]
    /\ UNCHANGED <<hasFunction, pending, executions, clientVars, fiberVars>>

SetTaskFunction(c, t) ==
    /\ MayBuild(c, t)
    /\ ~hasFunction[t]
    /\ hasFunction' = [hasFunction EXCEPT ![t] = TRUE]
    /\ numberOfChildTasks' = [numberOfChildTasks EXCEPT ![t] = @ + 1]
    /\ UNCHANGED <<dependants, pending, waits, executions, clientVars, fiberVars>>

\* Which tasks the client may submit now: the dependants of t are complete, and
\* in the careful order they have all been submitted before t.
MaySubmit(t) ==
    \A d \in Tasks : HasDependant(t, d) =>
        /\ hasFunction[d]
        /\ SubmitOrder = "dependantsFirst" => submitted[d]

\* SubmitTask reads the counter once: a task that is ready goes on to
\* DispatchTask, any other is left to the prerequisites that will make it ready.
SubmitTask(c, t) ==
    /\ MayBuild(c, t)
    /\ hasFunction[t]
    /\ MaySubmit(t)
    /\ submitted' = [submitted EXCEPT ![t] = TRUE]
    /\ dispatching' = [dispatching EXCEPT ![c] = IF IsReadyToBeExecuted(t) THEN t ELSE @]
    /\ UNCHANGED <<numberOfChildTasks, hasFunction, dependants, pending, waits, executions,
                   owner, fiberVars>>

\* DispatchTask puts the task into the pending queue of some worker instance.
DispatchTask(c) ==
    /\ dispatching[c] # NoTask
    /\ pending' = [pending EXCEPT ![dispatching[c]] = @ + 1]
    /\ dispatching' = [dispatching EXCEPT ![c] = NoTask]
    /\ UNCHANGED <<numberOfChildTasks, hasFunction, dependants, waits, executions, owner,
                   submitted, fiberVars>>

\* When the client takes its task to be over and done with.
MayRelease(t) ==
    /\ ReleaseTime # "never"
    /\ ReleaseTime = "quiescent" => \A f \in Fibers : fiberTask[f] # t

\* Mutants of Task::Clear that forget a field.
ClearKeepsDependants(t) ==
    /\ hasFunction' = [hasFunction EXCEPT ![t] = FALSE]
    /\ numberOfChildTasks' = [numberOfChildTasks EXCEPT ![t] = 0]
    /\ UNCHANGED dependants

ClearKeepsCounter(t) ==
    /\ hasFunction' = [hasFunction EXCEPT ![t] = FALSE]
    /\ dependants' = [dependants EXCEPT ![t] = NoDependants]
    /\ UNCHANGED numberOfChildTasks

Clear(t) ==
    /\ hasFunction' = [hasFunction EXCEPT ![t] = FALSE]
    /\ dependants' = [dependants EXCEPT ![t] = NoDependants]
    /\ numberOfChildTasks' = [numberOfChildTasks EXCEPT ![t] = 0]

\* ReleaseTask clears the task and puts it back into the pool.
ReleaseTask(c, t) ==
    /\ Calls(c) /\ owner[t] = c /\ submitted[t]
    /\ IsFinished(t)
    /\ MayRelease(t)
    /\ Clear(t)
    /\ owner' = [owner EXCEPT ![t] = NoClient]
    /\ submitted' = [submitted EXCEPT ![t] = FALSE]
    /\ UNCHANGED <<dispatching, pending, waits, executions, fiberVars>>

-----------------------------------------------------------------------------
(***************************************************************************)
(* Task fibers.                                                            *)
(***************************************************************************)

\* A worker instance pops or steals a pending task and gives it to a fiber.
TakeTask(f, t) ==
    /\ fiberState[f] = "Idle"
    /\ pending[t] > 0
    /\ pending' = [pending EXCEPT ![t] = @ - 1]
    /\ fiberState' = [fiberState EXCEPT ![f] = "Starting"]
    /\ fiberTask' = [fiberTask EXCEPT ![f] = t]
    /\ UNCHANGED <<numberOfChildTasks, hasFunction, dependants, waits, executions,
                   clientVars, slot, readyArray>>

\* Task::Run calls the function.
RunTask(f) ==
    /\ fiberState[f] = "Starting"
    /\ hasFunction[fiberTask[f]]
    /\ executions' = [executions EXCEPT ![fiberTask[f]] = @ + 1]
    /\ fiberState' = [fiberState EXCEPT ![f] = "Running"]
    /\ UNCHANGED <<numberOfChildTasks, hasFunction, dependants, pending, waits, clientVars,
                   fiberTask, slot, readyArray>>

\* The function returns and Task::Run publishes the result with Exchange.
FinishTask(f, success) ==
    /\ fiberState[f] = "Running"
    /\ numberOfChildTasks' =
           [numberOfChildTasks EXCEPT ![fiberTask[f]] = IF success THEN 0 ELSE -1]
    /\ fiberState' = [fiberState EXCEPT ![f] = "Updating"]
    /\ slot' = [slot EXCEPT ![f] = 0]
    /\ UNCHANGED <<hasFunction, dependants, pending, waits, executions, clientVars,
                   fiberTask, readyArray>>

\* Mutants: the decremented counter is compared with the wrong value.
BecomesReadyTooEarly(d) == numberOfChildTasks[d] <= 3
BecomesReadyTooLate(d)  == numberOfChildTasks[d] = 1

\* The decrement of a dependant's counter returns 1.
BecomesReady(d) == numberOfChildTasks[d] = 2

\* CHECK_DEPS for one slot: the dependant's counter is decremented, and the fiber
\* that brings it to 1 keeps the dependant to queue it.
UpdateDependecies(f) ==
    LET p == fiberTask[f]
        i == slot[f]
        d == dependants[p][i]
    IN  /\ fiberState[f] = "Updating"
        /\ i < MaxDependants
        /\ slot' = [slot EXCEPT ![f] = @ + 1]
        /\ \/ /\ d = NoTask
              /\ UNCHANGED <<numberOfChildTasks, waits, readyArray>>
           \/ /\ d # NoTask
              /\ numberOfChildTasks' = [numberOfChildTasks EXCEPT ![d] = @ - 1]
              /\ waits' = [waits EXCEPT ![d] = @ \ {<<p, i>>}]
              /\ readyArray' = [readyArray EXCEPT ![f][i] =
                                    IF BecomesReady(d) THEN d ELSE @]
        /\ UNCHANGED <<hasFunction, dependants, pending, executions, clientVars,
                       fiberState, fiberTask>>

\* All slots are read: OnFinishedTaskFiber starts over on the array of ready tasks.
EndUpdate(f) ==
    /\ fiberState[f] = "Updating"
    /\ slot[f] = MaxDependants
    /\ fiberState' = [fiberState EXCEPT ![f] = "Adding"]
    /\ slot' = [slot EXCEPT ![f] = 0]
    /\ UNCHANGED <<numberOfChildTasks, hasFunction, dependants, pending, waits, executions,
                   clientVars, fiberTask, readyArray>>

\* AddTask for one entry of the array of ready tasks.
AddReadyTask(f) ==
    LET d == readyArray[f][slot[f]]
    IN  /\ fiberState[f] = "Adding"
        /\ slot[f] < MaxDependants
        /\ slot' = [slot EXCEPT ![f] = @ + 1]
        /\ readyArray' = [readyArray EXCEPT ![f][slot[f]] = NoTask]
        /\ pending' = IF d = NoTask THEN pending ELSE [pending EXCEPT ![d] = @ + 1]
        /\ UNCHANGED <<numberOfChildTasks, hasFunction, dependants, waits, executions,
                       clientVars, fiberState, fiberTask>>

\* SetTaskToExecute(nullptr): the fiber is free for the next task.
ClearFiber(f) ==
    /\ fiberState[f] = "Adding"
    /\ slot[f] = MaxDependants
    /\ fiberState' = [fiberState EXCEPT ![f] = "Idle"]
    /\ fiberTask' = [fiberTask EXCEPT ![f] = NoTask]
    /\ slot' = [slot EXCEPT ![f] = 0]
    /\ UNCHANGED <<numberOfChildTasks, hasFunction, dependants, pending, waits, executions,
                   clientVars, readyArray>>

-----------------------------------------------------------------------------
ClientStep(c) ==
    \/ DispatchTask(c)
    \/ \E t \in Tasks :
           \/ CreateNewTask(c, t)
           \/ \E i \in Slots, d \in Tasks : AddDependantTasks(c, t, i, d)
           \/ SetTaskFunction(c, t)
           \/ SubmitTask(c, t)
           \/ ReleaseTask(c, t)

FiberStep(f) ==
    \/ \E t \in Tasks : TakeTask(f, t)
    \/ RunTask(f)
    \/ \E success \in BOOLEAN : FinishTask(f, success)
    \/ UpdateDependecies(f)
    \/ EndUpdate(f)
    \/ AddReadyTask(f)
    \/ ClearFiber(f)

Next == (\E c \in Clients : ClientStep(c)) \/ (\E f \in Fibers : FiberStep(f))

Spec == Init /\ [][Next]_vars

\* Fibers keep going (the workers run until they are told to stop, and every task
\* function returns), and a SubmitTask call that found its task ready completes.
Fairness ==
    /\ \A f \in Fibers : WF_vars(FiberStep(f))
    /\ \A c \in Clients : WF_vars(DispatchTask(c))

FairSpec == Spec /\ Fairness

-----------------------------------------------------------------------------
(***************************************************************************)
(* Properties.                                                             *)
(***************************************************************************)

FiberStates == {"Idle", "Starting", "Running", "Updating", "Adding"}

TypeOK ==
    /\ numberOfChildTasks \in [Tasks -> Int]
    /\ hasFunction \in [Tasks -> BOOLEAN]
    /\ dependants \in [Tasks -> [Slots -> Tasks \cup {NoTask}]]
    /\ owner \in [Tasks -> Clients \cup {NoClient}]
    /\ submitted \in [Tasks -> BOOLEAN]
    /\ dispatching \in [Clients -> Tasks \cup {NoTask}]
    /\ pending \in [Tasks -> Nat]
    /\ fiberState \in [Fibers -> FiberStates]
    /\ fiberTask \in [Fibers -> Tasks \cup {NoTask}]
    /\ \A f \in Fibers : fiberTask[f] = NoTask <=> fiberState[f] = "Idle"
    /\ slot \in [Fibers -> 0 .. MaxDependants]
    /\ readyArray \in [Fibers -> [Slots -> Tasks \cup {NoTask}]]
    /\ waits \in [Tasks -> SUBSET (Tasks \X Slots)]
    /\ executions \in [Tasks -> Nat]

\* Where a task can be on its way to execution.
IsDispatched(t) ==
    \/ pending[t] > 0
    \/ \E c \in Clients : dispatching[c] = t
    \/ \E f \in Fibers :
          \/ fiberTask[f] = t /\ fiberState[f] = "Starting"
          \/ \E i \in Slots : readyArray[f][i] = t

\* A task that is on its way to execution is ready, at whichever of the places
\* that assert it the assertion is evaluated: ASSERT( IsReadyToBeExecuted() ) in
\* Task::Run, Dispatcher::DispatchTask and RedispatchTaskFromHelperWorkerInstance.
DispatchedTasksAreReady ==
    \A t \in Tasks : IsDispatched(t) => IsReadyToBeExecuted(t)

\* Between its creation and its release a task is executed at most once, whoever
\* makes it ready: SubmitTask or the worker that finishes its last prerequisite.
ExecutedAtMostOnce == \A t \in Tasks : executions[t] <= 1

\* A task has at most one entry in all the pending queues together, so a queue of
\* TASK_POOL_SIZE entries always has room and AddTask's VERIFY_SUCCESS holds.
PendingAtMostOnce == \A t \in Tasks : pending[t] <= 1

\* "All dependant tasks will be executed after this tasks finish execution": while
\* a task runs, every task that names it as a dependant has finished.
PrerequisitesFinishFirst ==
    \A f \in Fibers, p \in Tasks :
        (fiberState[f] = "Running" /\ HasDependant(p, fiberTask[f])) => IsFinished(p)

\* m_numberOfChildTasks counts exactly the notifications a task still waits for
\* and the task itself, until the function has returned and nothing is left.
CounterIsExact ==
    \A t \in Tasks :
        IF hasFunction[t] /\ IsFinished(t)
          THEN executions[t] = 1 /\ waits[t] = {}
          ELSE numberOfChildTasks[t] = Cardinality(waits[t]) + OwnShare(t)

\* Nobody touches the counter of a task between the return of its function and
\* ReleaseTask: IsFinished() and HasExecutionError() keep their answers.
ResultIsStable ==
    [][\A t \in Tasks :
           (hasFunction[t] /\ IsFinished(t) /\ hasFunction'[t])
               => numberOfChildTasks'[t] = numberOfChildTasks[t]]_vars

\* A task will run when it is submitted together with everything it waits for,
\* directly or not.
IsBoundToRun(t) ==
    \E S \in SUBSET Tasks :
        /\ t \in S
        /\ \A d \in S : submitted[d] /\ \A e \in waits[d] : e[1] \in S

\* Instances take their newest task first: with new tasks all the time, an old one may
\* wait for ever.
SubmitsForEver == []<><<\E c \in Clients, t \in Tasks : SubmitTask(c, t)>>_vars

\* Every task whose prerequisites are all submitted is eventually finished, unless
\* clients keep submitting others.
EventuallyExecuted ==
    (\A t \in Tasks : IsBoundToRun(t) ~> IsFinished(t)) \/ SubmitsForEver

-----------------------------------------------------------------------------
(***************************************************************************)
(* The inductive invariant behind the safety properties, for a client that *)
(* submits dependants first and releases a task when its fiber is done.    *)
(***************************************************************************)

CarefulClient == SubmitOrder = "dependantsFirst" /\ ReleaseTime # "finished"

\* Where a task is in its life: a task in the pool is clear and nobody uses it; a
\* task is complete when it is submitted, and is not executed before that.
LifeInv ==
    \A t \in Tasks :
        /\ InPool(t) => /\ ~hasFunction[t] /\ ~submitted[t]
                        /\ waits[t] = {}
                        /\ dependants[t] = NoDependants
        /\ submitted[t] => hasFunction[t]
        /\ ~InPool(t) /\ ~submitted[t] => executions[t] = 0

CountInv ==
    \A t \in Tasks :
        /\ IsFiniteSet(waits[t])
        /\ executions[t] <= 1
        /\ waits[t] # {} => executions[t] = 0
        /\ IF hasFunction[t] /\ IsFinished(t)
             THEN executions[t] = 1 /\ waits[t] = {}
             ELSE numberOfChildTasks[t] = Cardinality(waits[t]) + OwnShare(t)

\* A fiber that runs p has still to read slot i of p.
IsToNotify(p, i) ==
    \E f \in Fibers : fiberTask[f] = p /\ fiberState[f] = "Updating" /\ slot[f] <= i

\* A prerequisite notifies each dependant exactly once, after it has finished.
EdgeOK(p, d, i) ==
    /\ <<p, i>> \in waits[d] =>
          /\ dependants[p][i] = d
          /\ submitted[p] => submitted[d]
          /\ hasFunction[p] /\ IsFinished(p) => IsToNotify(p, i)
    /\ dependants[p][i] = d /\ <<p, i>> \notin waits[d] =>
          /\ hasFunction[p] /\ IsFinished(p)
          /\ ~IsToNotify(p, i)

EdgeInv == \A p \in Tasks, d \in Tasks, i \in Slots : EdgeOK(p, d, i)

\* A task on its way to execution is at one place only.
DispatchInv ==
    /\ \A t \in Tasks : IsDispatched(t) =>
          numberOfChildTasks[t] = 1 /\ executions[t] = 0 /\ submitted[t]
    /\ \A t \in Tasks : pending[t] <= 1
    /\ \A c \in Clients : dispatching[c] # NoTask =>
          /\ owner[dispatching[c]] = c
          /\ pending[dispatching[c]] = 0
    /\ \A f \in Fibers, i \in Slots : readyArray[f][i] # NoTask =>
          /\ pending[readyArray[f][i]] = 0
          /\ \A c \in Clients : dispatching[c] # readyArray[f][i]
          /\ \A g \in Fibers, j \in Slots :
                readyArray[g][j] = readyArray[f][i] => g = f /\ j = i

\* A fiber has its task for itself, and what the fiber has done with it shows.
FiberInv ==
    \A f \in Fibers : fiberState[f] # "Idle" =>
        /\ submitted[fiberTask[f]]
        /\ \A g \in Fibers : fiberTask[g] = fiberTask[f] => g = f
        /\ fiberState[f] = "Starting" =>
              /\ pending[fiberTask[f]] = 0
              /\ \A c \in Clients : dispatching[c] # fiberTask[f]
              /\ \A g \in Fibers, j \in Slots : readyArray[g][j] # fiberTask[f]
        /\ fiberState[f] # "Starting" => executions[fiberTask[f]] = 1
        /\ fiberState[f] = "Running" => numberOfChildTasks[fiberTask[f]] = 1
        /\ fiberState[f] \in {"Updating", "Adding"} => IsFinished(fiberTask[f])

IInv == TypeOK /\ LifeInv /\ CountInv /\ EdgeInv /\ DispatchInv /\ FiberInv
=============================================================================
