--------------------------- MODULE TaskSystemProofs ---------------------------
(***************************************************************************)
(* Theorems about TaskSystem, for every program, any number of workers,    *)
(* tasks and task fibers.  The argument has parts, each with its inductive *)
(* invariant: what the variables hold (Typed, Contents), where the fibers  *)
(* are (Placed), who still has to wake a worker (Awaited), which fibers    *)
(* are idle (Idleness), where the tasks are (Linked, Stepping), that the   *)
(* graph the system holds satisfies the invariant of TaskGraph, and which  *)
(* tasks and fibers may be suspended, and where (OnlyWaitersWait, AtHome). *)
(***************************************************************************)
EXTENDS TaskSystem, SequenceLemmas, FiniteSetTheorems, FunctionTheorems

\* The steps in which a thread has switched to a task fiber.
FiberSteps == {"OnFiber", "Suspended", "Update", "Add", "Astray"}

AllSteps == WorkerSteps \cup ExecutionSteps \cup MainSteps

\* The types, with the domains that TypeOK leaves open.
Typed ==
    /\ TypeOK
    /\ progress \in [Submitters -> Nat]
    /\ pc \in [Instances -> AllSteps]

\* The part of it that is about the steps.
StepsTyped ==
    /\ pc \in [Instances -> AllSteps]
    /\ \A w \in Workers : pc[w] \in WorkerSteps \cup ExecutionSteps
    /\ pc[Helper] \in MainSteps \cup ExecutionSteps

\* A fiber that has begun has a function on its stack; a fiber that a thread has switched
\* to, or that is suspended, has a task.
Contents ==
    /\ \A f \in Fibers : fiberState[f] # "Idle" => stack[f] # NoTask
    /\ \A i \in Instances : pc[i] \in FiberSteps <=> running[i] # NoFiber
    /\ \A i \in Instances : running[i] # NoFiber => fiberTask[running[i]] # NoTask
    /\ \A i \in Instances : \A f \in Range(suspendedFibers[i]) : fiberTask[f] # NoTask
    /\ pc[Helper] = "Adopt" => adopting \in Fibers \X Workers

\* The fibers that an instance and its thread hold.
Current(i) == IF pc[i] = "Done" THEN {} ELSE {currentFiber[i]}
Resumed(i) == {running[i]} \ {currentFiber[i], NoFiber}
Holding(i) == Current(i) \cup Resumed(i) \cup Range(suspendedFibers[i])

\* Every fiber has one place.
Placed ==
    /\ IsInjective(freeFibers)
    /\ \A i \in Instances : IsInjective(suspendedFibers[i])
    /\ \A f \in Fibers : f \in Range(freeFibers) \/ \E i \in Instances : f \in Holding(i)
    /\ \A i \in Instances : Holding(i) \cap Range(freeFibers) = {}
    /\ \A i, j \in Instances : i # j => Holding(i) \cap Holding(j) = {}
    /\ \A i \in Instances :
          (Current(i) \cup Resumed(i)) \cap Range(suspendedFibers[i]) = {}

\* The event of worker w is set, or somebody is about to set it.
Announced(w) == hasWorkToDoEvent[w] \/ \E i \in Instances : IsAboutToWake(i, w)

\* What worker w will not look at before it sleeps has been announced to it.
AwaitedBy(w) ==
    /\ pc[w] \in {"Start", "Wait", "Steal"} /\ pendingTasks[w] # <<>> => Announced(w)
    /\ pc[w] \in {"Start", "Wait"} /\ suspendedFibers[w] # <<>> => Announced(w)
    /\ pc[w] \in {"Resume", "Take", "Steal"} /\ suspendedFibers[w] # <<>>
          => isThereMoreWork[w] \/ Announced(w)
    /\ pc[w] = "Resume" /\ index[w] > 0 => isThereMoreWork[w]
    /\ pc[w] \in FiberSteps => isThereMoreWork[w]
    /\ shouldFinishWork[w] /\ pc[w] \notin {"Reset", "Awake", "Retire", "Done"} => Announced(w)

Awaited == \A w \in Workers : AwaitedBy(w)

SystemInv == Typed /\ Contents /\ Placed /\ Awaited

-----------------------------------------------------------------------------
\* Helper and the workers are the instances, and there is a worker.
LEMMA InstanceFacts ==
    ASSUME program \in Programs
    PROVE  /\ Helper \in Instances /\ Helper \notin Workers
           /\ \A w \in Workers : w \in Instances /\ w # Helper
           /\ \A i \in Instances : i = Helper \/ i \in Workers
           /\ NumWorkers \in Nat \ {0} /\ NumWorkers + 1 <= NumFibers
           /\ NoInstance \notin Instances
<1>1. NumWorkers \in 1 .. MaxWorkers
  BY ProgramsAssumption DEF NumWorkers
<1>2. MaxWorkers \in Nat /\ NumFibers \in Nat /\ MaxWorkers <= NumFibers - 1
  BY SizesAssumption
<1> QED
  BY <1>1, <1>2, NamesAssumption DEF Instances, Workers, Helper

\* The helper is an instance, whatever the program is.
LEMMA HelperIsAnInstance == Helper \in Instances
BY DEF Instances

\* The workers are numbered from 1.
LEMMA WorkerNumbers == Workers = 1 .. NumWorkers
BY DEF Workers

\* What depends on the program only stays what it is.
LEMMA ProgramStays ==
    ASSUME program' = program
    PROVE  /\ Instances' = Instances /\ Workers' = Workers /\ NumWorkers' = NumWorkers
           /\ Submits' = Submits /\ Fenced' = Fenced /\ Awaits' = Awaits
           /\ Dependants' = Dependants
BY DEF Instances, Workers, NumWorkers, Submits, Fenced, Awaits, Dependants

\* The places of the fibers do not change with anything else.
LEMMA PlacedKept ==
    ASSUME Placed, Typed, program' = program,
           UNCHANGED <<freeFibers, currentFiber, running, suspendedFibers>>,
           \A i \in Instances : pc'[i] = "Done" <=> pc[i] = "Done"
    PROVE  Placed'
<1>1. \A i \in Instances : Current(i)' = Current(i) /\ Resumed(i)' = Resumed(i)
                           /\ Holding(i)' = Holding(i)
  BY DEF Current, Resumed, Holding
<1> QED
  BY <1>1, ProgramStays DEF Placed

\* What fibers hold does not change with anything else.
LEMMA ContentsKept ==
    ASSUME Contents, program' = program,
           UNCHANGED <<running, suspendedFibers, fiberState, fiberTask, stack, adopting>>,
           \A i \in Instances : pc'[i] \in FiberSteps <=> pc[i] \in FiberSteps,
           pc'[Helper] = "Adopt" => pc[Helper] = "Adopt"
    PROVE  Contents'
BY ProgramStays DEF Contents

\* An announcement stays until the event is set.
LEMMA AnnouncedKept ==
    ASSUME program' = program, NEW w \in Workers, Announced(w),
           UNCHANGED waking, hasWorkToDoEvent[w] => hasWorkToDoEvent'[w],
           pc[Helper] \in {"Adopt", "StopWakeUp"}
               => pc'[Helper] = pc[Helper] /\ index'[Helper] = index[Helper]
    PROVE  Announced(w)'
BY ProgramStays DEF Announced, IsAboutToWake

\* A step of thread i that wakes nobody, and adds nothing to the queues of others.
StepOf(i) ==
    /\ program' = program
    /\ waking' = waking /\ shouldFinishWork' = shouldFinishWork
    /\ pc[i] \notin {"Adopt", "StopWakeUp"}
    /\ \A j \in Instances : j # i =>
          /\ pc'[j] = pc[j] /\ index'[j] = index[j] /\ isThereMoreWork'[j] = isThereMoreWork[j]
          /\ pendingTasks'[j] # <<>> => pendingTasks[j] # <<>>
          /\ suspendedFibers'[j] # <<>> => suspendedFibers[j] # <<>>
    /\ \A w \in Workers : w # i => hasWorkToDoEvent'[w] = hasWorkToDoEvent[w]

\* Such a step takes no announcement away, but perhaps the thread's own event.
LEMMA AnnouncedStep ==
    ASSUME program \in Programs, NEW i \in Instances, StepOf(i),
           NEW w \in Workers, hasWorkToDoEvent[w] => hasWorkToDoEvent'[w], Announced(w)
    PROVE  Announced(w)'
<1>1. CASE i = Helper
  BY <1>1, ProgramStays, InstanceFacts DEF StepOf, Announced, IsAboutToWake
<1>2. CASE i # Helper
  BY <1>2, AnnouncedKept, InstanceFacts DEF StepOf
<1> QED
  BY <1>1, <1>2

\* It is up to thread i to look at what has been announced to it.
LEMMA AwaitedStep ==
    ASSUME SystemInv, NEW i \in Instances, StepOf(i), i \in Workers => AwaitedBy(i)'
    PROVE  Awaited'
<1>1. ASSUME NEW w \in Workers, w # i PROVE AwaitedBy(w)'
  <2>1. Announced(w) => Announced(w)'
    BY <1>1, AnnouncedStep DEF SystemInv, Typed, TypeOK, StepOf
  <2>2. AwaitedBy(w) /\ w \in Instances
    BY InstanceFacts DEF SystemInv, Typed, TypeOK, Awaited
  <2> QED
    BY <1>1, <2>1, <2>2 DEF AwaitedBy, StepOf
<1> QED
  BY <1>1, ProgramStays DEF Awaited, StepOf

\* A step of thread i that moves fibers between its instance and the free list.
LEMMA PlacedStep ==
    ASSUME SystemInv, NEW i \in Instances, program' = program,
           \A j \in Instances : j # i =>
               /\ pc'[j] = pc[j] /\ running'[j] = running[j] /\ currentFiber'[j] = currentFiber[j]
               /\ suspendedFibers'[j] = suspendedFibers[j],
           IsInjective(freeFibers'), IsInjective(suspendedFibers'[i]),
           Range(freeFibers') \cup Holding(i)' = Range(freeFibers) \cup Holding(i),
           Range(freeFibers') \cap Holding(i)' = {},
           (Current(i) \cup Resumed(i))' \cap Range(suspendedFibers'[i]) = {}
    PROVE  Placed'
<1>1. \A j \in Instances : j # i =>
         Holding(j)' = Holding(j) /\ Current(j)' = Current(j) /\ Resumed(j)' = Resumed(j)
  BY DEF Current, Resumed, Holding
<1>2. Placed /\ Instances' = Instances
  BY ProgramStays DEF SystemInv
<1>3. \A j \in Instances : IsInjective(suspendedFibers[j])'
  BY <1>2 DEF Placed
<1>4. \A f \in Fibers : f \in Range(freeFibers)' \/ \E j \in Instances : f \in Holding(j)'
  <2> SUFFICES ASSUME NEW f \in Fibers, f \notin Range(freeFibers')
               PROVE  \E j \in Instances : f \in Holding(j)'
    OBVIOUS
  <2>1. PICK j \in Instances : f \in Range(freeFibers) \cup Holding(i) \/ (j # i /\ f \in Holding(j))
    BY <1>2 DEF Placed
  <2> QED
    BY <1>1, <2>1
<1>5. \A j \in Instances : Holding(j)' \cap Range(freeFibers)' = {}
  BY <1>1, <1>2 DEF Placed
<1>6. \A j, k \in Instances : j # k => Holding(j)' \cap Holding(k)' = {}
  BY <1>1, <1>2 DEF Placed
<1>7. \A j \in Instances : (Current(j) \cup Resumed(j))' \cap Range(suspendedFibers[j])' = {}
  BY <1>1, <1>2 DEF Placed
<1> QED
  BY <1>2, <1>3, <1>4, <1>5, <1>6, <1>7 DEF Placed

\* The fiber that thread i is on, and the current one of its instance, are nowhere else.
LEMMA FibersApart ==
    ASSUME SystemInv, NEW i \in Instances, NEW f \in Current(i) \cup Resumed(i)
    PROVE  /\ f \in Fibers /\ f \notin Range(freeFibers)
           /\ \A j \in Instances : f \notin Range(suspendedFibers[j])
           /\ \A j \in Instances : j # i => f # running[j] /\ f \notin Current(j)
<1>1. f \in Fibers
  BY DEF SystemInv, Typed, TypeOK, Current, Resumed
<1>2. \A j \in Instances : running[j] # NoFiber => running[j] \in Current(j) \cup Resumed(j)
  BY DEF SystemInv, Contents, Current, Resumed, FiberSteps
<1>3. f # NoFiber
  BY <1>1, NamesAssumption
<1>4. f \in Holding(i)
  BY DEF Holding
<1>5. \A j \in Instances : j # i => f \notin Holding(j)
  BY <1>4 DEF SystemInv, Placed
<1> QED
  BY <1>1, <1>2, <1>3, <1>4, <1>5 DEF SystemInv, Placed, Holding

\* A thread that has switched to a fiber is on its current fiber or on a resumed one.
LEMMA OnOneFiber ==
    ASSUME SystemInv, NEW i \in Instances, pc[i] \in FiberSteps
    PROVE  /\ running[i] \in Fibers /\ running[i] \in Current(i) \cup Resumed(i)
           /\ fiberTask[running[i]] \in Tasks
<1>1. running[i] \in Fibers
  BY DEF SystemInv, Typed, TypeOK, Contents
<1> QED
  BY <1>1 DEF SystemInv, Typed, TypeOK, Contents, Current, Resumed, FiberSteps

\* A thread goes to a step that is its own.
LEMMA StepsTypedKept ==
    ASSUME SystemInv, program' = program, NEW i \in Instances, NEW step \in AllSteps,
           pc' = [pc EXCEPT ![i] = step],
           i = Helper => step \in MainSteps \cup ExecutionSteps,
           i # Helper => step \in WorkerSteps \cup ExecutionSteps
    PROVE  StepsTyped'
BY ProgramStays, InstanceFacts DEF SystemInv, Typed, TypeOK, StepsTyped
-----------------------------------------------------------------------------
(***************************************************************************)
(* The steps of a worker thread outside the execution step.                *)
(***************************************************************************)

\* A worker thread becomes a fiber.
LEMMA StartThreadStep ==
    ASSUME SystemInv, program' = program, NEW w \in Workers, StartThread(w) PROVE SystemInv'
<1> USE DEF StartThread, GoTo, Convert, taskVars, stepVars, dispatchVars, threadVars
<1>0. w \in Instances /\ w # Helper
  BY InstanceFacts DEF SystemInv, Typed, TypeOK
<1>1. Typed'
  BY <1>0, ProgramStays, InstanceFacts
     DEF SystemInv, Typed, TypeOK, AllSteps, WorkerSteps, ExecutionSteps, MainSteps
<1>2. pc' = [pc EXCEPT ![w] = "Wait"] /\ pc[w] = "Start" /\ pc \in [Instances -> AllSteps]
  BY DEF SystemInv, Typed
<1>3. Contents'
  BY <1>0, <1>2, ContentsKept DEF SystemInv, FiberSteps
<1>4. Placed'
  BY <1>0, <1>2, PlacedKept DEF SystemInv
<1>5. StepOf(w)
  BY <1>2 DEF StepOf
<1>6. AwaitedBy(w)'
  BY <1>0, <1>2, <1>5, AnnouncedStep
     DEF SystemInv, Typed, TypeOK, Awaited, AwaitedBy, FiberSteps
<1> QED
  BY <1>0, <1>1, <1>3, <1>4, <1>5, <1>6, AwaitedStep DEF SystemInv

\* A worker gets past its event only if the event is set.
LEMMA WaitForEventStep ==
    ASSUME SystemInv, program' = program, NEW w \in Workers, WaitForEvent(w) PROVE SystemInv'
<1> USE DEF WaitForEvent, GoTo, taskVars, fiberVars, instanceVars, stepVars, dispatchVars, threadVars
<1>0. w \in Instances /\ w # Helper
  BY InstanceFacts DEF SystemInv, Typed, TypeOK
<1>1. Typed'
  BY <1>0, ProgramStays, InstanceFacts
     DEF SystemInv, Typed, TypeOK, AllSteps, WorkerSteps, ExecutionSteps, MainSteps
<1>2. pc' = [pc EXCEPT ![w] = "Reset"] /\ pc[w] = "Wait" /\ pc \in [Instances -> AllSteps]
  BY DEF SystemInv, Typed
<1>3. Contents'
  BY <1>0, <1>2, ContentsKept DEF SystemInv, FiberSteps
<1>4. Placed'
  BY <1>0, <1>2, PlacedKept DEF SystemInv
<1>5. StepOf(w)
  BY <1>2 DEF StepOf
<1>6. AwaitedBy(w)'
  BY <1>0, <1>2 DEF AwaitedBy, FiberSteps
<1> QED
  BY <1>0, <1>1, <1>3, <1>4, <1>5, <1>6, AwaitedStep DEF SystemInv

\* The event is consumed, and the worker will look at everything.
LEMMA ResetEventStep ==
    ASSUME SystemInv, program' = program, NEW w \in Workers, ResetEvent(w) PROVE SystemInv'
<1> USE DEF ResetEvent, GoTo, taskVars, fiberVars, instanceVars, stepVars, dispatchVars
<1>0. w \in Instances /\ w # Helper
  BY InstanceFacts DEF SystemInv, Typed, TypeOK
<1>1. Typed'
  BY <1>0, ProgramStays, InstanceFacts
     DEF SystemInv, Typed, TypeOK, AllSteps, WorkerSteps, ExecutionSteps, MainSteps
<1>2. pc' = [pc EXCEPT ![w] = "Awake"] /\ pc[w] = "Reset" /\ pc \in [Instances -> AllSteps]
  BY DEF SystemInv, Typed
<1>3. Contents'
  BY <1>0, <1>2, ContentsKept DEF SystemInv, FiberSteps
<1>4. Placed'
  BY <1>0, <1>2, PlacedKept DEF SystemInv
<1>5. StepOf(w)
  BY <1>2 DEF StepOf, SystemInv, Typed, TypeOK
<1>6. AwaitedBy(w)'
  BY <1>0, <1>2 DEF AwaitedBy, FiberSteps
<1> QED
  BY <1>0, <1>1, <1>3, <1>4, <1>5, <1>6, AwaitedStep DEF SystemInv

\* The flag is read after the event has been reset: FinishWork that comes later sets the
\* event once more.
LEMMA CheckFinishStep ==
    ASSUME SystemInv, program' = program, NEW w \in Workers, CheckFinish(w) PROVE SystemInv'
<1> USE DEF CheckFinish, GoTo, taskVars, fiberVars, instanceVars, stepVars, dispatchVars, threadVars
<1>0. w \in Instances /\ w # Helper
  BY InstanceFacts DEF SystemInv, Typed, TypeOK
<1>1. Typed'
  BY <1>0, ProgramStays, InstanceFacts
     DEF SystemInv, Typed, TypeOK, AllSteps, WorkerSteps, ExecutionSteps, MainSteps
<1>2. /\ pc' = [pc EXCEPT ![w] = IF shouldFinishWork[w] THEN "Retire" ELSE "Loop"]
      /\ pc[w] = "Awake" /\ pc \in [Instances -> AllSteps]
  BY DEF SystemInv, Typed
<1>3. Contents'
  BY <1>0, <1>2, ContentsKept DEF SystemInv, FiberSteps
<1>4. Placed'
  BY <1>0, <1>2, PlacedKept DEF SystemInv
<1>5. StepOf(w)
  BY <1>2 DEF StepOf
<1>6. AwaitedBy(w)'
  BY <1>0, <1>2 DEF AwaitedBy, FiberSteps
<1> QED
  BY <1>0, <1>1, <1>3, <1>4, <1>5, <1>6, AwaitedStep DEF SystemInv

\* PerformOneExecutionStep begins: what is suspended is noted.
LEMMA BeginStepStep ==
    ASSUME SystemInv, program' = program, NEW i \in Instances, BeginStep(i),
           pc[i] \in {"Loop", "Check"}, i \in Workers => ~shouldFinishWork[i]
    PROVE  SystemInv'
<1> USE DEF BeginStep, GoTo, taskVars, fiberVars, instanceVars, dispatchVars, threadVars
<1>0. Len(suspendedFibers[i]) \in Nat /\ (suspendedFibers[i] = <<>> => Len(suspendedFibers[i]) = 0)
  BY LenProperties, EmptySeq DEF SystemInv, Typed, TypeOK
<1>1. Typed'
  BY <1>0, ProgramStays, InstanceFacts
     DEF SystemInv, Typed, TypeOK, AllSteps, WorkerSteps, ExecutionSteps, MainSteps
<1>2. pc' = [pc EXCEPT ![i] = "Resume"] /\ pc \in [Instances -> AllSteps]
  BY DEF SystemInv, Typed
<1>3. Contents'
  BY <1>2, ContentsKept DEF SystemInv, FiberSteps
<1>4. Placed'
  BY <1>2, PlacedKept DEF SystemInv
<1>5. StepOf(i)
  BY <1>2 DEF StepOf, SystemInv, Typed, TypeOK
<1>6. i \in Workers => AwaitedBy(i)'
  <2>1. /\ pc'[i] = "Resume" /\ index'[i] = Len(suspendedFibers[i])
        /\ suspendedFibers'[i] = suspendedFibers[i] /\ shouldFinishWork' = shouldFinishWork
    BY <1>2 DEF SystemInv, Typed, TypeOK
  <2>2. isThereMoreWork'[i] <=> suspendedFibers[i] # <<>>
    BY DEF SystemInv, Typed, TypeOK
  <2> QED
    BY <1>0, <2>1, <2>2 DEF AwaitedBy, FiberSteps
<1> QED
  BY <1>1, <1>3, <1>4, <1>5, <1>6, AwaitedStep DEF SystemInv

\* A worker begins an execution step, or leaves its loop because it should finish.
LEMMA LoopStep ==
    ASSUME SystemInv, program' = program, NEW w \in Workers, Loop(w) PROVE SystemInv'
<1>0. w \in Instances /\ w # Helper /\ pc[w] = "Loop"
  BY InstanceFacts DEF SystemInv, Typed, TypeOK, Loop
<1>1. CASE ~shouldFinishWork[w]
  BY <1>0, <1>1, BeginStepStep DEF Loop
<1>2. CASE shouldFinishWork[w]
  <2> USE DEF GoTo, taskVars, fiberVars, instanceVars, stepVars, dispatchVars, threadVars
  <2>0. /\ GoTo(w, "Wait")
        /\ UNCHANGED <<taskVars, fiberVars, instanceVars, stepVars, dispatchVars, threadVars>>
    BY <1>2 DEF Loop
  <2>1. Typed'
    BY <1>0, <2>0, ProgramStays, InstanceFacts
       DEF SystemInv, Typed, TypeOK, AllSteps, WorkerSteps, ExecutionSteps, MainSteps
  <2>2. pc' = [pc EXCEPT ![w] = "Wait"] /\ pc \in [Instances -> AllSteps]
    BY <2>0 DEF SystemInv, Typed
  <2>3. Contents'
    BY <1>0, <2>0, <2>2, ContentsKept DEF SystemInv, FiberSteps
  <2>4. Placed'
    BY <1>0, <2>0, <2>2, PlacedKept DEF SystemInv
  <2>5. StepOf(w)
    BY <1>0, <2>0, <2>2 DEF StepOf
  <2>6. AwaitedBy(w)'
    BY <1>0, <1>2, <2>0, <2>2, <2>5, AnnouncedStep
       DEF SystemInv, Typed, TypeOK, Awaited, AwaitedBy, FiberSteps
  <2> QED
    BY <1>0, <2>1, <2>3, <2>4, <2>5, <2>6, AwaitedStep DEF SystemInv
<1> QED
  BY <1>1, <1>2

\* A fiber that is no instance's any more goes to the free list.
LEMMA ReleaseFiberRange ==
    ASSUME SystemInv, NEW f \in Fibers, f \notin Range(freeFibers), ReleaseFiber(f)
    PROVE  /\ freeFibers' \in Seq(Fibers) /\ IsInjective(freeFibers')
           /\ Range(freeFibers') = Range(freeFibers) \cup {f}
BY AppendRange DEF SystemInv, Typed, TypeOK, Placed, ReleaseFiber

\* The thread ends, and its current fiber is free.
LEMMA RetireStep ==
    ASSUME SystemInv, program' = program, NEW w \in Workers, Retire(w) PROVE SystemInv'
<1> USE DEF Retire, GoTo, taskVars, stepVars, dispatchVars, threadVars
<1>0. w \in Instances /\ w # Helper /\ running[w] = NoFiber
  BY InstanceFacts DEF SystemInv, Typed, TypeOK, Contents, FiberSteps
<1> DEFINE f == currentFiber[w]
<1>a. f \in Current(w) /\ pc[w] = "Retire"
  BY DEF Current
<1>b. /\ f \in Fibers /\ f \notin Range(freeFibers)
      /\ \A j \in Instances : f \notin Range(suspendedFibers[j])
      /\ \A j \in Instances : j # w => f # running[j] /\ f \notin Current(j)
  BY <1>0, <1>a, FibersApart
<1>c. /\ freeFibers' \in Seq(Fibers) /\ IsInjective(freeFibers')
      /\ Range(freeFibers') = Range(freeFibers) \cup {f}
  BY <1>b, ReleaseFiberRange
<1>d. /\ fiberTask' = [fiberTask EXCEPT ![f] = NoTask]
      /\ fiberState' = [fiberState EXCEPT ![f] = "Idle"]
      /\ fiberParent' = [fiberParent EXCEPT ![f] = NoInstance]
      /\ UNCHANGED <<stack, suspendedFibers, currentFiber, running, adopting>>
  BY DEF ReleaseFiber
<1>2. pc' = [pc EXCEPT ![w] = "Done"] /\ pc[w] = "Retire" /\ pc \in [Instances -> AllSteps]
  BY DEF SystemInv, Typed
<1> HIDE DEF f
<1>1. Typed'
  BY <1>0, <1>b, <1>c, <1>d, ProgramStays, InstanceFacts
     DEF SystemInv, Typed, TypeOK, AllSteps, WorkerSteps, ExecutionSteps, MainSteps
<1>3. Contents'
  <2>1. Contents /\ Typed
    BY DEF SystemInv
  <2>2. \A h \in Fibers : fiberState'[h] # "Idle" => stack'[h] # NoTask
    BY <1>b, <1>d, <2>1 DEF Contents, Typed, TypeOK
  <2>3. \A i \in Instances : pc'[i] \in FiberSteps <=> running'[i] # NoFiber
    BY <1>0, <1>d, <1>2, <2>1 DEF Contents, FiberSteps
  <2>4. \A i \in Instances : running'[i] # NoFiber => fiberTask'[running'[i]] # NoTask
    BY <1>0, <1>b, <1>d, <2>1 DEF Contents, Typed, TypeOK
  <2>5. \A i \in Instances : \A h \in Range(suspendedFibers'[i]) : fiberTask'[h] # NoTask
    BY <1>b, <1>d, <2>1, RangeOfSequence DEF Contents, Typed, TypeOK
  <2>6. pc'[Helper] = pc[Helper] /\ adopting' = adopting
    BY <1>0, <1>d, <1>2, InstanceFacts DEF SystemInv, Typed, TypeOK
  <2> QED
    BY <2>1, <2>2, <2>3, <2>4, <2>5, <2>6, ProgramStays DEF Contents
<1>4. Placed'
  <2>1. Current(w)' = {} /\ Resumed(w)' = {} /\ Holding(w)' = Range(suspendedFibers[w])
    BY <1>0, <1>2, <1>d DEF Current, Resumed, Holding
  <2>2. Holding(w) = {f} \cup Range(suspendedFibers[w])
    BY <1>0, <1>2 DEF Current, Resumed, Holding, f
  <2>3. Range(freeFibers) \cap Holding(w) = {} /\ IsInjective(suspendedFibers[w])
    BY <1>0 DEF SystemInv, Placed
  <2> QED
    BY <1>0, <1>b, <1>c, <1>d, <1>2, <2>1, <2>2, <2>3, PlacedStep
<1>5. StepOf(w)
  BY <1>2 DEF StepOf
<1>6. AwaitedBy(w)'
  BY <1>0, <1>2 DEF AwaitedBy, FiberSteps
<1> QED
  BY <1>0, <1>1, <1>3, <1>4, <1>5, <1>6, AwaitedStep DEF SystemInv

-----------------------------------------------------------------------------
(***************************************************************************)
(* The dispatcher.                                                         *)
(***************************************************************************)

\* A number modulo a greater one.
LEMMA Modulo ==
    ASSUME NEW n \in Nat \ {0}, NEW k \in Nat
    PROVE  /\ k % n \in 0 .. n - 1
           /\ k < n => k % n = k
           /\ k = n => k % n = 0
OBVIOUS

\* SubmitTask puts what is ready into the dispatcher, and no worker has to know yet.
LEMMA SubmitNextStep ==
    ASSUME SystemInv, program' = program, NEW i \in Instances, NEW c \in Submitters,
           SubmitNext(c, i), pc[i] \in {"OnFiber", "Main"}
    PROVE  SystemInv'
<1> USE DEF fiberVars, instanceVars, stepVars, threadVars
<1> DEFINE t == Submits[c][progress[c] + 1]
<1>1. /\ progress[c] < Len(Submits[c]) /\ progress[c] \in Nat
      /\ progress' = [progress EXCEPT ![c] = @ + 1]
      /\ dispatching' = [dispatching EXCEPT ![i] = IF IsReadyToBeExecuted(t) THEN t ELSE @]
      /\ UNCHANGED <<numberOfChildTasks, fence, fiberVars, instanceVars, pc, stepVars, waking,
                     adopting, threadVars>>
  BY DEF SubmitNext, SystemInv, Typed, TypeOK
<1>2. Submits[c] \in Seq(Tasks)
  BY ProgramsAssumption DEF SystemInv, Typed, TypeOK, Submits
<1>3. t \in Tasks
  BY <1>1, <1>2, ElementOfSeq
<1> HIDE DEF t
<1>4. /\ progress' \in [Submitters -> Nat]
      /\ \A d \in Submitters : progress'[d] \in 0 .. Len(Submits[d])
  BY <1>1, <1>2, LenProperties DEF SystemInv, Typed, TypeOK
<1>5. dispatching' \in [Instances -> Tasks \cup {NoTask}]
  BY <1>1, <1>3 DEF SystemInv, Typed, TypeOK
<1>6. Typed'
  BY <1>1, <1>4, <1>5, ProgramStays DEF SystemInv, Typed, TypeOK
<1>7. Contents'
  BY <1>1, ContentsKept DEF SystemInv
<1>8. Placed'
  BY <1>1, PlacedKept DEF SystemInv
<1>9. StepOf(i)
  BY <1>1 DEF StepOf
<1>10. i \in Workers => AwaitedBy(i)'
  BY <1>1, <1>9, AnnouncedStep DEF SystemInv, Typed, TypeOK, Awaited, AwaitedBy
<1> QED
  BY <1>6, <1>7, <1>8, <1>9, <1>10, AwaitedStep DEF SystemInv

\* Wherever the task goes, every worker is going to be told.
LEMMA DispatchTaskStep ==
    ASSUME SystemInv, program' = program, NEW i \in Instances, DispatchTask(i) PROVE SystemInv'
<1> USE DEF taskVars, fiberVars, stepVars, threadVars
<1>1. PICK j \in Targets(i) :
         pendingTasks' = [pendingTasks EXCEPT ![j] = Append(@, dispatching[i])]
  BY DEF DispatchTask
<1>2. /\ dispatching[i] \in Tasks
      /\ dispatching' = [dispatching EXCEPT ![i] = NoTask]
      /\ waking' = [waking EXCEPT ![i] = 1]
      /\ UNCHANGED <<taskVars, fiberVars, suspendedFibers, currentFiber, converted, pc,
                     stepVars, adopting, threadVars>>
  BY DEF DispatchTask, SystemInv, Typed, TypeOK
<1>3. j \in Instances
  BY InstanceFacts DEF Targets, SystemInv, Typed, TypeOK
<1>4. pendingTasks' \in [Instances -> Seq(Tasks)]
  BY <1>1, <1>2, <1>3, AppendProperties DEF SystemInv, Typed, TypeOK
<1>5. 1 \in 0 .. NumWorkers
  BY InstanceFacts DEF SystemInv, Typed, TypeOK
<1>6. Typed'
  BY <1>2, <1>4, <1>5, ProgramStays DEF SystemInv, Typed, TypeOK
<1>7. Contents'
  BY <1>2, ContentsKept DEF SystemInv
<1>8. Placed'
  BY <1>2, PlacedKept DEF SystemInv
<1>9. \A w \in Workers : Announced(w)'
  <2>1. waking'[i] = 1
    BY <1>2 DEF SystemInv, Typed, TypeOK
  <2>2. \A w \in Workers : 1 <= w
    BY WorkerNumbers, InstanceFacts DEF SystemInv, Typed, TypeOK
  <2> QED
    BY <2>1, <2>2, ProgramStays DEF Announced, IsAboutToWake
<1>10. Awaited'
  BY <1>2, <1>9, ProgramStays DEF SystemInv, Awaited, AwaitedBy
<1> QED
  BY <1>6, <1>7, <1>8, <1>10 DEF SystemInv

\* One worker has been told, and the next one is next.
LEMMA WakeUpStep ==
    ASSUME SystemInv, program' = program, NEW i \in Instances, WakeUp(i) PROVE SystemInv'
<1> USE DEF taskVars, fiberVars, instanceVars, stepVars
<1>1. /\ waking[i] \in 1 .. NumWorkers /\ NumWorkers \in Nat
      /\ hasWorkToDoEvent' = [hasWorkToDoEvent EXCEPT ![waking[i]] = TRUE]
      /\ waking' = [waking EXCEPT ![i] = (@ + 1) % (NumWorkers + 1)]
      /\ UNCHANGED <<taskVars, fiberVars, instanceVars, pc, stepVars, dispatching, adopting,
                     shouldFinishWork>>
  BY InstanceFacts DEF WakeUp, SystemInv, Typed, TypeOK
<1>2. (waking[i] + 1) % (NumWorkers + 1) =
          IF waking[i] = NumWorkers THEN 0 ELSE waking[i] + 1
  <2>1. waking[i] + 1 \in Nat /\ NumWorkers + 1 \in Nat \ {0}
    BY <1>1
  <2>2. /\ waking[i] + 1 < NumWorkers + 1 => (waking[i] + 1) % (NumWorkers + 1) = waking[i] + 1
        /\ waking[i] + 1 = NumWorkers + 1 => (waking[i] + 1) % (NumWorkers + 1) = 0
    BY <2>1, Modulo
  <2>3. waking[i] # NumWorkers => waking[i] + 1 < NumWorkers + 1
    BY <1>1
  <2> QED
    BY <2>2, <2>3
<1>3. /\ waking' \in [Instances -> 0 .. NumWorkers]
      /\ hasWorkToDoEvent' \in [Workers -> BOOLEAN]
  <2>1. (waking[i] + 1) % (NumWorkers + 1) \in 0 .. NumWorkers
    BY <1>1, <1>2
  <2> QED
    BY <1>1, <2>1 DEF SystemInv, Typed, TypeOK
<1>4. Typed'
  BY <1>1, <1>3, ProgramStays DEF SystemInv, Typed, TypeOK
<1>5. Contents'
  BY <1>1, ContentsKept DEF SystemInv
<1>6. Placed'
  BY <1>1, PlacedKept DEF SystemInv
<1>7. ASSUME NEW w \in Workers, Announced(w) PROVE Announced(w)'
  <2>0. w \in 1 .. NumWorkers
    BY WorkerNumbers
  <2>1. hasWorkToDoEvent[w] => hasWorkToDoEvent'[w]
    BY <1>1 DEF SystemInv, Typed, TypeOK
  <2>2. ASSUME NEW j \in Instances, IsAboutToWake(j, w), j # i
        PROVE  IsAboutToWake(j, w)'
    BY <1>1, <2>2 DEF IsAboutToWake, SystemInv, Typed, TypeOK
  <2>3. CASE waking[i] # 0 /\ waking[i] <= w
    <3>1. CASE waking[i] = w
      <4>1. hasWorkToDoEvent'[w]
        BY <1>1, <3>1 DEF SystemInv, Typed, TypeOK
      <4> QED
        BY <4>1 DEF Announced
    <3>2. CASE waking[i] # w
      <4>1. waking'[i] = waking[i] + 1 /\ waking[i] + 1 <= w /\ waking[i] + 1 # 0
        BY <1>1, <1>2, <2>0, <2>3, <3>2 DEF SystemInv, Typed, TypeOK
      <4> QED
        BY <4>1, ProgramStays DEF Announced, IsAboutToWake
    <3> QED
      BY <3>1, <3>2
  <2>4. CASE IsAboutToWake(i, w) /\ ~(waking[i] # 0 /\ waking[i] <= w)
    BY <1>1, <2>4, ProgramStays DEF Announced, IsAboutToWake
  <2> QED
    BY <1>7, <2>1, <2>2, <2>3, <2>4, ProgramStays DEF Announced
<1>8. Awaited'
  BY <1>1, <1>7, ProgramStays DEF SystemInv, Awaited, AwaitedBy
<1> QED
  BY <1>4, <1>5, <1>6, <1>8 DEF SystemInv

-----------------------------------------------------------------------------
(***************************************************************************)
(* PerformOneExecutionStep.                                                *)
(***************************************************************************)

\* Where a thread goes on after an execution step.
LEMMA AfterStepIs ==
    ASSUME NEW i, NEW m \in BOOLEAN
    PROVE  /\ i = Helper => AfterStep(i, m) = "Check"
           /\ i # Helper /\ m => AfterStep(i, m) = "Loop"
           /\ i # Helper /\ ~m => AfterStep(i, m) = "Wait"
BY DEF AfterStep

\* A suspended fiber becomes the one that the thread is on.
LEMMA ResumeFiberStep ==
    ASSUME SystemInv, program' = program, NEW i \in Instances, ResumeFiber(i) PROVE SystemInv'
<1> USE DEF taskVars, fiberVars, dispatchVars, threadVars
<1> DEFINE q == suspendedFibers[i]
           f == Head(q)
<1>0. /\ pc[i] = "Resume" /\ index[i] > 0 /\ index[i] \in Nat
      /\ pc' = [pc EXCEPT ![i] = "OnFiber"] /\ pc \in [Instances -> AllSteps]
      /\ running[i] = NoFiber
  BY DEF ResumeFiber, GoTo, SystemInv, Typed, TypeOK, Contents, FiberSteps
<1>1. /\ running' = [running EXCEPT ![i] = f]
      /\ suspendedFibers' = [suspendedFibers EXCEPT ![i] = Tail(q)]
      /\ index' = [index EXCEPT ![i] = @ - 1]
      /\ UNCHANGED <<taskVars, fiberVars, pendingTasks, currentFiber, converted,
                     isThereMoreWork, readyArray, dispatchVars, threadVars>>
  BY DEF ResumeFiber, SystemInv, Typed, TypeOK
<1>2. q \in Seq(Fibers) /\ q # <<>> /\ IsInjective(q)
  BY DEF ResumeFiber, SystemInv, Typed, TypeOK, Placed
<1>3. /\ f \in Fibers /\ f \in Range(q)
      /\ Tail(q) \in Seq(Fibers)
      /\ Range(Tail(q)) = Range(q) \ {f}
      /\ IsInjective(Tail(q))
  BY <1>2, TailRange
<1>4. fiberTask[f] # NoTask /\ f # NoFiber
  BY <1>3, NamesAssumption DEF SystemInv, Contents
<1>5. suspendedFibers'[i] = Tail(q) /\ suspendedFibers[i] = q /\ running'[i] = f
      /\ suspendedFibers \in [Instances -> Seq(Fibers)]
  BY <1>1 DEF SystemInv, Typed, TypeOK
<1> HIDE DEF q, f
<1>6. Typed'
  <2>1. /\ running' \in [Instances -> Fibers \cup {NoFiber}]
        /\ suspendedFibers' \in [Instances -> Seq(Fibers)]
        /\ index' \in [Instances -> Nat]
    BY <1>0, <1>1, <1>3, <1>5 DEF SystemInv, Typed, TypeOK
  <2>2. \A j \in Instances :
           pc'[j] \in {"OnFiber", "Suspended", "Update", "Add"} => running'[j] \in Fibers
    BY <1>0, <1>1, <1>3, <1>5 DEF SystemInv, Typed, TypeOK
  <2> QED
    BY <1>0, <1>1, <2>1, <2>2, ProgramStays, InstanceFacts
       DEF SystemInv, Typed, TypeOK, AllSteps, WorkerSteps, ExecutionSteps, MainSteps
<1>7. Contents'
  <2>1. \A j \in Instances : pc'[j] \in FiberSteps <=> running'[j] # NoFiber
    BY <1>0, <1>1, <1>4, <1>5 DEF SystemInv, Typed, TypeOK, Contents, FiberSteps
  <2>2. \A j \in Instances : running'[j] # NoFiber => fiberTask'[running'[j]] # NoTask
    BY <1>1, <1>4, <1>5 DEF SystemInv, Typed, TypeOK, Contents
  <2>3. \A j \in Instances : \A h \in Range(suspendedFibers'[j]) : fiberTask'[h] # NoTask
    BY <1>1, <1>3, <1>5 DEF SystemInv, Contents
  <2>4. pc'[Helper] = "Adopt" => pc[Helper] = "Adopt"
    BY <1>0
  <2> QED
    BY <1>1, <2>1, <2>2, <2>3, <2>4, ProgramStays DEF SystemInv, Contents
<1>8. Placed'
  <2>1. Current(i) = {currentFiber[i]} /\ Current(i)' = {currentFiber[i]}
    BY <1>0, <1>1 DEF Current
  <2>2. f # currentFiber[i] /\ currentFiber[i] \notin Range(q)
    BY <1>3, <1>5, <2>1 DEF SystemInv, Placed
  <2>3. Resumed(i) = {} /\ Resumed(i)' = {f}
    BY <1>0, <1>1, <1>4, <1>5, <2>2 DEF Resumed
  <2>4. Holding(i)' = Holding(i)
    BY <1>3, <1>5, <2>1, <2>3 DEF Holding
  <2>5. IsInjective(freeFibers) /\ Holding(i) \cap Range(freeFibers) = {}
    BY DEF SystemInv, Placed
  <2>6. \A j \in Instances : j # i =>
           /\ pc'[j] = pc[j] /\ running'[j] = running[j] /\ currentFiber'[j] = currentFiber[j]
           /\ suspendedFibers'[j] = suspendedFibers[j]
    BY <1>0, <1>1, <1>5 DEF SystemInv, Typed, TypeOK
  <2>7. (Current(i) \cup Resumed(i))' \cap Range(suspendedFibers'[i]) = {}
    BY <1>3, <1>5, <2>1, <2>2, <2>3
  <2>8. IsInjective(freeFibers') /\ Range(freeFibers') = Range(freeFibers)
    BY <1>1, <2>5
  <2> QED
    BY <1>3, <1>5, <2>4, <2>5, <2>6, <2>7, <2>8, PlacedStep
<1>9. StepOf(i)
  BY <1>0, <1>1 DEF StepOf, SystemInv, Typed, TypeOK
<1>10. i \in Workers => AwaitedBy(i)'
  BY <1>0, <1>1, <1>9, AnnouncedStep DEF SystemInv, Typed, TypeOK, Awaited, AwaitedBy, FiberSteps
<1> QED
  BY <1>6, <1>7, <1>8, <1>9, <1>10, AwaitedStep DEF SystemInv

\* The turn of the suspended fibers is over; the thread looks for a task.
LEMMA EndResumeStep ==
    ASSUME SystemInv, program' = program, NEW i \in Instances, EndResume(i) PROVE SystemInv'
<1> USE DEF EndResume, GoTo, taskVars, fiberVars, instanceVars, stepVars, dispatchVars, threadVars
<1>1. Typed'
  BY ProgramStays, InstanceFacts
     DEF SystemInv, Typed, TypeOK, AllSteps, WorkerSteps, ExecutionSteps, MainSteps
<1>2. pc' = [pc EXCEPT ![i] = "Take"] /\ pc[i] = "Resume" /\ pc \in [Instances -> AllSteps]
  BY DEF SystemInv, Typed
<1>3. Contents'
  BY <1>2, ContentsKept DEF SystemInv, FiberSteps
<1>4. Placed'
  BY <1>2, PlacedKept DEF SystemInv
<1>5. StepOf(i)
  BY <1>2 DEF StepOf
<1>6. i \in Workers => AwaitedBy(i)'
  BY <1>2, <1>5, AnnouncedStep DEF SystemInv, Typed, TypeOK, Awaited, AwaitedBy, FiberSteps
<1> QED
  BY <1>1, <1>3, <1>4, <1>5, <1>6, AwaitedStep DEF SystemInv

\* What PopBack of a queue of tasks returns and leaves.
LEMMA LastAndRest ==
    ASSUME NEW S, NEW s \in Seq(S), s # <<>>
    PROVE  s[Len(s)] \in S /\ SubSeq(s, 1, Len(s) - 1) \in Seq(S)
BY LenProperties, EmptySeq, ElementOfSeq, SubSeqProperties

\* The current fiber gets a task that has been taken from a queue.
LEMMA ExecuteStep ==
    ASSUME SystemInv, program' = program, NEW i \in Instances, NEW t \in Tasks, Execute(i, t),
           pc[i] \in {"Take", "Steal"}, UNCHANGED index,
           pendingTasks' \in [Instances -> Seq(Tasks)],
           \A j \in Instances : pendingTasks'[j] # <<>> => pendingTasks[j] # <<>>
    PROVE  SystemInv'
<1> USE DEF taskVars, dispatchVars, threadVars
<1> DEFINE f == currentFiber[i]
<1>1. /\ pc' = [pc EXCEPT ![i] = "OnFiber"] /\ pc \in [Instances -> AllSteps]
      /\ fiberTask' = [fiberTask EXCEPT ![f] = t]
      /\ running' = [running EXCEPT ![i] = f]
      /\ isThereMoreWork' = [isThereMoreWork EXCEPT ![i] = TRUE]
      /\ UNCHANGED <<taskVars, freeFibers, fiberState, fiberParent, stack, suspendedFibers,
                     currentFiber, converted, readyArray, dispatchVars, threadVars>>
  BY DEF Execute, GoTo, SystemInv, Typed
<1>2. f \in Fibers /\ f # NoFiber /\ t # NoTask /\ running[i] = NoFiber
  <2>1. f \in Fibers /\ running[i] = NoFiber
    BY DEF SystemInv, Typed, TypeOK, Contents, FiberSteps
  <2> QED
    BY <2>1, NamesAssumption DEF Submitters
<1>3. running'[i] = f /\ currentFiber[i] = f
  BY <1>1 DEF SystemInv, Typed, TypeOK
<1> HIDE DEF f
<1>4. Typed'
  BY <1>1, <1>2, <1>3, ProgramStays, InstanceFacts
     DEF SystemInv, Typed, TypeOK, AllSteps, WorkerSteps, ExecutionSteps, MainSteps
<1>5. Contents'
  <2>1. \A j \in Instances : pc'[j] \in FiberSteps <=> running'[j] # NoFiber
    BY <1>1, <1>2, <1>3 DEF SystemInv, Typed, TypeOK, Contents, FiberSteps
  <2>2. \A h \in Fibers : fiberTask[h] # NoTask => fiberTask'[h] # NoTask
    BY <1>1, <1>2 DEF SystemInv, Typed, TypeOK
  <2>3. \A j \in Instances : running'[j] # NoFiber => fiberTask'[running'[j]] # NoTask
    BY <1>1, <1>2, <1>3, <2>2 DEF SystemInv, Typed, TypeOK, Contents
  <2>4. \A j \in Instances : \A h \in Range(suspendedFibers'[j]) : fiberTask'[h] # NoTask
    BY <1>1, <2>2, RangeOfSequence DEF SystemInv, Typed, TypeOK, Contents
  <2>5. pc'[Helper] = "Adopt" => pc[Helper] = "Adopt"
    BY <1>1
  <2> QED
    BY <1>1, <2>1, <2>3, <2>4, <2>5, ProgramStays DEF SystemInv, Contents
<1>6. Placed'
  <2>1. Current(i)' = Current(i) /\ Resumed(i) = {} /\ Resumed(i)' = {}
    BY <1>1, <1>2, <1>3 DEF Current, Resumed
  <2>2. Holding(i)' = Holding(i)
    BY <1>1, <2>1 DEF Holding
  <2>3. /\ IsInjective(freeFibers) /\ IsInjective(suspendedFibers[i])
        /\ Holding(i) \cap Range(freeFibers) = {}
        /\ (Current(i) \cup Resumed(i)) \cap Range(suspendedFibers[i]) = {}
    BY DEF SystemInv, Placed
  <2>4. \A j \in Instances : j # i =>
           /\ pc'[j] = pc[j] /\ running'[j] = running[j] /\ currentFiber'[j] = currentFiber[j]
           /\ suspendedFibers'[j] = suspendedFibers[j]
    BY <1>1 DEF SystemInv, Typed, TypeOK
  <2> QED
    BY <1>1, <2>1, <2>2, <2>3, <2>4, PlacedStep
<1>7. StepOf(i)
  BY <1>1 DEF StepOf, SystemInv, Typed, TypeOK
<1>8. i \in Workers => AwaitedBy(i)'
  BY <1>1, <1>7, AnnouncedStep DEF SystemInv, Typed, TypeOK, Awaited, AwaitedBy, FiberSteps
<1> QED
  BY <1>4, <1>5, <1>6, <1>7, <1>8, AwaitedStep DEF SystemInv

\* A thread takes the newest task of its own instance.
LEMMA TakeOwnTaskStep ==
    ASSUME SystemInv, program' = program, NEW i \in Instances, TakeOwnTask(i) PROVE SystemInv'
<1> DEFINE q == pendingTasks[i]
           rest == SubSeq(q, 1, Len(q) - 1)
<1>1. /\ pc[i] = "Take" /\ q # <<>> /\ Execute(i, q[Len(q)])
      /\ pendingTasks' = [pendingTasks EXCEPT ![i] = rest] /\ UNCHANGED index
  BY DEF TakeOwnTask
<1>2. q \in Seq(Tasks) /\ pendingTasks \in [Instances -> Seq(Tasks)]
  BY DEF SystemInv, Typed, TypeOK
<1>3. q[Len(q)] \in Tasks /\ rest \in Seq(Tasks)
  BY <1>1, <1>2, LastAndRest
<1>4. /\ pendingTasks' \in [Instances -> Seq(Tasks)]
      /\ \A j \in Instances : pendingTasks'[j] # <<>> => pendingTasks[j] # <<>>
  BY <1>1, <1>2, <1>3
<1> QED
  BY <1>1, <1>3, <1>4, ExecuteStep

\* There is no task in the own queue; the thread turns to the other instances.
LEMMA StartStealingStep ==
    ASSUME SystemInv, program' = program, NEW i \in Instances, StartStealing(i)
    PROVE  SystemInv'
<1> USE DEF StartStealing, GoTo, taskVars, fiberVars, instanceVars, dispatchVars, threadVars
<1>1. Typed'
  BY ProgramStays, InstanceFacts
     DEF SystemInv, Typed, TypeOK, AllSteps, WorkerSteps, ExecutionSteps, MainSteps
<1>2. /\ pc' = [pc EXCEPT ![i] = "Steal"] /\ pc[i] = "Take" /\ pc \in [Instances -> AllSteps]
      /\ pendingTasks'[i] = <<>>
  BY DEF SystemInv, Typed
<1>3. Contents'
  BY <1>2, ContentsKept DEF SystemInv, FiberSteps
<1>4. Placed'
  BY <1>2, PlacedKept DEF SystemInv
<1>5. StepOf(i)
  BY <1>2 DEF StepOf, SystemInv, Typed, TypeOK
<1>6. i \in Workers => AwaitedBy(i)'
  BY <1>2, <1>5, AnnouncedStep DEF SystemInv, Typed, TypeOK, Awaited, AwaitedBy, FiberSteps
<1> QED
  BY <1>1, <1>3, <1>4, <1>5, <1>6, AwaitedStep DEF SystemInv

\* A thief looks at an instance.
LEMMA VictimIsAnInstance ==
    ASSUME SystemInv, NEW i \in Instances PROVE Victim(i) \in Instances
<1>0. NumWorkers \in Nat /\ Instances = 0 .. NumWorkers
  <2>1. NumWorkers \in Nat
    BY InstanceFacts DEF SystemInv, Typed, TypeOK
  <2> QED
    BY <2>1 DEF Instances, Workers, Helper
<1>1. index[i] + i \in Nat /\ NumWorkers + 1 \in Nat \ {0}
  <2>1. index[i] \in Nat
    BY DEF SystemInv, Typed, TypeOK
  <2> QED
    BY <1>0, <2>1
<1>2. (index[i] + i) % (NumWorkers + 1) \in 0 .. NumWorkers
  <2>1. PICK k \in Nat : k = index[i] + i
    BY <1>1
  <2>2. PICK n \in Nat \ {0} : n = NumWorkers + 1
    BY <1>1
  <2>3. k % n \in 0 .. n - 1
    BY Modulo
  <2> QED
    BY <1>0, <2>1, <2>2, <2>3
<1> QED
  BY <1>0, <1>2 DEF Victim

\* A thread takes a task of another instance.
LEMMA StealTaskStep ==
    ASSUME SystemInv, program' = program, NEW i \in Instances, StealTask(i) PROVE SystemInv'
<1> DEFINE v == Victim(i)
           q == pendingTasks[v]
<1>0. v \in Instances
  BY VictimIsAnInstance
<1>1. /\ pc[i] = "Steal" /\ q # <<>> /\ Execute(i, Head(q))
      /\ pendingTasks' = [pendingTasks EXCEPT ![v] = Tail(q)] /\ UNCHANGED index
  BY <1>0 DEF StealTask, SystemInv, Typed, TypeOK
<1>2. q \in Seq(Tasks) /\ pendingTasks \in [Instances -> Seq(Tasks)]
  BY <1>0 DEF SystemInv, Typed, TypeOK
<1>3. Head(q) \in Tasks /\ Tail(q) \in Seq(Tasks)
  BY <1>1, <1>2, HeadTailProperties
<1> HIDE DEF v
<1>4. /\ pendingTasks' \in [Instances -> Seq(Tasks)]
      /\ \A j \in Instances : pendingTasks'[j] # <<>> => pendingTasks[j] # <<>>
  BY <1>0, <1>1, <1>2, <1>3
<1> QED
  BY <1>1, <1>3, <1>4, ExecuteStep

\* The thread sleeps only if it had found nothing before it looked at the others.
LEMMA NothingToStealStep ==
    ASSUME SystemInv, program' = program, NEW i \in Instances, NothingToSteal(i)
    PROVE  SystemInv'
<1> USE DEF taskVars, fiberVars, instanceVars, dispatchVars, threadVars
<1>0. /\ pc[i] = "Steal" /\ pc \in [Instances -> AllSteps] /\ isThereMoreWork[i] \in BOOLEAN
      /\ UNCHANGED <<taskVars, fiberVars, instanceVars, running, isThereMoreWork, readyArray,
                     dispatchVars, threadVars>>
  BY DEF NothingToSteal, SystemInv, Typed, TypeOK
<1>1. CASE index' = [index EXCEPT ![i] = @ + 1] /\ UNCHANGED pc
  <2>1. Typed'
    <3>1. index' \in [Instances -> Nat]
      BY <1>1 DEF SystemInv, Typed, TypeOK
    <3> QED
      BY <1>0, <1>1, <3>1, ProgramStays DEF SystemInv, Typed, TypeOK
  <2>2. Contents'
    BY <1>0, <1>1, ContentsKept DEF SystemInv
  <2>3. Placed'
    BY <1>0, <1>1, PlacedKept DEF SystemInv
  <2>4. StepOf(i)
    BY <1>0, <1>1 DEF StepOf, SystemInv, Typed, TypeOK
  <2>5. i \in Workers => AwaitedBy(i)'
    BY <1>0, <1>1, <2>4, AnnouncedStep DEF SystemInv, Typed, TypeOK, Awaited, AwaitedBy
  <2> QED
    BY <2>1, <2>2, <2>3, <2>4, <2>5, AwaitedStep DEF SystemInv
<1>2. CASE GoTo(i, AfterStep(i, isThereMoreWork[i])) /\ UNCHANGED index
  <2>0. /\ pc' = [pc EXCEPT ![i] = AfterStep(i, isThereMoreWork[i])] /\ index' = index
        /\ i = Helper => AfterStep(i, isThereMoreWork[i]) = "Check"
        /\ i # Helper /\ isThereMoreWork[i] => AfterStep(i, isThereMoreWork[i]) = "Loop"
        /\ i # Helper /\ ~isThereMoreWork[i] => AfterStep(i, isThereMoreWork[i]) = "Wait"
    BY <1>0, <1>2, AfterStepIs DEF GoTo
  <2>1. Typed'
    BY <1>0, <2>0, ProgramStays, InstanceFacts
       DEF SystemInv, Typed, TypeOK, AllSteps, WorkerSteps, ExecutionSteps, MainSteps
  <2>2. Contents'
    BY <1>0, <2>0, ContentsKept DEF SystemInv, FiberSteps
  <2>3. Placed'
    BY <1>0, <2>0, PlacedKept DEF SystemInv
  <2>4. StepOf(i)
    BY <1>0, <2>0 DEF StepOf
  <2>5. i \in Workers => AwaitedBy(i)'
    BY <1>0, <2>0, <2>4, AnnouncedStep, InstanceFacts
       DEF SystemInv, Typed, TypeOK, Awaited, AwaitedBy, FiberSteps
  <2> QED
    BY <2>1, <2>2, <2>3, <2>4, <2>5, AwaitedStep DEF SystemInv
<1> QED
  BY <1>1, <1>2 DEF NothingToSteal

-----------------------------------------------------------------------------
(***************************************************************************)
(* A thread comes back from a fiber that has been suspended.               *)
(***************************************************************************)

\* The suspended fiber joins the queue, and a free one becomes the current fiber.
LEMMA ReplaceCurrentFiberStep ==
    ASSUME SystemInv, program' = program, NEW i \in Instances, ReplaceCurrentFiber(i)
    PROVE  SystemInv'
<1> USE DEF taskVars, dispatchVars, threadVars
<1> DEFINE f == Head(freeFibers)
           h == currentFiber[i]
           q == suspendedFibers[i]
<1>0. /\ pc[i] = "Suspended" /\ pc \in [Instances -> AllSteps] /\ running[i] = h
      /\ freeFibers # <<>> /\ freeFibers' = Tail(freeFibers)
      /\ pc' = [pc EXCEPT ![i] = AfterStep(i, TRUE)]
      /\ fiberParent' = [fiberParent EXCEPT ![f] = i]
      /\ suspendedFibers' = [suspendedFibers EXCEPT ![i] = Append(q, h)]
      /\ currentFiber' = [currentFiber EXCEPT ![i] = f]
      /\ running' = [running EXCEPT ![i] = NoFiber]
      /\ UNCHANGED <<taskVars, fiberState, fiberTask, stack, pendingTasks, converted, index,
                     isThereMoreWork, readyArray, dispatchVars, threadVars>>
  BY DEF ReplaceCurrentFiber, GoTo, SystemInv, Typed, TypeOK
<1>1. /\ i = Helper => AfterStep(i, TRUE) = "Check"
      /\ i # Helper => AfterStep(i, TRUE) = "Loop"
  BY AfterStepIs
<1>2. /\ freeFibers \in Seq(Fibers) /\ IsInjective(freeFibers)
      /\ q \in Seq(Fibers) /\ IsInjective(q) /\ h \in Fibers
  BY DEF SystemInv, Typed, TypeOK, Placed
<1>3. /\ f \in Fibers /\ f \in Range(freeFibers) /\ Tail(freeFibers) \in Seq(Fibers)
      /\ Range(Tail(freeFibers)) = Range(freeFibers) \ {f}
      /\ IsInjective(Tail(freeFibers))
  BY <1>0, <1>2, TailRange
<1>4. Current(i) = {h} /\ Resumed(i) = {} /\ Holding(i) = {h} \cup Range(q)
  BY <1>0 DEF Current, Resumed, Holding
<1>5. /\ h \notin Range(q) /\ h \notin Range(freeFibers) /\ fiberTask[h] # NoTask
      /\ Range(q) \cap Range(freeFibers) = {}
  BY <1>0, <1>4 DEF SystemInv, Placed, Contents, FiberSteps
<1>6. /\ Append(q, h) \in Seq(Fibers) /\ IsInjective(Append(q, h))
      /\ Range(Append(q, h)) = Range(q) \cup {h}
  BY <1>2, <1>5, AppendRange
<1>7. /\ suspendedFibers'[i] = Append(q, h) /\ suspendedFibers[i] = q
      /\ currentFiber'[i] = f /\ running'[i] = NoFiber
      /\ \A j \in Instances : j # i =>
            /\ pc'[j] = pc[j] /\ running'[j] = running[j] /\ currentFiber'[j] = currentFiber[j]
            /\ suspendedFibers'[j] = suspendedFibers[j]
  BY <1>0 DEF SystemInv, Typed, TypeOK
<1>8. pc'[i] \notin FiberSteps \cup {"Done", "Adopt"}
  BY <1>0, <1>1 DEF FiberSteps
<1> HIDE DEF q, f, h
<1>9. Typed'
  <2>1. /\ running' \in [Instances -> Fibers \cup {NoFiber}]
        /\ suspendedFibers' \in [Instances -> Seq(Fibers)]
        /\ currentFiber' \in [Instances -> Fibers]
        /\ fiberParent' \in [Fibers -> Instances \cup {NoInstance}]
        /\ freeFibers' \in Seq(Fibers)
    BY <1>0, <1>3, <1>6 DEF SystemInv, Typed, TypeOK
  <2>2. \A j \in Instances :
           pc'[j] \in {"OnFiber", "Suspended", "Update", "Add"} => running'[j] \in Fibers
    BY <1>7, <1>8 DEF SystemInv, Typed, TypeOK, FiberSteps
  <2>3. StepsTyped'
    BY <1>0, <1>1, StepsTypedKept DEF SystemInv, Typed, TypeOK, AllSteps, MainSteps, WorkerSteps
  <2> QED
    BY <1>0, <2>1, <2>2, <2>3, ProgramStays DEF SystemInv, Typed, TypeOK, StepsTyped
<1>10. Contents'
  <2>1. \A j \in Instances : pc'[j] \in FiberSteps <=> running'[j] # NoFiber
    BY <1>7, <1>8 DEF SystemInv, Contents
  <2>2. \A j \in Instances : running'[j] # NoFiber => fiberTask'[running'[j]] # NoTask
    BY <1>0, <1>7 DEF SystemInv, Contents
  <2>3. \A j \in Instances : \A k \in Range(suspendedFibers'[j]) : fiberTask'[k] # NoTask
    BY <1>0, <1>5, <1>6, <1>7 DEF SystemInv, Contents
  <2>4. pc'[Helper] = "Adopt" => pc[Helper] = "Adopt"
    BY <1>0, <1>7, <1>8, HelperIsAnInstance
  <2> QED
    BY <1>0, <2>1, <2>2, <2>3, <2>4, ProgramStays DEF SystemInv, Contents
<1>11. Placed'
  <2>1. Current(i)' = {f} /\ Resumed(i)' = {} /\ Holding(i)' = {f} \cup Range(q) \cup {h}
    BY <1>6, <1>7, <1>8 DEF Current, Resumed, Holding
  <2>2. f # h /\ f \notin Range(q)
    BY <1>3, <1>5
  <2>3. (Current(i) \cup Resumed(i))' \cap Range(suspendedFibers'[i]) = {}
    BY <1>6, <1>7, <2>1, <2>2
  <2>4. IsInjective(freeFibers') /\ Range(freeFibers') = Range(freeFibers) \ {f}
    BY <1>0, <1>3
  <2>5. Range(freeFibers') \cup Holding(i)' = Range(freeFibers) \cup Holding(i)
    BY <1>3, <1>4, <2>1, <2>4
  <2>6. Range(freeFibers') \cap Holding(i)' = {}
    BY <1>3, <1>5, <2>1, <2>4
  <2> QED
    BY <1>6, <1>7, <2>3, <2>4, <2>5, <2>6, PlacedStep
<1>12. StepOf(i)
  BY <1>0 DEF StepOf, SystemInv, Typed, TypeOK
<1>13. i \in Workers => AwaitedBy(i)'
  BY <1>0, <1>1, <1>12, AnnouncedStep, InstanceFacts
     DEF SystemInv, Typed, TypeOK, Awaited, AwaitedBy, FiberSteps
<1> QED
  BY <1>9, <1>10, <1>11, <1>12, <1>13, AwaitedStep DEF SystemInv

\* The pool is used up, and the suspended fiber stays the current one.
LEMMA KeepCurrentFiberStep ==
    ASSUME SystemInv, program' = program, NEW i \in Instances, KeepCurrentFiber(i)
    PROVE  SystemInv'
<1> USE DEF taskVars, fiberVars, instanceVars, dispatchVars, threadVars
<1>0. /\ pc[i] = "Suspended" /\ pc \in [Instances -> AllSteps] /\ running[i] = currentFiber[i]
      /\ pc' = [pc EXCEPT ![i] = AfterStep(i, TRUE)]
      /\ running' = [running EXCEPT ![i] = NoFiber]
      /\ UNCHANGED <<taskVars, fiberVars, instanceVars, index, isThereMoreWork, readyArray,
                     dispatchVars, threadVars>>
  BY DEF KeepCurrentFiber, GoTo, SystemInv, Typed, TypeOK
<1>1. /\ i = Helper => AfterStep(i, TRUE) = "Check"
      /\ i # Helper => AfterStep(i, TRUE) = "Loop"
  BY AfterStepIs
<1>2. running'[i] = NoFiber /\ pc'[i] \notin FiberSteps \cup {"Done", "Adopt"}
  BY <1>0, <1>1 DEF FiberSteps, SystemInv, Typed, TypeOK
<1>3. Typed'
  <2>1. running' \in [Instances -> Fibers \cup {NoFiber}]
    BY <1>0 DEF SystemInv, Typed, TypeOK
  <2>2. \A j \in Instances :
           pc'[j] \in {"OnFiber", "Suspended", "Update", "Add"} => running'[j] \in Fibers
    BY <1>0, <1>2 DEF SystemInv, Typed, TypeOK, FiberSteps
  <2>3. StepsTyped'
    BY <1>0, <1>1, StepsTypedKept DEF SystemInv, Typed, TypeOK, AllSteps, MainSteps, WorkerSteps
  <2> QED
    BY <1>0, <2>1, <2>2, <2>3, ProgramStays DEF SystemInv, Typed, TypeOK, StepsTyped
<1>4. Contents'
  <2>1. \A j \in Instances : pc'[j] \in FiberSteps <=> running'[j] # NoFiber
    BY <1>0, <1>2 DEF SystemInv, Typed, TypeOK, Contents
  <2>2. \A j \in Instances : running'[j] # NoFiber => fiberTask'[running'[j]] # NoTask
    BY <1>0, <1>2 DEF SystemInv, Typed, TypeOK, Contents
  <2>3. pc'[Helper] = "Adopt" => pc[Helper] = "Adopt"
    BY <1>0, <1>2, HelperIsAnInstance
  <2> QED
    BY <1>0, <2>1, <2>2, <2>3, ProgramStays DEF SystemInv, Contents
<1>5. Placed'
  <2>1. Current(i)' = Current(i) /\ Resumed(i) = {} /\ Resumed(i)' = {}
    BY <1>0, <1>2 DEF Current, Resumed
  <2>2. Holding(i)' = Holding(i)
    BY <1>0, <2>1 DEF Holding
  <2>3. /\ IsInjective(freeFibers) /\ IsInjective(suspendedFibers[i])
        /\ Holding(i) \cap Range(freeFibers) = {}
        /\ (Current(i) \cup Resumed(i)) \cap Range(suspendedFibers[i]) = {}
    BY DEF SystemInv, Placed
  <2>4. \A j \in Instances : j # i =>
           /\ pc'[j] = pc[j] /\ running'[j] = running[j] /\ currentFiber'[j] = currentFiber[j]
           /\ suspendedFibers'[j] = suspendedFibers[j]
    BY <1>0 DEF SystemInv, Typed, TypeOK
  <2>5. /\ freeFibers' = freeFibers /\ suspendedFibers' = suspendedFibers
        /\ (Current(i) \cup Resumed(i))' = Current(i) \cup Resumed(i)
    BY <1>0, <2>1
  <2> QED
    BY <2>2, <2>3, <2>4, <2>5, PlacedStep
<1>6. StepOf(i)
  BY <1>0 DEF StepOf, SystemInv, Typed, TypeOK
<1>7. i \in Workers => AwaitedBy(i)'
  BY <1>0, <1>1, <1>6, AnnouncedStep, InstanceFacts
     DEF SystemInv, Typed, TypeOK, Awaited, AwaitedBy, FiberSteps
<1> QED
  BY <1>3, <1>4, <1>5, <1>6, <1>7, AwaitedStep DEF SystemInv

\* A resumed fiber goes back to the queue.
LEMMA RequeueFiberStep ==
    ASSUME SystemInv, program' = program, NEW i \in Instances, RequeueFiber(i)
    PROVE  SystemInv'
<1> USE DEF taskVars, fiberVars, dispatchVars, threadVars
<1> DEFINE f == running[i]
           q == suspendedFibers[i]
<1>0. /\ pc[i] = "Suspended" /\ pc \in [Instances -> AllSteps] /\ f # currentFiber[i]
      /\ pc' = [pc EXCEPT ![i] = "Resume"]
      /\ suspendedFibers' = [suspendedFibers EXCEPT ![i] = Append(q, f)]
      /\ running' = [running EXCEPT ![i] = NoFiber]
      /\ UNCHANGED <<taskVars, fiberVars, pendingTasks, currentFiber, converted, index,
                     isThereMoreWork, readyArray, dispatchVars, threadVars>>
  BY DEF RequeueFiber, GoTo, SystemInv, Typed, TypeOK
<1>1. /\ f \in Fibers /\ f # NoFiber /\ fiberTask[f] # NoTask
      /\ q \in Seq(Fibers) /\ IsInjective(q)
  BY <1>0, NamesAssumption DEF SystemInv, Typed, TypeOK, Contents, Placed, FiberSteps
<1>2. Current(i) = {currentFiber[i]} /\ Resumed(i) = {f}
  BY <1>0, <1>1 DEF Current, Resumed
<1>3. f \notin Range(q) /\ currentFiber[i] \notin Range(q)
  BY <1>2 DEF SystemInv, Placed
<1>4. /\ Append(q, f) \in Seq(Fibers) /\ IsInjective(Append(q, f))
      /\ Range(Append(q, f)) = Range(q) \cup {f}
  BY <1>1, <1>3, AppendRange
<1>5. /\ suspendedFibers'[i] = Append(q, f) /\ suspendedFibers[i] = q /\ running'[i] = NoFiber
      /\ pc'[i] = "Resume"
      /\ \A j \in Instances : j # i =>
            /\ pc'[j] = pc[j] /\ running'[j] = running[j] /\ currentFiber'[j] = currentFiber[j]
            /\ suspendedFibers'[j] = suspendedFibers[j]
  BY <1>0 DEF SystemInv, Typed, TypeOK
<1> HIDE DEF q, f
<1>6. Typed'
  <2>1. /\ running' \in [Instances -> Fibers \cup {NoFiber}]
        /\ suspendedFibers' \in [Instances -> Seq(Fibers)]
        /\ \A j \in Instances :
              pc'[j] \in {"OnFiber", "Suspended", "Update", "Add"} => running'[j] \in Fibers
    BY <1>0, <1>4, <1>5 DEF SystemInv, Typed, TypeOK
  <2> QED
    BY <1>0, <2>1, ProgramStays, InstanceFacts
       DEF SystemInv, Typed, TypeOK, AllSteps, WorkerSteps, ExecutionSteps, MainSteps
<1>7. Contents'
  <2>1. \A j \in Instances : pc'[j] \in FiberSteps <=> running'[j] # NoFiber
    BY <1>5 DEF SystemInv, Contents, FiberSteps
  <2>2. \A j \in Instances : running'[j] # NoFiber => fiberTask'[running'[j]] # NoTask
    BY <1>0, <1>5 DEF SystemInv, Contents
  <2>3. \A j \in Instances : \A k \in Range(suspendedFibers'[j]) : fiberTask'[k] # NoTask
    BY <1>0, <1>1, <1>4, <1>5 DEF SystemInv, Contents
  <2>4. pc'[Helper] = "Adopt" => pc[Helper] = "Adopt"
    BY <1>0, <1>5, HelperIsAnInstance
  <2> QED
    BY <1>0, <2>1, <2>2, <2>3, <2>4, ProgramStays DEF SystemInv, Contents
<1>8. Placed'
  <2>1. Current(i)' = {currentFiber[i]} /\ Resumed(i)' = {}
    BY <1>0, <1>5 DEF Current, Resumed
  <2>2. Holding(i)' = Holding(i)
    BY <1>2, <1>4, <1>5, <2>1 DEF Holding
  <2>3. f # currentFiber[i]
    BY <1>0 DEF f
  <2>4. (Current(i) \cup Resumed(i))' \cap Range(suspendedFibers'[i]) = {}
    BY <1>3, <1>4, <1>5, <2>1, <2>3
  <2>5. /\ IsInjective(freeFibers') /\ Range(freeFibers') = Range(freeFibers)
        /\ Holding(i) \cap Range(freeFibers) = {}
    BY <1>0 DEF SystemInv, Placed
  <2> QED
    BY <1>4, <1>5, <2>2, <2>4, <2>5, PlacedStep
<1>9. StepOf(i)
  BY <1>0 DEF StepOf, SystemInv, Typed, TypeOK
<1>10. i \in Workers => AwaitedBy(i)'
  BY <1>0, <1>5, <1>9, AnnouncedStep
     DEF SystemInv, Typed, TypeOK, Awaited, AwaitedBy, FiberSteps
<1> QED
  BY <1>6, <1>7, <1>8, <1>9, <1>10, AwaitedStep DEF SystemInv

-----------------------------------------------------------------------------
(***************************************************************************)
(* The function of a task, and what follows it.                            *)
(***************************************************************************)

\* The function on the stack of the fiber that a thread is in.
LEMMA CallerIsATask ==
    ASSUME SystemInv, NEW i \in Instances, pc[i] = "OnFiber", fiberState[running[i]] # "Idle"
    PROVE  Caller(i) \in Tasks /\ Caller(i) = stack[running[i]]
<1>1. running[i] \in Fibers
  BY OnOneFiber DEF FiberSteps
<1> QED
  BY <1>1 DEF SystemInv, Typed, TypeOK, Contents, Caller

\* A task fiber goes on with its function.
LEMMA RunTaskStep ==
    ASSUME SystemInv, program' = program, NEW i \in Instances, RunTask(i) PROVE SystemInv'
<1> USE DEF taskVars, instanceVars, stepVars, dispatchVars, threadVars
<1> DEFINE f == running[i]
<1>1. /\ pc[i] = "OnFiber"
      /\ fiberState' = [fiberState EXCEPT ![f] = "Running"]
      /\ stack' = [stack EXCEPT ![f] = fiberTask[f]]
      /\ UNCHANGED <<taskVars, freeFibers, fiberTask, fiberParent, instanceVars, pc, stepVars,
                     dispatchVars, threadVars>>
  BY DEF RunTask, At
<1>2. f \in Fibers /\ fiberTask[f] \in Tasks /\ fiberTask[f] # NoTask
  BY <1>1, OnOneFiber, NamesAssumption DEF FiberSteps, Submitters
<1> HIDE DEF f
<1>3. Typed'
  BY <1>1, <1>2, ProgramStays DEF SystemInv, Typed, TypeOK
<1>4. Contents'
  BY <1>1, <1>2, ProgramStays DEF SystemInv, Typed, TypeOK, Contents
<1>5. Placed'
  BY <1>1, PlacedKept DEF SystemInv
<1>6. StepOf(i)
  BY <1>1 DEF StepOf
<1>7. i \in Workers => AwaitedBy(i)'
  BY <1>1, <1>6, AnnouncedStep DEF SystemInv, Typed, TypeOK, Awaited, AwaitedBy
<1> QED
  BY <1>3, <1>4, <1>5, <1>6, <1>7, AwaitedStep DEF SystemInv

\* A task function submits a task.
LEMMA SubmitFromTaskStep ==
    ASSUME SystemInv, program' = program, NEW i \in Instances, SubmitFromTask(i)
    PROVE  SystemInv'
<1>1. pc[i] = "OnFiber" /\ Caller(i) \in Submitters /\ SubmitNext(Caller(i), i)
  BY CallerIsATask DEF SubmitFromTask, InFunction, At, Submitters
<1> QED
  BY <1>1, SubmitNextStep

\* Control is back in the thread, or nobody knows where.
LEMMA SuspendTaskStep ==
    ASSUME SystemInv, program' = program, NEW i \in Instances, SuspendTask(i) PROVE SystemInv'
<1> USE DEF taskVars, instanceVars, stepVars, dispatchVars, threadVars
<1> DEFINE f == running[i]
<1>0. pc[i] = "OnFiber" /\ fiberState[f] # "Idle"
  BY DEF SuspendTask, InFunction, At
<1>1. PICK step \in {"Suspended", "Astray"} : pc' = [pc EXCEPT ![i] = step]
  BY DEF SuspendTask, SwitchToParent, GoTo
<1>2. /\ fiberState' = [fiberState EXCEPT ![f] = "Suspended"]
      /\ UNCHANGED <<taskVars, freeFibers, fiberTask, fiberParent, stack, instanceVars, stepVars,
                     dispatchVars, threadVars>>
  BY DEF SuspendTask
<1>3. f \in Fibers /\ stack[f] # NoTask
  BY <1>0, OnOneFiber DEF FiberSteps, SystemInv, Contents
<1>4. pc \in [Instances -> AllSteps] /\ Helper \in Instances
  BY HelperIsAnInstance DEF SystemInv, Typed
<1>5. Typed'
  <2>1. StepsTyped'
    BY <1>1, StepsTypedKept DEF AllSteps, ExecutionSteps
  <2>2. \A j \in Instances :
           pc'[j] \in {"OnFiber", "Suspended", "Update", "Add"} => running'[j] \in Fibers
    BY <1>1, <1>2, <1>3, <1>4 DEF SystemInv, Typed, TypeOK
  <2>3. fiberState' \in [Fibers -> {"Idle", "Running", "Suspended"}]
    BY <1>2 DEF SystemInv, Typed, TypeOK
  <2> QED
    BY <1>2, <2>1, <2>2, <2>3, ProgramStays DEF SystemInv, Typed, TypeOK, StepsTyped
<1>6. Contents'
  <2>1. \A h \in Fibers : fiberState'[h] # "Idle" => stack'[h] # NoTask
    BY <1>2, <1>3 DEF SystemInv, Typed, TypeOK, Contents
  <2>2. \A j \in Instances : pc'[j] \in FiberSteps <=> running'[j] # NoFiber
    BY <1>0, <1>1, <1>2, <1>4 DEF SystemInv, Contents, FiberSteps
  <2>3. pc'[Helper] = "Adopt" => pc[Helper] = "Adopt"
    BY <1>1, <1>4
  <2> QED
    BY <1>2, <2>1, <2>2, <2>3, ProgramStays DEF SystemInv, Contents
<1>7. Placed'
  BY <1>0, <1>1, <1>2, <1>4, PlacedKept DEF SystemInv
<1>8. StepOf(i)
  BY <1>0, <1>1, <1>2, <1>4 DEF StepOf
<1>9. i \in Workers => AwaitedBy(i)'
  BY <1>0, <1>1, <1>2, <1>4, <1>8, AnnouncedStep
     DEF SystemInv, Typed, TypeOK, Awaited, AwaitedBy, FiberSteps
<1> QED
  BY <1>5, <1>6, <1>7, <1>8, <1>9, AwaitedStep DEF SystemInv

\* A counter is set.
LEMMA CounterSet ==
    ASSUME NEW n \in [Tasks -> Int], NEW t, NEW x \in Int
    PROVE  [n EXCEPT ![t] = x] \in [Tasks -> Int]
OBVIOUS

\* A task function has returned, and the counter says so.
LEMMA FinishTaskStep ==
    ASSUME SystemInv, program' = program, NEW i \in Instances, FinishTask(i) PROVE SystemInv'
<1> USE DEF instanceVars, dispatchVars, threadVars
<1> DEFINE f == running[i]
<1>0. pc[i] = "OnFiber" /\ fiberState[f] # "Idle"
  BY DEF FinishTask, InFunction, At
<1>1. PICK step \in {"Update", "Astray"} : pc' = [pc EXCEPT ![i] = step]
  BY DEF FinishTask, SwitchToParent, GoTo
<1>2. /\ numberOfChildTasks' = [numberOfChildTasks EXCEPT ![Caller(i)] = 0]
      /\ fiberState' = [fiberState EXCEPT ![f] = "Idle"]
      /\ stack' = [stack EXCEPT ![f] = NoTask]
      /\ index' = [index EXCEPT ![i] = 0]
      /\ UNCHANGED <<progress, fence, freeFibers, fiberTask, fiberParent, instanceVars, running,
                     isThereMoreWork, readyArray, dispatchVars, threadVars>>
  BY DEF FinishTask
<1>3. f \in Fibers
  BY <1>0, OnOneFiber DEF FiberSteps
<1>4. pc \in [Instances -> AllSteps] /\ Helper \in Instances
  BY HelperIsAnInstance DEF SystemInv, Typed
<1>5. Typed'
  <2>1. StepsTyped'
    BY <1>1, StepsTypedKept DEF AllSteps, ExecutionSteps
  <2>2. \A j \in Instances :
           pc'[j] \in {"OnFiber", "Suspended", "Update", "Add"} => running'[j] \in Fibers
    BY <1>1, <1>2, <1>3, <1>4 DEF SystemInv, Typed, TypeOK
  <2>3. /\ fiberState' \in [Fibers -> {"Idle", "Running", "Suspended"}]
        /\ stack' \in [Fibers -> Tasks \cup {NoTask}]
    BY <1>2 DEF SystemInv, Typed, TypeOK
  <2>4. index' \in [Instances -> Nat]
    BY <1>2 DEF SystemInv, Typed, TypeOK
  <2>5. numberOfChildTasks' \in [Tasks -> Int]
    <3>1. numberOfChildTasks \in [Tasks -> Int]
      BY DEF SystemInv, Typed, TypeOK
    <3> QED
      BY <1>2, <3>1, CounterSet
  <2> QED
    BY <1>2, <2>1, <2>2, <2>3, <2>4, <2>5, ProgramStays DEF SystemInv, Typed, TypeOK, StepsTyped
<1>6. Contents'
  <2>1. \A h \in Fibers : fiberState'[h] # "Idle" => stack'[h] # NoTask
    BY <1>2, <1>3 DEF SystemInv, Typed, TypeOK, Contents
  <2>2. \A j \in Instances : pc'[j] \in FiberSteps <=> running'[j] # NoFiber
    BY <1>0, <1>1, <1>2, <1>4 DEF SystemInv, Contents, FiberSteps
  <2>3. pc'[Helper] = "Adopt" => pc[Helper] = "Adopt"
    BY <1>1, <1>4
  <2> QED
    BY <1>2, <2>1, <2>2, <2>3, ProgramStays DEF SystemInv, Contents
<1>7. Placed'
  BY <1>0, <1>1, <1>2, <1>4, PlacedKept DEF SystemInv
<1>8. StepOf(i)
  BY <1>0, <1>1, <1>2, <1>4 DEF StepOf, SystemInv, Typed, TypeOK
<1>9. i \in Workers => AwaitedBy(i)'
  BY <1>0, <1>1, <1>2, <1>4, <1>8, AnnouncedStep
     DEF SystemInv, Typed, TypeOK, Awaited, AwaitedBy, FiberSteps
<1> QED
  BY <1>5, <1>6, <1>7, <1>8, <1>9, AwaitedStep DEF SystemInv

\* What a task is read from.
LEMMA DependantsTyped ==
    ASSUME SystemInv, NEW t \in Tasks, NEW s \in Slots
    PROVE  Dependants[t][s] \in Tasks \cup {NoTask}
BY ProgramsAssumption DEF SystemInv, Typed, TypeOK, Dependants

\* One dependant is told; the fibers and the threads stay where they are.
LEMMA UpdateDependeciesStep ==
    ASSUME SystemInv, program' = program, NEW i \in Instances, UpdateDependecies(i)
    PROVE  SystemInv'
<1> USE DEF fiberVars, instanceVars, dispatchVars, threadVars
<1> DEFINE s == index[i]
           d == Dependants[fiberTask[running[i]]][s]
<1>0. /\ pc[i] = "Update" /\ s < MaxDependants /\ index' = [index EXCEPT ![i] = @ + 1]
      /\ UNCHANGED <<progress, fence, fiberVars, instanceVars, pc, running, isThereMoreWork,
                     dispatchVars, threadVars>>
      /\ s \in Nat
  BY DEF UpdateDependecies, SystemInv, Typed, TypeOK
<1>1. s \in Slots
  BY <1>0, SizesAssumption DEF Slots
<1>2. d \in Tasks \cup {NoTask}
  BY <1>0, <1>1, OnOneFiber, DependantsTyped DEF FiberSteps
<1>3. \/ UNCHANGED <<numberOfChildTasks, readyArray>>
      \/ /\ d # NoTask
         /\ numberOfChildTasks' = [numberOfChildTasks EXCEPT ![d] = @ - 1]
         /\ readyArray' = [readyArray EXCEPT ![i][s] = IF BecomesReady(d) THEN d ELSE @]
  BY DEF UpdateDependecies
<1> HIDE DEF d, s
<1>4. /\ numberOfChildTasks' \in [Tasks -> Int]
      /\ readyArray' \in [Instances -> [Slots -> Tasks \cup {NoTask}]]
  <2>1. /\ numberOfChildTasks \in [Tasks -> Int]
        /\ readyArray \in [Instances -> [Slots -> Tasks \cup {NoTask}]]
    BY DEF SystemInv, Typed, TypeOK
  <2>2. CASE UNCHANGED <<numberOfChildTasks, readyArray>>
    BY <2>1, <2>2
  <2>3. ASSUME d # NoTask,
               numberOfChildTasks' = [numberOfChildTasks EXCEPT ![d] = @ - 1],
               readyArray' = [readyArray EXCEPT ![i][s] = IF BecomesReady(d) THEN d ELSE @]
        PROVE  /\ numberOfChildTasks' \in [Tasks -> Int]
               /\ readyArray' \in [Instances -> [Slots -> Tasks \cup {NoTask}]]
    <3>1. numberOfChildTasks' \in [Tasks -> Int]
      <4>1. numberOfChildTasks[d] - 1 \in Int
        BY <1>2, <2>1, <2>3
      <4> QED
        BY <2>1, <2>3, <4>1, CounterSet
    <3>2. readyArray' \in [Instances -> [Slots -> Tasks \cup {NoTask}]]
      BY <1>1, <1>2, <2>1, <2>3
    <3> QED
      BY <3>1, <3>2
  <2> QED
    BY <1>3, <2>2, <2>3
<1>5. index' \in [Instances -> Nat]
  BY <1>0 DEF SystemInv, Typed, TypeOK
<1>6. Typed'
  BY <1>0, <1>4, <1>5, ProgramStays DEF SystemInv, Typed, TypeOK
<1>7. Contents'
  BY <1>0, ContentsKept DEF SystemInv
<1>8. Placed'
  BY <1>0, PlacedKept DEF SystemInv
<1>9. StepOf(i)
  BY <1>0 DEF StepOf, SystemInv, Typed, TypeOK
<1>10. i \in Workers => AwaitedBy(i)'
  BY <1>0, <1>9, AnnouncedStep DEF SystemInv, Typed, TypeOK, Awaited, AwaitedBy
<1> QED
  BY <1>6, <1>7, <1>8, <1>9, <1>10, AwaitedStep DEF SystemInv

\* All dependants have been notified; the ready ones come next.
LEMMA EndUpdateStep ==
    ASSUME SystemInv, program' = program, NEW i \in Instances, EndUpdate(i) PROVE SystemInv'
<1> USE DEF taskVars, fiberVars, instanceVars, dispatchVars, threadVars
<1>0. /\ pc[i] = "Update" /\ pc' = [pc EXCEPT ![i] = "Add"] /\ index' = [index EXCEPT ![i] = 0]
      /\ UNCHANGED <<taskVars, fiberVars, instanceVars, running, isThereMoreWork, readyArray,
                     dispatchVars, threadVars>>
  BY DEF EndUpdate, GoTo
<1>1. pc \in [Instances -> AllSteps] /\ Helper \in Instances
  BY HelperIsAnInstance DEF SystemInv, Typed
<1>2. Typed'
  <2>1. StepsTyped'
    BY <1>0, StepsTypedKept DEF AllSteps, ExecutionSteps
  <2>2. \A j \in Instances :
           pc'[j] \in {"OnFiber", "Suspended", "Update", "Add"} => running'[j] \in Fibers
    BY <1>0, <1>1 DEF SystemInv, Typed, TypeOK
  <2>3. index' \in [Instances -> Nat]
    BY <1>0 DEF SystemInv, Typed, TypeOK
  <2> QED
    BY <1>0, <2>1, <2>2, <2>3, ProgramStays DEF SystemInv, Typed, TypeOK, StepsTyped
<1>3. Contents'
  BY <1>0, <1>1, ContentsKept DEF SystemInv, FiberSteps
<1>4. Placed'
  BY <1>0, <1>1, PlacedKept DEF SystemInv
<1>5. StepOf(i)
  BY <1>0, <1>1 DEF StepOf, SystemInv, Typed, TypeOK
<1>6. i \in Workers => AwaitedBy(i)'
  BY <1>0, <1>1, <1>5, AnnouncedStep
     DEF SystemInv, Typed, TypeOK, Awaited, AwaitedBy, FiberSteps
<1> QED
  BY <1>2, <1>3, <1>4, <1>5, <1>6, AwaitedStep DEF SystemInv

\* A ready dependant joins the thread's own queue, which it will look at.
LEMMA AddReadyTaskStep ==
    ASSUME SystemInv, program' = program, NEW i \in Instances, AddReadyTask(i) PROVE SystemInv'
<1> USE DEF taskVars, fiberVars, dispatchVars, threadVars
<1> DEFINE t == readyArray[i][index[i]]
<1>0. /\ pc[i] = "Add" /\ index[i] < MaxDependants /\ index[i] \in Nat
      /\ index' = [index EXCEPT ![i] = @ + 1]
      /\ readyArray' = [readyArray EXCEPT ![i][index[i]] = NoTask]
      /\ pendingTasks' = IF t = NoTask THEN pendingTasks
                         ELSE [pendingTasks EXCEPT ![i] = Append(@, t)]
      /\ UNCHANGED <<taskVars, fiberVars, suspendedFibers, currentFiber, converted, pc, running,
                     isThereMoreWork, dispatchVars, threadVars>>
  BY DEF AddReadyTask, SystemInv, Typed, TypeOK
<1>1. index[i] \in Slots
  BY <1>0, SizesAssumption DEF Slots
<1>2. t \in Tasks \cup {NoTask}
  BY <1>1 DEF SystemInv, Typed, TypeOK
<1> HIDE DEF t
<1>3. /\ readyArray' \in [Instances -> [Slots -> Tasks \cup {NoTask}]]
      /\ index' \in [Instances -> Nat]
  BY <1>0, <1>1 DEF SystemInv, Typed, TypeOK
<1>4. /\ pendingTasks' \in [Instances -> Seq(Tasks)]
      /\ \A j \in Instances : j # i => pendingTasks'[j] = pendingTasks[j]
  <2>1. pendingTasks \in [Instances -> Seq(Tasks)] /\ pendingTasks[i] \in Seq(Tasks)
    BY DEF SystemInv, Typed, TypeOK
  <2>2. t # NoTask => Append(pendingTasks[i], t) \in Seq(Tasks)
    BY <1>2, <2>1, AppendProperties
  <2> QED
    BY <1>0, <2>1, <2>2
<1>5. Typed'
  BY <1>0, <1>3, <1>4, ProgramStays DEF SystemInv, Typed, TypeOK
<1>6. Contents'
  BY <1>0, ContentsKept DEF SystemInv
<1>7. Placed'
  BY <1>0, PlacedKept DEF SystemInv
<1>8. StepOf(i)
  BY <1>0, <1>4 DEF StepOf, SystemInv, Typed, TypeOK
<1>9. i \in Workers => AwaitedBy(i)'
  BY <1>0, <1>8, AnnouncedStep DEF SystemInv, Typed, TypeOK, Awaited, AwaitedBy
<1> QED
  BY <1>5, <1>6, <1>7, <1>8, <1>9, AwaitedStep DEF SystemInv

\* The fiber has no task any more: it stays current, or it is free.
LEMMA ClearFiberStep ==
    ASSUME SystemInv, program' = program, NEW i \in Instances, ClearFiber(i) PROVE SystemInv'
<1> USE DEF taskVars, instanceVars, dispatchVars, threadVars
<1> DEFINE f == running[i]
<1>0. /\ pc[i] = "Add" /\ running' = [running EXCEPT ![i] = NoFiber]
      /\ UNCHANGED <<taskVars, stack, instanceVars, index, isThereMoreWork, readyArray,
                     dispatchVars, threadVars>>
  BY DEF ClearFiber
<1>1. PICK step \in {"Check", "Loop", "Take"} :
         /\ pc' = [pc EXCEPT ![i] = step]
         /\ step = "Check" => i = Helper
         /\ step = "Loop" => i # Helper
  BY AfterStepIs DEF ClearFiber, GoTo
<1>2. fiberTask' = [fiberTask EXCEPT ![f] = NoTask]
  BY DEF ClearFiber, ReleaseFiber
<1>3. \/ f = currentFiber[i] /\ UNCHANGED <<freeFibers, fiberState, fiberParent>>
      \/ f # currentFiber[i] /\ ReleaseFiber(f)
  BY DEF ClearFiber
<1>4. f \in Current(i) \cup Resumed(i) /\ f \in Fibers
  BY <1>0, OnOneFiber DEF FiberSteps
<1>5. /\ f \notin Range(freeFibers)
      /\ \A j \in Instances : f \notin Range(suspendedFibers[j])
      /\ \A j \in Instances : j # i => f # running[j] /\ f \notin Current(j)
  BY <1>4, FibersApart
<1>6. pc \in [Instances -> AllSteps] /\ Helper \in Instances
  BY HelperIsAnInstance DEF SystemInv, Typed
<1>7. /\ pc'[i] = step /\ running'[i] = NoFiber /\ running[i] = f
      /\ \A j \in Instances : j # i =>
            /\ pc'[j] = pc[j] /\ running'[j] = running[j] /\ currentFiber'[j] = currentFiber[j]
            /\ suspendedFibers'[j] = suspendedFibers[j]
  BY <1>0, <1>1, <1>6 DEF SystemInv, Typed, TypeOK
<1>8. /\ freeFibers' \in Seq(Fibers) /\ IsInjective(freeFibers')
      /\ Range(freeFibers') = IF f = currentFiber[i] THEN Range(freeFibers)
                              ELSE Range(freeFibers) \cup {f}
  <2>1. CASE f = currentFiber[i]
    BY <1>3, <2>1 DEF SystemInv, Typed, TypeOK, Placed
  <2>2. CASE f # currentFiber[i]
    BY <1>3, <1>4, <1>5, <2>2, ReleaseFiberRange
  <2> QED
    BY <2>1, <2>2
<1>9. /\ fiberState' \in [Fibers -> {"Idle", "Running", "Suspended"}]
      /\ fiberParent' \in [Fibers -> Instances \cup {NoInstance}]
      /\ \A h \in Fibers : fiberState'[h] # "Idle" => fiberState[h] # "Idle"
  BY <1>3 DEF ReleaseFiber, SystemInv, Typed, TypeOK
<1>10. fiberTask' \in [Fibers -> Tasks \cup {NoTask}]
  BY <1>2 DEF SystemInv, Typed, TypeOK
<1> HIDE DEF f
<1>11. Typed'
  <2>1. StepsTyped'
    BY <1>1, StepsTypedKept DEF AllSteps, ExecutionSteps, MainSteps, WorkerSteps
  <2>2. \A j \in Instances :
           pc'[j] \in {"OnFiber", "Suspended", "Update", "Add"} => running'[j] \in Fibers
    BY <1>7 DEF SystemInv, Typed, TypeOK
  <2>3. running' \in [Instances -> Fibers \cup {NoFiber}]
    BY <1>0 DEF SystemInv, Typed, TypeOK
  <2> QED
    BY <1>0, <1>8, <1>9, <1>10, <2>1, <2>2, <2>3, ProgramStays
       DEF SystemInv, Typed, TypeOK, StepsTyped
<1>12. Contents'
  <2>1. \A h \in Fibers : fiberState'[h] # "Idle" => stack'[h] # NoTask
    BY <1>0, <1>9 DEF SystemInv, Contents
  <2>2. \A j \in Instances : pc'[j] \in FiberSteps <=> running'[j] # NoFiber
    BY <1>7 DEF SystemInv, Contents, FiberSteps
  <2>3. \A h \in Fibers : h # f => fiberTask'[h] = fiberTask[h]
    BY <1>2 DEF SystemInv, Typed, TypeOK
  <2>4. \A j \in Instances : running'[j] # NoFiber => fiberTask'[running'[j]] # NoTask
    <3>1. ASSUME NEW j \in Instances, j # i, running[j] # NoFiber
          PROVE  fiberTask'[running[j]] # NoTask
      <4>1. running[j] \in Fibers /\ running[j] # f /\ fiberTask[running[j]] # NoTask
        BY <1>5, <3>1 DEF SystemInv, Typed, TypeOK, Contents
      <4> QED
        BY <2>3, <4>1
    <3> QED
      BY <1>7, <3>1
  <2>5. \A j \in Instances : \A h \in Range(suspendedFibers'[j]) : fiberTask'[h] # NoTask
    BY <1>0, <1>5, <2>3, RangeOfSequence DEF SystemInv, Typed, TypeOK, Contents
  <2>6. pc'[Helper] = "Adopt" => pc[Helper] = "Adopt"
    BY <1>1, <1>6
  <2> QED
    BY <1>0, <2>1, <2>2, <2>4, <2>5, <2>6, ProgramStays DEF SystemInv, Contents
<1>13. Placed'
  <2>0. suspendedFibers' = suspendedFibers /\ currentFiber' = currentFiber
    BY <1>0
  <2>1. Current(i) = {currentFiber[i]} /\ Current(i)' = {currentFiber[i]} /\ Resumed(i)' = {}
    BY <1>0, <1>1, <1>7 DEF Current, Resumed
  <2>2. Resumed(i) = {f} \ {currentFiber[i]}
    BY <1>4, <1>7, NamesAssumption DEF Resumed
  <2>3. /\ IsInjective(suspendedFibers[i])
        /\ Holding(i) \cap Range(freeFibers) = {}
        /\ (Current(i) \cup Resumed(i)) \cap Range(suspendedFibers[i]) = {}
    BY DEF SystemInv, Placed
  <2>4. /\ Holding(i) = {currentFiber[i]} \cup {f} \cup Range(suspendedFibers[i])
        /\ Holding(i)' = {currentFiber[i]} \cup Range(suspendedFibers[i])
    BY <2>0, <2>1, <2>2 DEF Holding
  <2>5. Range(freeFibers') \cup Holding(i)' = Range(freeFibers) \cup Holding(i)
    BY <1>8, <2>4
  <2>6. Range(freeFibers') \cap Holding(i)' = {}
    BY <1>5, <1>8, <2>3, <2>4
  <2>7. (Current(i) \cup Resumed(i))' \cap Range(suspendedFibers'[i]) = {}
    BY <2>0, <2>1, <2>3
  <2> QED
    BY <1>7, <1>8, <2>0, <2>3, <2>5, <2>6, <2>7, PlacedStep
<1>14. StepOf(i)
  BY <1>0, <1>1, <1>6 DEF StepOf, SystemInv, Typed, TypeOK
<1>15. ASSUME i \in Workers PROVE AwaitedBy(i)'
  <2>1. i # Helper /\ isThereMoreWork'[i] /\ shouldFinishWork' = shouldFinishWork
    BY <1>0, <1>15, InstanceFacts
       DEF SystemInv, Typed, TypeOK, Awaited, AwaitedBy, FiberSteps
  <2>2. shouldFinishWork[i] => Announced(i)'
    BY <1>0, <1>14, <1>15, AnnouncedStep
       DEF SystemInv, Typed, TypeOK, Awaited, AwaitedBy
  <2>3. pc'[i] \in {"Loop", "Take"}
    BY <1>1, <1>7, <2>1
  <2> QED
    BY <2>1, <2>2, <2>3 DEF AwaitedBy, FiberSteps
<1> QED
  BY <1>11, <1>12, <1>13, <1>14, <1>15, AwaitedStep DEF SystemInv

-----------------------------------------------------------------------------
(***************************************************************************)
(* The main thread.                                                        *)
(***************************************************************************)

\* What every step of the main thread needs.
LEMMA HelperFacts ==
    ASSUME SystemInv
    PROVE  /\ Helper \in Instances /\ Helper \notin Workers /\ pc \in [Instances -> AllSteps]
           /\ \A w \in Workers : w \in Instances /\ w # Helper
BY InstanceFacts DEF SystemInv, Typed, TypeOK

\* The main thread submits a task.
LEMMA SubmitFromMainStep ==
    ASSUME SystemInv, program' = program, SubmitFromMain PROVE SystemInv'
BY HelperFacts, SubmitNextStep DEF SubmitFromMain, At, Submitters

\* A step to elsewhere that takes nothing along but the conversion.
LEMMA MainGoesOn ==
    ASSUME SystemInv, program' = program, NEW step \in MainSteps \ {"Adopt", "Done"},
           pc' = [pc EXCEPT ![Helper] = step],
           pc[Helper] \in MainSteps \ {"Adopt", "StopWakeUp", "Done"},
           UNCHANGED <<numberOfChildTasks, progress, freeFibers, fiberState, fiberTask, stack,
                       pendingTasks, suspendedFibers, currentFiber, running, isThereMoreWork,
                       readyArray, dispatching, waking, adopting, threadVars>>,
           fence' \in BOOLEAN,
           converted' \in [Instances -> BOOLEAN],
           fiberParent' \in [Fibers -> Instances \cup {NoInstance}],
           index' \in [Instances -> Nat],
           \A j \in Instances : j # Helper => index'[j] = index[j]
    PROVE  SystemInv'
<1> USE DEF threadVars
<1>1. /\ Helper \in Instances /\ Helper \notin Workers /\ pc \in [Instances -> AllSteps]
      /\ \A w \in Workers : w \in Instances /\ w # Helper
  BY HelperFacts
<1>2. step \notin FiberSteps /\ step # "Adopt" /\ step # "Done" /\ pc[Helper] \notin FiberSteps
  BY DEF MainSteps, FiberSteps
<1>3. /\ pc'[Helper] = step
      /\ \A j \in Instances : j # Helper => pc'[j] = pc[j]
  BY <1>1
<1>4. Typed'
  <2>1. StepsTyped'
    BY <1>1, StepsTypedKept DEF AllSteps
  <2>2. \A j \in Instances :
           pc'[j] \in {"OnFiber", "Suspended", "Update", "Add"} => running'[j] \in Fibers
    BY <1>2, <1>3 DEF SystemInv, Typed, TypeOK, FiberSteps
  <2> QED
    BY <2>1, <2>2, ProgramStays DEF SystemInv, Typed, TypeOK, StepsTyped
<1>5. Contents'
  BY <1>2, <1>3, ContentsKept DEF SystemInv
<1>6. Placed'
  BY <1>2, <1>3, PlacedKept DEF SystemInv
<1>7. StepOf(Helper)
  BY <1>3 DEF StepOf
<1> QED
  BY <1>1, <1>4, <1>5, <1>6, <1>7, AwaitedStep DEF SystemInv

\* The main thread enters WaitUntil.
LEMMA ConvertMainThreadStep ==
    ASSUME SystemInv, program' = program, ConvertMainThread PROVE SystemInv'
<1>1. /\ pc[Helper] = "Main" /\ pc' = [pc EXCEPT ![Helper] = "Check"]
      /\ converted' = [converted EXCEPT ![Helper] = TRUE]
      /\ fiberParent' = [fiberParent EXCEPT ![currentFiber[Helper]] = Helper]
      /\ UNCHANGED <<numberOfChildTasks, progress, fence, freeFibers, fiberState, fiberTask, stack,
                     pendingTasks, suspendedFibers, currentFiber, index, running, isThereMoreWork,
                     readyArray, dispatching, waking, adopting, threadVars>>
  BY DEF ConvertMainThread, At, GoTo, Convert, taskVars, stepVars, dispatchVars
<1>2. /\ converted' \in [Instances -> BOOLEAN]
      /\ fiberParent' \in [Fibers -> Instances \cup {NoInstance}]
      /\ index' \in [Instances -> Nat] /\ fence' \in BOOLEAN
  BY <1>1, HelperIsAnInstance DEF SystemInv, Typed, TypeOK
<1> QED
  BY <1>1, <1>2, MainGoesOn DEF MainSteps

\* The main thread begins an execution step, or leaves the loop of WaitUntil.
LEMMA CheckConditionStep ==
    ASSUME SystemInv, program' = program, CheckCondition PROVE SystemInv'
<1>1. CASE BeginStep(Helper)
  BY <1>1, HelperFacts, BeginStepStep DEF CheckCondition
<1>2. ASSUME GoTo(Helper, "FlushFibers"),
             converted' = [converted EXCEPT ![Helper] = FALSE],
             UNCHANGED <<taskVars, fiberVars, pendingTasks, suspendedFibers, currentFiber,
                         stepVars, dispatchVars, threadVars>>
      PROVE  SystemInv'
  <2>1. /\ pc[Helper] = "Check" /\ pc' = [pc EXCEPT ![Helper] = "FlushFibers"]
        /\ converted' \in [Instances -> BOOLEAN]
        /\ UNCHANGED <<numberOfChildTasks, progress, fence, freeFibers, fiberState, fiberTask, stack,
                       fiberParent, pendingTasks, suspendedFibers, currentFiber, index, running,
                       isThereMoreWork, readyArray, dispatching, waking, adopting, threadVars>>
    BY <1>2
       DEF CheckCondition, GoTo, taskVars, fiberVars, stepVars, dispatchVars, SystemInv, Typed, TypeOK
  <2>2. /\ fiberParent' \in [Fibers -> Instances \cup {NoInstance}]
        /\ index' \in [Instances -> Nat] /\ fence' \in BOOLEAN
    BY <2>1 DEF SystemInv, Typed, TypeOK
  <2> QED
    BY <2>1, <2>2, MainGoesOn DEF MainSteps
<1> QED
  BY <1>1, <1>2 DEF CheckCondition

\* No suspended fiber is left in the helper instance.
LEMMA EndFlushFibersStep ==
    ASSUME SystemInv, program' = program, EndFlushFibers PROVE SystemInv'
<1>1. /\ pc[Helper] = "FlushFibers" /\ pc' = [pc EXCEPT ![Helper] = "FlushTasks"]
      /\ UNCHANGED <<numberOfChildTasks, progress, fence, freeFibers, fiberState, fiberTask, stack,
                     fiberParent, pendingTasks, suspendedFibers, currentFiber, converted, index,
                     running, isThereMoreWork, readyArray, dispatching, waking, adopting, threadVars>>
  BY DEF EndFlushFibers, At, GoTo, taskVars, fiberVars, instanceVars, stepVars, dispatchVars
<1>2. /\ converted' \in [Instances -> BOOLEAN]
      /\ fiberParent' \in [Fibers -> Instances \cup {NoInstance}]
      /\ index' \in [Instances -> Nat] /\ fence' \in BOOLEAN
  BY <1>1 DEF SystemInv, Typed, TypeOK
<1> QED
  BY <1>1, <1>2, MainGoesOn DEF MainSteps

\* No task is left in the helper instance, and WaitUntil returns.
LEMMA ReturnFromWaitUntilStep ==
    ASSUME SystemInv, program' = program, ReturnFromWaitUntil PROVE SystemInv'
<1>1. PICK step \in {"Fence", "Stop", "Returned"} : pc' = [pc EXCEPT ![Helper] = step]
  BY DEF ReturnFromWaitUntil, GoTo, AfterWaitUntil
<1>2. /\ pc[Helper] = "FlushTasks" /\ index' = [index EXCEPT ![Helper] = 1]
      /\ UNCHANGED <<numberOfChildTasks, progress, fence, freeFibers, fiberState, fiberTask, stack,
                     fiberParent, pendingTasks, suspendedFibers, currentFiber, converted,
                     running, isThereMoreWork, readyArray, dispatching, waking, adopting, threadVars>>
  BY DEF ReturnFromWaitUntil, At, taskVars, fiberVars, instanceVars, dispatchVars
<1>3. /\ converted' \in [Instances -> BOOLEAN]
      /\ fiberParent' \in [Fibers -> Instances \cup {NoInstance}]
      /\ index' \in [Instances -> Nat] /\ fence' \in BOOLEAN
      /\ \A j \in Instances : j # Helper => index'[j] = index[j]
  BY <1>2 DEF SystemInv, Typed, TypeOK
<1> QED
  BY <1>1, <1>2, <1>3, MainGoesOn DEF MainSteps

\* The main thread raises the fence between two calls of WaitUntil.
LEMMA RaiseFenceStep ==
    ASSUME SystemInv, program' = program, RaiseFence PROVE SystemInv'
<1>1. /\ pc[Helper] = "Fence" /\ pc' = [pc EXCEPT ![Helper] = "Main"] /\ fence' = TRUE
      /\ UNCHANGED <<numberOfChildTasks, progress, freeFibers, fiberState, fiberTask, stack,
                     fiberParent, pendingTasks, suspendedFibers, currentFiber, converted, index,
                     running, isThereMoreWork, readyArray, dispatching, waking, adopting, threadVars>>
  BY DEF RaiseFence, GoTo, fiberVars, instanceVars, stepVars, dispatchVars
<1>2. /\ converted' \in [Instances -> BOOLEAN]
      /\ fiberParent' \in [Fibers -> Instances \cup {NoInstance}]
      /\ index' \in [Instances -> Nat] /\ fence' \in BOOLEAN
  BY <1>1 DEF SystemInv, Typed, TypeOK
<1> QED
  BY <1>1, <1>2, MainGoesOn DEF MainSteps

\* The last suspended fiber of the helper instance goes to the queue of a worker, who is
\* going to be told.
LEMMA FlushFiberStep ==
    ASSUME SystemInv, program' = program, FlushFiber PROVE SystemInv'
<1> USE DEF taskVars, fiberVars, stepVars, threadVars
<1> DEFINE q == suspendedFibers[Helper]
           f == q[Len(q)]
           rest == SubSeq(q, 1, Len(q) - 1)
<1>0. PICK w \in Workers :
         /\ suspendedFibers' = [suspendedFibers EXCEPT ![Helper] = rest, ![w] = Append(@, f)]
         /\ adopting' = <<f, w>>
  BY DEF FlushFiber, SystemInv, Typed, TypeOK
<1> DEFINE r == suspendedFibers[w]
<1>1. /\ Helper \in Instances /\ w \in Instances /\ w # Helper /\ pc \in [Instances -> AllSteps]
      /\ \A v \in Workers : v \in Instances /\ v # Helper
  BY HelperFacts
<1>2. /\ pc[Helper] = "FlushFibers" /\ q # <<>> /\ pc' = [pc EXCEPT ![Helper] = "Adopt"]
      /\ UNCHANGED <<taskVars, fiberVars, pendingTasks, currentFiber, converted, stepVars,
                     dispatching, waking, threadVars>>
  BY DEF FlushFiber, At, GoTo
<1>3. /\ suspendedFibers \in [Instances -> Seq(Fibers)]
      /\ q \in Seq(Fibers) /\ IsInjective(q) /\ r \in Seq(Fibers) /\ IsInjective(r)
  BY <1>1 DEF SystemInv, Typed, TypeOK, Placed
<1>4. /\ f \in Fibers /\ f \in Range(q)
      /\ rest \in Seq(Fibers) /\ Range(rest) = Range(q) \ {f} /\ IsInjective(rest)
  BY <1>2, <1>3, FrontRange
<1>5. f \notin Range(r) /\ f \in Holding(Helper) /\ f \notin Holding(w)
  BY <1>1, <1>4 DEF SystemInv, Placed, Holding
<1>6. /\ Append(r, f) \in Seq(Fibers) /\ Range(Append(r, f)) = Range(r) \cup {f}
      /\ IsInjective(Append(r, f))
  BY <1>3, <1>4, <1>5, AppendRange
<1>7. /\ suspendedFibers'[Helper] = rest /\ suspendedFibers'[w] = Append(r, f)
      /\ \A j \in Instances : j # Helper /\ j # w => suspendedFibers'[j] = suspendedFibers[j]
      /\ pc'[Helper] = "Adopt" /\ \A j \in Instances : j # Helper => pc'[j] = pc[j]
  BY <1>0, <1>1, <1>2, <1>3
<1>8. suspendedFibers' \in [Instances -> Seq(Fibers)]
  BY <1>0, <1>1, <1>3, <1>4, <1>6
<1>9. q = suspendedFibers[Helper] /\ r = suspendedFibers[w] /\ f # NoFiber /\ fiberTask[f] # NoTask
  BY <1>1, <1>4, NamesAssumption DEF SystemInv, Contents
<1> HIDE DEF q, r, f, rest
<1>10. Typed'
  <2>1. StepsTyped'
    BY <1>1, <1>2, StepsTypedKept DEF AllSteps, MainSteps
  <2>2. \A j \in Instances :
           pc'[j] \in {"OnFiber", "Suspended", "Update", "Add"} => running'[j] \in Fibers
    BY <1>2, <1>7 DEF SystemInv, Typed, TypeOK
  <2>3. adopting' \in Fibers \X Workers
    BY <1>0, <1>4
  <2> QED
    BY <1>2, <1>8, <2>1, <2>2, <2>3, ProgramStays DEF SystemInv, Typed, TypeOK, StepsTyped
<1>11. Contents'
  <2>1. \A j \in Instances : pc'[j] \in FiberSteps <=> running'[j] # NoFiber
    BY <1>2, <1>7 DEF SystemInv, Contents, FiberSteps
  <2>2. \A j \in Instances : \A k \in Range(suspendedFibers'[j]) : fiberTask'[k] # NoTask
    <3>1. \A j \in Instances :
             Range(suspendedFibers'[j]) \subseteq Range(suspendedFibers[j]) \cup {f}
      BY <1>4, <1>6, <1>7, <1>9
    <3>2. \A j \in Instances : \A k \in Range(suspendedFibers[j]) : fiberTask[k] # NoTask
      BY DEF SystemInv, Contents
    <3> QED
      BY <1>2, <1>9, <3>1, <3>2
  <2>3. adopting' \in Fibers \X Workers
    BY <1>0, <1>4
  <2> QED
    BY <1>2, <2>1, <2>2, <2>3, ProgramStays DEF SystemInv, Contents
<1>12. Placed'
  <2>1. \A j \in Instances : Current(j)' = Current(j) /\ Resumed(j)' = Resumed(j)
    BY <1>2, <1>7 DEF Current, Resumed
  <2>2. /\ Holding(Helper)' = Holding(Helper) \ {f}
        /\ Holding(w)' = Holding(w) \cup {f}
        /\ \A j \in Instances : j # Helper /\ j # w => Holding(j)' = Holding(j)
    <3>1. f \notin Current(Helper) \cup Resumed(Helper)
      BY <1>1, <1>4, <1>9 DEF SystemInv, Placed
    <3> QED
      BY <1>1, <1>4, <1>6, <1>7, <1>9, <2>1, <3>1 DEF Holding
  <2>3. \A j \in Instances : IsInjective(suspendedFibers[j])'
    BY <1>4, <1>6, <1>7 DEF SystemInv, Placed
  <2>4. \A h \in Fibers : h \in Range(freeFibers)' \/ \E j \in Instances : h \in Holding(j)'
    <3> SUFFICES ASSUME NEW h \in Fibers, h \notin Range(freeFibers)
                 PROVE  \E j \in Instances : h \in Holding(j)'
      BY <1>2
    <3>1. PICK j \in Instances : h \in Holding(j)
      BY DEF SystemInv, Placed
    <3>2. CASE h = f
      BY <1>1, <2>2, <3>2
    <3>3. CASE h # f
      BY <1>1, <2>2, <3>1, <3>3
    <3> QED
      BY <3>2, <3>3
  <2>5. f \notin Range(freeFibers)
    BY <1>1, <1>5 DEF SystemInv, Placed
  <2>6. \A j \in Instances : Holding(j)' \cap Range(freeFibers)' = {}
    BY <1>2, <2>2, <2>5 DEF SystemInv, Placed
  <2>7. \A j, k \in Instances : j # k => Holding(j)' \cap Holding(k)' = {}
    <3> SUFFICES ASSUME NEW j \in Instances, NEW k \in Instances, j # k,
                        NEW h \in Holding(j)', h \in Holding(k)'
                 PROVE  FALSE
      OBVIOUS
    <3>1. \A l \in Instances : l # Helper => f \notin Holding(l)
      BY <1>1, <1>5 DEF SystemInv, Placed
    <3>2. \A h2 \in Holding(j) : h2 \notin Holding(k)
      BY DEF SystemInv, Placed
    <3> QED
      BY <1>1, <2>2, <3>1, <3>2
  <2>8. \A j \in Instances : (Current(j) \cup Resumed(j))' \cap Range(suspendedFibers[j])' = {}
    <3>1. f \notin Current(w) \cup Resumed(w)
      BY <1>5 DEF Holding
    <3>2. \A j \in Instances :
             Range(suspendedFibers'[j]) \subseteq
                 Range(suspendedFibers[j]) \cup (IF j = w THEN {f} ELSE {})
      BY <1>4, <1>6, <1>7, <1>9
    <3>3. \A j \in Instances : (Current(j) \cup Resumed(j)) \cap Range(suspendedFibers[j]) = {}
      BY DEF SystemInv, Placed
    <3> SUFFICES ASSUME NEW j \in Instances, NEW h \in (Current(j) \cup Resumed(j))',
                        h \in Range(suspendedFibers[j])'
                 PROVE  FALSE
      OBVIOUS
    <3>4. h \in Current(j) \cup Resumed(j)
      BY <2>1
    <3> QED
      BY <3>1, <3>2, <3>3, <3>4
  <2> QED
    BY <1>2, <2>3, <2>4, <2>6, <2>7, <2>8, ProgramStays DEF SystemInv, Placed
<1>13. \A v \in Workers : Announced(v)'
  BY <1>1, <1>7, ProgramStays DEF Announced, IsAboutToWake
<1>14. Awaited'
  BY <1>1, <1>2, <1>7, <1>13, ProgramStays DEF SystemInv, Awaited, AwaitedBy
<1> QED
  BY <1>10, <1>11, <1>12, <1>14 DEF SystemInv

\* The new instance becomes the fiber's parent, and the workers are woken up.
LEMMA AdoptFiberStep ==
    ASSUME SystemInv, program' = program, AdoptFiber PROVE SystemInv'
<1> USE DEF taskVars, instanceVars, stepVars, threadVars
<1>1. /\ Helper \in Instances /\ Helper \notin Workers /\ pc \in [Instances -> AllSteps]
      /\ \A w \in Workers : w \in Instances /\ w # Helper
  BY HelperFacts
<1>2. PICK f \in Fibers, w \in Workers : adopting = <<f, w>>
  BY DEF SystemInv, Typed, TypeOK, Contents, AdoptFiber
<1>3. /\ pc[Helper] = "Adopt" /\ pc' = [pc EXCEPT ![Helper] = "FlushFibers"]
      /\ fiberParent' = [fiberParent EXCEPT ![f] = IF converted[w] THEN w ELSE NoInstance]
      /\ adopting' = NoFiber /\ waking' = [waking EXCEPT ![Helper] = 1]
      /\ UNCHANGED <<taskVars, freeFibers, fiberState, fiberTask, stack, instanceVars, stepVars,
                     dispatching, threadVars>>
  BY <1>2 DEF AdoptFiber, GoTo
<1>4. /\ fiberParent' \in [Fibers -> Instances \cup {NoInstance}]
      /\ waking' \in [Instances -> 0 .. NumWorkers] /\ waking'[Helper] = 1
  <2>1. 1 \in 0 .. NumWorkers
    BY InstanceFacts DEF SystemInv, Typed, TypeOK
  <2> QED
    BY <1>1, <1>3, <2>1 DEF SystemInv, Typed, TypeOK
<1>5. /\ pc'[Helper] = "FlushFibers" /\ \A j \in Instances : j # Helper => pc'[j] = pc[j]
  BY <1>1, <1>3
<1>6. Typed'
  <2>1. StepsTyped'
    BY <1>1, <1>3, StepsTypedKept DEF AllSteps, MainSteps
  <2>2. \A j \in Instances :
           pc'[j] \in {"OnFiber", "Suspended", "Update", "Add"} => running'[j] \in Fibers
    BY <1>3, <1>5 DEF SystemInv, Typed, TypeOK
  <2> QED
    BY <1>3, <1>4, <2>1, <2>2, ProgramStays DEF SystemInv, Typed, TypeOK, StepsTyped
<1>7. Contents'
  <2>1. \A j \in Instances : pc'[j] \in FiberSteps <=> running'[j] # NoFiber
    BY <1>3, <1>5 DEF SystemInv, Contents, FiberSteps
  <2> QED
    BY <1>3, <1>5, <2>1, ProgramStays DEF SystemInv, Contents
<1>8. Placed'
  BY <1>3, <1>5, PlacedKept DEF SystemInv
<1>9. \A w2 \in Workers : Announced(w2)'
  <2>1. \A w2 \in Workers : 1 <= w2
    BY WorkerNumbers, InstanceFacts DEF SystemInv, Typed, TypeOK
  <2> QED
    BY <1>1, <1>4, <2>1, ProgramStays DEF Announced, IsAboutToWake
<1>10. Awaited'
  BY <1>1, <1>3, <1>5, <1>9, ProgramStays DEF SystemInv, Awaited, AwaitedBy
<1> QED
  BY <1>6, <1>7, <1>8, <1>10 DEF SystemInv

\* The main thread gives a task of the helper instance to a worker.
LEMMA FlushTaskStep ==
    ASSUME SystemInv, program' = program, FlushTask PROVE SystemInv'
<1> USE DEF taskVars, fiberVars, stepVars, threadVars
<1> DEFINE q == pendingTasks[Helper]
           rest == SubSeq(q, 1, Len(q) - 1)
<1>1. /\ Helper \in Instances /\ Helper \notin Workers /\ pc \in [Instances -> AllSteps]
      /\ \A w \in Workers : w \in Instances /\ w # Helper
  BY HelperFacts
<1>2. /\ pc[Helper] = "FlushTasks" /\ q # <<>>
      /\ dispatching' = [dispatching EXCEPT ![Helper] = q[Len(q)]]
      /\ pendingTasks' = [pendingTasks EXCEPT ![Helper] = rest]
      /\ UNCHANGED <<taskVars, fiberVars, suspendedFibers, currentFiber, converted, pc, stepVars,
                     waking, adopting, threadVars>>
  BY DEF FlushTask, At
<1>3. q \in Seq(Tasks) /\ pendingTasks \in [Instances -> Seq(Tasks)]
  BY <1>1 DEF SystemInv, Typed, TypeOK
<1>4. q[Len(q)] \in Tasks /\ rest \in Seq(Tasks)
  BY <1>2, <1>3, LastAndRest
<1>5. /\ pendingTasks' \in [Instances -> Seq(Tasks)]
      /\ dispatching' \in [Instances -> Tasks \cup {NoTask}]
      /\ \A j \in Instances : j # Helper => pendingTasks'[j] = pendingTasks[j]
  BY <1>1, <1>2, <1>3, <1>4 DEF SystemInv, Typed, TypeOK
<1> HIDE DEF q, rest
<1>6. Typed'
  BY <1>2, <1>5, ProgramStays DEF SystemInv, Typed, TypeOK
<1>7. Contents'
  BY <1>2, ContentsKept DEF SystemInv
<1>8. Placed'
  BY <1>2, PlacedKept DEF SystemInv
<1>9. StepOf(Helper)
  BY <1>2, <1>5 DEF StepOf
<1> QED
  BY <1>1, <1>6, <1>7, <1>8, <1>9, AwaitedStep DEF SystemInv

-----------------------------------------------------------------------------
\* The worker with the number in index[Helper] has the flag, and is the next to be woken.
LEMMA RequestFinishStep ==
    ASSUME SystemInv, program' = program, RequestFinish PROVE SystemInv'
<1> USE DEF taskVars, fiberVars, instanceVars, stepVars, dispatchVars
<1>1. /\ Helper \in Instances /\ Helper \notin Workers /\ pc \in [Instances -> AllSteps]
      /\ \A w \in Workers : w \in Instances /\ w # Helper
  BY HelperFacts
<1>2. /\ pc[Helper] = "Stop" /\ pc' = [pc EXCEPT ![Helper] = "StopWakeUp"]
      /\ shouldFinishWork' = [shouldFinishWork EXCEPT ![index[Helper]] = TRUE]
      /\ UNCHANGED <<taskVars, fiberVars, instanceVars, stepVars, dispatchVars, hasWorkToDoEvent>>
  BY DEF RequestFinish, GoTo
<1>3. pc'[Helper] = "StopWakeUp" /\ \A j \in Instances : j # Helper => pc'[j] = pc[j]
  BY <1>1, <1>2
<1>4. /\ shouldFinishWork' \in [Workers -> BOOLEAN]
      /\ \A w \in Workers : w # index[Helper] => shouldFinishWork'[w] = shouldFinishWork[w]
  BY <1>2 DEF SystemInv, Typed, TypeOK
<1>5. Typed'
  <2>1. StepsTyped'
    BY <1>1, <1>2, StepsTypedKept DEF AllSteps, MainSteps
  <2>2. \A j \in Instances :
           pc'[j] \in {"OnFiber", "Suspended", "Update", "Add"} => running'[j] \in Fibers
    BY <1>2, <1>3 DEF SystemInv, Typed, TypeOK
  <2> QED
    BY <1>2, <1>4, <2>1, <2>2, ProgramStays DEF SystemInv, Typed, TypeOK, StepsTyped
<1>6. Contents'
  BY <1>2, <1>3, ContentsKept DEF SystemInv, FiberSteps
<1>7. Placed'
  BY <1>2, <1>3, PlacedKept DEF SystemInv
<1>8. ASSUME NEW w \in Workers, w = index[Helper] PROVE Announced(w)'
  BY <1>1, <1>2, <1>3, <1>8, ProgramStays DEF Announced, IsAboutToWake
<1>9. ASSUME NEW w \in Workers, Announced(w) PROVE Announced(w)'
  BY <1>2, <1>9, AnnouncedKept
<1>10. Awaited'
  BY <1>1, <1>2, <1>3, <1>4, <1>8, <1>9, ProgramStays DEF SystemInv, Awaited, AwaitedBy
<1> QED
  BY <1>5, <1>6, <1>7, <1>10 DEF SystemInv

\* The main thread wakes one worker after the other to finish.
LEMMA WakeUpToFinishStep ==
    ASSUME SystemInv, program' = program, WakeUpToFinish PROVE SystemInv'
<1> USE DEF taskVars, fiberVars, instanceVars, dispatchVars
<1>1. /\ Helper \in Instances /\ Helper \notin Workers /\ pc \in [Instances -> AllSteps]
      /\ \A w \in Workers : w \in Instances /\ w # Helper
  BY HelperFacts
<1>2. /\ pc[Helper] = "StopWakeUp" /\ pc' = [pc EXCEPT ![Helper] = "Stop"]
      /\ hasWorkToDoEvent' = [hasWorkToDoEvent EXCEPT ![index[Helper]] = TRUE]
      /\ index' = [index EXCEPT ![Helper] = @ + 1]
      /\ UNCHANGED <<taskVars, fiberVars, instanceVars, running, isThereMoreWork, readyArray,
                     dispatchVars, shouldFinishWork>>
  BY DEF WakeUpToFinish, GoTo
<1>3. /\ pc'[Helper] = "Stop" /\ \A j \in Instances : j # Helper => pc'[j] = pc[j]
      /\ \A j \in Instances : j # Helper => index'[j] = index[j]
  BY <1>1, <1>2 DEF SystemInv, Typed, TypeOK
<1>4. /\ hasWorkToDoEvent' \in [Workers -> BOOLEAN]
      /\ \A w \in Workers : hasWorkToDoEvent'[w] <=> (hasWorkToDoEvent[w] \/ w = index[Helper])
  BY <1>2 DEF SystemInv, Typed, TypeOK
<1>5. index' \in [Instances -> Nat]
  <2>1. index \in [Instances -> Nat] /\ index[Helper] + 1 \in Nat
    BY <1>1 DEF SystemInv, Typed, TypeOK
  <2> QED
    BY <1>2, <2>1
<1>6. Typed'
  <2>1. StepsTyped'
    BY <1>1, <1>2, StepsTypedKept DEF AllSteps, MainSteps
  <2>2. \A j \in Instances :
           pc'[j] \in {"OnFiber", "Suspended", "Update", "Add"} => running'[j] \in Fibers
    BY <1>2, <1>3 DEF SystemInv, Typed, TypeOK
  <2> QED
    BY <1>2, <1>4, <1>5, <2>1, <2>2, ProgramStays DEF SystemInv, Typed, TypeOK, StepsTyped
<1>7. Contents'
  BY <1>2, <1>3, ContentsKept DEF SystemInv, FiberSteps
<1>8. Placed'
  BY <1>2, <1>3, PlacedKept DEF SystemInv
<1>9. ASSUME NEW w \in Workers, Announced(w) PROVE Announced(w)'
  BY <1>2, <1>4, <1>9, ProgramStays DEF Announced, IsAboutToWake
<1>10. Awaited'
  BY <1>1, <1>2, <1>3, <1>9, ProgramStays DEF SystemInv, Awaited, AwaitedBy
<1> QED
  BY <1>6, <1>7, <1>8, <1>10 DEF SystemInv

\* The helper instance releases its current fiber.
LEMMA DeinitializeStep ==
    ASSUME SystemInv, program' = program, Deinitialize PROVE SystemInv'
<1> USE DEF taskVars, instanceVars, stepVars, dispatchVars, threadVars
<1> DEFINE f == currentFiber[Helper]
<1>1. /\ Helper \in Instances /\ Helper \notin Workers /\ pc \in [Instances -> AllSteps]
      /\ \A w \in Workers : w \in Instances /\ w # Helper
  BY HelperFacts
<1>2. /\ pc[Helper] = "Stop" /\ pc' = [pc EXCEPT ![Helper] = "Done"] /\ ReleaseFiber(f)
      /\ UNCHANGED <<taskVars, stack, instanceVars, stepVars, dispatchVars, threadVars>>
  BY DEF Deinitialize, GoTo
<1>3. running[Helper] = NoFiber /\ f \in Current(Helper)
  BY <1>1, <1>2 DEF SystemInv, Contents, FiberSteps, Current
<1>4. /\ f \in Fibers /\ f \notin Range(freeFibers)
      /\ \A j \in Instances : f \notin Range(suspendedFibers[j])
      /\ \A j \in Instances : j # Helper => f # running[j] /\ f \notin Current(j)
  BY <1>1, <1>3, FibersApart
<1>5. /\ freeFibers' \in Seq(Fibers) /\ IsInjective(freeFibers')
      /\ Range(freeFibers') = Range(freeFibers) \cup {f}
  BY <1>2, <1>4, ReleaseFiberRange
<1>6. /\ fiberTask' = [fiberTask EXCEPT ![f] = NoTask]
      /\ fiberState' = [fiberState EXCEPT ![f] = "Idle"]
      /\ fiberParent' = [fiberParent EXCEPT ![f] = NoInstance]
      /\ UNCHANGED <<stack, suspendedFibers, currentFiber, running, adopting>>
  BY <1>2 DEF ReleaseFiber
<1>7. pc'[Helper] = "Done" /\ \A j \in Instances : j # Helper => pc'[j] = pc[j]
  BY <1>1, <1>2
<1> HIDE DEF f
<1>8. Typed'
  <2>1. StepsTyped'
    BY <1>1, <1>2, StepsTypedKept DEF AllSteps, MainSteps
  <2>2. \A j \in Instances :
           pc'[j] \in {"OnFiber", "Suspended", "Update", "Add"} => running'[j] \in Fibers
    BY <1>6, <1>7 DEF SystemInv, Typed, TypeOK
  <2>3. /\ fiberTask' \in [Fibers -> Tasks \cup {NoTask}]
        /\ fiberState' \in [Fibers -> {"Idle", "Running", "Suspended"}]
        /\ fiberParent' \in [Fibers -> Instances \cup {NoInstance}]
    BY <1>6 DEF SystemInv, Typed, TypeOK
  <2> QED
    BY <1>2, <1>5, <1>6, <2>1, <2>2, <2>3, ProgramStays
       DEF SystemInv, Typed, TypeOK, StepsTyped
<1>9. Contents'
  <2>1. Contents /\ Typed
    BY DEF SystemInv
  <2>2. \A h \in Fibers : fiberState'[h] # "Idle" => stack'[h] # NoTask
    BY <1>4, <1>6, <2>1 DEF Contents, Typed, TypeOK
  <2>3. \A i \in Instances : pc'[i] \in FiberSteps <=> running'[i] # NoFiber
    BY <1>3, <1>6, <1>7, <2>1 DEF Contents, FiberSteps
  <2>4. \A i \in Instances : running'[i] # NoFiber => fiberTask'[running'[i]] # NoTask
    BY <1>3, <1>4, <1>6, <2>1 DEF Contents, Typed, TypeOK
  <2>5. \A i \in Instances : \A h \in Range(suspendedFibers'[i]) : fiberTask'[h] # NoTask
    BY <1>4, <1>6, <2>1, RangeOfSequence DEF Contents, Typed, TypeOK
  <2> QED
    BY <1>7, <2>2, <2>3, <2>4, <2>5, ProgramStays DEF Contents
<1>10. Placed'
  <2>1. Current(Helper)' = {} /\ Resumed(Helper)' = {}
        /\ Holding(Helper)' = Range(suspendedFibers[Helper])
    BY <1>3, <1>6, <1>7 DEF Current, Resumed, Holding
  <2>2. Holding(Helper) = {f} \cup Range(suspendedFibers[Helper])
    BY <1>2, <1>3 DEF Current, Resumed, Holding, f
  <2>3. Range(freeFibers) \cap Holding(Helper) = {} /\ IsInjective(suspendedFibers[Helper])
    BY <1>1 DEF SystemInv, Placed
  <2> QED
    BY <1>1, <1>4, <1>5, <1>6, <1>7, <2>1, <2>2, <2>3, PlacedStep
<1>11. StepOf(Helper)
  BY <1>2, <1>7 DEF StepOf
<1> QED
  BY <1>1, <1>8, <1>9, <1>10, <1>11, AwaitedStep DEF SystemInv

-----------------------------------------------------------------------------
(***************************************************************************)
(* The invariant of the specification.                                     *)
(***************************************************************************)

\* Every counter of the graph that has been built is a number.
LEMMA CountersOfTheGraph ==
    ASSUME NEW t
    PROVE  1 + Cardinality({e \in Tasks \X Slots : Dependants[e[1]][e[2]] = t}) \in Int
<1>1. IsFiniteSet(Slots)
  BY SizesAssumption, FS_Interval DEF Slots
<1>2. IsFiniteSet(Tasks \X Slots)
  BY <1>1, SizesAssumption, FS_Product
<1>3. IsFiniteSet({e \in Tasks \X Slots : Dependants[e[1]][e[2]] = t})
  BY <1>2, FS_Subset
<1> QED
  BY <1>3, FS_CardinalityType

\* Instance i begins with fiber i + 1, and the other fibers are free.
LEMMA FirstFibers ==
    ASSUME Init
    PROVE  /\ freeFibers \in Seq(Fibers) /\ IsInjective(freeFibers)
           /\ Range(freeFibers) = NumWorkers + 2 .. NumFibers
           /\ Instances = 0 .. NumWorkers
           /\ NumWorkers \in Nat /\ NumFibers \in Nat /\ NumWorkers + 1 <= NumFibers
<1>1. NumWorkers \in Nat \ {0} /\ NumWorkers + 1 <= NumFibers /\ NumFibers \in Nat
  BY InstanceFacts, SizesAssumption DEF Init
<1>2. Instances = 0 .. NumWorkers
  BY <1>1 DEF Instances, Workers, Helper
<1>3. freeFibers = [k \in 1 .. NumFibers - NumWorkers - 1 |-> NumWorkers + 1 + k]
  BY DEF Init
<1>4. freeFibers \in Seq(Fibers)
  <2>1. NumFibers - NumWorkers - 1 \in Nat
    BY <1>1
  <2>2. \A k \in 1 .. NumFibers - NumWorkers - 1 : NumWorkers + 1 + k \in Fibers
    BY <1>1 DEF Fibers
  <2> QED
    BY <1>3, <2>1, <2>2, IsASeq
<1>5. DOMAIN freeFibers = 1 .. NumFibers - NumWorkers - 1
  BY <1>3
<1>6. IsInjective(freeFibers)
  BY <1>1, <1>3, <1>5 DEF IsInjective
<1>7. Range(freeFibers) = NumWorkers + 2 .. NumFibers
  <2>1. ASSUME NEW k \in 1 .. NumFibers - NumWorkers - 1
        PROVE  freeFibers[k] \in NumWorkers + 2 .. NumFibers
    BY <1>1, <1>3
  <2>2. ASSUME NEW f \in NumWorkers + 2 .. NumFibers
        PROVE  /\ f - NumWorkers - 1 \in 1 .. NumFibers - NumWorkers - 1
               /\ freeFibers[f - NumWorkers - 1] = f
    BY <1>1, <1>3
  <2> QED
    BY <1>5, <2>1, <2>2 DEF Range
<1> QED
  BY <1>1, <1>2, <1>4, <1>6, <1>7

\* A system that has just been initialised satisfies the invariant.
LEMMA SystemInvInitial == Init => SystemInv
<1> SUFFICES ASSUME Init PROVE SystemInv
  OBVIOUS
<1>1. /\ freeFibers \in Seq(Fibers) /\ IsInjective(freeFibers)
      /\ Range(freeFibers) = NumWorkers + 2 .. NumFibers
      /\ Instances = 0 .. NumWorkers
      /\ NumWorkers \in Nat /\ NumFibers \in Nat /\ NumWorkers + 1 <= NumFibers
  BY FirstFibers
<1>2. /\ program \in Programs
      /\ Helper \in Instances /\ Helper \notin Workers
      /\ \A w \in Workers : w \in Instances /\ w # Helper
  BY InstanceFacts DEF Init
<1>3. Typed
  <2>1. numberOfChildTasks \in [Tasks -> Int]
    <3>1. 0 \in Int
      OBVIOUS
    <3> QED
      BY <3>1, CountersOfTheGraph DEF Init
  <2>2. /\ progress \in [Submitters -> Nat]
        /\ \A c \in Submitters : progress[c] \in 0 .. Len(Submits[c])
    <3>1. \A c \in Submitters : Submits[c] \in Seq(Tasks)
      BY <1>2, ProgramsAssumption DEF Submits
    <3>2. \A c \in Submitters : progress[c] = 0 /\ Len(Submits[c]) \in Nat
      BY <3>1, LenProperties DEF Init
    <3>3. \A c \in Submitters : progress[c] \in 0 .. Len(Submits[c])
      BY <3>2
    <3> QED
      BY <3>3 DEF Init
  <2>3. /\ pendingTasks \in [Instances -> Seq(Tasks)]
        /\ suspendedFibers \in [Instances -> Seq(Fibers)]
    BY EmptySeq DEF Init
  <2>4. currentFiber \in [Instances -> Fibers]
    BY <1>1 DEF Init, Fibers
  <2>5. /\ index \in [Instances -> Nat]
        /\ waking \in [Instances -> 0 .. NumWorkers]
    BY <1>1 DEF Init
  <2>6. /\ readyArray \in [Instances -> [Slots -> Tasks \cup {NoTask}]]
        /\ dispatching \in [Instances -> Tasks \cup {NoTask}]
        /\ isThereMoreWork \in [Instances -> BOOLEAN]
        /\ running \in [Instances -> Fibers \cup {NoFiber}]
        /\ converted \in [Instances -> BOOLEAN]
        /\ hasWorkToDoEvent \in [Workers -> BOOLEAN]
        /\ shouldFinishWork \in [Workers -> BOOLEAN]
    BY DEF Init, NothingReady
  <2>7. /\ fence \in BOOLEAN
        /\ fiberState \in [Fibers -> {"Idle", "Running", "Suspended"}]
        /\ fiberTask \in [Fibers -> Tasks \cup {NoTask}]
        /\ fiberParent \in [Fibers -> Instances \cup {NoInstance}]
        /\ stack \in [Fibers -> Tasks \cup {NoTask}]
        /\ adopting \in {NoFiber} \cup (Fibers \X Workers)
    BY DEF Init
  <2>8. /\ pc \in [Instances -> AllSteps]
        /\ \A w \in Workers : pc[w] = "Start"
        /\ pc[Helper] = "Main"
        /\ \A i \in Instances : pc[i] \notin {"OnFiber", "Suspended", "Update", "Add"}
    BY <1>2 DEF Init, AllSteps, WorkerSteps, MainSteps
  <2> QED
    BY <1>1, <1>2, <2>1, <2>2, <2>3, <2>4, <2>5, <2>6, <2>7, <2>8
       DEF Typed, TypeOK, WorkerSteps, MainSteps
<1>4. \A i \in Instances :
         /\ pc[i] \in {"Main", "Start"} /\ running[i] = NoFiber /\ currentFiber[i] = i + 1
         /\ pendingTasks[i] = <<>> /\ suspendedFibers[i] = <<>> /\ Range(suspendedFibers[i]) = {}
         /\ IsInjective(suspendedFibers[i])
  BY EmptyRange DEF Init
<1>5. Contents
  BY <1>2, <1>4 DEF Init, Contents, FiberSteps
<1>6. \A i \in Instances : Current(i) = {i + 1} /\ Resumed(i) = {} /\ Holding(i) = {i + 1}
  BY <1>4 DEF Current, Resumed, Holding
<1>7. Placed
  <2>1. \A f \in Fibers : f \in Range(freeFibers) \/ \E i \in Instances : f \in Holding(i)
    <3> SUFFICES ASSUME NEW f \in Fibers, f \notin Range(freeFibers)
                 PROVE  \E i \in Instances : f \in Holding(i)
      OBVIOUS
    <3>1. f - 1 \in Instances /\ f - 1 + 1 = f
      BY <1>1 DEF Fibers
    <3> QED
      BY <1>6, <3>1
  <2>2. \A i \in Instances : Holding(i) \cap Range(freeFibers) = {}
    BY <1>1, <1>6
  <2>3. \A i, j \in Instances : i # j => Holding(i) \cap Holding(j) = {}
    BY <1>1, <1>6
  <2> QED
    BY <1>1, <1>4, <2>1, <2>2, <2>3 DEF Placed
<1>8. Awaited
  BY <1>2, <1>4 DEF Init, Awaited, AwaitedBy, FiberSteps
<1> QED
  BY <1>3, <1>5, <1>7, <1>8 DEF SystemInv

\* Every part of an execution step keeps the invariant, on any thread.
LEMMA ExecutionStepStep ==
    ASSUME SystemInv, program' = program, NEW i \in Instances, ExecutionStep(i)
    PROVE  SystemInv'
BY ResumeFiberStep, EndResumeStep, TakeOwnTaskStep, StartStealingStep, StealTaskStep,
   NothingToStealStep, ReplaceCurrentFiberStep, KeepCurrentFiberStep, RequeueFiberStep,
   RunTaskStep, SubmitFromTaskStep, SuspendTaskStep, FinishTaskStep, UpdateDependeciesStep,
   EndUpdateStep, AddReadyTaskStep, ClearFiberStep, DispatchTaskStep, WakeUpStep
   DEF ExecutionStep

\* So does a step that changes nothing.
LEMMA SystemInvStutter ==
    ASSUME SystemInv, UNCHANGED vars PROVE SystemInv'
<1> USE DEF vars, taskVars, fiberVars, instanceVars, stepVars, dispatchVars, threadVars
<1>1. Typed'
  BY ProgramStays DEF SystemInv, Typed, TypeOK
<1>2. Contents' /\ Placed'
  BY ContentsKept, PlacedKept DEF SystemInv
<1>3. Awaited'
  BY ProgramStays DEF SystemInv, Awaited, AwaitedBy, Announced, IsAboutToWake
<1> QED
  BY <1>1, <1>2, <1>3 DEF SystemInv

\* Every step keeps the invariant.
LEMMA SystemInvNext == SystemInv /\ [Next]_vars => SystemInv'
<1> SUFFICES ASSUME SystemInv, [Next]_vars PROVE SystemInv'
  OBVIOUS
<1>1. CASE MainThread
  <2>1. program' = program /\ Helper \in Instances
    BY <1>1, HelperIsAnInstance DEF MainThread
  <2> QED
    BY <1>1, <2>1, SubmitFromMainStep, ConvertMainThreadStep, CheckConditionStep, FlushFiberStep,
       AdoptFiberStep, EndFlushFibersStep, FlushTaskStep, ReturnFromWaitUntilStep, RaiseFenceStep,
       RequestFinishStep, WakeUpToFinishStep, DeinitializeStep, ExecutionStepStep
       DEF MainThread
<1>2. ASSUME NEW w \in 1 .. MaxWorkers, WorkerThread(w) PROVE SystemInv'
  <2>1. program' = program /\ w \in Workers /\ w \in Instances
    BY <1>2, HelperFacts DEF WorkerThread
  <2> QED
    BY <1>2, <2>1, StartThreadStep, WaitForEventStep, ResetEventStep, CheckFinishStep, LoopStep,
       RetireStep, ExecutionStepStep
       DEF WorkerThread
<1>3. CASE UNCHANGED vars
  BY <1>3, SystemInvStutter
<1> QED
  BY <1>1, <1>2, <1>3 DEF Next

\* The three invariants hold in every state of the running system.
THEOREM SystemInvCorrect == Spec => []SystemInv
<1>1. Init => SystemInv
  BY SystemInvInitial
<1>2. SystemInv /\ [Next]_vars => SystemInv'
  BY SystemInvNext
<1> QED
  BY <1>1, <1>2, PTL DEF Spec

\* Type correctness, for every program: a thread that has switched to a fiber is on one,
\* which has a task, and what it reads of the task is there.
THEOREM TypeCorrect == Spec => []TypeOK
<1>1. SystemInv => TypeOK
  BY DEF SystemInv, Typed
<1> QED
  BY <1>1, SystemInvCorrect, PTL

\* No wake-up is lost: a worker thread does not sleep while its instance has work, or while
\* it is to finish, unless its event is set or is about to be.
THEOREM SleepersHaveNoWorkCorrect == Spec => []SleepersHaveNoWork
<1>1. SystemInv => SleepersHaveNoWork
  BY DEF SystemInv, Awaited, AwaitedBy, Announced, SleepersHaveNoWork
<1> QED
  BY <1>1, SystemInvCorrect, PTL

-----------------------------------------------------------------------------
(***************************************************************************)
(* Places.                                                                 *)
(***************************************************************************)

\* The four kinds of places.
FreePlaces(f) == {<<"free", k>> : k \in {k \in DOMAIN freeFibers : freeFibers[k] = f}}
CurrentPlaces(f) ==
    {<<"current", i>> : i \in {i \in Instances : currentFiber[i] = f /\ pc[i] # "Done"}}
ResumedPlaces(f) ==
    {<<"resumed", i>> : i \in {i \in Instances : running[i] = f /\ currentFiber[i] # f}}
SuspendedPlaces(f) ==
    UNION {{<<"suspended", i, k>> :
               k \in {k \in DOMAIN suspendedFibers[i] : suspendedFibers[i][k] = f}} :
              i \in Instances}

\* A fiber is at no place of a kind that holds it not, and at one of those that do.
LEMMA FreePlace ==
    ASSUME NEW f
    PROVE  /\ f \notin Range(freeFibers) => FreePlaces(f) = {}
           /\ f \in Range(freeFibers) /\ IsInjective(freeFibers) =>
                 \E p : FreePlaces(f) = {p}
<1>1. f \notin Range(freeFibers) => FreePlaces(f) = {}
  BY DEF Range, FreePlaces
<1>2. ASSUME f \in Range(freeFibers), IsInjective(freeFibers)
      PROVE  \E p : FreePlaces(f) = {p}
  <2>1. PICK k \in DOMAIN freeFibers : freeFibers[k] = f
    BY <1>2 DEF Range
  <2>2. {j \in DOMAIN freeFibers : freeFibers[j] = f} = {k}
    BY <1>2, <2>1 DEF IsInjective
  <2>3. FreePlaces(f) = {<<"free", k>>}
    BY <2>2 DEF FreePlaces
  <2> QED
    BY <2>3
<1> QED
  BY <1>1, <1>2

\* A fiber that is current in one instance only has one place of that sort.
LEMMA CurrentPlace ==
    ASSUME NEW f
    PROVE  /\ (\A i \in Instances : f \notin Current(i)) => CurrentPlaces(f) = {}
           /\ \A i \in Instances :
                 f \in Current(i) /\ (\A j \in Instances : j # i => f \notin Current(j))
                     => \E p : CurrentPlaces(f) = {p}
<1> DEFINE S == {i \in Instances : currentFiber[i] = f /\ pc[i] # "Done"}
<1>1. S = {i \in Instances : f \in Current(i)}
  BY DEF Current
<1>2. CurrentPlaces(f) = {<<"current", i>> : i \in S}
  BY DEF CurrentPlaces
<1> HIDE DEF S
<1>3. ASSUME NEW i \in Instances, f \in Current(i),
             \A j \in Instances : j # i => f \notin Current(j)
      PROVE  \E p : CurrentPlaces(f) = {p}
  <2>1. S = {i}
    BY <1>1, <1>3
  <2>2. CurrentPlaces(f) = {<<"current", i>>}
    BY <1>2, <2>1
  <2> QED
    BY <2>2
<1> QED
  BY <1>1, <1>2, <1>3

\* A fiber that one thread only has resumed has one place of that sort.
LEMMA ResumedPlace ==
    ASSUME NEW f, f # NoFiber
    PROVE  /\ (\A i \in Instances : f \notin Resumed(i)) => ResumedPlaces(f) = {}
           /\ \A i \in Instances :
                 f \in Resumed(i) /\ (\A j \in Instances : j # i => f \notin Resumed(j))
                     => \E p : ResumedPlaces(f) = {p}
<1> DEFINE S == {i \in Instances : running[i] = f /\ currentFiber[i] # f}
<1>1. S = {i \in Instances : f \in Resumed(i)}
  BY DEF Resumed
<1>2. ResumedPlaces(f) = {<<"resumed", i>> : i \in S}
  BY DEF ResumedPlaces
<1> HIDE DEF S
<1>3. ASSUME NEW i \in Instances, f \in Resumed(i),
             \A j \in Instances : j # i => f \notin Resumed(j)
      PROVE  \E p : ResumedPlaces(f) = {p}
  <2>1. S = {i}
    BY <1>1, <1>3
  <2>2. ResumedPlaces(f) = {<<"resumed", i>>}
    BY <1>2, <2>1
  <2> QED
    BY <2>2
<1> QED
  BY <1>1, <1>2, <1>3

\* A fiber that is suspended once in one instance only has one place of that sort.
LEMMA SuspendedPlace ==
    ASSUME NEW f
    PROVE  /\ (\A i \in Instances : f \notin Range(suspendedFibers[i])) => SuspendedPlaces(f) = {}
           /\ \A i \in Instances :
                 f \in Range(suspendedFibers[i]) /\ IsInjective(suspendedFibers[i])
                 /\ (\A j \in Instances : j # i => f \notin Range(suspendedFibers[j]))
                     => \E p : SuspendedPlaces(f) = {p}
<1> DEFINE Of(i) == {<<"suspended", i, k>> :
                        k \in {k \in DOMAIN suspendedFibers[i] : suspendedFibers[i][k] = f}}
<1>1. SuspendedPlaces(f) = UNION {Of(i) : i \in Instances}
  BY DEF SuspendedPlaces
<1>2. \A i \in Instances : f \notin Range(suspendedFibers[i]) => Of(i) = {}
  BY DEF Range
<1>3. ASSUME NEW i \in Instances, f \in Range(suspendedFibers[i]), IsInjective(suspendedFibers[i])
      PROVE  \E p : Of(i) = {p}
  <2>1. PICK k \in DOMAIN suspendedFibers[i] : suspendedFibers[i][k] = f
    BY <1>3 DEF Range
  <2>2. {j \in DOMAIN suspendedFibers[i] : suspendedFibers[i][j] = f} = {k}
    BY <1>3, <2>1 DEF IsInjective
  <2>3. Of(i) = {<<"suspended", i, k>>}
    BY <2>2
  <2> QED
    BY <2>3
<1> HIDE DEF Of
<1>4. (\A i \in Instances : f \notin Range(suspendedFibers[i])) => SuspendedPlaces(f) = {}
  BY <1>1, <1>2
<1>5. ASSUME NEW i \in Instances, f \in Range(suspendedFibers[i]), IsInjective(suspendedFibers[i]),
             \A j \in Instances : j # i => f \notin Range(suspendedFibers[j])
      PROVE  \E p : SuspendedPlaces(f) = {p}
  <2>1. \A j \in Instances : j # i => Of(j) = {}
    BY <1>2, <1>5
  <2>2. SuspendedPlaces(f) = Of(i)
    BY <1>1, <2>1
  <2> QED
    BY <1>3, <1>5, <2>2
<1> QED
  BY <1>4, <1>5

\* With the invariant, the four sorts of places have one element together.
LEMMA OnePlaceEach ==
    ASSUME SystemInv, NEW f \in Fibers PROVE Cardinality(Places(f)) = 1
<1>1. Places(f) = FreePlaces(f) \cup CurrentPlaces(f) \cup ResumedPlaces(f) \cup SuspendedPlaces(f)
  BY DEF Places, FreePlaces, CurrentPlaces, ResumedPlaces, SuspendedPlaces
<1>2. f # NoFiber /\ IsInjective(freeFibers)
  BY NamesAssumption DEF SystemInv, Placed
<1>3. \A i \in Instances : f \in Current(i) => f \notin Resumed(i)
  BY DEF Current, Resumed
<1>4. \E p : Places(f) = {p}
  <2>1. CASE f \in Range(freeFibers)
    <3>1. \A i \in Instances : f \notin Holding(i)
      BY <2>1 DEF SystemInv, Placed
    <3>2. \A i \in Instances :
             f \notin Current(i) /\ f \notin Resumed(i) /\ f \notin Range(suspendedFibers[i])
      BY <3>1 DEF Holding
    <3>3. CurrentPlaces(f) = {} /\ ResumedPlaces(f) = {} /\ SuspendedPlaces(f) = {}
      BY <1>2, <3>2, CurrentPlace, ResumedPlace, SuspendedPlace
    <3> QED
      BY <1>1, <1>2, <2>1, <3>3, FreePlace
  <2>2. ASSUME NEW i \in Instances, f \in Holding(i) PROVE \E p : Places(f) = {p}
    <3>1. \A j \in Instances : j # i => f \notin Holding(j)
      BY <2>2 DEF SystemInv, Placed
    <3>2. \A j \in Instances : j # i =>
             f \notin Current(j) /\ f \notin Resumed(j) /\ f \notin Range(suspendedFibers[j])
      BY <3>1 DEF Holding
    <3>3. FreePlaces(f) = {}
      BY <2>2, FreePlace DEF SystemInv, Placed
    <3>4. /\ (Current(i) \cup Resumed(i)) \cap Range(suspendedFibers[i]) = {}
          /\ IsInjective(suspendedFibers[i])
      BY DEF SystemInv, Placed
    <3>5. CASE f \in Current(i)
      <4>1. ResumedPlaces(f) = {} /\ SuspendedPlaces(f) = {}
        BY <1>2, <1>3, <3>2, <3>4, <3>5, ResumedPlace, SuspendedPlace
      <4>2. \E p : CurrentPlaces(f) = {p}
        BY <3>2, <3>5, CurrentPlace
      <4> QED
        BY <1>1, <3>3, <4>1, <4>2
    <3>6. CASE f \in Resumed(i)
      <4>1. CurrentPlaces(f) = {} /\ SuspendedPlaces(f) = {}
        BY <1>3, <3>2, <3>4, <3>6, CurrentPlace, SuspendedPlace
      <4>2. \E p : ResumedPlaces(f) = {p}
        BY <1>2, <3>2, <3>6, ResumedPlace
      <4> QED
        BY <1>1, <3>3, <4>1, <4>2
    <3>7. CASE f \in Range(suspendedFibers[i])
      <4>1. CurrentPlaces(f) = {} /\ ResumedPlaces(f) = {}
        BY <1>2, <3>2, <3>4, <3>7, CurrentPlace, ResumedPlace
      <4>2. \E p : SuspendedPlaces(f) = {p}
        BY <3>2, <3>4, <3>7, SuspendedPlace
      <4> QED
        BY <1>1, <3>3, <4>1, <4>2
    <3> QED
      BY <2>2, <3>5, <3>6, <3>7 DEF Holding
  <2> QED
    BY <2>1, <2>2 DEF SystemInv, Placed
<1> QED
  BY <1>4, FS_Singleton

\* Every task fiber is at exactly one place, for every program and any number of workers and
\* fibers: in the free list, the current fiber of an instance, suspended, or resumed.
THEOREM FibersHaveOnePlaceCorrect == Spec => []FibersHaveOnePlace
<1>1. SystemInv => FibersHaveOnePlace
  BY OnePlaceEach DEF FibersHaveOnePlace
<1> QED
  BY <1>1, SystemInvCorrect, PTL

-----------------------------------------------------------------------------
(***************************************************************************)
(* The fiber that a task is given to.                                      *)
(***************************************************************************)

\* ASSERT( false ) of OnSuspendedCurrrentTaskFiber does not fail: when the current fiber is
\* suspended, another one is free.
PoolSuffices ==
    \A i \in Instances :
        pc[i] = "Suspended" /\ running[i] = currentFiber[i] => freeFibers # <<>>

\* A fiber is idle that is free, or current while the thread is not on it, or whose task
\* has finished.
Idleness ==
    /\ \A f \in Range(freeFibers) : fiberState[f] = "Idle"
    /\ \A i \in Instances :
          pc[i] # "Done" /\ running[i] # currentFiber[i] => fiberState[currentFiber[i]] = "Idle"
    /\ \A i \in Instances : pc[i] \in {"Update", "Add"} => fiberState[running[i]] = "Idle"

\* No step on anything else disturbs that.
LEMMA IdlenessKept ==
    ASSUME Idleness, program' = program,
           UNCHANGED <<freeFibers, fiberState, currentFiber, running>>,
           \A i \in Instances : pc'[i] = "Done" <=> pc[i] = "Done",
           \A i \in Instances : pc'[i] \in {"Update", "Add"} => pc[i] \in {"Update", "Add"}
    PROVE  Idleness'
BY ProgramStays DEF Idleness

\* A step of thread i that leaves all fibers but the ones it may be on as they are.
LEMMA IdlenessStep ==
    ASSUME SystemInv, Idleness, program' = program, NEW i \in Instances,
           NEW f \in Current(i) \cup Resumed(i),
           \A h \in Fibers : h # f => fiberState'[h] = fiberState[h],
           \A j \in Instances : j # i =>
               pc'[j] = pc[j] /\ running'[j] = running[j] /\ currentFiber'[j] = currentFiber[j],
           \A h \in Range(freeFibers') : 
               h \in Range(freeFibers) \/ (h = f /\ fiberState'[f] = "Idle"),
           pc'[i] # "Done" /\ running'[i] # currentFiber'[i]
               => fiberState'[currentFiber'[i]] = "Idle",
           pc'[i] \in {"Update", "Add"} => fiberState'[running'[i]] = "Idle"
    PROVE  Idleness'
<1>1. /\ f \in Fibers /\ f \notin Range(freeFibers)
      /\ \A j \in Instances : j # i => f # running[j] /\ f \notin Current(j)
  BY FibersApart
<1>2. Range(freeFibers) \subseteq Fibers
  BY RangeOfSequence DEF SystemInv, Typed, TypeOK
<1>3. \A h \in Range(freeFibers') : fiberState'[h] = "Idle"
  BY <1>1, <1>2 DEF Idleness
<1>4. ASSUME NEW j \in Instances, j # i, pc'[j] # "Done", running'[j] # currentFiber'[j]
      PROVE  fiberState'[currentFiber'[j]] = "Idle"
  <2>1. currentFiber[j] \in Fibers /\ currentFiber[j] # f
    BY <1>1, <1>4 DEF SystemInv, Typed, TypeOK, Current
  <2> QED
    BY <1>4, <2>1 DEF Idleness
<1>5. ASSUME NEW j \in Instances, j # i, pc'[j] \in {"Update", "Add"}
      PROVE  fiberState'[running'[j]] = "Idle"
  <2>1. running[j] \in Fibers /\ running[j] # f
    BY <1>1, <1>5 DEF SystemInv, Typed, TypeOK
  <2> QED
    BY <1>5, <2>1 DEF Idleness
<1> QED
  BY <1>3, <1>4, <1>5, ProgramStays DEF Idleness

\* The current fiber of an instance whose thread has not ended.
LEMMA CurrentIsCurrent ==
    ASSUME NEW i, pc[i] # "Done" PROVE currentFiber[i] \in Current(i) \cup Resumed(i)
BY DEF Current

\* A released fiber is idle, and nothing else changes in the pool.
LEMMA ReleaseKeepsIdleness ==
    ASSUME SystemInv, NEW f \in Fibers, f \notin Range(freeFibers), ReleaseFiber(f)
    PROVE  /\ fiberState'[f] = "Idle"
           /\ \A h \in Fibers : h # f => fiberState'[h] = fiberState[h]
           /\ \A h \in Range(freeFibers') : h \in Range(freeFibers) \/ h = f
BY ReleaseFiberRange DEF ReleaseFiber, SystemInv, Typed, TypeOK

\* The worker's fiber is released.
LEMMA RetireIdle ==
    ASSUME SystemInv, Idleness, program' = program, NEW w \in Workers, Retire(w)
    PROVE  Idleness'
<1>1. /\ w \in Instances /\ pc[w] = "Retire" /\ pc' = [pc EXCEPT ![w] = "Done"]
      /\ pc \in [Instances -> AllSteps] /\ ReleaseFiber(currentFiber[w])
      /\ running' = running /\ currentFiber' = currentFiber
  BY HelperFacts DEF Retire, GoTo, stepVars
<1> DEFINE f == currentFiber[w]
<1>2. f \in Current(w) \cup Resumed(w) /\ f \in Fibers /\ f \notin Range(freeFibers)
  BY <1>1, CurrentIsCurrent, FibersApart
<1>3. /\ fiberState'[f] = "Idle"
      /\ \A h \in Fibers : h # f => fiberState'[h] = fiberState[h]
      /\ \A h \in Range(freeFibers') : h \in Range(freeFibers) \/ h = f
  BY <1>1, <1>2, ReleaseKeepsIdleness
<1> HIDE DEF f
<1>4. pc'[w] = "Done" /\ \A j \in Instances : j # w =>
          pc'[j] = pc[j] /\ running'[j] = running[j] /\ currentFiber'[j] = currentFiber[j]
  BY <1>1
<1> QED
  BY <1>1, <1>2, <1>3, <1>4, IdlenessStep

\* The helper gives its current fiber back.
LEMMA DeinitializeIdle ==
    ASSUME SystemInv, Idleness, program' = program, Deinitialize PROVE Idleness'
<1>1. /\ Helper \in Instances /\ pc[Helper] = "Stop" /\ pc' = [pc EXCEPT ![Helper] = "Done"]
      /\ pc \in [Instances -> AllSteps] /\ ReleaseFiber(currentFiber[Helper])
      /\ running' = running /\ currentFiber' = currentFiber
  BY HelperFacts DEF Deinitialize, GoTo, stepVars, instanceVars
<1> DEFINE f == currentFiber[Helper]
<1>2. f \in Current(Helper) \cup Resumed(Helper) /\ f \in Fibers /\ f \notin Range(freeFibers)
  BY <1>1, CurrentIsCurrent, FibersApart
<1>3. /\ fiberState'[f] = "Idle"
      /\ \A h \in Fibers : h # f => fiberState'[h] = fiberState[h]
      /\ \A h \in Range(freeFibers') : h \in Range(freeFibers) \/ h = f
  BY <1>1, <1>2, ReleaseKeepsIdleness
<1> HIDE DEF f
<1>4. pc'[Helper] = "Done" /\ \A j \in Instances : j # Helper =>
          pc'[j] = pc[j] /\ running'[j] = running[j] /\ currentFiber'[j] = currentFiber[j]
  BY <1>1
<1> QED
  BY <1>1, <1>2, <1>3, <1>4, IdlenessStep

\* While the thread is on a resumed fiber, the current one is not in use.
LEMMA ResumeFiberIdle ==
    ASSUME SystemInv, Idleness, program' = program, NEW i \in Instances, ResumeFiber(i)
    PROVE  Idleness'
<1>1. /\ pc[i] = "Resume" /\ pc' = [pc EXCEPT ![i] = "OnFiber"] /\ pc \in [Instances -> AllSteps]
      /\ running' = [running EXCEPT ![i] = Head(suspendedFibers[i])] /\ running[i] = NoFiber
      /\ running \in [Instances -> Fibers \cup {NoFiber}] /\ currentFiber[i] \in Fibers
      /\ UNCHANGED <<freeFibers, fiberState, currentFiber>>
  BY DEF ResumeFiber, GoTo, fiberVars, SystemInv, Typed, TypeOK, Contents, FiberSteps
<1>2. fiberState[currentFiber[i]] = "Idle"
  BY <1>1, NamesAssumption DEF Idleness
<1> QED
  BY <1>1, <1>2, ProgramStays DEF Idleness

\* The current fiber gets a task before it is switched to.
LEMMA ExecuteIdle ==
    ASSUME SystemInv, Idleness, program' = program, NEW i \in Instances, NEW t, Execute(i, t)
    PROVE  Idleness'
<1>1. /\ pc' = [pc EXCEPT ![i] = "OnFiber"] /\ pc \in [Instances -> AllSteps]
      /\ running' = [running EXCEPT ![i] = currentFiber[i]]
      /\ running \in [Instances -> Fibers \cup {NoFiber}]
      /\ UNCHANGED <<freeFibers, fiberState, currentFiber>>
  BY DEF Execute, GoTo, SystemInv, Typed, TypeOK
<1> QED
  BY <1>1, ProgramStays DEF Idleness

\* The new current fiber was free.
LEMMA ReplaceCurrentFiberIdle ==
    ASSUME SystemInv, Idleness, program' = program, NEW i \in Instances, ReplaceCurrentFiber(i)
    PROVE  Idleness'
<1>1. PICK step \in {"Check", "Loop"} : pc' = [pc EXCEPT ![i] = step]
  BY AfterStepIs DEF ReplaceCurrentFiber, GoTo
<1>2. /\ freeFibers # <<>> /\ freeFibers' = Tail(freeFibers) /\ fiberState' = fiberState
      /\ currentFiber' = [currentFiber EXCEPT ![i] = Head(freeFibers)]
      /\ running' = [running EXCEPT ![i] = NoFiber]
      /\ pc[i] = "Suspended"
  BY DEF ReplaceCurrentFiber
<1>3. /\ pc \in [Instances -> AllSteps] /\ currentFiber \in [Instances -> Fibers]
      /\ running \in [Instances -> Fibers \cup {NoFiber}]
      /\ freeFibers \in Seq(Fibers) /\ IsInjective(freeFibers)
  BY DEF SystemInv, Typed, TypeOK, Placed
<1>4. /\ Head(freeFibers) \in Range(freeFibers)
      /\ Range(freeFibers') = Range(freeFibers) \ {Head(freeFibers)}
  BY <1>2, <1>3, TailRange
<1>5. /\ \A f \in Range(freeFibers') : fiberState'[f] = "Idle"
      /\ fiberState'[currentFiber'[i]] = "Idle"
  BY <1>2, <1>3, <1>4 DEF Idleness
<1>6. /\ pc'[i] = step /\ \A j \in Instances : j # i =>
             pc'[j] = pc[j] /\ running'[j] = running[j] /\ currentFiber'[j] = currentFiber[j]
  BY <1>1, <1>2, <1>3
<1> QED
  BY <1>2, <1>5, <1>6, ProgramStays DEF Idleness

\* A fiber that is not the current one goes to the suspended ones.
LEMMA RequeueFiberIdle ==
    ASSUME SystemInv, Idleness, program' = program, NEW i \in Instances, RequeueFiber(i)
    PROVE  Idleness'
<1>1. /\ pc[i] = "Suspended" /\ pc' = [pc EXCEPT ![i] = "Resume"] /\ pc \in [Instances -> AllSteps]
      /\ running' = [running EXCEPT ![i] = NoFiber] /\ running[i] # currentFiber[i]
      /\ running \in [Instances -> Fibers \cup {NoFiber}]
      /\ UNCHANGED <<freeFibers, fiberState, currentFiber>>
  BY DEF RequeueFiber, GoTo, fiberVars, SystemInv, Typed, TypeOK
<1> QED
  BY <1>1, ProgramStays DEF Idleness

\* The state of a fiber changes while a thread is on it.
LEMMA OnFiberIdle ==
    ASSUME SystemInv, Idleness, program' = program, NEW i \in Instances, pc[i] = "OnFiber",
           NEW state, fiberState' = [fiberState EXCEPT ![running[i]] = state],
           NEW step \in {"OnFiber", "Suspended", "Update", "Astray"},
           pc' = [pc EXCEPT ![i] = step],
           step = "Update" => state = "Idle",
           UNCHANGED <<freeFibers, currentFiber, running>>
    PROVE  Idleness'
<1> DEFINE f == running[i]
<1>1. f \in Fibers /\ f \in Current(i) \cup Resumed(i)
  BY OnOneFiber DEF FiberSteps
<1>2. /\ fiberState'[f] = state
      /\ \A h \in Fibers : h # f => fiberState'[h] = fiberState[h]
      /\ pc'[i] = step /\ running'[i] = f /\ currentFiber'[i] = currentFiber[i]
      /\ currentFiber[i] \in Fibers
  BY <1>1 DEF SystemInv, Typed, TypeOK
<1>3. \A j \in Instances : j # i =>
         pc'[j] = pc[j] /\ running'[j] = running[j] /\ currentFiber'[j] = currentFiber[j]
  BY DEF SystemInv, Typed, TypeOK
<1>4. f # currentFiber[i] => fiberState[currentFiber[i]] = "Idle"
  BY DEF Idleness
<1> HIDE DEF f
<1> QED
  BY <1>1, <1>2, <1>3, <1>4, IdlenessStep

\* The fiber has finished: it stays current, or is free.
LEMMA ClearFiberIdle ==
    ASSUME SystemInv, Idleness, program' = program, NEW i \in Instances, ClearFiber(i)
    PROVE  Idleness'
<1> DEFINE f == running[i]
<1>1. PICK step \in {"Check", "Loop", "Take"} : pc' = [pc EXCEPT ![i] = step]
  BY AfterStepIs DEF ClearFiber, GoTo
<1>2. /\ pc[i] = "Add" /\ running' = [running EXCEPT ![i] = NoFiber] /\ currentFiber' = currentFiber
  BY DEF ClearFiber, instanceVars
<1>3. /\ f \in Current(i) \cup Resumed(i) /\ f \in Fibers /\ f \notin Range(freeFibers)
  BY <1>2, OnOneFiber, FibersApart DEF FiberSteps
<1>4. /\ fiberState'[f] = "Idle"
      /\ \A h \in Fibers : h # f => fiberState'[h] = fiberState[h]
      /\ \A h \in Range(freeFibers') : h \in Range(freeFibers) \/ h = f
  <2>1. CASE ReleaseFiber(f)
    BY <1>3, <2>1, ReleaseKeepsIdleness
  <2>2. CASE UNCHANGED <<freeFibers, fiberState, fiberParent>>
    BY <1>2, <2>2 DEF Idleness
  <2> QED
    BY <2>1, <2>2 DEF ClearFiber
<1>5. /\ pc'[i] = step /\ running'[i] = NoFiber /\ currentFiber'[i] = currentFiber[i]
      /\ \A j \in Instances : j # i =>
            pc'[j] = pc[j] /\ running'[j] = running[j] /\ currentFiber'[j] = currentFiber[j]
  BY <1>1, <1>2 DEF SystemInv, Typed, TypeOK
<1>6. fiberState'[currentFiber[i]] = "Idle"
  <2>1. currentFiber[i] \in Fibers
    BY DEF SystemInv, Typed, TypeOK
  <2>2. f # currentFiber[i] => fiberState[currentFiber[i]] = "Idle"
    BY <1>2 DEF Idleness
  <2> QED
    BY <1>4, <2>1, <2>2
<1> HIDE DEF f
<1> QED
  BY <1>3, <1>4, <1>5, <1>6, IdlenessStep

\* The other parts of the execution step.
LEMMA ExecutionStepIdle ==
    ASSUME SystemInv, Idleness, PoolSuffices, program' = program, NEW i \in Instances,
           ExecutionStep(i)
    PROVE  Idleness'
<1> USE DEF taskVars, fiberVars, instanceVars, stepVars, dispatchVars, threadVars
<1>0. pc \in [Instances -> AllSteps] /\ isThereMoreWork[i] \in BOOLEAN
  BY DEF SystemInv, Typed, TypeOK
<1>1. CASE EndResume(i) \/ StartStealing(i) \/ EndUpdate(i)
  BY <1>0, <1>1, IdlenessKept DEF EndResume, StartStealing, EndUpdate, GoTo
<1>2. CASE UpdateDependecies(i) \/ AddReadyTask(i) \/ DispatchTask(i) \/ WakeUp(i)
  BY <1>2, IdlenessKept DEF UpdateDependecies, AddReadyTask, DispatchTask, WakeUp
<1>3. CASE NothingToSteal(i)
  <2>1. AfterStep(i, isThereMoreWork[i]) \in {"Check", "Loop", "Wait"}
    BY <1>0, AfterStepIs
  <2> QED
    BY <1>0, <1>3, <2>1, IdlenessKept DEF NothingToSteal, GoTo
<1>4. CASE TakeOwnTask(i) \/ StealTask(i)
  BY <1>4, ExecuteIdle DEF TakeOwnTask, StealTask
<1>5. CASE KeepCurrentFiber(i)
  BY <1>5 DEF KeepCurrentFiber, PoolSuffices
<1>6. CASE RunTask(i)
  <2>1. pc' = [pc EXCEPT ![i] = "OnFiber"]
    BY <1>0, <1>6 DEF RunTask, At
  <2> QED
    BY <1>6, <2>1, OnFiberIdle DEF RunTask, At
<1>7. CASE SubmitFromTask(i)
  BY <1>7, IdlenessKept DEF SubmitFromTask, SubmitNext
<1>8. CASE SuspendTask(i)
  BY <1>8, OnFiberIdle DEF SuspendTask, SwitchToParent, GoTo, InFunction, At
<1>9. CASE FinishTask(i)
  BY <1>9, OnFiberIdle DEF FinishTask, SwitchToParent, GoTo, InFunction, At
<1> QED
  BY <1>1, <1>2, <1>3, <1>4, <1>5, <1>6, <1>7, <1>8, <1>9, ResumeFiberIdle,
     ReplaceCurrentFiberIdle, RequeueFiberIdle, ClearFiberIdle
     DEF ExecutionStep

\* Every step of a worker keeps the current and the free fibers idle.
LEMMA WorkerThreadIdle ==
    ASSUME SystemInv, Idleness, PoolSuffices, NEW w \in 1 .. MaxWorkers, WorkerThread(w)
    PROVE  Idleness'
<1> USE DEF taskVars, fiberVars, instanceVars, stepVars, dispatchVars, threadVars
<1>0. program' = program /\ w \in Workers /\ w \in Instances /\ pc \in [Instances -> AllSteps]
  BY HelperFacts DEF WorkerThread
<1>1. CASE StartThread(w) \/ WaitForEvent(w) \/ ResetEvent(w) \/ CheckFinish(w)
  BY <1>0, <1>1, IdlenessKept DEF StartThread, Convert, WaitForEvent, ResetEvent, CheckFinish, GoTo
<1>2. CASE Loop(w)
  BY <1>0, <1>2, IdlenessKept DEF Loop, BeginStep, GoTo
<1> QED
  BY <1>0, <1>1, <1>2, RetireIdle, ExecutionStepIdle DEF WorkerThread

\* Every step of the main thread keeps them idle.
LEMMA MainThreadIdle ==
    ASSUME SystemInv, Idleness, PoolSuffices, MainThread PROVE Idleness'
<1> USE DEF taskVars, fiberVars, instanceVars, stepVars, dispatchVars, threadVars
<1>0. program' = program /\ Helper \in Instances /\ pc \in [Instances -> AllSteps]
  BY HelperFacts DEF MainThread
<1>1. CASE SubmitFromMain \/ FlushTask
  BY <1>0, <1>1, IdlenessKept DEF SubmitFromMain, SubmitNext, FlushTask
<1>2. CASE ConvertMainThread \/ CheckCondition \/ EndFlushFibers \/ RaiseFence
  BY <1>0, <1>2, IdlenessKept
     DEF ConvertMainThread, Convert, CheckCondition, BeginStep, EndFlushFibers, RaiseFence, GoTo, At
<1>3. CASE FlushFiber \/ AdoptFiber
  BY <1>0, <1>3, IdlenessKept DEF FlushFiber, AdoptFiber, GoTo, At
<1>4. CASE ReturnFromWaitUntil
  <2>1. AfterWaitUntil \in {"Fence", "Stop", "Returned"}
    BY DEF AfterWaitUntil
  <2> QED
    BY <1>0, <1>4, <2>1, IdlenessKept DEF ReturnFromWaitUntil, GoTo, At
<1>5. CASE RequestFinish \/ WakeUpToFinish
  BY <1>0, <1>5, IdlenessKept DEF RequestFinish, WakeUpToFinish, GoTo
<1> QED
  BY <1>0, <1>1, <1>2, <1>3, <1>4, <1>5, DeinitializeIdle, ExecutionStepIdle DEF MainThread

\* Every fiber is idle in the beginning.
LEMMA IdlenessInitial == Init => Idleness
<1> SUFFICES ASSUME Init PROVE Idleness
  OBVIOUS
<1>1. Range(freeFibers) \subseteq Fibers
  BY FirstFibers, RangeOfSequence
<1>2. \A i \in Instances : currentFiber[i] \in Fibers
  BY SystemInvInitial DEF SystemInv, Typed, TypeOK
<1>3. fiberState = [f \in Fibers |-> "Idle"]
      /\ \A i \in Instances : pc[i] \in {"Main", "Start"}
  BY DEF Init
<1> QED
  BY <1>1, <1>2, <1>3 DEF Idleness

\* Every step keeps the fibers idle that are not in use.
LEMMA IdlenessNext == SystemInv /\ Idleness /\ PoolSuffices /\ [Next]_vars => Idleness'
<1> SUFFICES ASSUME SystemInv, Idleness, PoolSuffices, [Next]_vars PROVE Idleness'
  OBVIOUS
<1>1. CASE UNCHANGED vars
  BY <1>1, IdlenessKept
     DEF vars, taskVars, fiberVars, instanceVars, stepVars, dispatchVars, threadVars
<1> QED
  BY <1>1, MainThreadIdle, WorkerThreadIdle DEF Next

\* A task is given only to a fiber that has no function on its stack, as long as the pool of
\* task fibers is not used up.
THEOREM CurrentFiberIsIdleCorrect == Spec /\ []PoolSuffices => CurrentFiberIsIdle
<1>1. SystemInv /\ Idleness =>
          \A i \in Instances : pc[i] \in {"Take", "Steal"} => fiberState[currentFiber[i]] = "Idle"
  <2> SUFFICES ASSUME SystemInv, Idleness, NEW i \in Instances, pc[i] \in {"Take", "Steal"}
               PROVE  fiberState[currentFiber[i]] = "Idle"
    OBVIOUS
  <2>1. currentFiber[i] \in Fibers /\ NoFiber \notin Fibers
    BY NamesAssumption DEF SystemInv, Typed, TypeOK
  <2>2. running[i] = NoFiber
    BY DEF SystemInv, Typed, TypeOK, Contents, FiberSteps
  <2> QED
    BY <2>1, <2>2 DEF Idleness
<1>2. SystemInv /\ Idleness =>
          [\A i \in Instances :
              (pc[i] \in {"Take", "Steal"} /\ pc'[i] = "OnFiber")
                  => fiberState[currentFiber[i]] = "Idle"]_vars
  BY <1>1
<1> QED
  BY <1>2, IdlenessInitial, IdlenessNext, SystemInvCorrect, PTL DEF Spec, CurrentFiberIsIdle

-----------------------------------------------------------------------------
(***************************************************************************)
(* The tasks of the fibers.                                                *)
(*                                                                         *)
(* A fiber that is free or current has no task, and a fiber with a task is *)
(* held by one thread or one queue (Linked).                               *)
(***************************************************************************)

\* The task of a fiber is the one whose function is on its stack; a fiber without a function
\* that is not going to begin one has no task.
Linked ==
    /\ \A f \in Fibers : stack[f] # NoTask => stack[f] = fiberTask[f] /\ fiberState[f] # "Idle"
    /\ \A f \in Range(freeFibers) : fiberTask[f] = NoTask
    /\ \A i \in Instances :
          /\ pc[i] # "Done" /\ running[i] # currentFiber[i] => fiberTask[currentFiber[i]] = NoTask
          /\ pc[i] = "Suspended" \/ (pc[i] = "OnFiber" /\ running[i] # currentFiber[i])
                => fiberState[running[i]] # "Idle"
          /\ \A f \in Range(suspendedFibers[i]) : fiberState[f] # "Idle"

\* No step on anything else disturbs that.
LEMMA LinkedKept ==
    ASSUME Linked, program' = program,
           UNCHANGED <<freeFibers, fiberState, fiberTask, stack, currentFiber, running,
                       suspendedFibers>>,
           \A i \in Instances : pc'[i] = "Done" <=> pc[i] = "Done",
           \A i \in Instances : pc'[i] \in {"OnFiber", "Suspended"} => pc'[i] = pc[i]
    PROVE  Linked'
BY ProgramStays DEF Linked

\* A step of thread i that leaves all fibers but one that it may be on as they are.
LEMMA LinkedStep ==
    ASSUME SystemInv, Linked, program' = program, NEW i \in Instances,
           NEW f \in Current(i) \cup Resumed(i),
           \A h \in Fibers : h # f =>
               fiberState'[h] = fiberState[h] /\ fiberTask'[h] = fiberTask[h] /\ stack'[h] = stack[h],
           \A j \in Instances : j # i =>
               /\ pc'[j] = pc[j] /\ running'[j] = running[j] /\ currentFiber'[j] = currentFiber[j]
               /\ suspendedFibers'[j] = suspendedFibers[j],
           \A h \in Range(freeFibers') :
               h \in Range(freeFibers) \/ (h = f /\ fiberTask'[f] = NoTask),
           stack'[f] # NoTask => stack'[f] = fiberTask'[f] /\ fiberState'[f] # "Idle",
           pc'[i] # "Done" /\ running'[i] # currentFiber'[i]
               => fiberTask'[currentFiber'[i]] = NoTask,
           pc'[i] = "Suspended" \/ (pc'[i] = "OnFiber" /\ running'[i] # currentFiber'[i])
               => fiberState'[running'[i]] # "Idle",
           \A h \in Range(suspendedFibers'[i]) :
               h \in Range(suspendedFibers[i]) \/ fiberState'[h] # "Idle"
    PROVE  Linked'
<1>1. /\ f \in Fibers /\ f \notin Range(freeFibers)
      /\ \A j \in Instances : f \notin Range(suspendedFibers[j])
      /\ \A j \in Instances : j # i => f # running[j] /\ f \notin Current(j)
  BY FibersApart
<1>2. /\ Range(freeFibers) \subseteq Fibers
      /\ \A j \in Instances : Range(suspendedFibers[j]) \subseteq Fibers
  BY RangeOfSequence DEF SystemInv, Typed, TypeOK
<1>3. \A h \in Range(freeFibers') : fiberTask'[h] = NoTask
  BY <1>1, <1>2 DEF Linked
<1>4. ASSUME NEW j \in Instances, j # i, pc'[j] # "Done", running'[j] # currentFiber'[j]
      PROVE  fiberTask'[currentFiber'[j]] = NoTask
  <2>1. currentFiber[j] \in Fibers /\ currentFiber[j] # f
    BY <1>1, <1>4 DEF SystemInv, Typed, TypeOK, Current
  <2> QED
    BY <1>4, <2>1 DEF Linked
<1>5. ASSUME NEW j \in Instances, j # i,
             pc'[j] = "Suspended" \/ (pc'[j] = "OnFiber" /\ running'[j] # currentFiber'[j])
      PROVE  fiberState'[running'[j]] # "Idle"
  <2>1. running[j] \in Fibers /\ running[j] # f
    BY <1>1, <1>5 DEF SystemInv, Typed, TypeOK
  <2> QED
    BY <1>5, <2>1 DEF Linked
<1>6. \A j \in Instances : \A h \in Range(suspendedFibers'[j]) : fiberState'[h] # "Idle"
  BY <1>1, <1>2 DEF Linked
<1>7. \A h \in Fibers : stack'[h] # NoTask => stack'[h] = fiberTask'[h] /\ fiberState'[h] # "Idle"
  BY <1>1 DEF Linked
<1> QED
  BY <1>3, <1>4, <1>5, <1>6, <1>7, ProgramStays DEF Linked

\* A fiber that is released has no task.
LEMMA ReleaseKeepsLinked ==
    ASSUME SystemInv, NEW f \in Fibers, f \notin Range(freeFibers), ReleaseFiber(f)
    PROVE  /\ fiberTask'[f] = NoTask
           /\ \A h \in Fibers : h # f =>
                 fiberState'[h] = fiberState[h] /\ fiberTask'[h] = fiberTask[h]
           /\ \A h \in Range(freeFibers') : h \in Range(freeFibers) \/ h = f
BY ReleaseFiberRange DEF ReleaseFiber, SystemInv, Typed, TypeOK

\* An instance without a thread on a fiber has a current fiber with nothing on its stack.
LEMMA CurrentIsClean ==
    ASSUME SystemInv, Idleness, Linked, NEW i \in Instances, pc[i] # "Done", pc[i] \notin FiberSteps
    PROVE  /\ running[i] = NoFiber
           /\ currentFiber[i] \in Fibers /\ currentFiber[i] \in Current(i) \cup Resumed(i)
           /\ fiberTask[currentFiber[i]] = NoTask /\ stack[currentFiber[i]] = NoTask
           /\ fiberState[currentFiber[i]] = "Idle"
<1>1. running[i] = NoFiber /\ currentFiber[i] \in Fibers /\ NoFiber \notin Fibers
  BY NamesAssumption DEF SystemInv, Typed, TypeOK, Contents
<1>2. fiberTask[currentFiber[i]] = NoTask /\ fiberState[currentFiber[i]] = "Idle"
  BY <1>1 DEF Linked, Idleness
<1> QED
  BY <1>1, <1>2, CurrentIsCurrent DEF Linked

\* The worker's fiber is released.
LEMMA RetireLinked ==
    ASSUME SystemInv, Idleness, Linked, program' = program, NEW w \in Workers, Retire(w)
    PROVE  Linked' /\ fiberTask' = fiberTask
<1>1. /\ w \in Instances /\ pc[w] = "Retire" /\ pc' = [pc EXCEPT ![w] = "Done"]
      /\ pc \in [Instances -> AllSteps] /\ ReleaseFiber(currentFiber[w])
      /\ running' = running /\ currentFiber' = currentFiber /\ stack' = stack
      /\ suspendedFibers' = suspendedFibers
  BY HelperFacts DEF Retire, GoTo, stepVars
<1> DEFINE f == currentFiber[w]
<1>2. /\ f \in Current(w) \cup Resumed(w) /\ f \in Fibers /\ f \notin Range(freeFibers)
      /\ stack[f] = NoTask /\ fiberTask[f] = NoTask
  BY <1>1, CurrentIsClean, FibersApart DEF FiberSteps
<1>3. /\ fiberTask'[f] = NoTask
      /\ \A h \in Fibers : h # f =>
            fiberState'[h] = fiberState[h] /\ fiberTask'[h] = fiberTask[h] /\ stack'[h] = stack[h]
      /\ \A h \in Range(freeFibers') : h \in Range(freeFibers) \/ h = f
  BY <1>1, <1>2, ReleaseKeepsLinked
<1>4. fiberTask' = fiberTask
  BY <1>1, <1>2 DEF ReleaseFiber, SystemInv, Typed, TypeOK
<1> HIDE DEF f
<1>5. /\ pc'[w] = "Done"
      /\ \A j \in Instances : j # w =>
            /\ pc'[j] = pc[j] /\ running'[j] = running[j] /\ currentFiber'[j] = currentFiber[j]
            /\ suspendedFibers'[j] = suspendedFibers[j]
  BY <1>1
<1> QED
  BY <1>1, <1>2, <1>3, <1>4, <1>5, LinkedStep

\* The helper gives its current fiber back.
LEMMA DeinitializeLinked ==
    ASSUME SystemInv, Idleness, Linked, program' = program, Deinitialize
    PROVE  Linked' /\ fiberTask' = fiberTask
<1>1. /\ Helper \in Instances /\ pc[Helper] = "Stop" /\ pc' = [pc EXCEPT ![Helper] = "Done"]
      /\ pc \in [Instances -> AllSteps] /\ ReleaseFiber(currentFiber[Helper])
      /\ running' = running /\ currentFiber' = currentFiber /\ stack' = stack
      /\ suspendedFibers' = suspendedFibers
  BY HelperFacts DEF Deinitialize, GoTo, stepVars, instanceVars
<1> DEFINE f == currentFiber[Helper]
<1>2. /\ f \in Current(Helper) \cup Resumed(Helper) /\ f \in Fibers /\ f \notin Range(freeFibers)
      /\ stack[f] = NoTask /\ fiberTask[f] = NoTask
  BY <1>1, CurrentIsClean, FibersApart DEF FiberSteps
<1>3. /\ fiberTask'[f] = NoTask
      /\ \A h \in Fibers : h # f =>
            fiberState'[h] = fiberState[h] /\ fiberTask'[h] = fiberTask[h] /\ stack'[h] = stack[h]
      /\ \A h \in Range(freeFibers') : h \in Range(freeFibers) \/ h = f
  BY <1>1, <1>2, ReleaseKeepsLinked
<1>4. fiberTask' = fiberTask
  BY <1>1, <1>2 DEF ReleaseFiber, SystemInv, Typed, TypeOK
<1> HIDE DEF f
<1>5. /\ pc'[Helper] = "Done"
      /\ \A j \in Instances : j # Helper =>
            /\ pc'[j] = pc[j] /\ running'[j] = running[j] /\ currentFiber'[j] = currentFiber[j]
            /\ suspendedFibers'[j] = suspendedFibers[j]
  BY <1>1
<1> QED
  BY <1>1, <1>2, <1>3, <1>4, <1>5, LinkedStep

\* A suspended fiber has a function.
LEMMA ResumeFiberLinked ==
    ASSUME SystemInv, Idleness, Linked, program' = program, NEW i \in Instances, ResumeFiber(i)
    PROVE  Linked'
<1> DEFINE queue == suspendedFibers[i]
<1>1. /\ pc[i] = "Resume" /\ pc' = [pc EXCEPT ![i] = "OnFiber"] /\ pc \in [Instances -> AllSteps]
      /\ queue # <<>> /\ queue \in Seq(Fibers) /\ IsInjective(queue)
      /\ running' = [running EXCEPT ![i] = Head(queue)]
      /\ suspendedFibers' = [suspendedFibers EXCEPT ![i] = Tail(queue)]
      /\ UNCHANGED <<freeFibers, fiberState, fiberTask, stack, currentFiber>>
  BY DEF ResumeFiber, GoTo, fiberVars, SystemInv, Typed, TypeOK, Placed
<1>2. /\ Head(queue) \in Range(queue) /\ Range(Tail(queue)) = Range(queue) \ {Head(queue)}
  BY <1>1, TailRange
<1>3. fiberState[Head(queue)] # "Idle"
  BY <1>2 DEF Linked
<1>4. /\ pc'[i] = "OnFiber" /\ running'[i] = Head(queue) /\ suspendedFibers'[i] = Tail(queue)
      /\ \A j \in Instances : j # i =>
            /\ pc'[j] = pc[j] /\ running'[j] = running[j] /\ currentFiber'[j] = currentFiber[j]
            /\ suspendedFibers'[j] = suspendedFibers[j]
  BY <1>1 DEF SystemInv, Typed, TypeOK
<1>5. /\ currentFiber[i] \in Current(i) \cup Resumed(i)
      /\ fiberTask[currentFiber[i]] = NoTask /\ stack[currentFiber[i]] = NoTask
  BY <1>1, CurrentIsClean DEF FiberSteps
<1> HIDE DEF queue
<1>6. PICK f \in Current(i) \cup Resumed(i) : f = currentFiber[i]
  BY <1>5
<1> QED
  BY <1>1, <1>2, <1>3, <1>4, <1>5, <1>6, LinkedStep DEF queue

\* The current fiber gets a task and is the one the thread is on.
LEMMA ExecuteLinked ==
    ASSUME SystemInv, Idleness, Linked, program' = program, NEW i \in Instances,
           pc[i] \in {"Take", "Steal"}, NEW t \in Tasks, Execute(i, t)
    PROVE  Linked'
<1>1. PICK f \in Current(i) \cup Resumed(i) : f = currentFiber[i]
  BY CurrentIsCurrent
<1>2. stack[f] = NoTask /\ f \in Fibers /\ fiberTask[f] = NoTask
  BY <1>1, CurrentIsClean DEF FiberSteps
<1>3. /\ fiberTask' = [fiberTask EXCEPT ![f] = t]
      /\ UNCHANGED <<freeFibers, fiberState, stack, currentFiber, suspendedFibers>>
      /\ pc' = [pc EXCEPT ![i] = "OnFiber"] /\ pc \in [Instances -> AllSteps]
      /\ running' = [running EXCEPT ![i] = f] /\ running \in [Instances -> Fibers \cup {NoFiber}]
  BY <1>1 DEF Execute, GoTo, SystemInv, Typed, TypeOK
<1>4. /\ pc'[i] = "OnFiber" /\ running'[i] = f /\ currentFiber'[i] = f
      /\ \A j \in Instances : j # i =>
            /\ pc'[j] = pc[j] /\ running'[j] = running[j] /\ currentFiber'[j] = currentFiber[j]
            /\ suspendedFibers'[j] = suspendedFibers[j]
  BY <1>1, <1>3
<1>5. \A h \in Fibers : h # f =>
         fiberState'[h] = fiberState[h] /\ fiberTask'[h] = fiberTask[h] /\ stack'[h] = stack[h]
  BY <1>3 DEF SystemInv, Typed, TypeOK
<1> QED
  BY <1>2, <1>3, <1>4, <1>5, LinkedStep

\* The current fiber is suspended with its function, and the new one was free.
LEMMA ReplaceCurrentFiberLinked ==
    ASSUME SystemInv, Linked, program' = program, NEW i \in Instances, ReplaceCurrentFiber(i)
    PROVE  Linked'
<1>1. PICK step \in {"Check", "Loop"} : pc' = [pc EXCEPT ![i] = step]
  BY AfterStepIs DEF ReplaceCurrentFiber, GoTo
<1>2. /\ pc[i] = "Suspended" /\ running[i] = currentFiber[i]
      /\ freeFibers # <<>> /\ freeFibers' = Tail(freeFibers)
      /\ currentFiber' = [currentFiber EXCEPT ![i] = Head(freeFibers)]
      /\ running' = [running EXCEPT ![i] = NoFiber]
      /\ suspendedFibers' = [suspendedFibers EXCEPT ![i] = Append(@, currentFiber[i])]
      /\ UNCHANGED <<fiberState, fiberTask, stack>>
  BY DEF ReplaceCurrentFiber
<1>3. /\ pc \in [Instances -> AllSteps] /\ currentFiber \in [Instances -> Fibers]
      /\ running \in [Instances -> Fibers \cup {NoFiber}]
      /\ suspendedFibers \in [Instances -> Seq(Fibers)]
      /\ freeFibers \in Seq(Fibers) /\ IsInjective(freeFibers)
  BY DEF SystemInv, Typed, TypeOK, Placed
<1>4. /\ Head(freeFibers) \in Range(freeFibers)
      /\ Range(freeFibers') = Range(freeFibers) \ {Head(freeFibers)}
  BY <1>2, <1>3, TailRange
<1>5. PICK f \in Current(i) \cup Resumed(i) : f = running[i] /\ f \in Fibers
  BY <1>2, OnOneFiber DEF FiberSteps
<1>6. /\ pc'[i] = step /\ currentFiber'[i] = Head(freeFibers)
      /\ suspendedFibers'[i] = Append(suspendedFibers[i], f)
      /\ \A j \in Instances : j # i =>
            /\ pc'[j] = pc[j] /\ running'[j] = running[j] /\ currentFiber'[j] = currentFiber[j]
            /\ suspendedFibers'[j] = suspendedFibers[j]
  BY <1>1, <1>2, <1>3, <1>5
<1>7. Range(suspendedFibers'[i]) = Range(suspendedFibers[i]) \cup {f}
  BY <1>3, <1>5, <1>6, AppendRange
<1>8. fiberState[f] # "Idle" /\ fiberTask[Head(freeFibers)] = NoTask
  BY <1>2, <1>4, <1>5 DEF Linked
<1>9. stack[f] # NoTask => stack[f] = fiberTask[f]
  BY <1>5 DEF Linked
<1> QED
  BY <1>2, <1>4, <1>6, <1>7, <1>8, <1>9, LinkedStep

\* The same for a fiber that is not the current one.
LEMMA RequeueFiberLinked ==
    ASSUME SystemInv, Linked, program' = program, NEW i \in Instances, RequeueFiber(i)
    PROVE  Linked'
<1>2. /\ pc[i] = "Suspended" /\ running[i] # currentFiber[i]
      /\ pc' = [pc EXCEPT ![i] = "Resume"]
      /\ running' = [running EXCEPT ![i] = NoFiber]
      /\ suspendedFibers' = [suspendedFibers EXCEPT ![i] = Append(@, running[i])]
      /\ UNCHANGED <<freeFibers, currentFiber, fiberState, fiberTask, stack>>
  BY DEF RequeueFiber, GoTo, fiberVars
<1>3. /\ pc \in [Instances -> AllSteps] /\ currentFiber \in [Instances -> Fibers]
      /\ running \in [Instances -> Fibers \cup {NoFiber}]
      /\ suspendedFibers \in [Instances -> Seq(Fibers)]
  BY DEF SystemInv, Typed, TypeOK
<1>5. PICK f \in Current(i) \cup Resumed(i) : f = running[i] /\ f \in Fibers
  BY <1>2, OnOneFiber DEF FiberSteps
<1>6. /\ pc'[i] = "Resume" /\ currentFiber'[i] = currentFiber[i]
      /\ suspendedFibers'[i] = Append(suspendedFibers[i], f)
      /\ \A j \in Instances : j # i =>
            /\ pc'[j] = pc[j] /\ running'[j] = running[j] /\ currentFiber'[j] = currentFiber[j]
            /\ suspendedFibers'[j] = suspendedFibers[j]
  BY <1>2, <1>3, <1>5
<1>7. Range(suspendedFibers'[i]) = Range(suspendedFibers[i]) \cup {f}
  BY <1>3, <1>5, <1>6, AppendRange
<1>8. fiberState[f] # "Idle" /\ fiberTask[currentFiber[i]] = NoTask
  BY <1>2, <1>5 DEF Linked
<1>9. stack[f] # NoTask => stack[f] = fiberTask[f]
  BY <1>5 DEF Linked
<1> QED
  BY <1>2, <1>6, <1>7, <1>8, <1>9, LinkedStep

\* A fiber begins or leaves its function while a thread is on it.
LEMMA OnFiberLinked ==
    ASSUME SystemInv, Linked, program' = program, NEW i \in Instances, pc[i] = "OnFiber",
           \A h \in Fibers : h # running[i] =>
               fiberState'[h] = fiberState[h] /\ stack'[h] = stack[h],
           stack'[running[i]] # NoTask =>
               stack'[running[i]] = fiberTask[running[i]] /\ fiberState'[running[i]] # "Idle",
           \A j \in Instances : j # i => pc'[j] = pc[j],
           pc'[i] # "Done",
           pc'[i] \in {"OnFiber", "Suspended"} => fiberState'[running[i]] # "Idle",
           UNCHANGED <<freeFibers, fiberTask, currentFiber, running, suspendedFibers>>
    PROVE  Linked'
<1>1. PICK f \in Current(i) \cup Resumed(i) : f = running[i] /\ f \in Fibers
  BY OnOneFiber DEF FiberSteps
<1>2. f # currentFiber[i] => fiberTask[currentFiber[i]] = NoTask
  BY <1>1 DEF Linked
<1> QED
  BY <1>1, <1>2, LinkedStep

\* The fiber has no task any more: it stays current, or is free.
LEMMA ClearFiberLinked ==
    ASSUME SystemInv, Idleness, Linked, program' = program, NEW i \in Instances, ClearFiber(i)
    PROVE  Linked'
<1>1. PICK step \in {"Check", "Loop", "Take"} : pc' = [pc EXCEPT ![i] = step]
  BY AfterStepIs DEF ClearFiber, GoTo
<1>2. /\ pc[i] = "Add" /\ running' = [running EXCEPT ![i] = NoFiber]
      /\ UNCHANGED <<currentFiber, suspendedFibers, stack>>
  BY DEF ClearFiber, instanceVars
<1>3. PICK f \in Current(i) \cup Resumed(i) : f = running[i] /\ f \in Fibers /\ f \notin Range(freeFibers)
  BY <1>2, OnOneFiber, FibersApart DEF FiberSteps
<1>4. /\ fiberTask'[f] = NoTask
      /\ \A h \in Fibers : h # f => fiberState'[h] = fiberState[h] /\ fiberTask'[h] = fiberTask[h]
      /\ \A h \in Range(freeFibers') : h \in Range(freeFibers) \/ h = f
  <2>1. CASE ReleaseFiber(f)
    BY <1>3, <2>1, ReleaseKeepsLinked
  <2>2. CASE UNCHANGED <<freeFibers, fiberState>> /\ fiberTask' = [fiberTask EXCEPT ![f] = NoTask]
    BY <1>3, <2>2 DEF SystemInv, Typed, TypeOK
  <2> QED
    BY <1>3, <2>1, <2>2 DEF ClearFiber
<1>5. /\ pc'[i] = step /\ running'[i] = NoFiber /\ currentFiber'[i] = currentFiber[i]
      /\ suspendedFibers'[i] = suspendedFibers[i]
      /\ \A j \in Instances : j # i =>
            /\ pc'[j] = pc[j] /\ running'[j] = running[j] /\ currentFiber'[j] = currentFiber[j]
            /\ suspendedFibers'[j] = suspendedFibers[j]
  BY <1>1, <1>2 DEF SystemInv, Typed, TypeOK
<1>6. fiberTask'[currentFiber[i]] = NoTask
  <2>1. currentFiber[i] \in Fibers
    BY DEF SystemInv, Typed, TypeOK
  <2>2. f # currentFiber[i] => fiberTask[currentFiber[i]] = NoTask
    BY <1>2, <1>3 DEF Linked
  <2> QED
    BY <1>4, <2>1, <2>2
<1>7. stack[f] = NoTask
  BY <1>2, <1>3 DEF Idleness, Linked
<1> QED
  BY <1>2, <1>4, <1>5, <1>6, <1>7, LinkedStep

\* A suspended fiber goes from one queue to another.
LEMMA FlushFiberLinked ==
    ASSUME SystemInv, Linked, program' = program, FlushFiber PROVE Linked'
<1> DEFINE q == suspendedFibers[Helper]
           f == q[Len(q)]
           rest == SubSeq(q, 1, Len(q) - 1)
<1>1. /\ Helper \in Instances /\ \A v \in Workers : v \in Instances /\ v # Helper
      /\ pc \in [Instances -> AllSteps]
  BY HelperFacts
<1>2. PICK w \in Workers :
         suspendedFibers' = [suspendedFibers EXCEPT ![Helper] = rest, ![w] = Append(@, f)]
  BY DEF FlushFiber
<1>3. /\ q # <<>> /\ pc' = [pc EXCEPT ![Helper] = "Adopt"]
      /\ UNCHANGED <<freeFibers, fiberState, fiberTask, stack, currentFiber, running>>
      /\ pc[Helper] = "FlushFibers"
  BY DEF FlushFiber, At, GoTo, fiberVars, stepVars
<1>4. /\ suspendedFibers \in [Instances -> Seq(Fibers)] /\ q \in Seq(Fibers) /\ IsInjective(q)
      /\ suspendedFibers[w] \in Seq(Fibers)
  BY <1>1 DEF SystemInv, Typed, TypeOK, Placed
<1>5. f \in Fibers /\ f \in Range(q) /\ Range(rest) = Range(q) \ {f}
  BY <1>3, <1>4, FrontRange
<1>6. Range(Append(suspendedFibers[w], f)) = Range(suspendedFibers[w]) \cup {f}
  BY <1>4, <1>5, AppendRange
<1>7. \A j \in Instances : \A h \in Range(suspendedFibers'[j]) : fiberState[h] # "Idle"
  <2>1. /\ suspendedFibers'[Helper] = rest
        /\ suspendedFibers'[w] = Append(suspendedFibers[w], f)
        /\ \A j \in Instances : j # Helper /\ j # w => suspendedFibers'[j] = suspendedFibers[j]
    BY <1>1, <1>2, <1>4
  <2>2. \A j \in Instances : \A h \in Range(suspendedFibers[j]) : fiberState[h] # "Idle"
    BY DEF Linked
  <2>3. \A h \in Range(rest) : h \in Range(q)
    BY <1>5
  <2>4. \A h \in Range(Append(suspendedFibers[w], f)) : fiberState[h] # "Idle"
    BY <1>1, <1>5, <1>6, <2>2
  <2>5. \A h \in Range(rest) : fiberState[h] # "Idle"
    BY <1>1, <2>2, <2>3
  <2> QED
    BY <1>1, <2>1, <2>2, <2>4, <2>5
<1>8. pc'[Helper] = "Adopt" /\ \A j \in Instances : j # Helper => pc'[j] = pc[j]
  BY <1>1, <1>3
<1> HIDE DEF q, f, rest
<1> QED
  BY <1>3, <1>7, <1>8, ProgramStays DEF Linked

\* A thread executes a task that is in a queue.
LEMMA TakenTasks ==
    ASSUME SystemInv, NEW i \in Instances, TakeOwnTask(i) \/ StealTask(i)
    PROVE  pc[i] \in {"Take", "Steal"} /\ \E t \in Tasks : Execute(i, t)
<1>1. CASE TakeOwnTask(i)
  <2>1. pendingTasks[i] \in Seq(Tasks) /\ pendingTasks[i] # <<>>
    BY <1>1 DEF TakeOwnTask, SystemInv, Typed, TypeOK
  <2> QED
    BY <1>1, <2>1, LastAndRest DEF TakeOwnTask
<1>2. CASE StealTask(i)
  <2>1. pendingTasks[Victim(i)] \in Seq(Tasks) /\ pendingTasks[Victim(i)] # <<>>
    BY <1>2, VictimIsAnInstance DEF StealTask, SystemInv, Typed, TypeOK
  <2> QED
    BY <1>2, <2>1, HeadTailProperties DEF StealTask
<1> QED
  BY <1>1, <1>2

\* The other parts of the execution step.
LEMMA ExecutionStepLinked ==
    ASSUME SystemInv, Idleness, Linked, PoolSuffices, program' = program, NEW i \in Instances,
           ExecutionStep(i)
    PROVE  Linked'
<1> USE DEF taskVars, fiberVars, instanceVars, stepVars, dispatchVars, threadVars
<1>0. pc \in [Instances -> AllSteps] /\ isThereMoreWork[i] \in BOOLEAN
      /\ stack \in [Fibers -> Tasks \cup {NoTask}]
      /\ fiberState \in [Fibers -> {"Idle", "Running", "Suspended"}]
  BY DEF SystemInv, Typed, TypeOK
<1>1. CASE EndResume(i) \/ StartStealing(i) \/ EndUpdate(i)
  BY <1>0, <1>1, LinkedKept DEF EndResume, StartStealing, EndUpdate, GoTo
<1>2. CASE UpdateDependecies(i) \/ AddReadyTask(i) \/ DispatchTask(i) \/ WakeUp(i)
  BY <1>2, LinkedKept DEF UpdateDependecies, AddReadyTask, DispatchTask, WakeUp
<1>3. CASE NothingToSteal(i)
  <2>1. AfterStep(i, isThereMoreWork[i]) \in {"Check", "Loop", "Wait"}
    BY <1>0, AfterStepIs
  <2> QED
    BY <1>0, <1>3, <2>1, LinkedKept DEF NothingToSteal, GoTo
<1>4. CASE TakeOwnTask(i) \/ StealTask(i)
  BY <1>4, TakenTasks, ExecuteLinked
<1>5. CASE KeepCurrentFiber(i)
  BY <1>5 DEF KeepCurrentFiber, PoolSuffices
<1>6. CASE RunTask(i)
  <2>1. pc[i] = "OnFiber" /\ running[i] \in Fibers /\ fiberTask[running[i]] # NoTask
    BY <1>6, OnOneFiber, NamesAssumption DEF RunTask, At, FiberSteps, Submitters
  <2>2. /\ fiberState'[running[i]] = "Running" /\ stack'[running[i]] = fiberTask[running[i]]
        /\ \A h \in Fibers : h # running[i] =>
              fiberState'[h] = fiberState[h] /\ stack'[h] = stack[h]
        /\ UNCHANGED <<pc, freeFibers, fiberTask, currentFiber, running, suspendedFibers>>
    BY <1>0, <1>6, <2>1 DEF RunTask
  <2> QED
    BY <2>1, <2>2, OnFiberLinked
<1>7. CASE SubmitFromTask(i)
  BY <1>7, LinkedKept DEF SubmitFromTask, SubmitNext
<1>8. CASE SuspendTask(i)
  <2>1. pc[i] = "OnFiber" /\ running[i] \in Fibers
    BY <1>8, OnOneFiber DEF SuspendTask, InFunction, At, FiberSteps
  <2>2. /\ fiberState'[running[i]] = "Suspended" /\ stack' = stack
        /\ \A h \in Fibers : h # running[i] => fiberState'[h] = fiberState[h]
        /\ UNCHANGED <<freeFibers, fiberTask, currentFiber, running, suspendedFibers>>
    BY <1>0, <1>8, <2>1 DEF SuspendTask
  <2>3. pc'[i] # "Done" /\ \A j \in Instances : j # i => pc'[j] = pc[j]
    BY <1>0, <1>8 DEF SuspendTask, SwitchToParent, GoTo
  <2>4. stack[running[i]] # NoTask => stack[running[i]] = fiberTask[running[i]]
    BY <2>1 DEF Linked
  <2> QED
    BY <2>1, <2>2, <2>3, <2>4, OnFiberLinked
<1>9. CASE FinishTask(i)
  <2>1. pc[i] = "OnFiber" /\ running[i] \in Fibers
    BY <1>9, OnOneFiber DEF FinishTask, InFunction, At, FiberSteps
  <2>2. /\ stack'[running[i]] = NoTask
        /\ \A h \in Fibers : h # running[i] =>
              fiberState'[h] = fiberState[h] /\ stack'[h] = stack[h]
        /\ UNCHANGED <<freeFibers, fiberTask, currentFiber, running, suspendedFibers>>
    BY <1>0, <1>9, <2>1 DEF FinishTask
  <2>3. /\ pc'[i] \in {"Update", "Astray"} /\ \A j \in Instances : j # i => pc'[j] = pc[j]
    BY <1>0, <1>9 DEF FinishTask, SwitchToParent, GoTo
  <2> QED
    BY <2>1, <2>2, <2>3, OnFiberLinked
<1> QED
  BY <1>1, <1>2, <1>3, <1>4, <1>5, <1>6, <1>7, <1>8, <1>9, ResumeFiberLinked,
     ReplaceCurrentFiberLinked, RequeueFiberLinked, ClearFiberLinked
     DEF ExecutionStep

\* Every step of a worker keeps fibers and tasks together.
LEMMA WorkerThreadLinked ==
    ASSUME SystemInv, Idleness, Linked, PoolSuffices, NEW w \in 1 .. MaxWorkers, WorkerThread(w)
    PROVE  Linked'
<1> USE DEF taskVars, fiberVars, instanceVars, stepVars, dispatchVars, threadVars
<1>0. program' = program /\ w \in Workers /\ w \in Instances /\ pc \in [Instances -> AllSteps]
  BY HelperFacts DEF WorkerThread
<1>1. CASE StartThread(w) \/ WaitForEvent(w) \/ ResetEvent(w) \/ CheckFinish(w)
  BY <1>0, <1>1, LinkedKept DEF StartThread, Convert, WaitForEvent, ResetEvent, CheckFinish, GoTo
<1>2. CASE Loop(w)
  BY <1>0, <1>2, LinkedKept DEF Loop, BeginStep, GoTo
<1> QED
  BY <1>0, <1>1, <1>2, RetireLinked, ExecutionStepLinked DEF WorkerThread

\* Every step of the main thread does.
LEMMA MainThreadLinked ==
    ASSUME SystemInv, Idleness, Linked, PoolSuffices, MainThread PROVE Linked'
<1> USE DEF taskVars, fiberVars, instanceVars, stepVars, dispatchVars, threadVars
<1>0. program' = program /\ Helper \in Instances /\ pc \in [Instances -> AllSteps]
  BY HelperFacts DEF MainThread
<1>1. CASE SubmitFromMain \/ FlushTask
  BY <1>0, <1>1, LinkedKept DEF SubmitFromMain, SubmitNext, FlushTask
<1>2. CASE ConvertMainThread \/ CheckCondition \/ EndFlushFibers \/ RaiseFence
  BY <1>0, <1>2, LinkedKept
     DEF ConvertMainThread, Convert, CheckCondition, BeginStep, EndFlushFibers, RaiseFence, GoTo, At
<1>3. CASE AdoptFiber
  BY <1>0, <1>3, LinkedKept DEF AdoptFiber, GoTo, At
<1>4. CASE ReturnFromWaitUntil
  <2>1. AfterWaitUntil \in {"Fence", "Stop", "Returned"}
    BY DEF AfterWaitUntil
  <2> QED
    BY <1>0, <1>4, <2>1, LinkedKept DEF ReturnFromWaitUntil, GoTo, At
<1>5. CASE RequestFinish \/ WakeUpToFinish
  BY <1>0, <1>5, LinkedKept DEF RequestFinish, WakeUpToFinish, GoTo
<1> QED
  BY <1>0, <1>1, <1>2, <1>3, <1>4, <1>5, FlushFiberLinked, DeinitializeLinked,
     ExecutionStepLinked DEF MainThread

\* Every step keeps the fibers linked.
LEMMA LinkedNext ==
    ASSUME SystemInv, Idleness, Linked, PoolSuffices, [Next]_vars PROVE Linked'
<1>1. CASE UNCHANGED vars
  BY <1>1, LinkedKept
     DEF vars, taskVars, fiberVars, instanceVars, stepVars, dispatchVars, threadVars
<1> QED
  BY <1>1, MainThreadLinked, WorkerThreadLinked DEF Next

-----------------------------------------------------------------------------
(***************************************************************************)
(* What a thread is doing.                                                 *)
(*                                                                         *)
(* A thread that notifies dependants, or calls the dispatcher, has the     *)
(* variables of that call (Stepping).  Every step is quiet, or works on one*)
(* task.                                                                   *)
(***************************************************************************)

\* The code that calls the dispatcher on thread i: the main thread or a task's function.
IsCalling(i) ==
    \/ i = Helper /\ pc[i] = "Main"
    \/ pc[i] = "OnFiber" /\ stack[running[i]] # NoTask

\* What thread i keeps between steps: how far it is in its two loops over the dependants,
\* the ready ones among them, and the task it dispatches.
SteppingOf(i) ==
    /\ pc[i] \in {"Update", "Add"} => index[i] <= MaxDependants
    /\ \A s \in Slots : readyArray[i][s] # NoTask =>
          \/ pc[i] = "Update" /\ s < index[i]
          \/ pc[i] = "Add" /\ s >= index[i]
    /\ dispatching[i] # NoTask => IsCalling(i) \/ IsFlushing(i)

\* Every thread is where its variables say.
Stepping == \A i \in Instances : SteppingOf(i)

\* A step of thread i that does nothing with tasks.
QuietStep(i) ==
    /\ program' = program
    /\ UNCHANGED <<numberOfChildTasks, progress, fiberTask, stack, pendingTasks, dispatching,
                   readyArray>>
    /\ \A j \in Instances : j # i =>
          pc'[j] = pc[j] /\ running'[j] = running[j] /\ index'[j] = index[j]
    /\ \/ pc'[i] = pc[i] /\ running'[i] = running[i] /\ index'[i] = index[i]
       \/ /\ dispatching[i] = NoTask
          /\ pc[i] \notin {"Update", "Add"} /\ pc'[i] \notin {"Update", "Add"}

\* The others.
TaskStep(i) ==
    \/ SubmitFromTask(i) \/ DispatchTask(i) \/ TakeOwnTask(i) \/ StealTask(i)
    \/ RunTask(i) \/ FinishTask(i)
    \/ UpdateDependecies(i) \/ EndUpdate(i) \/ AddReadyTask(i) \/ ClearFiber(i)
    \/ i = Helper /\ SubmitFromMain
    \/ i = Helper /\ FlushTask

\* A thread that is at none of the steps that call the dispatcher dispatches nothing.
LEMMA NotDispatching ==
    ASSUME Stepping, NEW i \in Instances, pc[i] \notin {"Main", "OnFiber", "FlushTasks"}
    PROVE  dispatching[i] = NoTask
BY DEF Stepping, SteppingOf, IsCalling, IsFlushing

\* A thread that goes from one step to another outside the loops over the dependants.
LEMMA QuietGoTo ==
    ASSUME SystemInv, Stepping, program' = program, NEW i \in Instances,
           UNCHANGED <<numberOfChildTasks, progress, fiberTask, stack, pendingTasks, dispatching,
                       readyArray>>,
           pc[i] \notin {"Main", "OnFiber", "FlushTasks"} \/ ~InDispatcher(i),
           pc[i] \notin {"Update", "Add"}, NEW step, step \notin {"Update", "Add"}, GoTo(i, step),
           \A j \in Instances : j # i => running'[j] = running[j] /\ index'[j] = index[j]
    PROVE  QuietStep(i)
<1>1. pc \in [Instances -> AllSteps]
  BY DEF SystemInv, Typed
<1>2. pc'[i] = step /\ \A j \in Instances : j # i => pc'[j] = pc[j]
  BY <1>1 DEF GoTo
<1>3. dispatching[i] = NoTask
  BY NotDispatching DEF InDispatcher
<1> QED
  BY <1>2, <1>3 DEF QuietStep

\* The execution step.
LEMMA ExecutionStepTasks ==
    ASSUME SystemInv, Stepping, PoolSuffices, program' = program, NEW i \in Instances,
           ExecutionStep(i)
    PROVE  QuietStep(i) \/ TaskStep(i)
<1> USE DEF taskVars, fiberVars, instanceVars, stepVars, dispatchVars, threadVars
<1>0. /\ running \in [Instances -> Fibers \cup {NoFiber}] /\ index \in [Instances -> Nat]
      /\ pc \in [Instances -> AllSteps] /\ isThereMoreWork[i] \in BOOLEAN
  BY DEF SystemInv, Typed, TypeOK
<1>1. CASE EndResume(i)
  BY <1>1, QuietGoTo DEF EndResume
<1>2. CASE StartStealing(i)
  BY <1>0, <1>2, QuietGoTo DEF StartStealing
<1>3. CASE NothingToSteal(i)
  <2>1. CASE UNCHANGED pc
    BY <1>0, <1>3, <2>1, NotDispatching DEF NothingToSteal, QuietStep
  <2>2. CASE GoTo(i, AfterStep(i, isThereMoreWork[i]))
    BY <1>0, <1>3, <2>2, QuietGoTo, AfterStepIs DEF NothingToSteal
  <2> QED
    BY <1>3, <2>1, <2>2 DEF NothingToSteal
<1>4. CASE WakeUp(i)
  BY <1>4 DEF WakeUp, QuietStep
<1>5. CASE KeepCurrentFiber(i)
  BY <1>5 DEF KeepCurrentFiber, PoolSuffices
<1>6. CASE ResumeFiber(i)
  BY <1>0, <1>6, QuietGoTo DEF ResumeFiber
<1>7. CASE ReplaceCurrentFiber(i)
  BY <1>0, <1>7, QuietGoTo, AfterStepIs DEF ReplaceCurrentFiber
<1>8. CASE RequeueFiber(i)
  BY <1>0, <1>8, QuietGoTo DEF RequeueFiber
<1>9. CASE SuspendTask(i)
  <2>1. PICK step \in {"Suspended", "Astray"} : GoTo(i, step)
    BY <1>9 DEF SuspendTask, SwitchToParent
  <2> QED
    BY <1>9, <2>1, QuietGoTo DEF SuspendTask, InFunction, At
<1> QED
  BY <1>1, <1>2, <1>3, <1>4, <1>5, <1>6, <1>7, <1>8, <1>9 DEF ExecutionStep, TaskStep

\* The rest of a worker thread.
LEMMA WorkerThreadTasks ==
    ASSUME SystemInv, Idleness, Linked, Stepping, PoolSuffices, NEW w \in 1 .. MaxWorkers,
           WorkerThread(w)
    PROVE  program' = program /\ w \in Instances /\ (QuietStep(w) \/ TaskStep(w))
<1> USE DEF taskVars, fiberVars, instanceVars, stepVars, dispatchVars, threadVars
<1>0. /\ program' = program /\ w \in Workers /\ w \in Instances
      /\ index \in [Instances -> Nat]
  BY HelperFacts DEF WorkerThread, SystemInv, Typed, TypeOK
<1>1. CASE StartThread(w)
  BY <1>0, <1>1, QuietGoTo DEF StartThread, Convert
<1>2. CASE WaitForEvent(w)
  BY <1>0, <1>2, QuietGoTo DEF WaitForEvent
<1>3. CASE ResetEvent(w)
  BY <1>0, <1>3, QuietGoTo DEF ResetEvent
<1>4. CASE CheckFinish(w)
  BY <1>0, <1>4, QuietGoTo DEF CheckFinish
<1>5. CASE Loop(w)
  <2>1. CASE BeginStep(w)
    BY <1>0, <1>5, <2>1, QuietGoTo DEF Loop, BeginStep
  <2>2. CASE ~BeginStep(w)
    BY <1>0, <1>5, <2>2, QuietGoTo DEF Loop
  <2> QED
    BY <2>1, <2>2
<1>6. CASE Retire(w)
  <2>1. fiberTask' = fiberTask
    BY <1>0, <1>6, RetireLinked
  <2> QED
    BY <1>0, <1>6, <2>1, QuietGoTo DEF Retire
<1> QED
  BY <1>0, <1>1, <1>2, <1>3, <1>4, <1>5, <1>6, ExecutionStepTasks DEF WorkerThread

\* The rest of the main thread.
LEMMA MainThreadTasks ==
    ASSUME SystemInv, Idleness, Linked, Stepping, PoolSuffices, MainThread
    PROVE  program' = program /\ (QuietStep(Helper) \/ TaskStep(Helper))
<1> USE DEF taskVars, fiberVars, instanceVars, stepVars, dispatchVars, threadVars
<1>0. program' = program /\ Helper \in Instances /\ index \in [Instances -> Nat]
  BY HelperFacts DEF MainThread, SystemInv, Typed, TypeOK
<1>1. CASE ConvertMainThread
  BY <1>0, <1>1, QuietGoTo DEF ConvertMainThread, Convert, At
<1>2. CASE CheckCondition
  <2>1. CASE BeginStep(Helper)
    BY <1>0, <1>2, <2>1, QuietGoTo DEF CheckCondition, BeginStep
  <2>2. CASE ~BeginStep(Helper)
    BY <1>0, <1>2, <2>2, QuietGoTo DEF CheckCondition
  <2> QED
    BY <2>1, <2>2
<1>3. CASE FlushFiber
  BY <1>0, <1>3, QuietGoTo DEF FlushFiber, At
<1>4. CASE AdoptFiber
  BY <1>0, <1>4, QuietGoTo DEF AdoptFiber
<1>5. CASE EndFlushFibers
  BY <1>0, <1>5, QuietGoTo DEF EndFlushFibers, At
<1>6. CASE ReturnFromWaitUntil
  <2>1. AfterWaitUntil \in {"Fence", "Stop", "Returned"}
    BY DEF AfterWaitUntil
  <2> QED
    BY <1>0, <1>6, <2>1, QuietGoTo DEF ReturnFromWaitUntil, At
<1>7. CASE RaiseFence
  BY <1>0, <1>7, QuietGoTo DEF RaiseFence
<1>8. CASE RequestFinish
  BY <1>0, <1>8, QuietGoTo DEF RequestFinish
<1>9. CASE WakeUpToFinish
  BY <1>0, <1>9, QuietGoTo DEF WakeUpToFinish
<1>10. CASE Deinitialize
  <2>1. fiberTask' = fiberTask
    BY <1>0, <1>10, DeinitializeLinked
  <2> QED
    BY <1>0, <1>10, <2>1, QuietGoTo DEF Deinitialize
<1> QED
  BY <1>0, <1>1, <1>2, <1>3, <1>4, <1>5, <1>6, <1>7, <1>8, <1>9, <1>10, ExecutionStepTasks
     DEF MainThread, TaskStep

\* So every step of the system is of one kind or the other.
LEMMA EveryStep ==
    ASSUME SystemInv, Idleness, Linked, Stepping, PoolSuffices, [Next]_vars
    PROVE  program' = program /\ \E i \in Instances : QuietStep(i) \/ TaskStep(i)
<1>0. Helper \in Instances
  BY HelperFacts
<1>1. CASE UNCHANGED vars
  BY <1>0, <1>1 DEF QuietStep, vars, taskVars, fiberVars, instanceVars, stepVars, dispatchVars
<1> QED
  BY <1>0, <1>1, MainThreadTasks, WorkerThreadTasks DEF Next

\* A thread on a fiber is the only one on it.
LEMMA AloneOnFiber ==
    ASSUME SystemInv, NEW i \in Instances, pc[i] \in FiberSteps
    PROVE  \A j \in Instances : j # i => running[j] # running[i]
BY OnOneFiber, FibersApart

\* What one thread keeps does not depend on the others.
LEMMA SteppingStep ==
    ASSUME Stepping, program' = program, NEW i \in Instances,
           \A j \in Instances : j # i =>
               /\ pc'[j] = pc[j] /\ running'[j] = running[j] /\ index'[j] = index[j]
               /\ readyArray'[j] = readyArray[j] /\ dispatching'[j] = dispatching[j]
               /\ pc[j] = "OnFiber" => stack'[running[j]] = stack[running[j]],
           SteppingOf(i)'
    PROVE  Stepping'
BY ProgramStays DEF Stepping, SteppingOf, IsCalling, IsFlushing

\* A step that does nothing with tasks.
LEMMA QuietStepping ==
    ASSUME Stepping, NEW i \in Instances, QuietStep(i) PROVE Stepping'
<1>1. SteppingOf(i)
  BY DEF Stepping
<1>2. SteppingOf(i)'
  BY <1>1 DEF QuietStep, SteppingOf, IsCalling, IsFlushing
<1> QED
  BY <1>2, SteppingStep DEF QuietStep

\* The steps on tasks.
LEMMA TaskStepping ==
    ASSUME SystemInv, Stepping, program' = program, NEW i \in Instances, TaskStep(i)
    PROVE  Stepping'
<1> USE DEF taskVars, fiberVars, instanceVars, stepVars, dispatchVars, threadVars
<1>0. /\ running \in [Instances -> Fibers \cup {NoFiber}] /\ index \in [Instances -> Nat]
      /\ pc \in [Instances -> AllSteps] /\ isThereMoreWork[i] \in BOOLEAN
      /\ readyArray \in [Instances -> [Slots -> Tasks \cup {NoTask}]]
      /\ dispatching \in [Instances -> Tasks \cup {NoTask}]
      /\ stack \in [Fibers -> Tasks \cup {NoTask}]
  BY DEF SystemInv, Typed, TypeOK
<1>a. SteppingOf(i) /\ MaxDependants \in Nat /\ \A s \in Slots : s \in 0 .. MaxDependants - 1
  BY SizesAssumption DEF Stepping, Slots
<1>1. CASE SubmitFromTask(i)
  <2>1. /\ pc[i] = "OnFiber" /\ stack[running[i]] # NoTask
        /\ \A j \in Instances : j # i => dispatching'[j] = dispatching[j]
        /\ UNCHANGED <<pc, running, index, readyArray, stack>>
    BY <1>0, <1>1, OnOneFiber
       DEF SubmitFromTask, SubmitNext, InFunction, At, SystemInv, Contents, FiberSteps
  <2>2. SteppingOf(i)'
    BY <1>a, <2>1 DEF SteppingOf, IsCalling
  <2> QED
    BY <2>1, <2>2, SteppingStep
<1>2. CASE i = Helper /\ SubmitFromMain
  <2>1. /\ pc[i] = "Main" /\ \A j \in Instances : j # i => dispatching'[j] = dispatching[j]
        /\ UNCHANGED <<pc, running, index, readyArray, stack>>
    BY <1>0, <1>2 DEF SubmitFromMain, SubmitNext, At
  <2>2. SteppingOf(i)'
    BY <1>a, <1>2, <2>1 DEF SteppingOf, IsCalling
  <2> QED
    BY <2>1, <2>2, SteppingStep
<1>3. CASE DispatchTask(i)
  <2>1. /\ dispatching'[i] = NoTask
        /\ \A j \in Instances : j # i => dispatching'[j] = dispatching[j]
        /\ UNCHANGED <<pc, running, index, readyArray, stack>>
    BY <1>0, <1>3 DEF DispatchTask
  <2>2. SteppingOf(i)'
    BY <1>a, <2>1 DEF SteppingOf
  <2> QED
    BY <2>1, <2>2, SteppingStep
<1>4. CASE i = Helper /\ FlushTask
  <2>1. /\ pc[i] = "FlushTasks" /\ \A j \in Instances : j # i => dispatching'[j] = dispatching[j]
        /\ UNCHANGED <<pc, running, index, readyArray, stack>>
    BY <1>0, <1>4 DEF FlushTask, At
  <2>2. SteppingOf(i)'
    BY <1>a, <1>4, <2>1 DEF SteppingOf, IsFlushing
  <2> QED
    BY <2>1, <2>2, SteppingStep
<1>5. CASE TakeOwnTask(i) \/ StealTask(i)
  <2>1. PICK t \in Tasks : pc[i] \in {"Take", "Steal"} /\ Execute(i, t)
    BY <1>5, TakenTasks
  <2>2. /\ pc'[i] = "OnFiber" /\ dispatching[i] = NoTask
        /\ \A j \in Instances : j # i => pc'[j] = pc[j] /\ running'[j] = running[j]
        /\ UNCHANGED <<index, readyArray, dispatching, stack>>
    BY <1>0, <1>5, <2>1, NotDispatching DEF Execute, GoTo, TakeOwnTask, StealTask
  <2>3. SteppingOf(i)'
    BY <1>a, <2>1, <2>2 DEF SteppingOf
  <2> QED
    BY <2>2, <2>3, SteppingStep
<1>6. CASE RunTask(i)
  <2>1. /\ pc[i] = "OnFiber" /\ dispatching[i] = NoTask
        /\ \A h \in Fibers : h # running[i] => stack'[h] = stack[h]
        /\ UNCHANGED <<pc, running, index, readyArray, dispatching>>
    BY <1>0, <1>6 DEF RunTask, At, InDispatcher
  <2>2. \A j \in Instances : j # i /\ pc[j] = "OnFiber" => stack'[running[j]] = stack[running[j]]
    BY <2>1, OnOneFiber, AloneOnFiber DEF FiberSteps
  <2>3. SteppingOf(i)'
    BY <1>a, <2>1 DEF SteppingOf
  <2> QED
    BY <2>1, <2>2, <2>3, SteppingStep
<1>7. CASE FinishTask(i)
  <2>1. /\ pc[i] = "OnFiber" /\ dispatching[i] = NoTask /\ pc'[i] \in {"Update", "Astray"}
        /\ index'[i] = 0
        /\ \A j \in Instances : j # i => pc'[j] = pc[j] /\ index'[j] = index[j]
        /\ \A h \in Fibers : h # running[i] => stack'[h] = stack[h]
        /\ UNCHANGED <<running, readyArray, dispatching>>
    BY <1>0, <1>7 DEF FinishTask, InFunction, At, InDispatcher, SwitchToParent, GoTo
  <2>2. \A j \in Instances : j # i /\ pc[j] = "OnFiber" => stack'[running[j]] = stack[running[j]]
    BY <2>1, OnOneFiber, AloneOnFiber DEF FiberSteps
  <2>3. SteppingOf(i)'
    BY <1>a, <2>1 DEF SteppingOf
  <2> QED
    BY <2>1, <2>2, <2>3, SteppingStep
<1>8. CASE UpdateDependecies(i)
  <2>1. /\ pc[i] = "Update" /\ index[i] < MaxDependants /\ dispatching[i] = NoTask
        /\ index'[i] = index[i] + 1
        /\ \A j \in Instances : j # i => index'[j] = index[j] /\ readyArray'[j] = readyArray[j]
        /\ \A s \in Slots : s # index[i] => readyArray'[i][s] = readyArray[i][s]
        /\ UNCHANGED <<pc, running, stack, dispatching>>
    BY <1>0, <1>8, NotDispatching DEF UpdateDependecies
  <2>2. index[i] \in Nat
    BY <1>0
  <2>3. ASSUME NEW s \in Slots, readyArray'[i][s] # NoTask PROVE s < index'[i]
    <3>1. s = index[i] \/ s < index[i]
      BY <1>a, <2>1, <2>3 DEF SteppingOf
    <3> QED
      BY <1>a, <2>1, <2>2, <3>1
  <2>4. index'[i] <= MaxDependants
    BY <1>a, <2>1, <2>2
  <2>5. SteppingOf(i)'
    <3>1. pc'[i] = "Update" /\ dispatching'[i] = NoTask
      BY <2>1
    <3> QED
      BY <2>3, <2>4, <3>1 DEF SteppingOf
  <2> QED
    BY <2>1, <2>5, SteppingStep
<1>9. CASE EndUpdate(i)
  <2>1. /\ pc[i] = "Update" /\ pc'[i] = "Add" /\ dispatching[i] = NoTask /\ index'[i] = 0
        /\ \A j \in Instances : j # i => pc'[j] = pc[j] /\ index'[j] = index[j]
        /\ UNCHANGED <<running, readyArray, stack, dispatching>>
    BY <1>0, <1>9, NotDispatching DEF EndUpdate, GoTo
  <2>2. SteppingOf(i)'
    BY <1>a, <2>1 DEF SteppingOf
  <2> QED
    BY <2>1, <2>2, SteppingStep
<1>10. CASE AddReadyTask(i)
  <2>1. /\ pc[i] = "Add" /\ index[i] < MaxDependants /\ dispatching[i] = NoTask
        /\ index'[i] = index[i] + 1
        /\ \A j \in Instances : j # i => index'[j] = index[j] /\ readyArray'[j] = readyArray[j]
        /\ \A s \in Slots : readyArray'[i][s] = IF s = index[i] THEN NoTask ELSE readyArray[i][s]
        /\ UNCHANGED <<pc, running, stack, dispatching>>
    BY <1>0, <1>10, NotDispatching DEF AddReadyTask
  <2>2. index[i] \in Nat
    BY <1>0
  <2>3. SteppingOf(i)'
    BY <1>a, <2>1, <2>2 DEF SteppingOf
  <2> QED
    BY <2>1, <2>3, SteppingStep
<1>11. CASE ClearFiber(i)
  <2>1. /\ pc[i] = "Add" /\ index[i] = MaxDependants /\ dispatching[i] = NoTask
        /\ UNCHANGED <<index, readyArray, stack, dispatching>>
        /\ \A j \in Instances : j # i => running'[j] = running[j]
    BY <1>0, <1>11, NotDispatching DEF ClearFiber
  <2>2. pc'[i] \in {"Check", "Loop", "Take"} /\ \A j \in Instances : j # i => pc'[j] = pc[j]
    BY <1>0, <1>11, AfterStepIs DEF ClearFiber, GoTo
  <2>3. SteppingOf(i)'
    BY <1>a, <2>1, <2>2 DEF SteppingOf
  <2> QED
    BY <2>1, <2>2, <2>3, SteppingStep
<1> QED
  BY <1>1, <1>2, <1>3, <1>4, <1>5, <1>6, <1>7, <1>8, <1>9, <1>10, <1>11 DEF TaskStep

-----------------------------------------------------------------------------
(***************************************************************************)
(* The graph that the system holds.                                        *)
(*                                                                         *)
(* What the mapped variables of TaskGraph are when a step has left alone   *)
(* what they are computed from.                                            *)
(***************************************************************************)

\* The element of a set with one element.
LEMMA TheOnlyOne == ASSUME NEW x PROVE The({x}) = x
BY DEF The

\* Where the graph's fiber is, for a fiber that a thread is on.
LEMMA ThreadOn ==
    ASSUME SystemInv, NEW i \in Instances, pc[i] \in FiberSteps, NEW steps
    PROVE  ThreadsOn(running[i], steps) = IF pc[i] \in steps THEN {i} ELSE {}
BY AloneOnFiber DEF ThreadsOn

\* What the graph sees of a fiber that a thread is on.
LEMMA FiberView ==
    ASSUME SystemInv, NEW i \in Instances, pc[i] \in FiberSteps
    PROVE  /\ pc[i] = "Update" => GraphFiberState(running[i]) = "Updating"
           /\ pc[i] = "Add" => GraphFiberState(running[i]) = "Adding"
           /\ pc[i] \notin {"Update", "Add"} =>
                 /\ GraphFiberState(running[i])
                       = IF stack[running[i]] = NoTask THEN "Starting" ELSE "Running"
                 /\ GraphSlot(running[i]) = 0 /\ GraphReadyArray(running[i]) = NothingReady
           /\ pc[i] \in {"Update", "Add"} =>
                 /\ GraphSlot(running[i]) = index[i]
                 /\ GraphReadyArray(running[i]) = readyArray[i]
<1>1. fiberTask[running[i]] # NoTask
  BY OnOneFiber, NamesAssumption DEF Submitters
<1>2. The({i}) = i
  BY TheOnlyOne
<1>3. /\ ThreadsOn(running[i], {"Update"}) = IF pc[i] = "Update" THEN {i} ELSE {}
      /\ ThreadsOn(running[i], {"Add"}) = IF pc[i] = "Add" THEN {i} ELSE {}
      /\ ThreadsOn(running[i], {"Update", "Add"}) = IF pc[i] \in {"Update", "Add"} THEN {i} ELSE {}
  BY ThreadOn
<1>4. /\ pc[i] = "Update" => GraphFiberState(running[i]) = "Updating"
      /\ pc[i] = "Add" => GraphFiberState(running[i]) = "Adding"
      /\ pc[i] \notin {"Update", "Add"} =>
            GraphFiberState(running[i]) = IF stack[running[i]] = NoTask THEN "Starting" ELSE "Running"
  BY <1>1, <1>3 DEF GraphFiberState
<1> QED
  BY <1>2, <1>3, <1>4 DEF GraphSlot, GraphReadyArray

\* A fiber without a task is idle.
LEMMA IdleView ==
    ASSUME SystemInv, NEW f \in Fibers, fiberTask[f] = NoTask
    PROVE  GraphFiberState(f) = "Idle" /\ GraphSlot(f) = 0 /\ GraphReadyArray(f) = NothingReady
<1>1. \A steps : ThreadsOn(f, steps) = {}
  BY NamesAssumption DEF ThreadsOn, SystemInv, Contents
<1> QED
  BY <1>1 DEF GraphFiberState, GraphSlot, GraphReadyArray

\* What thread j does with fiber h as far as the graph can tell.
SameOn(j, h) ==
    \/ /\ pc'[j] = pc[j] /\ running'[j] = running[j] /\ index'[j] = index[j]
       /\ readyArray'[j] = readyArray[j]
    \/ running[j] # h /\ running'[j] # h
    \/ pc[j] \notin {"Update", "Add"} /\ pc'[j] \notin {"Update", "Add"}

\* What the graph sees of a fiber that no step has touched.
LEMMA FiberFrame ==
    ASSUME program' = program, NEW h, fiberTask'[h] = fiberTask[h], stack'[h] = stack[h],
           \A j \in Instances : SameOn(j, h)
    PROVE  /\ GraphFiberState(h)' = GraphFiberState(h)
           /\ GraphSlot(h)' = GraphSlot(h)
           /\ GraphReadyArray(h)' = GraphReadyArray(h)
<1>1. /\ ThreadsOn(h, {"Update"})' = ThreadsOn(h, {"Update"})
      /\ ThreadsOn(h, {"Add"})' = ThreadsOn(h, {"Add"})
      /\ ThreadsOn(h, {"Update", "Add"})' = ThreadsOn(h, {"Update", "Add"})
  BY ProgramStays DEF ThreadsOn, SameOn
<1>2. GraphFiberState(h)' = GraphFiberState(h)
  BY <1>1 DEF GraphFiberState
<1>3. ASSUME ThreadsOn(h, {"Update", "Add"}) # {}
      PROVE  /\ index'[The(ThreadsOn(h, {"Update", "Add"}))] = index[The(ThreadsOn(h, {"Update", "Add"}))]
             /\ readyArray'[The(ThreadsOn(h, {"Update", "Add"}))]
                  = readyArray[The(ThreadsOn(h, {"Update", "Add"}))]
  <2>1. The(ThreadsOn(h, {"Update", "Add"})) \in ThreadsOn(h, {"Update", "Add"})
    BY <1>3 DEF The
  <2> QED
    BY <2>1 DEF ThreadsOn, SameOn
<1> QED
  BY <1>1, <1>2, <1>3 DEF GraphSlot, GraphReadyArray, NothingReady, Slots

\* A step of thread i that has to do with fiber f only.
LEMMA OneFiberStep ==
    ASSUME program' = program, NEW i \in Instances, NEW f \in Fibers,
           running[i] \in {f, NoFiber}, running'[i] \in {f, NoFiber},
           \A j \in Instances : j # i =>
               /\ pc'[j] = pc[j] /\ running'[j] = running[j] /\ index'[j] = index[j]
               /\ readyArray'[j] = readyArray[j],
           \A h \in Fibers : h # f => fiberTask'[h] = fiberTask[h] /\ stack'[h] = stack[h]
    PROVE  /\ GraphFiberStates' = [GraphFiberStates EXCEPT ![f] = GraphFiberState(f)']
           /\ GraphSlots' = [GraphSlots EXCEPT ![f] = GraphSlot(f)']
           /\ GraphReadyArrays' = [GraphReadyArrays EXCEPT ![f] = GraphReadyArray(f)']
<1>1. ASSUME NEW h \in Fibers, h # f
      PROVE  /\ GraphFiberState(h)' = GraphFiberState(h)
             /\ GraphSlot(h)' = GraphSlot(h)
             /\ GraphReadyArray(h)' = GraphReadyArray(h)
  <2>1. \A j \in Instances : SameOn(j, h)
    BY <1>1, NamesAssumption DEF SameOn
  <2> QED
    BY <1>1, <2>1, FiberFrame
<1> QED
  BY <1>1 DEF GraphFiberStates, GraphSlots, GraphReadyArrays

\* What depends on the program only.
LEMMA ProgramGraph ==
    ASSUME program' = program
    PROVE  GraphHasFunction' = GraphHasFunction /\ GraphOwner' = GraphOwner
           /\ Dependants' = Dependants
<1>1. \A t : Submitter(t)' = Submitter(t)
  BY DEF Submitter, Submits
<1> QED
  BY <1>1 DEF GraphHasFunction, GraphOwner, Dependants

\* Every task counts the dependants as before.
LEMMA NotifySame ==
    ASSUME program' = program, NEW p, NEW s,
           IsFinished(p)' <=> IsFinished(p), fiberTask' = fiberTask,
           GraphFiberStates' = GraphFiberStates, GraphSlots' = GraphSlots
    PROVE  HasToNotify(p, s)' <=> HasToNotify(p, s)
<1>1. \A f \in Fibers : GraphFiberState(f)' = GraphFiberState(f) /\ GraphSlot(f)' = GraphSlot(f)
  BY DEF GraphFiberStates, GraphSlots
<1> QED
  BY <1>1 DEF HasToNotify

\* The same notifications are to come when every task waits for the same tasks.
LEMMA WaitsSame ==
    ASSUME program' = program,
           \A p \in Tasks, s \in Slots : Dependants[p][s] \in Tasks =>
              (HasToNotify(p, s)' <=> HasToNotify(p, s))
    PROVE  GraphWaits' = GraphWaits
<1>1. \A t \in Tasks, e \in Tasks \X Slots :
         (Dependants[e[1]][e[2]] = t /\ HasToNotify(e[1], e[2]))'
             <=> (Dependants[e[1]][e[2]] = t /\ HasToNotify(e[1], e[2]))
  BY ProgramStays
<1> QED
  BY <1>1 DEF GraphWaits

\* No function has been called when no counter and no stack has changed.
LEMMA ExecutionsSame ==
    ASSUME program' = program, UNCHANGED <<numberOfChildTasks, stack>>
    PROVE  GraphExecutions' = GraphExecutions
BY DEF GraphExecutions, IsFinished

\* No task has been submitted when no program counter has moved.
LEMMA SubmittedSame ==
    ASSUME program' = program, progress' = progress
    PROVE  GraphSubmitted' = GraphSubmitted
BY ProgramStays DEF GraphSubmitted, Submitted

\* Every caller is still in the same call of the dispatcher.
LEMMA DispatchingSame ==
    ASSUME program' = program, dispatching' = dispatching,
           \A j \in Instances : dispatching[j] # NoTask =>
               Caller(j)' = Caller(j) /\ (IsFlushing(j)' <=> IsFlushing(j))
    PROVE  GraphDispatching' = GraphDispatching
<1>1. \A c : DispatchedBy(c)' = DispatchedBy(c)
  BY ProgramStays DEF DispatchedBy
<1> QED
  BY <1>1 DEF GraphDispatching

\* The same tasks are pending when the queues and the calls have not changed.
LEMMA PendingSame ==
    ASSUME program' = program, UNCHANGED <<pendingTasks, dispatching>>,
           dispatching[Helper] # NoTask => (IsFlushing(Helper)' <=> IsFlushing(Helper))
    PROVE  GraphPending' = GraphPending
<1>1. ASSUME NEW t \in Tasks PROVE PendingEntries(t)' = PendingEntries(t)
  <2>1. t # NoTask
    BY NamesAssumption DEF Submitters
  <2> QED
    BY <2>1, ProgramStays DEF PendingEntries, IsFlushing
<1> QED
  BY <1>1 DEF GraphPending

\* A step that does nothing with tasks is no step of the graph.
LEMMA QuietGraph ==
    ASSUME NEW i \in Instances, QuietStep(i), Helper \in Instances
    PROVE  UNCHANGED Graph!vars
<1>0. program' = program
  BY DEF QuietStep
<1>1. \A h \in Fibers : \A j \in Instances : SameOn(j, h)
  BY DEF QuietStep, SameOn
<1>2. /\ GraphFiberStates' = GraphFiberStates /\ GraphSlots' = GraphSlots
      /\ GraphReadyArrays' = GraphReadyArrays
  <2>1. ASSUME NEW h \in Fibers
        PROVE  /\ GraphFiberState(h)' = GraphFiberState(h)
               /\ GraphSlot(h)' = GraphSlot(h)
               /\ GraphReadyArray(h)' = GraphReadyArray(h)
    BY <1>0, <1>1, FiberFrame DEF QuietStep
  <2> QED
    BY <2>1 DEF GraphFiberStates, GraphSlots, GraphReadyArrays
<1>3. GraphWaits' = GraphWaits
  <2>1. \A p : IsFinished(p)' <=> IsFinished(p)
    BY DEF IsFinished, QuietStep
  <2>2. \A p \in Tasks, s \in Slots : HasToNotify(p, s)' <=> HasToNotify(p, s)
    BY <1>0, <1>2, <2>1, NotifySame DEF QuietStep
  <2> QED
    BY <1>0, <2>2, WaitsSame
<1>4. \A j \in Instances : dispatching[j] # NoTask =>
         Caller(j)' = Caller(j) /\ (IsFlushing(j)' <=> IsFlushing(j))
  BY DEF QuietStep, Caller, IsFlushing
<1>5. GraphDispatching' = GraphDispatching /\ GraphPending' = GraphPending
  BY <1>0, <1>4, DispatchingSame, PendingSame DEF QuietStep
<1>6. GraphExecutions' = GraphExecutions /\ GraphSubmitted' = GraphSubmitted
  BY <1>0, ExecutionsSame, SubmittedSame DEF QuietStep
<1> QED
  BY <1>0, <1>2, <1>3, <1>5, <1>6, ProgramGraph
     DEF Graph!vars, Graph!clientVars, Graph!fiberVars, QuietStep

(***************************************************************************)
(* The entries of the pending queues.                                      *)
(***************************************************************************)

\* The queue entries of task t, and the one that the flush is about to dispatch.
QueueEntries(t) ==
    {e \in Instances \X Nat : e[2] \in DOMAIN pendingTasks[e[1]] /\ pendingTasks[e[1]][e[2]] = t}

\* The entry of a task that the flush of the helper queue holds.
FlushEntries(t) == IF IsFlushing(Helper) /\ dispatching[Helper] = t THEN {<<Helper, 0>>} ELSE {}

\* A pending task is in a queue or held by the flush, not both.
LEMMA EntriesSplit ==
    ASSUME SystemInv, NEW t
    PROVE  /\ PendingEntries(t) = QueueEntries(t) \cup FlushEntries(t)
           /\ QueueEntries(t) \cap FlushEntries(t) = {}
           /\ \A e \in QueueEntries(t) :
                 e = <<e[1], e[2]>> /\ e[1] \in Instances /\ e[2] \in 1 .. Len(pendingTasks[e[1]])
                 /\ pendingTasks[e[1]][e[2]] = t
           /\ \A j \in Instances : \A k \in 1 .. Len(pendingTasks[j]) :
                 pendingTasks[j][k] = t => <<j, k>> \in QueueEntries(t)
<1>1. \A j \in Instances : DOMAIN pendingTasks[j] = 1 .. Len(pendingTasks[j])
                           /\ Len(pendingTasks[j]) \in Nat
  BY DEF SystemInv, Typed, TypeOK
<1>2. Helper \in Instances
  BY HelperFacts
<1> DEFINE In(j) == {<<j, k>> : k \in {k \in DOMAIN pendingTasks[j] : pendingTasks[j][k] = t}}
           Queues == {In(j) : j \in Instances}
           Flushed == {<<j, 0>> : j \in {j \in Instances : IsFlushing(j) /\ dispatching[j] = t}}
<1>3. PendingEntries(t) = QueueEntries(t) \cup FlushEntries(t)
  <2>1. UNION Queues = QueueEntries(t)
    <3>1. ASSUME NEW e \in UNION Queues PROVE e \in QueueEntries(t)
      <4>1. PICK j \in Instances : e \in In(j)
        BY <3>1
      <4>2. PICK k \in DOMAIN pendingTasks[j] : pendingTasks[j][k] = t /\ e = <<j, k>>
        BY <4>1
      <4>3. k \in Nat
        BY <1>1, <4>2
      <4> QED
        BY <4>2, <4>3 DEF QueueEntries
    <3>2. ASSUME NEW e \in QueueEntries(t) PROVE e \in UNION Queues
      <4>1. PICK j \in Instances, k \in Nat : e = <<j, k>> /\ k \in DOMAIN pendingTasks[j]
                                              /\ pendingTasks[j][k] = t
        BY <3>2 DEF QueueEntries
      <4>2. e \in In(j)
        BY <4>1
      <4>3. In(j) \in Queues
        OBVIOUS
      <4> HIDE DEF In, Queues
      <4> QED
        BY <4>2, <4>3
    <3> QED
      BY <3>1, <3>2
  <2>2. Flushed = FlushEntries(t)
    BY <1>2 DEF FlushEntries, IsFlushing
  <2>3. PendingEntries(t) = (UNION Queues) \cup Flushed
    BY Zenon DEF PendingEntries
  <2>4. QueueEntries(t) \cup FlushEntries(t) = (UNION Queues) \cup Flushed
    BY <2>1, <2>2, Zenon
  <2> QED
    BY <2>3, <2>4, Zenon
<1>4. \A e \in QueueEntries(t) :
                 e = <<e[1], e[2]>> /\ e[1] \in Instances /\ e[2] \in 1 .. Len(pendingTasks[e[1]])
                 /\ pendingTasks[e[1]][e[2]] = t
  BY <1>1 DEF QueueEntries
<1>5. QueueEntries(t) \cap FlushEntries(t) = {}
  BY <1>4 DEF FlushEntries
<1>6. \A j \in Instances : \A k \in 1 .. Len(pendingTasks[j]) :
                 pendingTasks[j][k] = t => <<j, k>> \in QueueEntries(t)
  BY <1>1 DEF QueueEntries
<1> QED
  BY <1>3, <1>4, <1>5, <1>6

\* There are finitely many entries.
LEMMA EntriesFinite ==
    ASSUME SystemInv, NEW t
    PROVE  /\ IsFiniteSet(QueueEntries(t)) /\ IsFiniteSet(Instances)
           /\ IsFiniteSet(FlushEntries(t))
<1>1. IsFiniteSet(Instances)
  <2>1. NumWorkers \in Nat
    BY InstanceFacts DEF SystemInv, Typed, TypeOK
  <2>2. Instances = 0 .. NumWorkers
    BY <2>1 DEF Instances, Workers, Helper
  <2> QED
    BY <2>1, <2>2, FS_Interval
<1> DEFINE Entries(j) == {j} \X (1 .. Len(pendingTasks[j]))
           all == {Entries(j) : j \in Instances}
<1>2. IsFiniteSet(all)
  <2> DEFINE g == [j \in Instances |-> Entries(j)]
  <2>1. g \in Surjection(Instances, all)
    BY DEF Surjection
  <2> QED
    BY <1>1, <2>1, FS_Surjection
<1>3. \A T \in all : IsFiniteSet(T)
  <2>1. ASSUME NEW j \in Instances PROVE IsFiniteSet(Entries(j))
    <3>1. Len(pendingTasks[j]) \in Nat
      BY DEF SystemInv, Typed, TypeOK
    <3>2. IsFiniteSet({j})
      BY FS_Singleton
    <3>3. IsFiniteSet(1 .. Len(pendingTasks[j]))
      BY <3>1, FS_Interval
    <3> QED
      BY <3>2, <3>3, FS_Product
  <2> QED
    BY <2>1
<1>4. IsFiniteSet(UNION all)
  BY <1>2, <1>3, FS_UNION
<1>5. QueueEntries(t) \subseteq UNION all
  <2>1. ASSUME NEW e \in QueueEntries(t) PROVE e \in UNION all
    <3>1. e = <<e[1], e[2]>> /\ e[1] \in Instances /\ e[2] \in 1 .. Len(pendingTasks[e[1]])
      BY <2>1, EntriesSplit
    <3>2. e \in Entries(e[1])
      BY <3>1
    <3> QED
      BY <3>1, <3>2
  <2> QED
    BY <2>1
<1>6. IsFiniteSet(QueueEntries(t))
  BY <1>4, <1>5, FS_Subset
<1>7. IsFiniteSet(FlushEntries(t))
  BY FS_EmptySet, FS_Singleton DEF FlushEntries
<1> QED
  BY <1>1, <1>6, <1>7

\* The graph counts the one and the other.
LEMMA PendingIs ==
    ASSUME SystemInv, NEW t \in Tasks
    PROVE  /\ GraphPending[t] = Cardinality(QueueEntries(t)) + Cardinality(FlushEntries(t))
           /\ Cardinality(QueueEntries(t)) \in Nat
           /\ Cardinality(FlushEntries(t)) = IF IsFlushing(Helper) /\ dispatching[Helper] = t THEN 1 ELSE 0
<1>1. IsFiniteSet(QueueEntries(t)) /\ IsFiniteSet(FlushEntries(t))
  BY EntriesFinite
<1>2. Cardinality(PendingEntries(t)) = Cardinality(QueueEntries(t)) + Cardinality(FlushEntries(t))
  <2> DEFINE S == QueueEntries(t)
             T == FlushEntries(t)
  <2>1. PendingEntries(t) = S \cup T /\ S \cap T = {} /\ IsFiniteSet(S) /\ IsFiniteSet(T)
    BY <1>1, EntriesSplit
  <2>2. Cardinality(S \cap T) = 0
    BY <2>1, FS_EmptySet
  <2>3. Cardinality(S) \in Nat /\ Cardinality(T) \in Nat
    BY <2>1, FS_CardinalityType
  <2> HIDE DEF S, T
  <2>4. Cardinality(S \cup T) = Cardinality(S) + Cardinality(T) - Cardinality(S \cap T)
    BY <2>1, FS_Union
  <2>5. Cardinality(PendingEntries(t)) = Cardinality(S) + Cardinality(T)
    BY <2>1, <2>2, <2>3, <2>4
  <2> QED
    BY <2>5 DEF S, T
<1> QED
  BY <1>1, <1>2, FS_CardinalityType, FS_EmptySet, FS_Singleton DEF GraphPending, FlushEntries

\* How many entries the pending queues have of task t.
Queued(t) == Cardinality(QueueEntries(t))

\* AddTask adds one entry.
LEMMA EntryAdded ==
    ASSUME SystemInv, program' = program, NEW t \in Tasks, NEW j \in Instances, NEW d \in Tasks,
           pendingTasks' = [pendingTasks EXCEPT ![j] = Append(@, d)]
    PROVE  Queued(t)' = IF t = d THEN Queued(t) + 1 ELSE Queued(t)
<1>0. pendingTasks \in [Instances -> Seq(Tasks)]
  BY DEF SystemInv, Typed, TypeOK
<1>1. /\ pendingTasks \in [Instances -> Seq(Tasks)] /\ Instances' = Instances
      /\ Len(pendingTasks[j]) \in Nat /\ pendingTasks[j] \in Seq(Tasks)
  BY <1>0, ProgramStays
<1> DEFINE n == Len(pendingTasks[j])
           new == <<j, n + 1>>
<1>2. /\ \A i \in Instances : i # j => pendingTasks'[i] = pendingTasks[i]
      /\ DOMAIN pendingTasks'[j] = 1 .. n + 1 /\ DOMAIN pendingTasks[j] = 1 .. n
      /\ \A k \in 1 .. n : pendingTasks'[j][k] = pendingTasks[j][k]
      /\ pendingTasks'[j][n + 1] = d
  BY <1>1
<1>3. ASSUME NEW e \in Instances \X Nat
      PROVE  e \in QueueEntries(t)' <=> e \in QueueEntries(t) \/ (t = d /\ e = new)
  <2>1. e = <<e[1], e[2]>> /\ e[1] \in Instances /\ e[2] \in Nat
    BY <1>3
  <2>2. CASE e[1] # j
    BY <1>1, <1>2, <2>1, <2>2 DEF QueueEntries
  <2>3. CASE e[1] = j /\ e[2] \in 1 .. n
    <3>1. e # new
      BY <1>1, <2>1, <2>3
    <3> QED
      BY <1>1, <1>2, <2>1, <2>3, <3>1 DEF QueueEntries
  <2>4. CASE e[1] = j /\ e[2] = n + 1
    <3>1. e = new /\ e[2] \notin 1 .. n /\ e[2] \in 1 .. n + 1
      BY <1>1, <2>1, <2>4
    <3> QED
      BY <1>1, <1>2, <2>1, <2>4, <3>1 DEF QueueEntries
  <2>5. CASE e[1] = j /\ e[2] \notin 1 .. n + 1
    <3>1. e # new /\ e[2] \notin 1 .. n
      BY <1>1, <2>1, <2>5
    <3> QED
      BY <1>1, <1>2, <2>1, <2>5, <3>1 DEF QueueEntries
  <2> QED
    BY <1>1, <2>1, <2>2, <2>3, <2>4, <2>5
<1>4. new \in Instances \X Nat /\ new \notin QueueEntries(t)
  BY <1>1, <1>2 DEF QueueEntries
<1>5. QueueEntries(t)' \subseteq Instances \X Nat /\ QueueEntries(t) \subseteq Instances \X Nat
  BY <1>1 DEF QueueEntries
<1>6. IsFiniteSet(QueueEntries(t))
  BY EntriesFinite
<1> HIDE DEF new
<1>7. CASE t = d
  <2>1. QueueEntries(t)' = QueueEntries(t) \cup {new}
    BY <1>3, <1>4, <1>5, <1>7
  <2> QED
    BY <1>4, <1>6, <1>7, <2>1, FS_AddElement DEF Queued
<1>8. CASE t # d
  <2>1. QueueEntries(t)' = QueueEntries(t)
    BY <1>3, <1>4, <1>5, <1>8
  <2> QED
    BY <1>8, <2>1 DEF Queued
<1> QED
  BY <1>7, <1>8

\* Taking the newest task removes one.
LEMMA LastEntryTaken ==
    ASSUME SystemInv, program' = program, NEW t \in Tasks, NEW j \in Instances,
           pendingTasks[j] # <<>>,
           pendingTasks' = [pendingTasks EXCEPT ![j] = SubSeq(@, 1, Len(@) - 1)]
    PROVE  Queued(t)' = IF t = pendingTasks[j][Len(pendingTasks[j])] THEN Queued(t) - 1 ELSE Queued(t)
<1>0. pendingTasks \in [Instances -> Seq(Tasks)]
  BY DEF SystemInv, Typed, TypeOK
<1>1. /\ pendingTasks \in [Instances -> Seq(Tasks)] /\ Instances' = Instances
      /\ Len(pendingTasks[j]) \in Nat \ {0} /\ pendingTasks[j] \in Seq(Tasks)
  BY <1>0, ProgramStays
<1> DEFINE n == Len(pendingTasks[j])
           d == pendingTasks[j][n]
           old == <<j, n>>
<1>2. /\ \A i \in Instances : i # j => pendingTasks'[i] = pendingTasks[i]
      /\ DOMAIN pendingTasks'[j] = 1 .. n - 1 /\ DOMAIN pendingTasks[j] = 1 .. n
      /\ \A k \in 1 .. n - 1 : pendingTasks'[j][k] = pendingTasks[j][k]
  BY <1>1
<1>3. ASSUME NEW e \in Instances \X Nat
      PROVE  e \in QueueEntries(t)' <=> e \in QueueEntries(t) /\ e # old
  <2>1. e = <<e[1], e[2]>> /\ e[1] \in Instances /\ e[2] \in Nat
    BY <1>3
  <2>2. CASE e[1] # j
    BY <1>1, <1>2, <2>1, <2>2 DEF QueueEntries
  <2>3. CASE e[1] = j /\ e[2] \in 1 .. n - 1
    <3>1. e # old /\ e[2] \in 1 .. n
      BY <1>1, <2>1, <2>3
    <3> QED
      BY <1>1, <1>2, <2>1, <2>3, <3>1 DEF QueueEntries
  <2>4. CASE e[1] = j /\ e[2] = n
    <3>1. e = old /\ e[2] \notin 1 .. n - 1
      BY <1>1, <2>1, <2>4
    <3> QED
      BY <1>1, <1>2, <2>1, <2>4, <3>1 DEF QueueEntries
  <2>5. CASE e[1] = j /\ e[2] \notin 1 .. n
    <3>1. e[2] \notin 1 .. n - 1
      BY <1>1, <2>1, <2>5
    <3> QED
      BY <1>1, <1>2, <2>1, <2>5, <3>1 DEF QueueEntries
  <2> QED
    BY <1>1, <2>1, <2>2, <2>3, <2>4, <2>5
<1>4. old \in QueueEntries(t) <=> t = d
  BY <1>1, <1>2 DEF QueueEntries
<1>5. QueueEntries(t)' \subseteq Instances \X Nat /\ QueueEntries(t) \subseteq Instances \X Nat
  BY <1>1 DEF QueueEntries
<1>6. IsFiniteSet(QueueEntries(t))
  BY EntriesFinite
<1> HIDE DEF old
<1>7. QueueEntries(t)' = QueueEntries(t) \ {old}
  BY <1>3, <1>5
<1> QED
  BY <1>4, <1>6, <1>7, FS_RemoveElement DEF Queued

\* And so does taking the oldest one: the others move up.
LEMMA FirstEntryTaken ==
    ASSUME SystemInv, program' = program, NEW t \in Tasks, NEW j \in Instances,
           pendingTasks[j] # <<>>,
           pendingTasks' = [pendingTasks EXCEPT ![j] = Tail(@)]
    PROVE  Queued(t)' = IF t = Head(pendingTasks[j]) THEN Queued(t) - 1 ELSE Queued(t)
<1>0. pendingTasks \in [Instances -> Seq(Tasks)]
  BY DEF SystemInv, Typed, TypeOK
<1>1. /\ pendingTasks \in [Instances -> Seq(Tasks)] /\ Instances' = Instances
      /\ Len(pendingTasks[j]) \in Nat \ {0} /\ pendingTasks[j] \in Seq(Tasks)
  BY <1>0, ProgramStays
<1> DEFINE n == Len(pendingTasks[j])
           d == Head(pendingTasks[j])
           old == <<j, 1>>
           A == QueueEntries(t)'
           B == QueueEntries(t) \ {old}
           up == [e \in A |-> IF e[1] = j THEN <<j, e[2] + 1>> ELSE e]
<1>2. /\ \A i \in Instances : i # j => pendingTasks'[i] = pendingTasks[i]
      /\ DOMAIN pendingTasks'[j] = 1 .. n - 1 /\ DOMAIN pendingTasks[j] = 1 .. n
      /\ \A k \in 1 .. n - 1 : pendingTasks'[j][k] = pendingTasks[j][k + 1]
      /\ d = pendingTasks[j][1]
  BY <1>1
<1>3. \A e : e \in A <=> /\ e \in Instances \X Nat
                         /\ e[2] \in DOMAIN pendingTasks'[e[1]] /\ pendingTasks'[e[1]][e[2]] = t
  BY <1>1 DEF QueueEntries
<1>4. \A e : e \in B <=> /\ e \in Instances \X Nat /\ e # old
                         /\ e[2] \in DOMAIN pendingTasks[e[1]] /\ pendingTasks[e[1]][e[2]] = t
  BY DEF QueueEntries
<1>5. up \in Bijection(A, B)
  <2>1. ASSUME NEW e \in A
        PROVE  up[e] \in B
    <3>1. e = <<e[1], e[2]>> /\ e[1] \in Instances /\ e[2] \in Nat
      BY <1>3, <2>1
    <3>2. CASE e[1] = j
      <4>1. e[2] \in 1 .. n - 1
        BY <1>2, <1>3, <2>1, <3>2
      <4>2. /\ up[e] = <<j, e[2] + 1>> /\ up[e] \in Instances \X Nat /\ up[e] # old
            /\ e[2] + 1 \in 1 .. n
        BY <1>1, <2>1, <3>1, <3>2, <4>1
      <4> QED
        BY <1>2, <1>3, <1>4, <2>1, <3>2, <4>1, <4>2
    <3>3. CASE e[1] # j
      BY <1>2, <1>3, <1>4, <2>1, <3>1, <3>3
    <3> QED
      BY <3>2, <3>3
  <2>2. ASSUME NEW e \in A, NEW g \in A, up[e] = up[g]
        PROVE  e = g
    <3>1. e = <<e[1], e[2]>> /\ g = <<g[1], g[2]>> /\ e[2] \in Nat /\ g[2] \in Nat
      BY <1>3, <2>2
    <3> QED
      BY <2>2, <3>1
  <2>3. ASSUME NEW h \in B
        PROVE  \E e \in A : up[e] = h
    <3>1. h = <<h[1], h[2]>> /\ h[1] \in Instances /\ h[2] \in Nat
      BY <1>4, <2>3
    <3>2. CASE h[1] = j
      <4>1. h[2] \in 1 .. n /\ h[2] # 1
        BY <1>2, <1>4, <2>3, <3>1, <3>2
      <4> DEFINE e == <<j, h[2] - 1>>
      <4>2. h[2] - 1 \in 1 .. n - 1 /\ (h[2] - 1) + 1 = h[2]
        BY <1>1, <4>1
      <4>3. e \in A
        BY <1>2, <1>3, <1>4, <2>3, <3>2, <4>2
      <4>4. up[e] = h
        BY <3>1, <3>2, <4>2, <4>3
      <4> QED
        BY <4>3, <4>4
    <3>3. CASE h[1] # j
      <4>1. h \in A
        BY <1>2, <1>3, <1>4, <2>3, <3>1, <3>3
      <4> QED
        BY <3>3, <4>1
    <3> QED
      BY <3>2, <3>3
  <2>4. up \in [A -> B]
    BY <2>1
  <2> HIDE DEF up, A, B
  <2>5. up \in Injection(A, B)
    BY <2>2, <2>4 DEF Injection, IsInjective
  <2>6. up \in Surjection(A, B)
    BY <2>3, <2>4 DEF Surjection
  <2> QED
    BY <2>5, <2>6 DEF Bijection
<1>6. old \in QueueEntries(t) <=> t = d
  BY <1>1, <1>2 DEF QueueEntries
<1>7. IsFiniteSet(QueueEntries(t))
  BY EntriesFinite
<1>8. IsFiniteSet(B) /\ Cardinality(B) = IF t = d THEN Queued(t) - 1 ELSE Queued(t)
  BY <1>6, <1>7, FS_RemoveElement DEF Queued
<1>9. Cardinality(A) = Cardinality(B)
  <2>1. \E f : f \in Bijection(A, B)
    BY <1>5
  <2>2. IsFiniteSet(B)
    BY <1>8
  <2> HIDE DEF A, B
  <2>3. \E f : f \in Bijection(B, A)
    BY <2>1, Fun_ExistsBijSymmetric DEF ExistsBijection
  <2> QED
    BY <2>1, <2>2, <2>3, FS_Bijection DEF ExistsBijection
<1> QED
  BY <1>8, <1>9 DEF Queued

-----------------------------------------------------------------------------
(***************************************************************************)
(* Each step is a step of the graph.                                       *)
(*                                                                         *)
(* In a state whose graph satisfies the invariant of TaskGraph (GraphReady),*)
(* every step on a task is one step of TaskGraph, or none.                 *)
(***************************************************************************)

\* What the steps on tasks need to know.
GraphReady == SystemInv /\ Idleness /\ Linked /\ Stepping /\ Graph!IInv

\* What the variables of the graph are for one task, one fiber, one submitter.
LEMMA GraphIs ==
    /\ \A f \in Fibers : /\ GraphFiberStates[f] = GraphFiberState(f)
                         /\ GraphSlots[f] = GraphSlot(f)
                         /\ GraphReadyArrays[f] = GraphReadyArray(f)
    /\ \A f \in Fibers : GraphFiberState(f) = "Idle" <=> fiberTask[f] = NoTask
    /\ \A t \in Tasks : /\ GraphHasFunction[t] <=> t \in SubmittedIn(program)
                        /\ GraphOwner[t] = Submitter(t)
                        /\ GraphSubmitted[t] <=> Submitted(t)
BY DEF GraphFiberStates, GraphSlots, GraphReadyArrays, GraphFiberState, GraphHasFunction,
       GraphOwner, GraphSubmitted

\* Two fibers do not have the same task.
LEMMA TasksApart ==
    ASSUME Graph!IInv, NEW f \in Fibers, NEW h \in Fibers, fiberTask[f] = fiberTask[h],
           fiberTask[f] # NoTask
    PROVE  f = h
BY GraphIs DEF Graph!IInv, Graph!FiberInv

\* A task that a fiber has is one of the program's.
LEMMA TaskOfFiber ==
    ASSUME SystemInv, Graph!IInv, NEW f \in Fibers, fiberTask[f] # NoTask
    PROVE  /\ fiberTask[f] \in Tasks /\ Submitted(fiberTask[f])
           /\ fiberTask[f] \in SubmittedIn(program)
<1>1. fiberTask[f] \in Tasks
  BY DEF SystemInv, Typed, TypeOK
<1>2. GraphSubmitted[fiberTask[f]]
  BY GraphIs DEF Graph!IInv, Graph!FiberInv
<1>3. GraphHasFunction[fiberTask[f]]
  BY <1>1, <1>2 DEF Graph!IInv, Graph!LifeInv
<1> QED
  BY <1>1, <1>2, <1>3, GraphIs

\* Who calls.
LEMMA CallerIs ==
    ASSUME GraphReady, NEW i \in Instances, IsCalling(i)
    PROVE  /\ Caller(i) \in Submitters /\ ~IsFlushing(i)
           /\ i = Helper /\ pc[i] = "Main" => Caller(i) = Main
           /\ pc[i] = "OnFiber" =>
                 /\ running[i] \in Fibers /\ Caller(i) = stack[running[i]]
                 /\ Caller(i) = fiberTask[running[i]] /\ Caller(i) \in Tasks
<1>1. CASE i = Helper /\ pc[i] = "Main"
  BY <1>1 DEF Caller, Submitters, IsFlushing
<1>2. CASE pc[i] = "OnFiber" /\ stack[running[i]] # NoTask
  <2>1. running[i] \in Fibers /\ stack \in [Fibers -> Tasks \cup {NoTask}]
    BY <1>2, OnOneFiber DEF FiberSteps, GraphReady, SystemInv, Typed, TypeOK
  <2> QED
    BY <1>2, <2>1 DEF Caller, Submitters, IsFlushing, GraphReady, Linked
<1> QED
  BY <1>1, <1>2 DEF IsCalling

\* Two threads do not execute the same function.
LEMMA CallersApart ==
    ASSUME GraphReady, NEW i \in Instances, NEW j \in Instances, IsCalling(i), IsCalling(j),
           Caller(i) = Caller(j)
    PROVE  i = j
<1>1. CASE pc[i] = "OnFiber" /\ pc[j] = "OnFiber"
  <2>1. running[i] = running[j]
    BY <1>1, CallerIs, TasksApart, NamesAssumption DEF GraphReady, Submitters
  <2> QED
    BY <1>1, <2>1, AloneOnFiber DEF GraphReady, FiberSteps
<1>2. CASE pc[i] # "OnFiber" \/ pc[j] # "OnFiber"
  BY <1>2, CallerIs, NamesAssumption DEF IsCalling
<1> QED
  BY <1>1, <1>2

\* A thread that dispatches a task calls, unless it is the main thread in the flush.
LEMMA DispatcherCalls ==
    ASSUME Stepping, NEW j \in Instances, dispatching[j] # NoTask, ~IsFlushing(j)
    PROVE  IsCalling(j)
BY DEF Stepping, SteppingOf

\* So the graph sees what every caller dispatches.
LEMMA DispatchIs ==
    ASSUME GraphReady, NEW i \in Instances, IsCalling(i)
    PROVE  GraphDispatching[Caller(i)] = dispatching[i]
<1>1. Caller(i) \in Submitters /\ ~IsFlushing(i)
  BY CallerIs
<1>2. DispatchedBy(Caller(i)) = {dispatching[i]} \ {NoTask}
  <2>1. ASSUME NEW j \in Instances, Caller(j) = Caller(i), ~IsFlushing(j), dispatching[j] # NoTask
        PROVE  j = i
    BY <2>1, CallersApart, DispatcherCalls DEF GraphReady
  <2> QED
    BY <1>1, <2>1 DEF DispatchedBy
<1> QED
  BY <1>1, <1>2, TheOnlyOne DEF GraphDispatching

\* A caller enters or leaves the dispatcher, and no other does.
LEMMA DispatchChange ==
    ASSUME GraphReady, program' = program, NEW i \in Instances, IsCalling(i),
           UNCHANGED <<pc, running, stack>>, NEW x \in Tasks \cup {NoTask},
           dispatching' = [dispatching EXCEPT ![i] = x]
    PROVE  GraphDispatching' = [GraphDispatching EXCEPT ![Caller(i)] = x]
<1>1. Caller(i) \in Submitters /\ ~IsFlushing(i)
  BY CallerIs
<1>2. /\ \A j \in Instances : Caller(j)' = Caller(j) /\ (IsFlushing(j)' <=> IsFlushing(j))
      /\ Instances' = Instances /\ dispatching'[i] = x
      /\ \A j \in Instances : j # i => dispatching'[j] = dispatching[j]
  BY ProgramStays DEF Caller, IsFlushing, GraphReady, SystemInv, Typed, TypeOK
<1>3. ASSUME NEW j \in Instances, Caller(j) = Caller(i), ~IsFlushing(j), j # i
      PROVE  dispatching[j] = NoTask
  BY <1>3, CallersApart, DispatcherCalls DEF GraphReady
<1>4. DispatchedBy(Caller(i))' = {x} \ {NoTask}
  <2> DEFINE c == Caller(i)
  <2>1. c' = c
    BY <1>2
  <2>2. DispatchedBy(Caller(i))' =
          {dispatching'[j] : j \in {j \in Instances : Caller(j) = c /\ ~IsFlushing(j)}} \ {NoTask}
    BY <1>2, <2>1 DEF DispatchedBy
  <2>3. \A j \in Instances : Caller(j) = c /\ ~IsFlushing(j) /\ j # i => dispatching'[j] = NoTask
    BY <1>2, <1>3
  <2> HIDE DEF c
  <2> QED
    BY <1>1, <1>2, <2>2, <2>3 DEF c
<1>5. ASSUME NEW c \in Submitters, c # Caller(i) PROVE DispatchedBy(c)' = DispatchedBy(c)
  BY <1>2, <1>5 DEF DispatchedBy
<1>6. ASSUME NEW c \in Submitters
      PROVE  GraphDispatching'[c] = IF c = Caller(i) THEN x ELSE GraphDispatching[c]
  <2>1. CASE c = Caller(i)
    <3>1. DispatchedBy(c)' = {x} \ {NoTask}
      BY <1>2, <1>4, <2>1
    <3> QED
      BY <2>1, <3>1, TheOnlyOne DEF GraphDispatching
  <2>2. CASE c # Caller(i)
    BY <1>5, <2>2 DEF GraphDispatching
  <2> QED
    BY <2>1, <2>2
<1> QED
  BY <1>1, <1>6 DEF GraphDispatching

\* A step on none of the fibers.
LEMMA FibersSame ==
    ASSUME program' = program,
           UNCHANGED <<numberOfChildTasks, fiberTask, stack, pc, running, index, readyArray>>
    PROVE  UNCHANGED <<GraphFiberStates, GraphSlots, GraphReadyArrays, GraphWaits,
                       GraphExecutions>>
<1>1. ASSUME NEW h \in Fibers
      PROVE  /\ GraphFiberState(h)' = GraphFiberState(h)
             /\ GraphSlot(h)' = GraphSlot(h)
             /\ GraphReadyArray(h)' = GraphReadyArray(h)
  BY FiberFrame DEF SameOn
<1>2. UNCHANGED <<GraphFiberStates, GraphSlots, GraphReadyArrays>>
  BY <1>1 DEF GraphFiberStates, GraphSlots, GraphReadyArrays
<1>3. GraphWaits' = GraphWaits
  <2>1. \A p : IsFinished(p)' <=> IsFinished(p)
    BY DEF IsFinished
  <2>2. \A p \in Tasks, s \in Slots : HasToNotify(p, s)' <=> HasToNotify(p, s)
    BY <1>2, <2>1, NotifySame
  <2> QED
    BY <2>2, WaitsSame
<1> QED
  BY <1>2, <1>3, ExecutionsSame

\* The waits do not change with a fiber that has nobody to notify.
LEMMA NotUpdating ==
    ASSUME program' = program, NEW f \in Fibers,
           \A p \in Tasks : IsFinished(p)' <=> IsFinished(p),
           \A h \in Fibers : h # f =>
               /\ fiberTask'[h] = fiberTask[h] /\ GraphFiberState(h)' = GraphFiberState(h)
               /\ GraphSlot(h)' = GraphSlot(h),
           GraphFiberState(f) = "Updating" => \A s \in Slots : ~(GraphSlot(f) <= s),
           GraphFiberState(f)' # "Updating"
    PROVE  GraphWaits' = GraphWaits
<1>1. ASSUME NEW p \in Tasks, NEW s \in Slots
      PROVE  HasToNotify(p, s)' <=> HasToNotify(p, s)
  BY DEF HasToNotify
<1> QED
  BY <1>1, WaitsSame

\* What the graph shows of the pending queues and of the fibers that threads are on, in
\* every state of the system.
PendingCounts ==
    \A t \in Tasks :
        /\ GraphPending[t] =
             Queued(t) + IF IsFlushing(Helper) /\ dispatching[Helper] = t THEN 1 ELSE 0
        /\ Queued(t) \in Nat

\* The graph of the fibers, of the threads on them.
FiberViews ==
    /\ \A i \in Instances : pc[i] \in FiberSteps =>
           /\ pc[i] = "Update" => GraphFiberState(running[i]) = "Updating"
           /\ pc[i] = "Add" => GraphFiberState(running[i]) = "Adding"
           /\ pc[i] \notin {"Update", "Add"} =>
                 /\ GraphFiberState(running[i])
                       = IF stack[running[i]] = NoTask THEN "Starting" ELSE "Running"
                 /\ GraphSlot(running[i]) = 0 /\ GraphReadyArray(running[i]) = NothingReady
           /\ pc[i] \in {"Update", "Add"} =>
                 /\ GraphSlot(running[i]) = index[i]
                 /\ GraphReadyArray(running[i]) = readyArray[i]
    /\ \A f \in Fibers : fiberTask[f] = NoTask =>
           GraphFiberState(f) = "Idle" /\ GraphSlot(f) = 0 /\ GraphReadyArray(f) = NothingReady

\* These views hold in every state that the types allow,
LEMMA ViewsOfTheSystem == SystemInv => PendingCounts /\ FiberViews
<1> SUFFICES ASSUME SystemInv PROVE PendingCounts /\ FiberViews
  OBVIOUS
<1>1. PendingCounts
  BY PendingIs DEF PendingCounts, Queued
<1>2. FiberViews
  <2>1. ASSUME NEW i \in Instances, pc[i] \in FiberSteps
        PROVE  /\ pc[i] = "Update" => GraphFiberState(running[i]) = "Updating"
               /\ pc[i] = "Add" => GraphFiberState(running[i]) = "Adding"
               /\ pc[i] \notin {"Update", "Add"} =>
                     /\ GraphFiberState(running[i])
                           = IF stack[running[i]] = NoTask THEN "Starting" ELSE "Running"
                     /\ GraphSlot(running[i]) = 0 /\ GraphReadyArray(running[i]) = NothingReady
               /\ pc[i] \in {"Update", "Add"} =>
                     /\ GraphSlot(running[i]) = index[i]
                     /\ GraphReadyArray(running[i]) = readyArray[i]
    BY <2>1, FiberView
  <2> HIDE DEF FiberSteps
  <2> QED
    BY <2>1, IdleView DEF FiberViews
<1> QED
  BY <1>1, <1>2

\* and after every step.
LEMMA ViewsOfTheNextState == SystemInv' => PendingCounts' /\ FiberViews'
BY ViewsOfTheSystem, PTL

\* A task more or less in the queues.
LEMMA PendingChange ==
    ASSUME SystemInv, SystemInv', program' = program, NEW d \in Tasks, NEW n \in Int,
           \A t \in Tasks :
              Queued(t)' + (IF IsFlushing(Helper)' /\ dispatching'[Helper] = t THEN 1 ELSE 0)
                = Queued(t) + (IF IsFlushing(Helper) /\ dispatching[Helper] = t THEN 1 ELSE 0)
                    + IF t = d THEN n ELSE 0
    PROVE  GraphPending' = [GraphPending EXCEPT ![d] = @ + n]
<1>1. PendingCounts /\ PendingCounts'
  BY ViewsOfTheSystem, ViewsOfTheNextState
<1>2. ASSUME NEW t \in Tasks
      PROVE  GraphPending'[t] = IF t = d THEN GraphPending[d] + n ELSE GraphPending[t]
  <2>1. Helper' = Helper
    BY DEF Helper
  <2>2. GraphPending'[t] = Queued(t)' + IF IsFlushing(Helper)' /\ dispatching'[Helper] = t THEN 1 ELSE 0
    BY <1>1, <2>1 DEF PendingCounts
  <2>3. /\ GraphPending[t] = Queued(t) + IF IsFlushing(Helper) /\ dispatching[Helper] = t THEN 1 ELSE 0
        /\ Queued(t) \in Nat
    BY <1>1 DEF PendingCounts
  <2> QED
    BY <2>2, <2>3
<1> QED
  BY <1>2 DEF GraphPending

\* AddTask and the flush.
LEMMA DispatchTaskGraph ==
    ASSUME GraphReady, SystemInv', program' = program, NEW i \in Instances, DispatchTask(i),
           IsCalling(i)
    PROVE  Graph!DispatchTask(Caller(i)) /\ Caller(i) \in Submitters
<1> USE DEF taskVars, fiberVars, instanceVars, stepVars, dispatchVars, threadVars
<1> DEFINE c == Caller(i)
           d == dispatching[i]
<1>1. c \in Submitters /\ ~IsFlushing(i) /\ GraphDispatching[c] = d
  BY CallerIs, DispatchIs
<1>2. d \in Tasks /\ d # NoTask
  BY DEF GraphReady, SystemInv, Typed, TypeOK, DispatchTask
<1>3. PICK j \in Instances : pendingTasks' = [pendingTasks EXCEPT ![j] = Append(@, d)]
  BY DEF DispatchTask, Targets, Instances
<1>4. /\ dispatching' = [dispatching EXCEPT ![i] = NoTask]
      /\ UNCHANGED <<pc, running, stack, numberOfChildTasks, fiberTask, index, readyArray, progress>>
  BY DEF DispatchTask
<1>5. GraphDispatching' = [GraphDispatching EXCEPT ![c] = NoTask]
  BY <1>4, DispatchChange
<1>6. GraphPending' = [GraphPending EXCEPT ![d] = @ + 1]
  <2>1. ASSUME NEW t \in Tasks
        PROVE  Queued(t)' + (IF IsFlushing(Helper)' /\ dispatching'[Helper] = t THEN 1 ELSE 0)
                = Queued(t) + (IF IsFlushing(Helper) /\ dispatching[Helper] = t THEN 1 ELSE 0)
                    + IF t = d THEN 1 ELSE 0
    <3>1. Queued(t)' = IF t = d THEN Queued(t) + 1 ELSE Queued(t)
      BY <1>2, <1>3, EntryAdded DEF GraphReady
    <3>2. IsFlushing(Helper)' <=> IsFlushing(Helper)
      BY <1>4 DEF IsFlushing
    <3>3. IsFlushing(Helper) => dispatching'[Helper] = dispatching[Helper]
      BY <1>1, <1>4
    <3>4. Queued(t) \in Nat
      BY ViewsOfTheSystem DEF PendingCounts, GraphReady
    <3> QED
      BY <3>1, <3>2, <3>3, <3>4
  <2> QED
    BY <1>2, <2>1, PendingChange DEF GraphReady
<1>7. UNCHANGED <<GraphFiberStates, GraphSlots, GraphReadyArrays, GraphWaits, GraphExecutions>>
  BY <1>4, FibersSame
<1>8. UNCHANGED <<GraphHasFunction, GraphOwner, Dependants, GraphSubmitted>>
  BY <1>4, ProgramGraph, SubmittedSame
<1> HIDE DEF c, d
<1> QED
  BY <1>1, <1>2, <1>4, <1>5, <1>6, <1>7, <1>8 DEF Graph!DispatchTask, Graph!fiberVars, c, d

\* The flush puts a task back into another queue: the graph does not change.
LEMMA FlushDispatchGraph ==
    ASSUME GraphReady, SystemInv', program' = program, NEW i \in Instances, DispatchTask(i),
           IsFlushing(i)
    PROVE  UNCHANGED Graph!vars
<1> USE DEF taskVars, fiberVars, instanceVars, stepVars, dispatchVars, threadVars
<1> DEFINE d == dispatching[i]
<1>1. i = Helper /\ pc[Helper] = "FlushTasks"
  BY DEF IsFlushing
<1>2. d \in Tasks /\ d # NoTask
  BY DEF GraphReady, SystemInv, Typed, TypeOK, DispatchTask
<1>3. PICK j \in Instances : pendingTasks' = [pendingTasks EXCEPT ![j] = Append(@, d)]
  BY DEF DispatchTask, Targets, Instances
<1>4. /\ dispatching' = [dispatching EXCEPT ![i] = NoTask]
      /\ dispatching'[i] = NoTask /\ \A k \in Instances : k # i => dispatching'[k] = dispatching[k]
      /\ UNCHANGED <<pc, running, stack, numberOfChildTasks, fiberTask, index, readyArray, progress>>
  BY DEF DispatchTask, GraphReady, SystemInv, Typed, TypeOK
<1>5. GraphDispatching' = GraphDispatching
  <2>1. ASSUME NEW c \in Submitters PROVE DispatchedBy(c)' = DispatchedBy(c)
    <3>1. /\ \A k \in Instances : Caller(k)' = Caller(k) /\ (IsFlushing(k)' <=> IsFlushing(k))
          /\ Instances' = Instances
      BY <1>4, ProgramStays DEF Caller, IsFlushing
    <3> QED
      BY <1>4, <3>1 DEF DispatchedBy
  <2> QED
    BY <2>1 DEF GraphDispatching
<1>6. GraphPending' = [GraphPending EXCEPT ![d] = @ + 0]
  <2>1. ASSUME NEW t \in Tasks
        PROVE  Queued(t)' + (IF IsFlushing(Helper)' /\ dispatching'[Helper] = t THEN 1 ELSE 0)
                = Queued(t) + (IF IsFlushing(Helper) /\ dispatching[Helper] = t THEN 1 ELSE 0)
                    + IF t = d THEN 0 ELSE 0
    <3>1. Queued(t)' = IF t = d THEN Queued(t) + 1 ELSE Queued(t)
      BY <1>2, <1>3, EntryAdded DEF GraphReady
    <3>2. Queued(t) \in Nat
      BY ViewsOfTheSystem DEF PendingCounts, GraphReady
    <3>3. t # NoTask
      BY NamesAssumption DEF Submitters
    <3> QED
      BY <1>1, <1>4, <3>1, <3>2, <3>3
  <2> QED
    BY <1>2, <2>1, PendingChange DEF GraphReady
<1>7. GraphPending' = GraphPending
  <2>1. GraphPending \in [Tasks -> Nat]
    BY DEF GraphReady, Graph!IInv, Graph!TypeOK
  <2> QED
    BY <1>2, <1>6, <2>1
<1>8. UNCHANGED <<GraphFiberStates, GraphSlots, GraphReadyArrays, GraphWaits, GraphExecutions>>
  BY <1>4, FibersSame
<1>9. UNCHANGED <<GraphHasFunction, GraphOwner, Dependants, GraphSubmitted>>
  BY <1>4, ProgramGraph, SubmittedSame
<1> QED
  BY <1>4, <1>5, <1>7, <1>8, <1>9 DEF Graph!vars, Graph!clientVars, Graph!fiberVars

\* The flush takes a task from the helper queue: it stays pending.
LEMMA FlushTaskGraph ==
    ASSUME GraphReady, SystemInv', program' = program, FlushTask
    PROVE  UNCHANGED Graph!vars
<1> USE DEF taskVars, fiberVars, instanceVars, stepVars, dispatchVars, threadVars
<1> DEFINE queue == pendingTasks[Helper]
           d == queue[Len(queue)]
<1>1. /\ IsFlushing(Helper) /\ dispatching[Helper] = NoTask /\ queue # <<>>
      /\ Helper \in Instances
  BY HelperFacts DEF FlushTask, At, InDispatcher, IsFlushing, GraphReady
<1>2. d \in Tasks /\ d # NoTask
  <2>1. queue \in Seq(Tasks)
    BY <1>1 DEF GraphReady, SystemInv, Typed, TypeOK
  <2> QED
    BY <1>1, <2>1, LastAndRest, NamesAssumption DEF Submitters
<1>3. pendingTasks' = [pendingTasks EXCEPT ![Helper] = SubSeq(@, 1, Len(@) - 1)]
  BY DEF FlushTask
<1>4. /\ dispatching'[Helper] = d
      /\ \A k \in Instances : k # Helper => dispatching'[k] = dispatching[k]
      /\ UNCHANGED <<pc, running, stack, numberOfChildTasks, fiberTask, index, readyArray, progress>>
  BY <1>1 DEF FlushTask, GraphReady, SystemInv, Typed, TypeOK
<1>5. GraphDispatching' = GraphDispatching
  <2>1. ASSUME NEW c \in Submitters PROVE DispatchedBy(c)' = DispatchedBy(c)
    <3>1. /\ \A k \in Instances : Caller(k)' = Caller(k) /\ (IsFlushing(k)' <=> IsFlushing(k))
          /\ Instances' = Instances
      BY <1>4, ProgramStays DEF Caller, IsFlushing
    <3> QED
      BY <1>1, <1>4, <3>1 DEF DispatchedBy
  <2> QED
    BY <2>1 DEF GraphDispatching
<1>6. GraphPending' = [GraphPending EXCEPT ![d] = @ + 0]
  <2>1. ASSUME NEW t \in Tasks
        PROVE  Queued(t)' + (IF IsFlushing(Helper)' /\ dispatching'[Helper] = t THEN 1 ELSE 0)
                = Queued(t) + (IF IsFlushing(Helper) /\ dispatching[Helper] = t THEN 1 ELSE 0)
                    + IF t = d THEN 0 ELSE 0
    <3>1. Queued(t)' = IF t = d THEN Queued(t) - 1 ELSE Queued(t)
      BY <1>1, <1>3, LastEntryTaken DEF GraphReady
    <3>2. Queued(t) \in Nat
      BY ViewsOfTheSystem DEF PendingCounts, GraphReady
    <3>3. t # NoTask
      BY NamesAssumption DEF Submitters
    <3>4. IsFlushing(Helper)'
      BY <1>1, <1>4 DEF IsFlushing
    <3> HIDE DEF queue, d
    <3> QED
      BY <1>1, <1>4, <3>1, <3>2, <3>3, <3>4
  <2> QED
    BY <1>2, <2>1, PendingChange DEF GraphReady
<1>7. GraphPending' = GraphPending
  <2>1. GraphPending \in [Tasks -> Nat]
    BY DEF GraphReady, Graph!IInv, Graph!TypeOK
  <2> QED
    BY <1>2, <1>6, <2>1
<1>8. UNCHANGED <<GraphFiberStates, GraphSlots, GraphReadyArrays, GraphWaits, GraphExecutions>>
  BY <1>4, FibersSame
<1>9. UNCHANGED <<GraphHasFunction, GraphOwner, Dependants, GraphSubmitted>>
  BY <1>4, ProgramGraph, SubmittedSame
<1> QED
  BY <1>4, <1>5, <1>7, <1>8, <1>9 DEF Graph!vars, Graph!clientVars, Graph!fiberVars

\* The order in which the program submits its tasks.
Known ==
    /\ \A t \in Tasks \ SubmittedIn(program) : Dependants[t] = NothingReady
    /\ \E known \in [Tasks -> SUBSET Tasks] :
          /\ IsOrdered(program, known)
          /\ \A c \in Tasks : Submitted(c) => \A t \in known[c] : Submitted(t)

\* The next task of a submitter.
LEMMA NextTask ==
    ASSUME SystemInv, NEW c \in Submitters, progress[c] < Len(Submits[c])
    PROVE  LET k == progress[c] + 1
               t == Submits[c][k]
           IN  /\ k \in DOMAIN Submits[c] /\ t \in Tasks /\ t \in SubmittedIn(program)
               /\ Submitter(t) = c /\ ~Submitted(t)
<1> DEFINE k == progress[c] + 1
           t == Submits[c][k]
<1>1. /\ program \in Programs /\ progress \in [Submitters -> Nat]
      /\ \A d \in Submitters : progress[d] \in 0 .. Len(Submits[d])
  BY DEF SystemInv, Typed, TypeOK
<1>2. /\ \A d \in Submitters : Submits[d] \in Seq(Tasks) /\ Len(Submits[d]) \in Nat
                               /\ DOMAIN Submits[d] = 1 .. Len(Submits[d])
      /\ NothingTwice(program)
  BY <1>1, ProgramsAssumption DEF Submits
<1>3. k \in DOMAIN Submits[c] /\ t \in Tasks
  BY <1>1, <1>2
<1>4. t \in SubmittedIn(program)
  BY <1>3 DEF SubmittedIn, Submits
<1>5. \A d \in Submitters : \A j \in DOMAIN Submits[d] : Submits[d][j] = t => d = c /\ j = k
  BY <1>2, <1>3 DEF NothingTwice, Submits
<1>6. {d \in Submitters : \E j \in DOMAIN Submits[d] : Submits[d][j] = t} = {c}
  BY <1>3, <1>5
<1>7. Submitter(t) = c
  BY <1>4, <1>6, TheOnlyOne DEF Submitter
<1>8. ~Submitted(t)
  BY <1>1, <1>2, <1>5 DEF Submitted
<1> QED
  BY <1>3, <1>4, <1>7, <1>8

\* Submitting it changes only whether it is submitted.
LEMMA SubmittedNext ==
    ASSUME SystemInv, program' = program, NEW c \in Submitters, progress[c] < Len(Submits[c]),
           progress' = [progress EXCEPT ![c] = @ + 1], NEW u
    PROVE  Submitted(u)' <=> Submitted(u) \/ u = Submits[c][progress[c] + 1]
<1>1. progress \in [Submitters -> Nat] /\ Submits' = Submits
  BY ProgramStays DEF SystemInv, Typed, Submits
<1>2. \A d \in Submitters : progress'[d] = IF d = c THEN progress[c] + 1 ELSE progress[d]
  BY <1>1
<1>3. 1 .. progress[c] + 1 = (1 .. progress[c]) \cup {progress[c] + 1}
  BY <1>1
<1> QED
  BY <1>1, <1>2, <1>3 DEF Submitted

\* A submitter that calls has been submitted itself.
LEMMA KnownSubmitted ==
    ASSUME GraphReady, NEW i \in Instances, IsCalling(i), NEW c, c = Caller(i),
           NEW known, \A u \in Tasks : Submitted(u) => \A t \in known[u] : Submitted(t),
           progress[c] < Len(Submits[c]),
           NEW d \in KnownBefore(program, known, c, progress[c] + 1)
    PROVE  Submitted(d)
<1>1. c \in Submitters /\ (c = Main \/ (c \in Tasks /\ Submitted(c)))
  <2>1. CASE i = Helper /\ pc[i] = "Main"
    BY <2>1, CallerIs
  <2>2. CASE pc[i] = "OnFiber"
    BY <2>2, CallerIs, TaskOfFiber, NamesAssumption DEF GraphReady, Submitters
  <2> QED
    BY <2>1, <2>2, CallerIs DEF IsCalling
<1>2. CASE c # Main /\ d \in known[c]
  BY <1>1, <1>2
<1>3. CASE d \in {Submits[c][j] : j \in 1 .. (progress[c] + 1) - 1}
  <2>1. progress[c] \in Nat
    BY <1>1 DEF GraphReady, SystemInv, Typed
  <2> QED
    BY <1>1, <1>3, <2>1 DEF Submitted
<1> QED
  BY <1>2, <1>3 DEF KnownBefore, Submits

\* A submission is a submission of the graph.
LEMMA SubmitTaskGraph ==
    ASSUME GraphReady, Known, program' = program, NEW i \in Instances, IsCalling(i),
           NEW c, c = Caller(i), SubmitNext(c, i), ~InDispatcher(i)
    PROVE  c \in Submitters /\ \E t \in Tasks : Graph!SubmitTask(c, t)
<1> USE DEF taskVars, fiberVars, instanceVars, stepVars, dispatchVars, threadVars
<1> DEFINE k == progress[c] + 1
           t == Submits[c][k]
<1>1. c \in Submitters /\ GraphDispatching[c] = NoTask /\ dispatching[i] = NoTask
  BY CallerIs, DispatchIs DEF InDispatcher
<1>2. /\ progress[c] < Len(Submits[c]) /\ progress' = [progress EXCEPT ![c] = @ + 1]
      /\ dispatching' = [dispatching EXCEPT ![i] = IF IsReadyToBeExecuted(t) THEN t ELSE NoTask]
      /\ UNCHANGED <<pc, running, stack, numberOfChildTasks, fiberTask, index, readyArray,
                     pendingTasks>>
  BY <1>1 DEF SubmitNext
<1>3. /\ k \in DOMAIN Submits[c] /\ t \in Tasks /\ t \in SubmittedIn(program)
      /\ Submitter(t) = c /\ ~Submitted(t)
  BY <1>1, <1>2, NextTask DEF GraphReady
<1> HIDE DEF t
<1>4. GraphDispatching' =
        [GraphDispatching EXCEPT ![c] = IF Graph!IsReadyToBeExecuted(t) THEN t ELSE @]
  <2> DEFINE x == IF IsReadyToBeExecuted(t) THEN t ELSE NoTask
  <2>1. x \in Tasks \cup {NoTask}
    BY <1>3
  <2>2. dispatching' = [dispatching EXCEPT ![i] = x]
    BY <1>2
  <2> HIDE DEF x
  <2>3. GraphDispatching' = [GraphDispatching EXCEPT ![c] = x]
    BY <1>2, <2>1, <2>2, DispatchChange
  <2> QED
    BY <1>1, <2>3 DEF x, IsReadyToBeExecuted, Graph!IsReadyToBeExecuted
<1>5. GraphSubmitted' = [GraphSubmitted EXCEPT ![t] = TRUE]
  <2>1. \A u \in Tasks : Submitted(u)' <=> Submitted(u) \/ u = t
    BY <1>1, <1>2, SubmittedNext DEF GraphReady, t
  <2>2. \A u \in Tasks : Submitted(u)' \in BOOLEAN /\ Submitted(u) \in BOOLEAN
    BY DEF Submitted
  <2> QED
    BY <2>1, <2>2, ProgramStays DEF GraphSubmitted
<1>6. GraphPending' = GraphPending
  <2>1. ASSUME NEW u \in Tasks PROVE PendingEntries(u)' = PendingEntries(u)
    <3>1. /\ \A j \in Instances : IsFlushing(j)' <=> IsFlushing(j)
          /\ \A j \in Instances : IsFlushing(j) => dispatching'[j] = dispatching[j]
          /\ Instances' = Instances
      BY <1>2, CallerIs, ProgramStays DEF IsFlushing, GraphReady, SystemInv, Typed, TypeOK
    <3> QED
      BY <1>2, <3>1 DEF PendingEntries
  <2> QED
    BY <2>1 DEF GraphPending
<1>7. UNCHANGED <<GraphFiberStates, GraphSlots, GraphReadyArrays, GraphWaits, GraphExecutions>>
  BY <1>2, FibersSame
<1>8. UNCHANGED <<GraphHasFunction, GraphOwner, Dependants>>
  BY ProgramGraph
<1>9. Graph!MaySubmit(t)
  <2>1. PICK known \in [Tasks -> SUBSET Tasks] :
           /\ IsOrdered(program, known)
           /\ \A u \in Tasks : Submitted(u) => \A d \in known[u] : Submitted(d)
    BY DEF Known
  <2>2. ASSUME NEW d \in Tasks, Graph!HasDependant(t, d) PROVE Submitted(d)
    <3>1. d # NoTask /\ d \in {program.dependants[t][s] : s \in Slots} \ {NoTask}
      BY <2>2, NamesAssumption DEF Graph!HasDependant, Graph!Slots, Slots, Dependants, Submitters
    <3>2. d \in KnownBefore(program, known, c, k)
      BY <1>1, <1>3, <2>1, <3>1 DEF IsOrdered, t, Submits
    <3> QED
      BY <1>2, <2>1, <3>2, KnownSubmitted
  <2>3. ASSUME NEW d \in Tasks, Submitted(d) PROVE GraphHasFunction[d] /\ GraphSubmitted[d]
    BY <2>3, GraphIs DEF GraphReady, Graph!IInv, Graph!LifeInv
  <2> QED
    BY <2>2, <2>3 DEF Graph!MaySubmit
<1>10. Graph!MayBuild(c, t) /\ GraphHasFunction[t]
  BY <1>1, <1>3, GraphIs DEF Graph!MayBuild, Graph!Calls
<1>11. Graph!SubmitTask(c, t)
  BY <1>2, <1>4, <1>5, <1>6, <1>7, <1>8, <1>9, <1>10 DEF Graph!SubmitTask, Graph!fiberVars
<1> QED
  BY <1>1, <1>3, <1>11

\* The order stays known.
LEMMA KnownStep ==
    ASSUME GraphReady, Known, program' = program, 
           \/ progress' = progress
           \/ \E i \in Instances : /\ IsCalling(i)
                                   /\ SubmitNext(Caller(i), i)
    PROVE  Known'
<1>0. PICK known \in [Tasks -> SUBSET Tasks] :
           /\ IsOrdered(program, known)
           /\ \A u \in Tasks : Submitted(u) => \A d \in known[u] : Submitted(d)
  BY DEF Known
<1>1. /\ IsOrdered(program, known)'
      /\ \A t \in Tasks \ SubmittedIn(program)' : Dependants'[t] = NothingReady
  BY <1>0, ProgramStays DEF Known, Dependants
<1>2. ASSUME NEW u \in Tasks, Submitted(u)', NEW d \in known[u] PROVE Submitted(d)'
  <2>1. CASE progress' = progress
    BY <1>0, <1>2, <2>1 DEF Submitted, Submits
  <2>2. CASE \E i \in Instances : IsCalling(i) /\ SubmitNext(Caller(i), i)
    <3>1. PICK i \in Instances : IsCalling(i) /\ SubmitNext(Caller(i), i)
      BY <2>2
    <3> DEFINE c == Caller(i)
               t == Submits[c][progress[c] + 1]
    <3>2. c \in Submitters /\ progress[c] < Len(Submits[c]) /\ progress' = [progress EXCEPT ![c] = @ + 1]
      BY <3>1, CallerIs DEF SubmitNext
    <3> HIDE DEF c
    <3>3. \A x : Submitted(x)' <=> Submitted(x) \/ x = t
      BY <3>2, SubmittedNext DEF GraphReady
    <3>4. CASE Submitted(u)
      BY <1>0, <1>2, <3>3, <3>4
    <3>5. CASE u = t
      <4>1. progress[c] + 1 \in DOMAIN Submits[c]
        BY <3>2, NextTask DEF GraphReady
      <4>2. d \in KnownBefore(program, known, c, progress[c] + 1)
        BY <1>0, <1>2, <3>2, <3>5, <4>1 DEF IsOrdered, Submits
      <4> QED
        BY <1>0, <3>1, <3>2, <3>3, <4>2, KnownSubmitted DEF c
    <3> QED
      BY <1>2, <3>3, <3>4, <3>5
  <2> QED
    BY <2>1, <2>2
<1> QED
  BY <1>0, <1>1, <1>2 DEF Known

\* No step on a fiber disturbs what callers dispatch.
LEMMA DispatchKept ==
    ASSUME program' = program, UNCHANGED <<dispatching, stack>>, NEW i \in Instances,
           dispatching[i] = NoTask,
           \A j \in Instances : j # i => pc'[j] = pc[j] /\ running'[j] = running[j]
    PROVE  GraphDispatching' = GraphDispatching
BY DispatchingSame DEF Caller, IsFlushing

\* An instance gives a queued task to its current fiber.
LEMMA TakeTaskGraph ==
    ASSUME GraphReady, SystemInv', program' = program, NEW i \in Instances,
           TakeOwnTask(i) \/ StealTask(i)
    PROVE  \E f \in Fibers : \E t \in Tasks : Graph!TakeTask(f, t)
<1> USE DEF taskVars, fiberVars, instanceVars, stepVars, dispatchVars, threadVars
<1>0. /\ running \in [Instances -> Fibers \cup {NoFiber}] /\ pc \in [Instances -> AllSteps]
      /\ currentFiber \in [Instances -> Fibers]
      /\ fiberTask \in [Fibers -> Tasks \cup {NoTask}]
      /\ pendingTasks \in [Instances -> Seq(Tasks)]
  BY DEF GraphReady, SystemInv, Typed, TypeOK
<1>f. PICK f \in Fibers : f = currentFiber[i]
  BY <1>0
<1>1. \E t \in Tasks : /\ pc[i] \in {"Take", "Steal"} /\ Execute(i, t)
                       /\ \A u \in Tasks : Queued(u)' = IF u = t THEN Queued(t) - 1 ELSE Queued(u)
  <2>1. CASE TakeOwnTask(i)
    <3>1. pendingTasks[i] \in Seq(Tasks) /\ pendingTasks[i] # <<>>
      BY <1>0, <2>1 DEF TakeOwnTask
    <3> DEFINE t == pendingTasks[i][Len(pendingTasks[i])]
    <3>2. t \in Tasks
      BY <3>1, LastAndRest
    <3>3. \A u \in Tasks : Queued(u)' = IF u = t THEN Queued(u) - 1 ELSE Queued(u)
      BY <2>1, <3>1, LastEntryTaken DEF TakeOwnTask, GraphReady
    <3>4. pc[i] = "Take" /\ Execute(i, t)
      BY <2>1 DEF TakeOwnTask
    <3> HIDE DEF t
    <3> QED
      BY <3>2, <3>3, <3>4
  <2>2. CASE StealTask(i)
    <3>1. pendingTasks[Victim(i)] \in Seq(Tasks) /\ pendingTasks[Victim(i)] # <<>>
          /\ Victim(i) \in Instances
      BY <1>0, <2>2, VictimIsAnInstance DEF StealTask, GraphReady
    <3> DEFINE t == Head(pendingTasks[Victim(i)])
    <3>2. t \in Tasks
      BY <3>1, HeadTailProperties
    <3>3. \A u \in Tasks : Queued(u)' = IF u = t THEN Queued(u) - 1 ELSE Queued(u)
      BY <2>2, <3>1, FirstEntryTaken DEF StealTask, GraphReady
    <3>4. pc[i] = "Steal" /\ Execute(i, t)
      BY <2>2 DEF StealTask
    <3> HIDE DEF t
    <3> QED
      BY <3>2, <3>3, <3>4
  <2> QED
    BY <2>1, <2>2
<1>2. PICK t \in Tasks : /\ pc[i] \in {"Take", "Steal"} /\ Execute(i, t)
                         /\ \A u \in Tasks : Queued(u)' = IF u = t THEN Queued(t) - 1 ELSE Queued(u)
  BY <1>1
<1>3. /\ running[i] = NoFiber /\ f # NoFiber /\ fiberTask[f] = NoTask
      /\ stack[f] = NoTask /\ dispatching[i] = NoTask
  BY <1>0, <1>f, <1>2, NotDispatching, NamesAssumption
     DEF GraphReady, Linked, SystemInv, Contents, FiberSteps
<1>4. /\ pc'[i] = "OnFiber" /\ running'[i] = f /\ fiberTask' = [fiberTask EXCEPT ![f] = t]
      /\ \A j \in Instances : j # i => pc'[j] = pc[j] /\ running'[j] = running[j]
      /\ UNCHANGED <<numberOfChildTasks, progress, stack, index, readyArray, dispatching>>
  BY <1>0, <1>f, <1>2 DEF Execute, GoTo, TakeOwnTask, StealTask
<1>4a. index' = index
  BY DEF TakeOwnTask, StealTask
<1>5. /\ GraphFiberState(f) = "Idle" /\ GraphSlot(f) = 0 /\ GraphReadyArray(f) = NothingReady
      /\ GraphFiberState(f)' = "Starting" /\ GraphSlot(f)' = 0
      /\ GraphReadyArray(f)' = NothingReady
  <2>1. FiberViews /\ FiberViews'
    BY ViewsOfTheSystem, ViewsOfTheNextState DEF GraphReady
  <2>2. GraphFiberState(f) = "Idle" /\ GraphSlot(f) = 0 /\ GraphReadyArray(f) = NothingReady
    BY <1>3, <2>1 DEF FiberViews
  <2> QED
    BY <1>3, <1>4, <2>1, <2>2, ProgramStays DEF FiberViews, FiberSteps
<1>6. /\ GraphFiberStates' = [GraphFiberStates EXCEPT ![f] = "Starting"]
      /\ GraphSlots' = GraphSlots /\ GraphReadyArrays' = GraphReadyArrays
  <2>1. \A h \in Fibers : h # f => fiberTask'[h] = fiberTask[h] /\ stack'[h] = stack[h]
    BY <1>4
  <2>2. /\ GraphFiberStates' = [GraphFiberStates EXCEPT ![f] = GraphFiberState(f)']
        /\ GraphSlots' = [GraphSlots EXCEPT ![f] = GraphSlot(f)']
        /\ GraphReadyArrays' = [GraphReadyArrays EXCEPT ![f] = GraphReadyArray(f)']
    BY <1>3, <1>4, <1>4a, <2>1, OneFiberStep
  <2> QED
    BY <1>3, <1>5, <2>2 DEF GraphSlots, GraphReadyArrays
<1>7. GraphPending[t] > 0 /\ GraphPending' = [GraphPending EXCEPT ![t] = @ - 1]
  <2>1. PendingCounts /\ PendingCounts'
    BY ViewsOfTheSystem, ViewsOfTheNextState DEF GraphReady
  <2>2. \A u \in Tasks : u # NoTask
    BY NamesAssumption DEF Submitters
  <2>3. ASSUME NEW u \in Tasks
        PROVE  (IsFlushing(Helper)' /\ dispatching'[Helper] = u)
                 <=> (IsFlushing(Helper) /\ dispatching[Helper] = u)
    <3>1. CASE i = Helper
      BY <1>3, <1>4, <2>2, <3>1
    <3>2. CASE i # Helper
      BY <1>4, <3>2, HelperFacts DEF IsFlushing, GraphReady
    <3> QED
      BY <3>1, <3>2
  <2>4. \A u \in Tasks : Queued(u)' \in Nat /\ Queued(u) \in Nat
    BY <2>1 DEF PendingCounts
  <2>5. ASSUME NEW u \in Tasks
        PROVE  Queued(u)' + (IF IsFlushing(Helper)' /\ dispatching'[Helper] = u THEN 1 ELSE 0)
                = Queued(u) + (IF IsFlushing(Helper) /\ dispatching[Helper] = u THEN 1 ELSE 0)
                    + IF u = t THEN -1 ELSE 0
    BY <1>2, <2>3, <2>4
  <2>6. GraphPending' = [GraphPending EXCEPT ![t] = @ + (-1)]
    BY <2>5, PendingChange DEF GraphReady
  <2>7. Queued(t) > 0 /\ GraphPending[t] >= Queued(t) /\ GraphPending[t] \in Nat
    BY <1>2, <2>1, <2>4 DEF PendingCounts
  <2>8. GraphPending[t] + (-1) = GraphPending[t] - 1
    BY <2>7
  <2>9. GraphPending' = [GraphPending EXCEPT ![t] = GraphPending[t] - 1]
    BY <2>6, <2>8
  <2> QED
    BY <2>4, <2>7, <2>9
<1>8. GraphWaits' = GraphWaits
  <2>1. \A p \in Tasks : IsFinished(p)' <=> IsFinished(p)
    BY <1>4 DEF IsFinished
  <2>2. \A h \in Fibers : h # f =>
               /\ fiberTask'[h] = fiberTask[h] /\ GraphFiberState(h)' = GraphFiberState(h)
               /\ GraphSlot(h)' = GraphSlot(h)
    <3>1. \A h \in Fibers : h # f => /\ GraphFiberStates'[h] = GraphFiberStates[h]
                                     /\ GraphSlots'[h] = GraphSlots[h]
      BY <1>6 DEF GraphFiberStates
    <3> QED
      BY <1>4, <3>1 DEF GraphFiberStates, GraphSlots
  <2> QED
    BY <1>3, <1>5, <2>1, <2>2, NotUpdating
<1>9. UNCHANGED <<GraphExecutions, GraphDispatching, GraphHasFunction, GraphOwner, Dependants,
                  GraphSubmitted>>
  BY <1>3, <1>4, ExecutionsSame, DispatchKept, ProgramGraph, SubmittedSame
<1>10. Graph!TakeTask(f, t)
  <2>1. GraphFiberStates[f] = "Idle"
    BY <1>3, <1>5 DEF GraphFiberStates
  <2> QED
    BY <1>4, <1>6, <1>7, <1>8, <1>9, <2>1 DEF Graph!TakeTask, Graph!clientVars
<1> QED
  BY <1>3, <1>10

\* What the other fibers show does not change with a step on fiber f.
LEMMA OtherFibers ==
    ASSUME NEW f \in Fibers, NEW x, NEW y,
           GraphFiberStates' = [GraphFiberStates EXCEPT ![f] = x],
           GraphSlots' = [GraphSlots EXCEPT ![f] = y]
    PROVE  \A h \in Fibers : h # f => /\ GraphFiberState(h)' = GraphFiberState(h)
                                      /\ GraphSlot(h)' = GraphSlot(h)
<1>1. \A h \in Fibers : h # f => /\ GraphFiberStates'[h] = GraphFiberStates[h]
                                 /\ GraphSlots'[h] = GraphSlots[h]
  BY DEF GraphFiberStates, GraphSlots
<1> QED
  BY <1>1 DEF GraphFiberStates, GraphSlots

\* A thread that is not in the flush changes nothing of what the flush dispatches.
LEMMA PendingKept ==
    ASSUME GraphReady, program' = program, NEW i \in Instances, dispatching[i] = NoTask,
           UNCHANGED <<pendingTasks, dispatching>>,
           \A j \in Instances : j # i => pc'[j] = pc[j]
    PROVE  GraphPending' = GraphPending
<1>1. Helper \in Instances
  BY HelperFacts DEF GraphReady
<1> QED
  BY <1>1, PendingSame DEF IsFlushing

\* The function of the task of a fiber begins ...
LEMMA RunTaskGraph ==
    ASSUME GraphReady, SystemInv', program' = program, NEW i \in Instances, RunTask(i)
    PROVE  \E f \in Fibers : Graph!RunTask(f)
<1> USE DEF taskVars, fiberVars, instanceVars, stepVars, dispatchVars, threadVars
<1>0. /\ running \in [Instances -> Fibers \cup {NoFiber}] /\ pc[i] = "OnFiber"
      /\ stack \in [Fibers -> Tasks \cup {NoTask}] /\ dispatching[i] = NoTask
  BY DEF GraphReady, SystemInv, Typed, TypeOK, RunTask, At, InDispatcher
<1>1. PICK f \in Fibers : f = running[i]
  BY <1>0, OnOneFiber DEF GraphReady, FiberSteps
<1>2. PICK t \in Tasks : t = fiberTask[f] /\ t # NoTask /\ t \in SubmittedIn(program)
  <2>1. fiberTask[f] # NoTask
    BY <1>0, <1>1, OnOneFiber, NamesAssumption DEF GraphReady, FiberSteps, SystemInv, Contents
  <2> QED
    BY <2>1, TaskOfFiber DEF GraphReady
<1>3. stack[f] = NoTask
  BY <1>1 DEF RunTask, GraphReady, Linked
<1>4. /\ stack' = [stack EXCEPT ![f] = t]
      /\ UNCHANGED <<numberOfChildTasks, progress, fiberTask, pc, running, index, readyArray,
                     dispatching, pendingTasks>>
  BY <1>1, <1>2 DEF RunTask
<1>4a. stack'[f] = t /\ \A h \in Fibers : h # f => stack'[h] = stack[h]
  BY <1>0, <1>4
<1>5. /\ GraphFiberState(f) = "Starting" /\ GraphSlot(f) = 0 /\ GraphReadyArray(f) = NothingReady
      /\ GraphFiberState(f)' = "Running" /\ GraphSlot(f)' = 0
      /\ GraphReadyArray(f)' = NothingReady
  <2>1. FiberViews /\ FiberViews'
    BY ViewsOfTheSystem, ViewsOfTheNextState DEF GraphReady
  <2>2. /\ GraphFiberState(f) = "Starting" /\ GraphSlot(f) = 0
        /\ GraphReadyArray(f) = NothingReady
    BY <1>0, <1>1, <1>3, <2>1 DEF FiberViews, FiberSteps
  <2> QED
    BY <1>0, <1>1, <1>2, <1>4, <1>4a, <2>1, <2>2, ProgramStays DEF FiberViews, FiberSteps
<1>6. /\ GraphFiberStates' = [GraphFiberStates EXCEPT ![f] = "Running"]
      /\ GraphSlots' = GraphSlots /\ GraphReadyArrays' = GraphReadyArrays
      /\ GraphSlots' = [GraphSlots EXCEPT ![f] = 0]
  <2>1. /\ GraphFiberStates' = [GraphFiberStates EXCEPT ![f] = GraphFiberState(f)']
        /\ GraphSlots' = [GraphSlots EXCEPT ![f] = GraphSlot(f)']
        /\ GraphReadyArrays' = [GraphReadyArrays EXCEPT ![f] = GraphReadyArray(f)']
    BY <1>1, <1>4, <1>4a, OneFiberStep
  <2> QED
    BY <1>5, <2>1 DEF GraphSlots, GraphReadyArrays
<1>7. GraphWaits' = GraphWaits
  <2>1. \A p \in Tasks : IsFinished(p)' <=> IsFinished(p)
    BY <1>4 DEF IsFinished
  <2>2. \A h \in Fibers : h # f => /\ GraphFiberState(h)' = GraphFiberState(h)
                                   /\ GraphSlot(h)' = GraphSlot(h)
    BY <1>6, OtherFibers
  <2> QED
    BY <1>4, <1>5, <2>1, <2>2, NotUpdating
<1>8. GraphDispatching' = GraphDispatching
  <2>1. \A j \in Instances : dispatching[j] # NoTask =>
           Caller(j)' = Caller(j) /\ (IsFlushing(j)' <=> IsFlushing(j))
    <3>1. \A j \in Instances : j # i /\ pc[j] = "OnFiber" => running[j] # f /\ running[j] \in Fibers
      BY <1>0, <1>1, AloneOnFiber, OnOneFiber DEF GraphReady, FiberSteps
    <3> QED
      BY <1>0, <1>4, <1>4a, <3>1 DEF Caller, IsFlushing
  <2> QED
    BY <1>4, <2>1, DispatchingSame
<1>9. GraphPending' = GraphPending
  BY <1>0, <1>4, PendingKept
<1>10. GraphExecutions' = [GraphExecutions EXCEPT ![t] = @ + 1]
  <2>1. GraphExecutions[t] = 0
    <3>1. GraphFiberStates[f] = "Starting"
      BY <1>5, GraphIs
    <3> QED
      BY <1>2, <3>1 DEF GraphReady, Graph!IInv, Graph!DispatchInv, Graph!IsDispatched
  <2>2. GraphExecutions'[t] = 1
    BY <1>2, <1>4a DEF GraphExecutions
  <2>3. ASSUME NEW u \in Tasks, u # t
        PROVE  GraphExecutions'[u] = GraphExecutions[u]
    <3>1. (\E h \in Fibers : stack'[h] = u) <=> (\E h \in Fibers : stack[h] = u)
      BY <1>3, <1>4a, <2>3, NamesAssumption DEF Submitters
    <3> QED
      BY <1>4, <3>1 DEF GraphExecutions, IsFinished
  <2>4. \A u \in Tasks :
           GraphExecutions'[u] = IF u = t THEN GraphExecutions[t] + 1 ELSE GraphExecutions[u]
    BY <2>1, <2>2, <2>3
  <2>5. DOMAIN GraphExecutions = Tasks /\ DOMAIN GraphExecutions' = Tasks
        /\ GraphExecutions' = [u \in Tasks |-> GraphExecutions'[u]]
    BY DEF GraphExecutions
  <2> QED
    BY <2>4, <2>5
<1>11. UNCHANGED <<GraphHasFunction, GraphOwner, Dependants, GraphSubmitted>>
  BY <1>4, ProgramGraph, SubmittedSame
<1>12. Graph!RunTask(f)
  <2>1. GraphFiberStates[f] = "Starting" /\ GraphHasFunction[fiberTask[f]]
    BY <1>2, <1>5, GraphIs
  <2> QED
    BY <1>2, <1>4, <1>6, <1>7, <1>8, <1>9, <1>10, <1>11, <2>1 DEF Graph!RunTask, Graph!clientVars
<1> QED
  BY <1>12

\* ... and returns.
LEMMA FinishTaskGraph ==
    ASSUME GraphReady, SystemInv', program' = program, NEW i \in Instances, FinishTask(i),
           pc'[i] # "Astray"
    PROVE  \E f \in Fibers : Graph!FinishTask(f, TRUE)
<1> USE DEF taskVars, fiberVars, instanceVars, stepVars, dispatchVars, threadVars
<1>0. /\ running \in [Instances -> Fibers \cup {NoFiber}] /\ pc[i] = "OnFiber"
      /\ stack \in [Fibers -> Tasks \cup {NoTask}] /\ dispatching[i] = NoTask
      /\ fiberState[running[i]] # "Idle" /\ index \in [Instances -> Nat]
      /\ pc \in [Instances -> AllSteps] /\ numberOfChildTasks \in [Tasks -> Int]
  BY DEF GraphReady, SystemInv, Typed, TypeOK, FinishTask, InFunction, At, InDispatcher
<1>1. PICK f \in Fibers : f = running[i]
  BY <1>0, OnOneFiber DEF GraphReady, FiberSteps
<1>2. PICK t \in Tasks : t = fiberTask[f] /\ t # NoTask /\ t \in SubmittedIn(program)
  <2>1. fiberTask[f] # NoTask
    BY <1>0, <1>1, OnOneFiber, NamesAssumption DEF GraphReady, FiberSteps, SystemInv, Contents
  <2> QED
    BY <2>1, TaskOfFiber DEF GraphReady
<1>3. stack[f] = t /\ Caller(i) = t
  BY <1>0, <1>1, <1>2 DEF GraphReady, Linked, SystemInv, Contents, Caller
<1>4. /\ stack' = [stack EXCEPT ![f] = NoTask]
      /\ numberOfChildTasks' = [numberOfChildTasks EXCEPT ![t] = 0]
      /\ pc'[i] = "Update" /\ index'[i] = 0
      /\ \A j \in Instances : j # i => pc'[j] = pc[j] /\ index'[j] = index[j]
      /\ UNCHANGED <<progress, fiberTask, running, readyArray, dispatching, pendingTasks>>
  BY <1>0, <1>1, <1>3 DEF FinishTask, SwitchToParent, GoTo
<1>4a. stack'[f] = NoTask /\ \A h \in Fibers : h # f => stack'[h] = stack[h]
  BY <1>0, <1>4
<1>5. /\ GraphFiberState(f) = "Running" /\ GraphReadyArray(f) = NothingReady
      /\ GraphFiberState(f)' = "Updating" /\ GraphSlot(f)' = 0
      /\ GraphReadyArray(f)' = NothingReady
  <2>1. FiberViews /\ FiberViews'
    BY ViewsOfTheSystem, ViewsOfTheNextState DEF GraphReady
  <2>2. /\ GraphFiberState(f) = "Running" /\ GraphReadyArray(f) = NothingReady
    BY <1>0, <1>1, <1>2, <1>3, <2>1 DEF FiberViews, FiberSteps
  <2>3. readyArray[i] = NothingReady
    <3>1. readyArray[i] \in [Slots -> Tasks \cup {NoTask}]
      BY DEF GraphReady, SystemInv, Typed, TypeOK
    <3>2. \A s \in Slots : readyArray[i][s] = NoTask
      BY <1>0 DEF GraphReady, Stepping, SteppingOf
    <3> QED
      BY <3>1, <3>2 DEF NothingReady
  <2>4. GraphFiberState(f)' = "Updating" /\ GraphSlot(f)' = 0 /\ GraphReadyArray(f)' = readyArray[i]
    BY <1>1, <1>4, <2>1, ProgramStays DEF FiberViews, FiberSteps
  <2> QED
    BY <2>2, <2>3, <2>4
<1>6. /\ GraphFiberStates' = [GraphFiberStates EXCEPT ![f] = "Updating"]
      /\ GraphSlots' = [GraphSlots EXCEPT ![f] = 0]
      /\ GraphReadyArrays' = GraphReadyArrays
  <2>1. /\ GraphFiberStates' = [GraphFiberStates EXCEPT ![f] = GraphFiberState(f)']
        /\ GraphSlots' = [GraphSlots EXCEPT ![f] = GraphSlot(f)']
        /\ GraphReadyArrays' = [GraphReadyArrays EXCEPT ![f] = GraphReadyArray(f)']
    BY <1>1, <1>4, <1>4a, OneFiberStep
  <2> QED
    BY <1>5, <2>1 DEF GraphReadyArrays
<1>7. GraphFiberStates[f] = "Running" /\ ~IsFinished(t)
  <2>1. GraphFiberStates[f] = "Running"
    BY <1>5, GraphIs
  <2>2. numberOfChildTasks[t] = 1
    BY <1>2, <2>1 DEF GraphReady, Graph!IInv, Graph!FiberInv
  <2> QED
    BY <2>1, <2>2 DEF IsFinished
<1>8. IsFinished(t)' /\ \A p \in Tasks : p # t => (IsFinished(p)' <=> IsFinished(p))
  BY <1>0, <1>4 DEF IsFinished
<1>9. GraphWaits' = GraphWaits
  <2>1. \A h \in Fibers : h # f => /\ GraphFiberState(h)' = GraphFiberState(h)
                                   /\ GraphSlot(h)' = GraphSlot(h)
    BY <1>6, OtherFibers
  <2>2. ASSUME NEW p \in Tasks, NEW s \in Slots, p # t
        PROVE  HasToNotify(p, s)' <=> HasToNotify(p, s)
    BY <1>2, <1>4, <1>8, <2>1, <2>2 DEF HasToNotify
  <2>3. ASSUME NEW s \in Slots PROVE HasToNotify(t, s) /\ HasToNotify(t, s)'
    <3>1. 0 <= s
      BY SizesAssumption DEF Slots
    <3> QED
      BY <1>2, <1>4, <1>5, <1>7, <3>1 DEF HasToNotify
  <2>4. \A p \in Tasks, s \in Slots : HasToNotify(p, s)' <=> HasToNotify(p, s)
    BY <2>2, <2>3
  <2> QED
    BY <2>4, WaitsSame
<1>10. GraphDispatching' = GraphDispatching
  <2>1. \A j \in Instances : dispatching[j] # NoTask =>
           Caller(j)' = Caller(j) /\ (IsFlushing(j)' <=> IsFlushing(j))
    <3>1. \A j \in Instances : j # i /\ pc[j] = "OnFiber" => running[j] # f /\ running[j] \in Fibers
      BY <1>0, <1>1, AloneOnFiber, OnOneFiber DEF GraphReady, FiberSteps
    <3> QED
      BY <1>0, <1>4, <1>4a, <3>1 DEF Caller, IsFlushing
  <2> QED
    BY <1>4, <2>1, DispatchingSame
<1>11. GraphPending' = GraphPending
  BY <1>0, <1>4, PendingKept
<1>12. GraphExecutions' = GraphExecutions
  <2>1. ASSUME NEW u \in Tasks PROVE GraphExecutions'[u] = GraphExecutions[u]
    <3>1. CASE u = t
      BY <1>2, <1>3, <1>8, <3>1 DEF GraphExecutions
    <3>2. CASE u # t
      <4>1. (\E h \in Fibers : stack'[h] = u) <=> (\E h \in Fibers : stack[h] = u)
        BY <1>3, <1>4a, <3>2, NamesAssumption DEF Submitters
      <4> QED
        BY <1>8, <3>2, <4>1 DEF GraphExecutions
    <3> QED
      BY <3>1, <3>2
  <2> QED
    BY <2>1 DEF GraphExecutions
<1>13. UNCHANGED <<GraphHasFunction, GraphOwner, Dependants, GraphSubmitted>>
  BY <1>4, ProgramGraph, SubmittedSame
<1>14. Graph!FinishTask(f, TRUE)
  BY <1>2, <1>4, <1>6, <1>7, <1>9, <1>10, <1>11, <1>12, <1>13
     DEF Graph!FinishTask, Graph!clientVars
<1> QED
  BY <1>14

\* A thread that finishes its fiber's task.
LEMMA Finishing ==
    ASSUME GraphReady, NEW i \in Instances, pc[i] \in {"Update", "Add"}
    PROVE  /\ running[i] \in Fibers /\ fiberTask[running[i]] \in Tasks
           /\ fiberTask[running[i]] # NoTask
           /\ IsFinished(fiberTask[running[i]]) /\ dispatching[i] = NoTask
           /\ index[i] \in 0 .. MaxDependants
           /\ readyArray[i] \in [Slots -> Tasks \cup {NoTask}]
           /\ GraphFiberState(running[i]) = IF pc[i] = "Update" THEN "Updating" ELSE "Adding"
           /\ GraphSlot(running[i]) = index[i] /\ GraphReadyArray(running[i]) = readyArray[i]
<1>1. running[i] \in Fibers /\ fiberTask[running[i]] \in Tasks
  BY OnOneFiber DEF GraphReady, FiberSteps
<1>2. fiberTask[running[i]] # NoTask /\ dispatching[i] = NoTask
  BY <1>1, NotDispatching, NamesAssumption DEF GraphReady, Submitters
<1>3. /\ GraphFiberState(running[i]) = IF pc[i] = "Update" THEN "Updating" ELSE "Adding"
      /\ GraphSlot(running[i]) = index[i] /\ GraphReadyArray(running[i]) = readyArray[i]
  BY ViewsOfTheSystem DEF FiberViews, GraphReady, FiberSteps
<1>4. IsFinished(fiberTask[running[i]])
  BY <1>1, <1>3, GraphIs DEF GraphReady, Graph!IInv, Graph!FiberInv, IsFinished, Graph!IsFinished
<1>5. index[i] \in 0 .. MaxDependants
  BY SizesAssumption DEF GraphReady, Stepping, SteppingOf, SystemInv, Typed, TypeOK
<1>6. readyArray[i] \in [Slots -> Tasks \cup {NoTask}]
  BY DEF GraphReady, SystemInv, Typed, TypeOK
<1> QED
  BY <1>1, <1>2, <1>3, <1>4, <1>5, <1>6

\* The fiber that has a task shows how far its notifications are.
LEMMA NotifyIs ==
    ASSUME GraphReady, NEW f \in Fibers, fiberTask[f] # NoTask, IsFinished(fiberTask[f]), NEW s
    PROVE  HasToNotify(fiberTask[f], s) <=> GraphFiberState(f) = "Updating" /\ GraphSlot(f) <= s
BY TasksApart DEF GraphReady, HasToNotify

\* All slots are read.
LEMMA EndUpdateGraph ==
    ASSUME GraphReady, SystemInv', program' = program, NEW i \in Instances, EndUpdate(i)
    PROVE  \E f \in Fibers : Graph!EndUpdate(f)
<1> USE DEF taskVars, fiberVars, instanceVars, stepVars, dispatchVars, threadVars
<1>0. /\ index \in [Instances -> Nat] /\ pc \in [Instances -> AllSteps] /\ pc[i] = "Update"
      /\ index[i] = MaxDependants
  BY DEF GraphReady, SystemInv, Typed, TypeOK, EndUpdate
<1>1. PICK f \in Fibers : f = running[i]
  BY <1>0, Finishing
<1>2. /\ pc'[i] = "Add" /\ index'[i] = 0
      /\ \A j \in Instances : j # i => pc'[j] = pc[j] /\ index'[j] = index[j]
      /\ UNCHANGED <<progress, fiberTask, running, readyArray, dispatching, pendingTasks, stack,
                     numberOfChildTasks>>
  BY <1>0 DEF EndUpdate, GoTo
<1>3. /\ GraphFiberState(f) = "Updating" /\ GraphSlot(f) = MaxDependants
      /\ GraphReadyArray(f) = readyArray[i] /\ dispatching[i] = NoTask
      /\ GraphFiberState(f)' = "Adding" /\ GraphSlot(f)' = 0 /\ GraphReadyArray(f)' = readyArray[i]
  <2>1. FiberViews'
    BY ViewsOfTheNextState
  <2>2. GraphFiberState(f)' = "Adding" /\ GraphSlot(f)' = 0 /\ GraphReadyArray(f)' = readyArray[i]
    BY <1>1, <1>2, <2>1, ProgramStays DEF FiberViews, FiberSteps
  <2> QED
    BY <1>0, <1>1, <2>2, Finishing
<1>4. /\ GraphFiberStates' = [GraphFiberStates EXCEPT ![f] = "Adding"]
      /\ GraphSlots' = [GraphSlots EXCEPT ![f] = 0] /\ GraphReadyArrays' = GraphReadyArrays
  <2>1. /\ GraphFiberStates' = [GraphFiberStates EXCEPT ![f] = GraphFiberState(f)']
        /\ GraphSlots' = [GraphSlots EXCEPT ![f] = GraphSlot(f)']
        /\ GraphReadyArrays' = [GraphReadyArrays EXCEPT ![f] = GraphReadyArray(f)']
    BY <1>1, <1>2, OneFiberStep
  <2> QED
    BY <1>3, <2>1 DEF GraphReadyArrays
<1>5. GraphWaits' = GraphWaits
  <2>1. \A p \in Tasks : IsFinished(p)' <=> IsFinished(p)
    BY <1>2 DEF IsFinished
  <2>2. \A h \in Fibers : h # f => /\ GraphFiberState(h)' = GraphFiberState(h)
                                   /\ GraphSlot(h)' = GraphSlot(h)
    BY <1>4, OtherFibers
  <2>3. \A s \in Slots : ~(GraphSlot(f) <= s)
    BY <1>3, SizesAssumption DEF Slots
  <2> QED
    BY <1>2, <1>3, <2>1, <2>2, <2>3, NotUpdating
<1>6. UNCHANGED <<GraphExecutions, GraphDispatching, GraphPending, GraphHasFunction, GraphOwner,
                  Dependants, GraphSubmitted>>
  BY <1>2, <1>3, ExecutionsSame, DispatchKept, PendingKept, ProgramGraph, SubmittedSame
<1>7. Graph!EndUpdate(f)
  <2>1. GraphFiberStates[f] = "Updating" /\ GraphSlots[f] = MaxDependants
    BY <1>3, GraphIs
  <2> QED
    BY <1>2, <1>4, <1>5, <1>6, <2>1 DEF Graph!EndUpdate, Graph!clientVars
<1> QED
  BY <1>7

\* AddTask for a ready dependant.
LEMMA AddReadyTaskGraph ==
    ASSUME GraphReady, SystemInv', program' = program, NEW i \in Instances, AddReadyTask(i)
    PROVE  \E f \in Fibers : Graph!AddReadyTask(f)
<1> USE DEF taskVars, fiberVars, instanceVars, stepVars, dispatchVars, threadVars
<1>0. /\ index \in [Instances -> Nat] /\ pc[i] = "Add" /\ index[i] < MaxDependants
      /\ readyArray \in [Instances -> [Slots -> Tasks \cup {NoTask}]]
  BY DEF GraphReady, SystemInv, Typed, TypeOK, AddReadyTask
<1>1. PICK f \in Fibers : f = running[i]
  BY <1>0, Finishing
<1>2. PICK s \in Slots : s = index[i]
  BY <1>0, SizesAssumption DEF Slots
<1>3. PICK t \in Tasks \cup {NoTask} : t = readyArray[i][s]
  BY <1>0
<1>4. /\ index'[i] = s + 1 /\ readyArray'[i] = [readyArray[i] EXCEPT ![s] = NoTask]
      /\ \A j \in Instances : j # i => readyArray'[j] = readyArray[j] /\ index'[j] = index[j]
      /\ pendingTasks' = IF t = NoTask THEN pendingTasks
                         ELSE [pendingTasks EXCEPT ![i] = Append(@, t)]
      /\ UNCHANGED <<progress, pc, fiberTask, running, dispatching, stack, numberOfChildTasks>>
  BY <1>0, <1>2, <1>3 DEF AddReadyTask
<1>5. /\ GraphFiberState(f) = "Adding" /\ GraphSlot(f) = s
      /\ GraphReadyArray(f) = readyArray[i] /\ dispatching[i] = NoTask
      /\ GraphFiberState(f)' = "Adding" /\ GraphSlot(f)' = s + 1
      /\ GraphReadyArray(f)' = [readyArray[i] EXCEPT ![s] = NoTask]
  <2>1. FiberViews'
    BY ViewsOfTheNextState
  <2>2. GraphFiberState(f)' = "Adding" /\ GraphSlot(f)' = s + 1
        /\ GraphReadyArray(f)' = [readyArray[i] EXCEPT ![s] = NoTask]
    BY <1>0, <1>1, <1>4, <2>1, ProgramStays DEF FiberViews, FiberSteps
  <2> QED
    BY <1>0, <1>1, <1>2, <2>2, Finishing
<1>6. /\ GraphFiberStates' = GraphFiberStates
      /\ GraphFiberStates' = [GraphFiberStates EXCEPT ![f] = "Adding"]
      /\ GraphSlots' = [GraphSlots EXCEPT ![f] = @ + 1]
      /\ GraphReadyArrays' = [GraphReadyArrays EXCEPT ![f][s] = NoTask]
  <2>1. /\ GraphFiberStates' = [GraphFiberStates EXCEPT ![f] = GraphFiberState(f)']
        /\ GraphSlots' = [GraphSlots EXCEPT ![f] = GraphSlot(f)']
        /\ GraphReadyArrays' = [GraphReadyArrays EXCEPT ![f] = GraphReadyArray(f)']
    BY <1>1, <1>4, OneFiberStep
  <2>2. GraphSlots[f] = s /\ GraphReadyArrays[f] = readyArray[i] /\ GraphFiberStates[f] = "Adding"
    BY <1>5, GraphIs
  <2>3. GraphFiberStates' = GraphFiberStates
    BY <1>5, <2>1 DEF GraphFiberStates
  <2> QED
    BY <1>5, <2>1, <2>2, <2>3
<1>7. GraphWaits' = GraphWaits
  <2>1. \A p \in Tasks : IsFinished(p)' <=> IsFinished(p)
    BY <1>4 DEF IsFinished
  <2>2. \A h \in Fibers : h # f => /\ GraphFiberState(h)' = GraphFiberState(h)
                                   /\ GraphSlot(h)' = GraphSlot(h)
    BY <1>6, OtherFibers
  <2> QED
    BY <1>4, <1>5, <2>1, <2>2, NotUpdating
<1>8. GraphPending' = IF t = NoTask THEN GraphPending ELSE [GraphPending EXCEPT ![t] = @ + 1]
  <2>1. CASE t = NoTask
    BY <1>4, <1>5, <2>1, PendingKept
  <2>2. CASE t # NoTask
    <3>1. ASSUME NEW u \in Tasks
          PROVE  Queued(u)' + (IF IsFlushing(Helper)' /\ dispatching'[Helper] = u THEN 1 ELSE 0)
                  = Queued(u) + (IF IsFlushing(Helper) /\ dispatching[Helper] = u THEN 1 ELSE 0)
                      + IF u = t THEN 1 ELSE 0
      <4>1. Queued(u)' = IF u = t THEN Queued(u) + 1 ELSE Queued(u)
        BY <1>4, <2>2, EntryAdded DEF GraphReady
      <4>2. IsFlushing(Helper)' <=> IsFlushing(Helper)
        BY <1>4 DEF IsFlushing
      <4>3. Queued(u) \in Nat
        BY ViewsOfTheSystem DEF PendingCounts, GraphReady
      <4> QED
        BY <1>4, <4>1, <4>2, <4>3
    <3> QED
      BY <2>2, <3>1, PendingChange DEF GraphReady
  <2> QED
    BY <2>1, <2>2
<1>9. UNCHANGED <<GraphExecutions, GraphDispatching, GraphHasFunction, GraphOwner,
                  Dependants, GraphSubmitted>>
  BY <1>4, <1>5, ExecutionsSame, DispatchKept, ProgramGraph, SubmittedSame
<1>10. Graph!AddReadyTask(f)
  <2>1. GraphFiberStates[f] = "Adding" /\ GraphSlots[f] = s /\ GraphReadyArrays[f][s] = t
    BY <1>3, <1>5, GraphIs
  <2> QED
    BY <1>0, <1>2, <1>4, <1>6, <1>7, <1>8, <1>9, <2>1 DEF Graph!AddReadyTask, Graph!clientVars
<1> QED
  BY <1>10

\* The fiber lets go of its task.
LEMMA ClearFiberGraph ==
    ASSUME GraphReady, SystemInv', program' = program, NEW i \in Instances, ClearFiber(i)
    PROVE  \E f \in Fibers : Graph!ClearFiber(f)
<1> USE DEF taskVars, fiberVars, instanceVars, stepVars, dispatchVars, threadVars
<1>0. /\ running \in [Instances -> Fibers \cup {NoFiber}] /\ pc[i] = "Add"
      /\ index[i] = MaxDependants /\ fiberTask \in [Fibers -> Tasks \cup {NoTask}]
      /\ pc \in [Instances -> AllSteps]
  BY DEF GraphReady, SystemInv, Typed, TypeOK, ClearFiber
<1>1. PICK f \in Fibers : f = running[i]
  BY <1>0, Finishing
<1>2. /\ fiberTask' = [fiberTask EXCEPT ![f] = NoTask] /\ fiberTask'[f] = NoTask
      /\ running'[i] = NoFiber /\ pc'[i] \notin {"Update", "Add"}
      /\ \A j \in Instances : j # i => running'[j] = running[j] /\ pc'[j] = pc[j]
      /\ \A h \in Fibers : h # f => fiberTask'[h] = fiberTask[h]
      /\ UNCHANGED <<progress, index, readyArray, dispatching, pendingTasks, stack,
                     numberOfChildTasks>>
  BY <1>0, <1>1, AfterStepIs DEF ClearFiber, ReleaseFiber, GoTo
<1>3. /\ GraphFiberState(f) = "Adding" /\ GraphSlot(f) = MaxDependants
      /\ GraphReadyArray(f) = NothingReady /\ dispatching[i] = NoTask
      /\ GraphFiberState(f)' = "Idle" /\ GraphSlot(f)' = 0 /\ GraphReadyArray(f)' = NothingReady
  <2>1. FiberViews'
    BY ViewsOfTheNextState
  <2>2. GraphFiberState(f)' = "Idle" /\ GraphSlot(f)' = 0 /\ GraphReadyArray(f)' = NothingReady
    BY <1>2, <2>1, ProgramStays DEF FiberViews, NothingReady, Slots
  <2>3. readyArray[i] = NothingReady
    <3>1. readyArray[i] \in [Slots -> Tasks \cup {NoTask}]
      BY <1>0, Finishing
    <3>2. \A s \in Slots : readyArray[i][s] = NoTask
      BY <1>0, SizesAssumption DEF GraphReady, Stepping, SteppingOf, Slots
    <3> QED
      BY <3>1, <3>2 DEF NothingReady
  <2> QED
    BY <1>0, <1>1, <2>2, <2>3, Finishing
<1>4. /\ GraphFiberStates' = [GraphFiberStates EXCEPT ![f] = "Idle"]
      /\ GraphSlots' = [GraphSlots EXCEPT ![f] = 0] /\ GraphReadyArrays' = GraphReadyArrays
  <2>1. /\ GraphFiberStates' = [GraphFiberStates EXCEPT ![f] = GraphFiberState(f)']
        /\ GraphSlots' = [GraphSlots EXCEPT ![f] = GraphSlot(f)']
        /\ GraphReadyArrays' = [GraphReadyArrays EXCEPT ![f] = GraphReadyArray(f)']
    BY <1>1, <1>2, OneFiberStep
  <2> QED
    BY <1>3, <2>1 DEF GraphReadyArrays
<1>5. GraphWaits' = GraphWaits
  <2>1. \A p \in Tasks : IsFinished(p)' <=> IsFinished(p)
    BY <1>2 DEF IsFinished
  <2>2. \A h \in Fibers : h # f => /\ GraphFiberState(h)' = GraphFiberState(h)
                                   /\ GraphSlot(h)' = GraphSlot(h)
    BY <1>4, OtherFibers
  <2> QED
    BY <1>2, <1>3, <2>1, <2>2, NotUpdating
<1>6. UNCHANGED <<GraphExecutions, GraphDispatching, GraphPending, GraphHasFunction, GraphOwner,
                  Dependants, GraphSubmitted>>
  BY <1>2, <1>3, ExecutionsSame, DispatchKept, PendingKept, ProgramGraph, SubmittedSame
<1>7. Graph!ClearFiber(f)
  <2>1. GraphFiberStates[f] = "Adding" /\ GraphSlots[f] = MaxDependants
    BY <1>3, GraphIs
  <2> QED
    BY <1>2, <1>4, <1>5, <1>6, <2>1 DEF Graph!ClearFiber, Graph!clientVars
<1> QED
  BY <1>7

\* The proofs about TaskGraph, read for this graph.
GraphProofs == INSTANCE TaskGraphProofs WITH
    Clients <- Submitters, NoClient <- NoTask,
    SubmitOrder <- "dependantsFirst", ReleaseTime <- "never",
    hasFunction <- GraphHasFunction, dependants <- Dependants, owner <- GraphOwner,
    submitted <- GraphSubmitted, dispatching <- GraphDispatching, pending <- GraphPending,
    fiberState <- GraphFiberStates, slot <- GraphSlots, readyArray <- GraphReadyArrays,
    waits <- GraphWaits, executions <- GraphExecutions

\* The finite sets that the two instances speak of are the finite sets.
LEMMA SameFiniteSets ==
    ASSUME NEW S
    PROVE  /\ Graph!IsFiniteSet(S) <=> IsFiniteSet(S)
           /\ GraphProofs!IsFiniteSet(S) <=> IsFiniteSet(S)
           /\ Graph!Cardinality(S) = Cardinality(S)
           /\ GraphProofs!Cardinality(S) = Cardinality(S)
<1>1. (Graph!IsFiniteSet(S) <=> IsFiniteSet(S)) /\ (GraphProofs!IsFiniteSet(S) <=> IsFiniteSet(S))
  BY DEF Graph!IsFiniteSet, GraphProofs!IsFiniteSet, IsFiniteSet
<1>2. Graph!Cardinality(S) = Cardinality(S)
  BY DEF Graph!Cardinality, Cardinality
<1>3. GraphProofs!Cardinality(S) = Cardinality(S)
  BY DEF GraphProofs!Cardinality, Cardinality
<1> QED
  BY <1>1, <1>2, <1>3

\* The two instances of TaskGraph speak of the same types,
LEMMA SameTypes == GraphProofs!TypeOK <=> Graph!TypeOK
BY DEF GraphProofs!TypeOK, Graph!TypeOK, GraphProofs!Slots, Graph!Slots, GraphProofs!FiberStates,
       Graph!FiberStates

\* the same dispatched tasks,
LEMMA SameDispatch == ASSUME NEW t PROVE GraphProofs!IsDispatched(t) <=> Graph!IsDispatched(t)
BY DEF GraphProofs!IsDispatched, Graph!IsDispatched, GraphProofs!Slots, Graph!Slots

\* the same invariant of the dispatcher,
LEMMA SameDispatchInv == GraphProofs!DispatchInv <=> Graph!DispatchInv
BY SameDispatch DEF GraphProofs!DispatchInv, Graph!DispatchInv, GraphProofs!Slots, Graph!Slots

\* the same finished tasks,
LEMMA SameFinished == ASSUME NEW t PROVE GraphProofs!IsFinished(t) <=> Graph!IsFinished(t)
BY DEF GraphProofs!IsFinished, Graph!IsFinished

\* the same invariant of the fibers,
LEMMA SameFiberInv == GraphProofs!FiberInv <=> Graph!FiberInv
BY SameFinished DEF GraphProofs!FiberInv, Graph!FiberInv, GraphProofs!Slots, Graph!Slots

\* the same invariant of tasks in the pool,
LEMMA SameLife == GraphProofs!LifeInv <=> Graph!LifeInv
BY DEF GraphProofs!LifeInv, Graph!LifeInv, GraphProofs!Slots, Graph!Slots, GraphProofs!InPool,
       Graph!InPool, GraphProofs!NoDependants, Graph!NoDependants

\* the same counts,
LEMMA SameCount == GraphProofs!CountInv <=> Graph!CountInv
BY SameFiniteSets
   DEF GraphProofs!CountInv, Graph!CountInv, GraphProofs!OwnShare, Graph!OwnShare,
       GraphProofs!IsFinished, Graph!IsFinished

\* the same notifications to come,
LEMMA SameToNotify == ASSUME NEW p, NEW i PROVE GraphProofs!IsToNotify(p, i) <=> Graph!IsToNotify(p, i)
BY DEF GraphProofs!IsToNotify, Graph!IsToNotify

\* the same edges,
LEMMA SameEdge == ASSUME NEW p, NEW d, NEW i PROVE GraphProofs!EdgeOK(p, d, i) <=> Graph!EdgeOK(p, d, i)
BY SameToNotify, SameFinished DEF GraphProofs!EdgeOK, Graph!EdgeOK

\* the same graph,
LEMMA SameEdges == GraphProofs!EdgeInv <=> Graph!EdgeInv
BY SameEdge DEF GraphProofs!EdgeInv, Graph!EdgeInv, GraphProofs!Slots, Graph!Slots

\* so the same invariant,
LEMMA SameIInv == GraphProofs!IInv <=> Graph!IInv
BY SameTypes, SameDispatchInv, SameFiberInv, SameLife, SameCount, SameEdges
   DEF GraphProofs!IInv, Graph!IInv

\* and the same steps.
LEMMA SameNext == [GraphProofs!Next]_(GraphProofs!vars) <=> [Graph!Next]_(Graph!vars)
BY DEF GraphProofs!Next, Graph!Next, GraphProofs!vars, Graph!vars, GraphProofs!clientVars,
       Graph!clientVars, GraphProofs!fiberVars, Graph!fiberVars, GraphProofs!ClientStep,
       Graph!ClientStep, GraphProofs!FiberStep, Graph!FiberStep,
       GraphProofs!DispatchTask, Graph!DispatchTask, GraphProofs!CreateNewTask,
       Graph!CreateNewTask, GraphProofs!AddDependantTasks, Graph!AddDependantTasks,
       GraphProofs!SetTaskFunction, Graph!SetTaskFunction, GraphProofs!SubmitTask,
       Graph!SubmitTask, GraphProofs!ReleaseTask, Graph!ReleaseTask,
       GraphProofs!TakeTask, Graph!TakeTask, GraphProofs!RunTask, Graph!RunTask,
       GraphProofs!FinishTask, Graph!FinishTask,
       GraphProofs!UpdateDependecies, Graph!UpdateDependecies, GraphProofs!EndUpdate,
       Graph!EndUpdate, GraphProofs!AddReadyTask, Graph!AddReadyTask,
       GraphProofs!ClearFiber, Graph!ClearFiber, GraphProofs!Slots, Graph!Slots,
       GraphProofs!Calls, Graph!Calls, GraphProofs!MayBuild, Graph!MayBuild,
       GraphProofs!MaySubmit, Graph!MaySubmit, GraphProofs!MayRelease, Graph!MayRelease,
       GraphProofs!Clear, Graph!Clear, GraphProofs!IsFinished, Graph!IsFinished,
       GraphProofs!IsReadyToBeExecuted, Graph!IsReadyToBeExecuted, GraphProofs!HasDependant,
       Graph!HasDependant, GraphProofs!InPool, Graph!InPool,
       GraphProofs!OwnShare, Graph!OwnShare, GraphProofs!NoDependants, Graph!NoDependants,
       GraphProofs!BecomesReady, Graph!BecomesReady

\* A dependant that is about to be notified has not run, and counts its own share at least.
LEMMA NotifiedDependant ==
    ASSUME GraphReady, NEW i \in Instances, pc[i] = "Update", NEW s \in Slots, s = index[i],
           NEW p \in Tasks, p = fiberTask[running[i]], NEW d \in Tasks, Dependants[p][s] = d
    PROVE  /\ numberOfChildTasks[d] > 1 /\ d # p
           /\ <<p, s>> \in GraphWaits[d] /\ HasToNotify(p, s)
<1>1. PICK f \in Fibers : f = running[i]
  BY Finishing
<1>2. IsFinished(p) /\ GraphFiberState(f) = "Updating" /\ GraphSlot(f) = s
  BY <1>1, Finishing
<1>3. s <= s
  BY SizesAssumption DEF Slots
<1>4. HasToNotify(p, s)
  BY <1>1, <1>2, <1>3 DEF HasToNotify
<1>5. <<p, s>> \in GraphWaits[d]
  BY <1>4 DEF GraphWaits
<1>6. /\ GraphExecutions[d] = 0 /\ IsFiniteSet(GraphWaits[d])
      /\ ~(GraphHasFunction[d] /\ IsFinished(d))
      /\ numberOfChildTasks[d] = Cardinality(GraphWaits[d]) + Graph!OwnShare(d)
  BY <1>5, SameFiniteSets DEF GraphReady, Graph!IInv, Graph!CountInv, IsFinished, Graph!IsFinished
<1>7. GraphHasFunction[d]
  <2>1. GraphSubmitted[p]
    BY <1>1, <1>2, GraphIs, TaskOfFiber DEF GraphReady
  <2>2. GraphSubmitted[d]
    BY <1>5, <2>1 DEF GraphReady, Graph!IInv, Graph!EdgeInv, Graph!EdgeOK, Graph!Slots, Slots
  <2> QED
    BY <2>2 DEF GraphReady, Graph!IInv, Graph!LifeInv
<1>8. Graph!OwnShare(d) = 1
  BY <1>7 DEF Graph!OwnShare
<1>9. Cardinality(GraphWaits[d]) > 0
  <2>1. Cardinality(GraphWaits[d]) \in Nat /\ (Cardinality(GraphWaits[d]) = 0 <=> GraphWaits[d] = {})
    BY <1>6, FS_EmptySet, FS_CardinalityType
  <2> QED
    BY <1>5, <2>1
<1>10. numberOfChildTasks[d] > 1
  BY <1>6, <1>8, <1>9, FS_CardinalityType
<1>11. d # p
  BY <1>2, <1>6, <1>7
<1> QED
  BY <1>4, <1>5, <1>10, <1>11

\* One slot is read, and its dependant notified.
LEMMA UpdateDependeciesGraph ==
    ASSUME GraphReady, SystemInv', program' = program, NEW i \in Instances, UpdateDependecies(i)
    PROVE  \E f \in Fibers : Graph!UpdateDependecies(f)
<1> USE DEF taskVars, fiberVars, instanceVars, stepVars, dispatchVars, threadVars
<1>0. /\ index \in [Instances -> Nat] /\ pc[i] = "Update" /\ index[i] < MaxDependants
      /\ readyArray \in [Instances -> [Slots -> Tasks \cup {NoTask}]]
      /\ numberOfChildTasks \in [Tasks -> Int]
  BY DEF GraphReady, SystemInv, Typed, TypeOK, UpdateDependecies
<1>1. PICK f \in Fibers : f = running[i]
  BY <1>0, Finishing
<1>2. PICK s \in Slots : s = index[i]
  BY <1>0, SizesAssumption DEF Slots
<1>3. PICK p \in Tasks : p = fiberTask[f] /\ p # NoTask /\ IsFinished(p)
  BY <1>0, <1>1, Finishing
<1>4. PICK d \in Tasks \cup {NoTask} : d = Dependants[p][s]
  BY DependantsTyped DEF GraphReady, SystemInv, Typed
<1> DEFINE ready == IF BecomesReady(d) THEN d ELSE readyArray[i][s]
<1>5. /\ index'[i] = s + 1
      /\ \A j \in Instances : j # i => readyArray'[j] = readyArray[j] /\ index'[j] = index[j]
      /\ UNCHANGED <<progress, pc, fiberTask, running, dispatching, stack, pendingTasks>>
      /\ d = NoTask => numberOfChildTasks' = numberOfChildTasks /\ readyArray' = readyArray
      /\ d # NoTask =>
            /\ numberOfChildTasks' = [numberOfChildTasks EXCEPT ![d] = @ - 1]
            /\ readyArray'[i] = [readyArray[i] EXCEPT ![s] = ready]
  BY <1>0, <1>1, <1>2, <1>3, <1>4 DEF UpdateDependecies
<1>6. /\ GraphFiberState(f) = "Updating" /\ GraphSlot(f) = s
      /\ GraphReadyArray(f) = readyArray[i] /\ dispatching[i] = NoTask
      /\ GraphFiberState(f)' = "Updating" /\ GraphSlot(f)' = s + 1
      /\ GraphReadyArray(f)' = readyArray'[i]
  <2>1. FiberViews'
    BY ViewsOfTheNextState
  <2>2. GraphFiberState(f)' = "Updating" /\ GraphSlot(f)' = s + 1
        /\ GraphReadyArray(f)' = readyArray'[i]
    BY <1>0, <1>1, <1>5, <2>1, ProgramStays DEF FiberViews, FiberSteps
  <2> QED
    BY <1>0, <1>1, <1>2, <2>2, Finishing
<1>7. /\ GraphFiberStates' = GraphFiberStates
      /\ GraphFiberStates' = [GraphFiberStates EXCEPT ![f] = "Updating"]
      /\ GraphSlots' = [GraphSlots EXCEPT ![f] = @ + 1]
      /\ d = NoTask => GraphReadyArrays' = GraphReadyArrays
      /\ d # NoTask => GraphReadyArrays' = [GraphReadyArrays EXCEPT ![f][s] = ready]
  <2>1. /\ GraphFiberStates' = [GraphFiberStates EXCEPT ![f] = GraphFiberState(f)']
        /\ GraphSlots' = [GraphSlots EXCEPT ![f] = GraphSlot(f)']
        /\ GraphReadyArrays' = [GraphReadyArrays EXCEPT ![f] = GraphReadyArray(f)']
    BY <1>1, <1>5, OneFiberStep
  <2>2. GraphSlots[f] = s /\ GraphReadyArrays[f] = readyArray[i] /\ GraphFiberStates[f] = "Updating"
    BY <1>6, GraphIs
  <2>3. GraphFiberStates' = GraphFiberStates
    BY <1>6, <2>1 DEF GraphFiberStates
  <2>4. d = NoTask => GraphReadyArrays' = GraphReadyArrays
    <3> SUFFICES ASSUME d = NoTask PROVE GraphReadyArrays' = GraphReadyArrays
      OBVIOUS
    <3>1. GraphReadyArray(f)' = GraphReadyArrays[f]
      BY <1>5, <1>6, <2>2
    <3> QED
      BY <2>1, <3>1 DEF GraphReadyArrays
  <2>5. d # NoTask => GraphReadyArrays' = [GraphReadyArrays EXCEPT ![f][s] = ready]
    <3> HIDE DEF ready
    <3> QED
      BY <1>5, <1>6, <2>1, <2>2
  <2> QED
    BY <1>6, <2>1, <2>2, <2>3, <2>4, <2>5
<1>8. d # NoTask => /\ d \in Tasks /\ numberOfChildTasks[d] > 1 /\ d # p
                    /\ <<p, s>> \in GraphWaits[d]
  BY <1>0, <1>1, <1>2, <1>3, <1>4, NotifiedDependant
<1>9. \A u \in Tasks : IsFinished(u)' <=> IsFinished(u)
  BY <1>0, <1>5, <1>8 DEF IsFinished
<1>10. \A q \in Tasks, r \in Slots :
          HasToNotify(q, r)' <=> HasToNotify(q, r) /\ <<q, r>> # <<p, s>>
  <2>1. \A h \in Fibers : h # f => /\ GraphFiberState(h)' = GraphFiberState(h)
                                   /\ GraphSlot(h)' = GraphSlot(h)
    BY <1>7, OtherFibers
  <2>2. ASSUME NEW q \in Tasks, NEW r \in Slots, q # p
        PROVE  HasToNotify(q, r)' <=> HasToNotify(q, r)
    BY <1>3, <1>5, <1>9, <2>1, <2>2 DEF HasToNotify
  <2>3. ASSUME NEW r \in Slots
        PROVE  HasToNotify(p, r)' <=> HasToNotify(p, r) /\ r # s
    <3>1. HasToNotify(p, r) <=> s <= r
      BY <1>3, <1>6, NotifyIs
    <3>2. HasToNotify(p, r)' <=> s + 1 <= r
      <4>1. \A h \in Fibers : fiberTask[h] = p => h = f
        BY <1>3, TasksApart DEF GraphReady
      <4> QED
        BY <1>3, <1>5, <1>6, <1>9, <4>1 DEF HasToNotify
    <3>3. r \in Int /\ s \in Int
      BY SizesAssumption DEF Slots
    <3> QED
      BY <3>1, <3>2, <3>3
  <2> QED
    BY <2>2, <2>3
<1>11. d = NoTask => GraphWaits' = GraphWaits
  <2> SUFFICES ASSUME d = NoTask PROVE GraphWaits' = GraphWaits
    OBVIOUS
  <2>1. \A q \in Tasks, r \in Slots : Dependants[q][r] \in Tasks =>
           (HasToNotify(q, r)' <=> HasToNotify(q, r))
    BY <1>4, <1>10, NamesAssumption DEF Submitters
  <2> QED
    BY <2>1, WaitsSame
<1>12. d # NoTask => GraphWaits' = [GraphWaits EXCEPT ![d] = @ \ {<<p, s>>}]
  <2> SUFFICES ASSUME d # NoTask PROVE GraphWaits' = [GraphWaits EXCEPT ![d] = @ \ {<<p, s>>}]
    OBVIOUS
  <2>1. ASSUME NEW u \in Tasks
        PROVE  GraphWaits'[u] = IF u = d THEN GraphWaits[d] \ {<<p, s>>} ELSE GraphWaits[u]
    <3>1. Dependants' = Dependants
      BY ProgramStays
    <3>2. GraphWaits'[u] = {e \in Tasks \X Slots : Dependants[e[1]][e[2]] = u /\ HasToNotify(e[1], e[2])'}
      BY <3>1 DEF GraphWaits
    <3>3. \A e \in Tasks \X Slots : /\ e = <<e[1], e[2]>> /\ e[1] \in Tasks /\ e[2] \in Slots
                                    /\ (e = <<p, s>> => Dependants[e[1]][e[2]] = d)
      BY <1>4
    <3>4. \A e \in Tasks \X Slots : HasToNotify(e[1], e[2])' <=> HasToNotify(e[1], e[2]) /\ e # <<p, s>>
      BY <1>10, <3>3
    <3>5. GraphWaits[u] = {e \in Tasks \X Slots : Dependants[e[1]][e[2]] = u /\ HasToNotify(e[1], e[2])}
      BY DEF GraphWaits
    <3>6. GraphWaits[d] = {e \in Tasks \X Slots : Dependants[e[1]][e[2]] = d /\ HasToNotify(e[1], e[2])}
      BY <1>8 DEF GraphWaits
    <3> QED
      BY <3>2, <3>3, <3>4, <3>5, <3>6
  <2> QED
    BY <2>1 DEF GraphWaits
<1>13. GraphExecutions' = GraphExecutions
  BY <1>5, <1>9, ProgramStays DEF GraphExecutions
<1>14. UNCHANGED <<GraphDispatching, GraphPending, GraphHasFunction, GraphOwner,
                  Dependants, GraphSubmitted>>
  BY <1>5, <1>6, DispatchKept, PendingKept, ProgramGraph, SubmittedSame
<1>15. Graph!UpdateDependecies(f)
  <2>1. GraphFiberStates[f] = "Updating" /\ GraphSlots[f] = s /\ GraphReadyArrays[f] = readyArray[i]
    BY <1>6, GraphIs
  <2>2. CASE d = NoTask
    BY <1>0, <1>2, <1>3, <1>4, <1>5, <1>7, <1>11, <1>13, <1>14, <2>1, <2>2
       DEF Graph!UpdateDependecies, Graph!clientVars
  <2>3. CASE d # NoTask
    <3>1. GraphReadyArrays' = [GraphReadyArrays EXCEPT ![f][s] = IF Graph!BecomesReady(d) THEN d ELSE @]
      BY <1>7, <2>1, <2>3 DEF BecomesReady, Graph!BecomesReady
    <3> HIDE DEF ready
    <3> QED
      BY <1>0, <1>2, <1>3, <1>4, <1>5, <1>7, <1>12, <1>13, <1>14, <2>1, <2>3, <3>1
         DEF Graph!UpdateDependecies, Graph!clientVars
  <2> QED
    BY <2>2, <2>3
<1> QED
  BY <1>15

-----------------------------------------------------------------------------
(***************************************************************************)
(* The system implements the task graph.                                   *)
(***************************************************************************)

\* Every step on tasks is a step of the graph, or none at all.
LEMMA TaskStepGraph ==
    ASSUME GraphReady, Known, SystemInv', FibersReturnHome', program' = program,
           NEW i \in Instances, TaskStep(i)
    PROVE  Graph!Next \/ UNCHANGED Graph!vars
<1> USE DEF Graph!Next, Graph!ClientStep, Graph!FiberStep
<1>1. CASE SubmitFromTask(i) \/ (i = Helper /\ SubmitFromMain)
  <2>1. ~InDispatcher(i) /\ IsCalling(i)
    <3>1. CASE SubmitFromTask(i)
      <4>1. pc[i] = "OnFiber" /\ fiberState[running[i]] # "Idle" /\ ~InDispatcher(i)
        BY <3>1 DEF SubmitFromTask, InFunction, At
      <4>2. running[i] \in Fibers
        BY <4>1, OnOneFiber DEF GraphReady, FiberSteps
      <4> QED
        BY <4>1, <4>2 DEF IsCalling, GraphReady, SystemInv, Contents
    <3>2. CASE i = Helper /\ SubmitFromMain
      BY <3>2 DEF SubmitFromMain, At, IsCalling
    <3> QED
      BY <1>1, <3>1, <3>2
  <2>2. SubmitNext(Caller(i), i)
    BY <1>1, <2>1, CallerIs DEF SubmitFromTask, SubmitFromMain, At
  <2>3. Caller(i) \in Submitters /\ \E t \in Tasks : Graph!SubmitTask(Caller(i), t)
    BY <2>1, <2>2, SubmitTaskGraph
  <2> QED
    BY <2>3
<1>2. CASE DispatchTask(i)
  <2>1. CASE IsFlushing(i)
    BY <1>2, <2>1, FlushDispatchGraph
  <2>2. CASE ~IsFlushing(i)
    <3>1. IsCalling(i)
      BY <1>2, <2>2, DispatcherCalls DEF DispatchTask, GraphReady
    <3> QED
      BY <1>2, <3>1, DispatchTaskGraph
  <2> QED
    BY <2>1, <2>2
<1>3. CASE TakeOwnTask(i) \/ StealTask(i)
  BY <1>3, TakeTaskGraph
<1>4. CASE RunTask(i)
  BY <1>4, RunTaskGraph
<1>5. CASE FinishTask(i)
  <2>1. pc'[i] # "Astray"
    BY ProgramStays DEF FibersReturnHome
  <2> QED
    BY <1>5, <2>1, FinishTaskGraph
<1>6. CASE UpdateDependecies(i)
  BY <1>6, UpdateDependeciesGraph
<1>7. CASE EndUpdate(i)
  BY <1>7, EndUpdateGraph
<1>8. CASE AddReadyTask(i)
  BY <1>8, AddReadyTaskGraph
<1>9. CASE ClearFiber(i)
  BY <1>9, ClearFiberGraph
<1>10. CASE i = Helper /\ FlushTask
  BY <1>10, FlushTaskGraph
<1> QED
  BY <1>1, <1>2, <1>3, <1>4, <1>5, <1>6, <1>7, <1>8, <1>9, <1>10 DEF TaskStep

\* Only a submission changes what is submitted.
LEMMA TaskStepKnown ==
    ASSUME GraphReady, Known, program' = program, NEW i \in Instances, TaskStep(i)
    PROVE  Known'
<1> USE DEF taskVars, fiberVars, instanceVars, stepVars, dispatchVars, threadVars
<1>1. CASE SubmitFromTask(i) \/ (i = Helper /\ SubmitFromMain)
  <2>1. IsCalling(i) /\ SubmitNext(Caller(i), i)
    <3>1. CASE SubmitFromTask(i)
      <4>1. pc[i] = "OnFiber" /\ fiberState[running[i]] # "Idle"
        BY <3>1 DEF SubmitFromTask, InFunction, At
      <4>2. running[i] \in Fibers
        BY <4>1, OnOneFiber DEF GraphReady, FiberSteps
      <4> QED
        BY <3>1, <4>1, <4>2 DEF SubmitFromTask, IsCalling, GraphReady, SystemInv, Contents
    <3>2. CASE i = Helper /\ SubmitFromMain
      BY <3>2, CallerIs DEF SubmitFromMain, At, IsCalling
    <3> QED
      BY <1>1, <3>1, <3>2
  <2> QED
    BY <2>1, KnownStep
<1>2. CASE ~(SubmitFromTask(i) \/ (i = Helper /\ SubmitFromMain))
  <2>1. progress' = progress
    BY <1>2 DEF TaskStep, DispatchTask, TakeOwnTask, StealTask, Execute, RunTask, FinishTask,
                UpdateDependecies, EndUpdate, AddReadyTask, ClearFiber, FlushTask
  <2> QED
    BY <2>1, KnownStep
<1> QED
  BY <1>1, <1>2

\* The other steps submit nothing.
LEMMA QuietKnown ==
    ASSUME GraphReady, Known, NEW i \in Instances, QuietStep(i)
    PROVE  Known'
BY KnownStep DEF QuietStep

\* The proofs about the task graph hold for this graph.
LEMMA SameIInvNext == GraphProofs!IInv' <=> Graph!IInv'
BY SameIInv, PTL

\* The graph's invariant is kept by the graph's steps.
LEMMA GraphInvariantStep ==
    ASSUME Graph!IInv, [Graph!Next]_(Graph!vars)
    PROVE  Graph!IInv'
<1>1. GraphProofs!IInv /\ [GraphProofs!Next]_(GraphProofs!vars)
  BY SameIInv, SameNext
<1>2. NoTask \notin Tasks /\ NoTask \notin Submitters /\ MaxDependants \in Nat
  BY NamesAssumption, SizesAssumption DEF Submitters
<1>3. GraphProofs!CarefulClient
  BY DEF GraphProofs!CarefulClient
<1>4. GraphProofs!IInv'
  BY <1>1, <1>2, <1>3, GraphProofs!InvariantInductive
<1> QED
  BY <1>4, SameIInvNext

\* So the whole invariant is kept.
GraphSystemInv == GraphReady /\ Known

\* A step keeps the whole invariant and is a step of the graph.
LEMMA GraphSystemStep ==
    ASSUME GraphSystemInv, SystemInv', Idleness', PoolSuffices, FibersReturnHome', [Next]_vars
    PROVE  GraphSystemInv' /\ [Graph!Next]_(Graph!vars)
<1>1. SystemInv /\ Idleness /\ Linked /\ Stepping /\ Graph!IInv /\ GraphReady /\ Known
  BY DEF GraphSystemInv, GraphReady
<1>2. Linked'
  BY <1>1, LinkedNext
<1>3. program' = program /\ \E i \in Instances : QuietStep(i) \/ TaskStep(i)
  BY <1>1, EveryStep
<1>4. PICK i \in Instances : QuietStep(i) \/ TaskStep(i)
  BY <1>3
<1>5. Stepping' /\ Known' /\ [Graph!Next]_(Graph!vars)
  <2>1. CASE QuietStep(i)
    BY <1>1, <2>1, HelperFacts, QuietStepping, QuietKnown, QuietGraph
  <2>2. CASE TaskStep(i)
    BY <1>1, <1>3, <2>2, TaskStepping, TaskStepKnown, TaskStepGraph
  <2> QED
    BY <1>4, <2>1, <2>2
<1>6. Graph!IInv'
  BY <1>1, <1>5, GraphInvariantStep
<1> QED
  BY <1>2, <1>5, <1>6 DEF GraphSystemInv, GraphReady

\* In the beginning no task has been submitted, and every task waits for its prerequisites.
LEMMA FirstGraph ==
    ASSUME Init, DependantsFirst(program)
    PROVE  /\ \A t \in Tasks :
                 /\ ~Submitted(t) /\ GraphPending[t] = 0 /\ GraphExecutions[t] = 0
                 /\ GraphWaits[t] = {e \in Tasks \X Slots : Dependants[e[1]][e[2]] = t}
                 /\ IsFiniteSet(GraphWaits[t])
                 /\ t \notin SubmittedIn(program) => GraphWaits[t] = {} /\ Dependants[t] = NothingReady
                 /\ numberOfChildTasks[t] = IF t \in SubmittedIn(program)
                                              THEN 1 + Cardinality(GraphWaits[t]) ELSE 0
           /\ \A c \in Submitters : GraphDispatching[c] = NoTask
           /\ \A f \in Fibers : /\ fiberTask[f] = NoTask /\ GraphFiberStates[f] = "Idle"
                                /\ GraphSlots[f] = 0 /\ GraphReadyArrays[f] = NothingReady
<1>1. SystemInv
  BY SystemInvInitial
<1>2. /\ program \in Programs /\ NamedIn(program) \subseteq SubmittedIn(program)
      /\ Dependants \in [Tasks -> [Slots -> Tasks \cup {NoTask}]]
  BY <1>1, ProgramsAssumption DEF SystemInv, Typed, TypeOK, Dependants
<1>3. \A f \in Fibers : /\ fiberTask[f] = NoTask /\ stack[f] = NoTask
                        /\ GraphFiberStates[f] = "Idle" /\ GraphSlots[f] = 0
                        /\ GraphReadyArrays[f] = NothingReady
  BY <1>1, GraphIs, IdleView DEF Init
<1>4. \A c \in Submitters : GraphDispatching[c] = NoTask
  BY DEF Init, GraphDispatching, DispatchedBy
<1>5. \A t \in Tasks : ~Submitted(t)
  BY DEF Init, Submitted
<1>6. ASSUME NEW t \in Tasks PROVE GraphPending[t] = 0
  <2>1. QueueEntries(t) = {}
    BY DEF Init, QueueEntries
  <2>2. Queued(t) = 0
    BY <2>1, FS_EmptySet DEF Queued
  <2>3. ~IsFlushing(Helper)
    BY HelperIsAnInstance DEF Init, IsFlushing
  <2> QED
    BY <1>1, <2>2, <2>3, ViewsOfTheSystem DEF PendingCounts
<1>7. ASSUME NEW t \in Tasks
      PROVE  /\ IsFiniteSet({e \in Tasks \X Slots : Dependants[e[1]][e[2]] = t})
             /\ Cardinality({e \in Tasks \X Slots : Dependants[e[1]][e[2]] = t}) \in Nat
  <2>1. IsFiniteSet(Slots)
    BY SizesAssumption, FS_Interval DEF Slots
  <2>2. IsFiniteSet(Tasks \X Slots)
    BY <2>1, SizesAssumption, FS_Product
  <2>3. IsFiniteSet({e \in Tasks \X Slots : Dependants[e[1]][e[2]] = t})
    BY <2>2, FS_Subset
  <2> QED
    BY <2>3, FS_CardinalityType
<1>8. \A t \in Tasks :
         numberOfChildTasks[t] =
           IF t \notin SubmittedIn(program) THEN 0
           ELSE 1 + Cardinality({e \in Tasks \X Slots : Dependants[e[1]][e[2]] = t})
  BY DEF Init
<1>9. ASSUME NEW t \in Tasks PROVE IsFinished(t) <=> t \notin SubmittedIn(program)
  <2>1. PICK n \in Nat :
           n = Cardinality({e \in Tasks \X Slots : Dependants[e[1]][e[2]] = t})
    BY <1>7
  <2>2. numberOfChildTasks[t] = IF t \notin SubmittedIn(program) THEN 0 ELSE 1 + n
    BY <1>8, <2>1
  <2>3. n >= 0 => 1 + n # 0
    BY <2>1
  <2> QED
    BY <2>1, <2>2, <2>3 DEF IsFinished
<1>10. \A t \in Tasks \ SubmittedIn(program) : Dependants[t] = NothingReady
  BY DEF DependantsFirst, Dependants
<1>11. ASSUME NEW t \in Tasks
       PROVE  GraphWaits[t] = {e \in Tasks \X Slots : Dependants[e[1]][e[2]] = t}
  <2>1. ASSUME NEW e \in Tasks \X Slots, Dependants[e[1]][e[2]] = t
        PROVE  HasToNotify(e[1], e[2])
    <3>1. e[1] \in SubmittedIn(program)
      BY <1>10, <2>1, NamesAssumption DEF NothingReady, Submitters
    <3> QED
      BY <1>9, <3>1 DEF HasToNotify
  <2> QED
    BY <2>1 DEF GraphWaits
<1>12. ASSUME NEW t \in Tasks, t \notin SubmittedIn(program)
       PROVE  GraphWaits[t] = {}
  <2>1. ASSUME NEW e \in Tasks \X Slots, Dependants[e[1]][e[2]] = t PROVE FALSE
    <3>1. t # NoTask /\ t \in {program.dependants[u][s] : u \in Tasks, s \in Slots}
      BY <2>1, NamesAssumption DEF Dependants, Submitters
    <3>2. t \in NamedIn(program)
      BY <3>1 DEF NamedIn
    <3> QED
      BY <1>2, <1>12, <3>2
  <2> QED
    BY <1>11, <2>1
<1>13. \A t \in Tasks : GraphExecutions[t] = 0
  BY <1>3, <1>9, NamesAssumption DEF GraphExecutions, Submitters
<1> QED
  BY <1>3, <1>4, <1>5, <1>6, <1>7, <1>8, <1>10, <1>11, <1>12, <1>13

\* The first graph has its types,
LEMMA FirstGraphTypes ==
    ASSUME Init, DependantsFirst(program)
    PROVE  Graph!TypeOK
<1>1. SystemInv
  BY SystemInvInitial
<1>2. GraphOwner \in [Tasks -> Submitters \cup {NoTask}]
  <2>1. ASSUME NEW t \in SubmittedIn(program) PROVE Submitter(t) \in Submitters
    <3>1. {c \in Submitters : \E k \in DOMAIN Submits[c] : Submits[c][k] = t} # {}
      BY DEF SubmittedIn, Submits
    <3> QED
      BY <3>1 DEF Submitter, The
  <2> QED
    BY <2>1 DEF GraphOwner, Submitter
<1>3. /\ numberOfChildTasks \in [Tasks -> Int]
      /\ Dependants \in [Tasks -> [Slots -> Tasks \cup {NoTask}]]
      /\ fiberTask \in [Fibers -> Tasks \cup {NoTask}]
  BY <1>1, ProgramsAssumption DEF SystemInv, Typed, TypeOK, Dependants
<1>4. GraphHasFunction \in [Tasks -> BOOLEAN]
  BY DEF GraphHasFunction
<1>5. GraphSubmitted \in [Tasks -> BOOLEAN]
  BY DEF GraphSubmitted, Submitted
<1>6. GraphDispatching \in [Submitters -> Tasks \cup {NoTask}]
  <2>1. GraphDispatching = [c \in Submitters |-> GraphDispatching[c]]
    BY DEF GraphDispatching
  <2> QED
    BY <2>1, FirstGraph
<1>7. GraphPending \in [Tasks -> Nat]
  <2>1. GraphPending = [t \in Tasks |-> GraphPending[t]]
    BY DEF GraphPending
  <2> QED
    BY <2>1, FirstGraph
<1>8. GraphFiberStates \in [Fibers -> Graph!FiberStates]
  <2>1. GraphFiberStates = [f \in Fibers |-> GraphFiberStates[f]]
    BY DEF GraphFiberStates
  <2> QED
    BY <2>1, FirstGraph DEF Graph!FiberStates
<1>9. GraphSlots \in [Fibers -> 0 .. MaxDependants]
  <2>1. GraphSlots = [f \in Fibers |-> GraphSlots[f]]
    BY DEF GraphSlots
  <2> QED
    BY <2>1, FirstGraph, SizesAssumption
<1>10. GraphReadyArrays \in [Fibers -> [Slots -> Tasks \cup {NoTask}]]
  <2>1. GraphReadyArrays = [f \in Fibers |-> GraphReadyArrays[f]]
    BY DEF GraphReadyArrays
  <2>2. NothingReady \in [Slots -> Tasks \cup {NoTask}]
    BY DEF NothingReady
  <2> QED
    BY <2>1, <2>2, FirstGraph
<1>11. GraphWaits \in [Tasks -> SUBSET (Tasks \X Slots)]
  BY DEF GraphWaits
<1>12. GraphExecutions \in [Tasks -> Nat]
  <2>1. GraphExecutions = [t \in Tasks |-> GraphExecutions[t]]
    BY DEF GraphExecutions
  <2> QED
    BY <2>1, FirstGraph
<1>13. \A f \in Fibers : fiberTask[f] = NoTask <=> GraphFiberStates[f] = "Idle"
  BY FirstGraph
<1> QED
  BY <1>2, <1>3, <1>4, <1>5, <1>6, <1>7, <1>8, <1>9, <1>10, <1>11, <1>12, <1>13
     DEF Graph!TypeOK, Graph!Slots, Slots

\* and satisfies the invariant of the graph.
LEMMA FirstGraphInvariant ==
    ASSUME Init, DependantsFirst(program)
    PROVE  Graph!IInv
<1>1. \A t \in Tasks : /\ ~GraphSubmitted[t] /\ (GraphHasFunction[t] <=> t \in SubmittedIn(program))
                       /\ (GraphOwner[t] = NoTask => t \notin SubmittedIn(program))
  <2>1. ASSUME NEW t \in SubmittedIn(program) PROVE Submitter(t) # NoTask
    <3>1. {c \in Submitters : \E k \in DOMAIN Submits[c] : Submits[c][k] = t} # {}
      BY DEF SubmittedIn, Submits
    <3> QED
      BY <3>1, NamesAssumption DEF Submitter, The
  <2> QED
    BY <2>1, FirstGraph, GraphIs
<1>2. \A x \in Slots, f \in Fibers : GraphReadyArrays[f][x] = NoTask
  BY FirstGraph DEF NothingReady
<1>3. NoTask \notin Tasks
  BY NamesAssumption DEF Submitters
<1>4. Graph!LifeInv
  BY <1>1, FirstGraph
     DEF Graph!LifeInv, Graph!InPool, Graph!NoDependants, NothingReady, Graph!Slots, Slots
<1>5. Graph!CountInv
  <2>1. ASSUME NEW t \in Tasks
        PROVE  /\ Graph!IsFiniteSet(GraphWaits[t]) /\ GraphExecutions[t] <= 1
               /\ GraphWaits[t] # {} => GraphExecutions[t] = 0
               /\ ~(GraphHasFunction[t] /\ Graph!IsFinished(t))
               /\ numberOfChildTasks[t] = Graph!Cardinality(GraphWaits[t]) + Graph!OwnShare(t)
    <3>1. IsFiniteSet(GraphWaits[t]) /\ Cardinality(GraphWaits[t]) \in Nat
      BY FirstGraph, FS_CardinalityType
    <3>2. /\ t \notin SubmittedIn(program) => Cardinality(GraphWaits[t]) = 0
          /\ numberOfChildTasks[t] = IF t \in SubmittedIn(program)
                                       THEN 1 + Cardinality(GraphWaits[t]) ELSE 0
      BY FirstGraph, FS_EmptySet
    <3>3. Graph!OwnShare(t) = IF t \in SubmittedIn(program) THEN 1 ELSE 0
      BY <1>1 DEF Graph!OwnShare
    <3>4. GraphExecutions[t] = 0
      BY FirstGraph
    <3> QED
      BY <1>1, <3>1, <3>2, <3>3, <3>4, SameFiniteSets DEF Graph!IsFinished
  <2> QED
    BY <2>1 DEF Graph!CountInv
<1>6. Graph!EdgeInv
  <2>1. ASSUME NEW p \in Tasks, NEW d \in Tasks, NEW x \in Slots
        PROVE  Graph!EdgeOK(p, d, x)
    <3>1. <<p, x>> \in GraphWaits[d] <=> Dependants[p][x] = d
      BY FirstGraph
    <3>2. ~(GraphHasFunction[p] /\ Graph!IsFinished(p))
      BY <1>5, FirstGraph DEF Graph!CountInv
    <3> QED
      BY <1>1, <3>1, <3>2 DEF Graph!EdgeOK
  <2> QED
    BY <2>1 DEF Graph!EdgeInv, Graph!Slots, Slots
<1>7. Graph!DispatchInv
  <2>1. \A t \in Tasks : ~Graph!IsDispatched(t)
    BY <1>2, <1>3, FirstGraph DEF Graph!IsDispatched, Graph!Slots, Slots
  <2> QED
    BY <1>2, <2>1, FirstGraph DEF Graph!DispatchInv, Graph!Slots, Slots
<1>8. Graph!FiberInv
  BY FirstGraph DEF Graph!FiberInv
<1> QED
  BY <1>4, <1>5, <1>6, <1>7, <1>8, FirstGraphTypes DEF Graph!IInv

\* The invariant holds in the beginning.
LEMMA GraphSystemInitial ==
    ASSUME Init, DependantsFirst(program)
    PROVE  GraphSystemInv
<1>1. SystemInv /\ Idleness
  BY SystemInvInitial, IdlenessInitial
<1>2. Linked
  <2>1. Range(freeFibers) \subseteq Fibers /\ \A i \in Instances : currentFiber[i] \in Fibers
    BY <1>1, FirstFibers, RangeOfSequence DEF SystemInv, Typed, TypeOK
  <2>2. \A i \in Instances : Range(suspendedFibers[i]) = {} /\ pc[i] \in {"Main", "Start"}
    BY EmptyRange DEF Init
  <2>3. \A f \in Fibers : stack[f] = NoTask /\ fiberTask[f] = NoTask
    BY DEF Init
  <2> QED
    BY <2>1, <2>2, <2>3 DEF Linked
<1>3. Stepping
  <2>1. ASSUME NEW i \in Instances PROVE SteppingOf(i)
    BY DEF Init, SteppingOf, NothingReady
  <2> QED
    BY <2>1 DEF Stepping
<1>4. Known
  BY FirstGraph DEF Known, DependantsFirst
<1> QED
  BY <1>1, <1>2, <1>3, <1>4, FirstGraphInvariant DEF GraphSystemInv, GraphReady

\* The invariant holds in every state of a run in which the pool of task fibers suffices
\* and no fiber is resumed by a thread it was not converted for.
LEMMA GraphSystemInvCorrect ==
    ASSUME ClientsSubmitDependantsFirst
    PROVE  Spec /\ []PoolSuffices /\ []FibersReturnHome
             => [](SystemInv /\ Idleness /\ GraphSystemInv) /\ [][Graph!Next]_(Graph!vars)
<1>1. Init => SystemInv /\ Idleness /\ GraphSystemInv
  <2> SUFFICES ASSUME Init PROVE SystemInv /\ Idleness /\ GraphSystemInv
    OBVIOUS
  <2>1. DependantsFirst(program)
    BY DEF Init, ClientsSubmitDependantsFirst
  <2> QED
    BY <2>1, SystemInvInitial, IdlenessInitial, GraphSystemInitial
<1>2. GraphSystemInv /\ SystemInv' /\ Idleness' /\ PoolSuffices /\ FibersReturnHome' /\ [Next]_vars
        => GraphSystemInv' /\ [Graph!Next]_(Graph!vars)
  BY GraphSystemStep
<1> QED
  BY <1>1, <1>2, SystemInvCorrect, IdlenessNext, PTL DEF Spec

\* The running system implements the task graph of TaskGraph, with any number of workers:
\* with the two queues, stealing, suspended fibers, the helper instance and its flush, every
\* step is a step of the task graph or leaves the graph as it is.
THEOREM ImplementsTaskGraphCorrect ==
    ASSUME ClientsSubmitDependantsFirst
    PROVE  Spec /\ []PoolSuffices /\ []FibersReturnHome => ImplementsTaskGraph
<1>1. GraphSystemInv => Graph!IInv
  BY DEF GraphSystemInv, GraphReady
<1>2. [Graph!Next]_(Graph!vars) => [HasOneWorker => Graph!Next]_(Graph!vars)
  OBVIOUS
<1>3. [](Graph!IInv) => [](HasOneWorker => Graph!IInv)
  BY PTL
<1> QED
  BY <1>1, <1>2, <1>3, GraphSystemInvCorrect, PTL DEF ImplementsTaskGraph

\* So what is proved of the graph holds of the running system: a task is dispatched when all
\* its prerequisites have finished, is executed once, waits in one queue, and runs after them.
THEOREM GraphOfTheSystemCorrect ==
    ASSUME ClientsSubmitDependantsFirst
    PROVE  Spec /\ []PoolSuffices /\ []FibersReturnHome
             => [](/\ Graph!DispatchedTasksAreReady /\ Graph!PendingAtMostOnce
                   /\ Graph!ExecutedAtMostOnce /\ Graph!PrerequisitesFinishFirst)
<1>1. GraphSystemInv => Graph!DispatchedTasksAreReady /\ Graph!PendingAtMostOnce
  BY DEF GraphSystemInv, GraphReady, Graph!IInv, Graph!DispatchInv,
         Graph!DispatchedTasksAreReady, Graph!PendingAtMostOnce, Graph!IsReadyToBeExecuted
<1>2. GraphSystemInv => Graph!ExecutedAtMostOnce
  BY DEF GraphSystemInv, GraphReady, Graph!IInv, Graph!CountInv, Graph!ExecutedAtMostOnce
<1>3. GraphSystemInv => Graph!PrerequisitesFinishFirst
  <2> SUFFICES ASSUME Graph!IInv PROVE Graph!PrerequisitesFinishFirst
    BY DEF GraphSystemInv, GraphReady
  <2>1. GraphProofs!PrerequisitesFinishFirst
    BY SameIInv, GraphProofs!RunningTasksHaveNoPrerequisite, SizesAssumption, NamesAssumption
       DEF Submitters
  <2> QED
    BY <2>1, SameFinished
       DEF GraphProofs!PrerequisitesFinishFirst, Graph!PrerequisitesFinishFirst,
           GraphProofs!HasDependant, Graph!HasDependant, GraphProofs!Slots, Graph!Slots
<1> QED
  BY <1>1, <1>2, <1>3, GraphSystemInvCorrect, PTL

-----------------------------------------------------------------------------
(***************************************************************************)
(* Steps of a thread with its own fibers.                                  *)
(*                                                                         *)
(* All but two steps of the flush are such: no fiber goes from one thread  *)
(* to another (OwnMove).                                                   *)
(***************************************************************************)

\* The fibers that a thread or a queue of instance i holds, but the current one.
Away(i) == Resumed(i) \cup Range(suspendedFibers[i])

\* The steps in which the current fiber need not have a parent.
Unconverted == {"Main", "Start", "Done"}

\* A step of thread i with its own fibers: it adds none to the ones away but the one it
\* has just suspended, and leaves these with their tasks and parents.
OwnMove(i) ==
    /\ program' = program
    /\ \A j \in Instances : j # i =>
          /\ pc'[j] = pc[j] /\ running'[j] = running[j] /\ currentFiber'[j] = currentFiber[j]
          /\ suspendedFibers'[j] = suspendedFibers[j]
    /\ \A f \in Away(i)' : f \in Away(i) \/ (pc[i] = "Suspended" /\ f = running[i])
    /\ \A f \in Fibers :
          f \in Away(i)' \/ f \notin Holding(i) \cup Range(freeFibers)
             => fiberTask'[f] = fiberTask[f] /\ fiberParent'[f] = fiberParent[f]
    /\ pc'[i] \notin Unconverted =>
          \/ fiberParent'[currentFiber'[i]] = i
          \/ /\ pc[i] \notin Unconverted
             /\ fiberParent'[currentFiber'[i]] = fiberParent[currentFiber[i]]
    /\ pc'[i] = "Suspended" =>
          \/ pc[i] = "Suspended" /\ running'[i] = running[i]
                                 /\ fiberTask'[running[i]] = fiberTask[running[i]]
          \/ SuspendTask(i)

\* A thread goes to another step and leaves its fibers alone.
LEMMA MoveKept ==
    ASSUME program' = program, NEW i \in Instances,
           UNCHANGED <<fiberTask, fiberParent, currentFiber, running, suspendedFibers>>,
           \A j \in Instances : j # i => pc'[j] = pc[j],
           pc'[i] \notin Unconverted => pc[i] \notin Unconverted,
           pc'[i] = "Suspended" => pc[i] = "Suspended"
    PROVE  OwnMove(i)
BY DEF OwnMove, Away, Resumed

\* The thread becomes a fiber, whose parent is the thread itself.
LEMMA ConvertMove ==
    ASSUME SystemInv, program' = program, NEW i \in Instances, pc[i] \in {"Start", "Main"},
           NEW step \in {"Wait", "Check"}, pc' = [pc EXCEPT ![i] = step], Convert(i)
    PROVE  OwnMove(i)
<1>1. /\ pc \in [Instances -> AllSteps] /\ currentFiber[i] \in Fibers
      /\ fiberParent \in [Fibers -> Instances \cup {NoInstance}]
      /\ currentFiber[i] \in Current(i) /\ currentFiber[i] \notin Away(i)
  BY FibersApart DEF SystemInv, Typed, TypeOK, Current, Away, Resumed
<1>2. /\ UNCHANGED <<fiberTask, currentFiber, running, suspendedFibers>>
      /\ fiberParent' = [fiberParent EXCEPT ![currentFiber[i]] = i]
  BY DEF Convert, stepVars
<1>3. Away(i)' = Away(i)
  BY <1>2 DEF Away, Resumed
<1>4. /\ fiberParent'[currentFiber[i]] = i
      /\ \A f \in Fibers : f # currentFiber[i] => fiberParent'[f] = fiberParent[f]
  BY <1>1, <1>2
<1>5. pc'[i] = step /\ \A j \in Instances : j # i => pc'[j] = pc[j]
  BY <1>1
<1> QED
  BY <1>1, <1>2, <1>3, <1>4, <1>5 DEF OwnMove, Holding

\* The current fiber is released when the thread is no fiber any more.
LEMMA ReleaseMove ==
    ASSUME SystemInv, program' = program, NEW i \in Instances, pc[i] \in {"Retire", "Stop"},
           pc' = [pc EXCEPT ![i] = "Done"], ReleaseFiber(currentFiber[i]),
           UNCHANGED <<currentFiber, running, suspendedFibers>>
    PROVE  OwnMove(i)
<1>1. /\ pc \in [Instances -> AllSteps] /\ currentFiber[i] \in Fibers
      /\ currentFiber[i] \in Current(i) /\ currentFiber[i] \notin Away(i)
  BY FibersApart DEF SystemInv, Typed, TypeOK, Current, Away, Resumed
<1>2. Away(i)' = Away(i)
  BY DEF Away, Resumed
<1>3. \A f \in Fibers : f # currentFiber[i] =>
         fiberTask'[f] = fiberTask[f] /\ fiberParent'[f] = fiberParent[f]
  BY <1>1 DEF ReleaseFiber, SystemInv, Typed, TypeOK
<1>4. pc'[i] = "Done" /\ \A j \in Instances : j # i => pc'[j] = pc[j]
  BY <1>1
<1> QED
  BY <1>1, <1>2, <1>3, <1>4 DEF OwnMove, Holding, Unconverted

\* A suspended fiber is resumed.
LEMMA ResumeFiberMove ==
    ASSUME SystemInv, program' = program, NEW i \in Instances, ResumeFiber(i)
    PROVE  OwnMove(i)
<1> DEFINE queue == suspendedFibers[i]
<1>1. /\ pc[i] = "Resume" /\ pc' = [pc EXCEPT ![i] = "OnFiber"] /\ pc \in [Instances -> AllSteps]
      /\ queue # <<>> /\ queue \in Seq(Fibers) /\ IsInjective(queue)
      /\ running' = [running EXCEPT ![i] = Head(queue)]
      /\ suspendedFibers' = [suspendedFibers EXCEPT ![i] = Tail(queue)]
      /\ UNCHANGED <<fiberTask, fiberParent, currentFiber>>
  BY DEF ResumeFiber, GoTo, fiberVars, SystemInv, Typed, TypeOK, Placed
<1>2. /\ Head(queue) \in Range(queue) /\ Range(Tail(queue)) = Range(queue) \ {Head(queue)}
  BY <1>1, TailRange
<1>3. /\ pc'[i] = "OnFiber" /\ running'[i] = Head(queue) /\ suspendedFibers'[i] = Tail(queue)
      /\ \A j \in Instances : j # i =>
            /\ pc'[j] = pc[j] /\ running'[j] = running[j] /\ currentFiber'[j] = currentFiber[j]
            /\ suspendedFibers'[j] = suspendedFibers[j]
  BY <1>1 DEF SystemInv, Typed, TypeOK
<1>4. \A f \in Away(i)' : f \in Range(queue)
  BY <1>2, <1>3 DEF Away, Resumed
<1> HIDE DEF queue
<1>5. \A f \in Away(i)' : f \in Away(i)
  BY <1>4 DEF Away, queue
<1> QED
  BY <1>1, <1>3, <1>5 DEF OwnMove, Unconverted

\* The current fiber gets a task.
LEMMA ExecuteMove ==
    ASSUME SystemInv, program' = program, NEW i \in Instances, pc[i] \in {"Take", "Steal"},
           NEW t \in Tasks, Execute(i, t)
    PROVE  OwnMove(i)
<1>1. PICK f \in Current(i) : f = currentFiber[i]
  BY DEF Current
<1>2. f \in Fibers /\ f \in Holding(i) /\ f \notin Range(suspendedFibers[i])
  BY <1>1, FibersApart DEF Holding
<1>3. /\ fiberTask' = [fiberTask EXCEPT ![f] = t]
      /\ UNCHANGED <<fiberParent, currentFiber, suspendedFibers>>
      /\ pc' = [pc EXCEPT ![i] = "OnFiber"] /\ pc \in [Instances -> AllSteps]
      /\ running' = [running EXCEPT ![i] = f] /\ running \in [Instances -> Fibers \cup {NoFiber}]
  BY <1>1 DEF Execute, GoTo, SystemInv, Typed, TypeOK
<1>4. /\ pc'[i] = "OnFiber" /\ running'[i] = f /\ currentFiber'[i] = f
      /\ \A j \in Instances : j # i =>
            /\ pc'[j] = pc[j] /\ running'[j] = running[j] /\ currentFiber'[j] = currentFiber[j]
            /\ suspendedFibers'[j] = suspendedFibers[j]
  BY <1>1, <1>3
<1>5. Away(i)' = Range(suspendedFibers[i])
  BY <1>3, <1>4 DEF Away, Resumed
<1>6. \A h \in Fibers : h # f => fiberTask'[h] = fiberTask[h]
  BY <1>3 DEF SystemInv, Typed, TypeOK
<1>7. \A h \in Fibers : h \in Away(i)' \/ h \notin Holding(i) \cup Range(freeFibers) => h # f
  BY <1>2, <1>5
<1>8. \A h \in Away(i)' : h \in Away(i)
  BY <1>5 DEF Away
<1>9. /\ \A h \in Fibers :
            h \in Away(i)' \/ h \notin Holding(i) \cup Range(freeFibers)
               => fiberTask'[h] = fiberTask[h] /\ fiberParent'[h] = fiberParent[h]
      /\ pc[i] \notin Unconverted /\ pc'[i] # "Suspended"
      /\ fiberParent'[currentFiber'[i]] = fiberParent[currentFiber[i]]
  BY <1>3, <1>4, <1>6, <1>7 DEF Unconverted
<1> QED
  BY <1>4, <1>8, <1>9 DEF OwnMove

\* The current fiber is suspended, and a free one takes its place.
LEMMA ReplaceCurrentFiberMove ==
    ASSUME SystemInv, program' = program, NEW i \in Instances, ReplaceCurrentFiber(i)
    PROVE  OwnMove(i)
<1>1. PICK step \in {"Check", "Loop"} : pc' = [pc EXCEPT ![i] = step]
  BY AfterStepIs DEF ReplaceCurrentFiber, GoTo
<1>2. /\ pc[i] = "Suspended" /\ running[i] = currentFiber[i] /\ freeFibers # <<>>
      /\ currentFiber' = [currentFiber EXCEPT ![i] = Head(freeFibers)]
      /\ running' = [running EXCEPT ![i] = NoFiber]
      /\ suspendedFibers' = [suspendedFibers EXCEPT ![i] = Append(@, currentFiber[i])]
      /\ fiberParent' = [fiberParent EXCEPT ![Head(freeFibers)] = i]
      /\ fiberTask' = fiberTask
  BY DEF ReplaceCurrentFiber
<1>3. /\ pc \in [Instances -> AllSteps] /\ currentFiber \in [Instances -> Fibers]
      /\ running \in [Instances -> Fibers \cup {NoFiber}]
      /\ suspendedFibers \in [Instances -> Seq(Fibers)]
      /\ fiberParent \in [Fibers -> Instances \cup {NoInstance}]
      /\ freeFibers \in Seq(Fibers) /\ IsInjective(freeFibers)
  BY DEF SystemInv, Typed, TypeOK, Placed
<1>4. PICK h \in Fibers : h = Head(freeFibers)
  BY <1>2, <1>3, HeadTailProperties
<1>5. h \in Range(freeFibers)
  BY <1>2, <1>3, <1>4, TailRange
<1>6. PICK f \in Current(i) \cup Resumed(i) : f = running[i] /\ f \in Fibers
  BY <1>2, OnOneFiber DEF FiberSteps
<1>7. /\ pc'[i] = step /\ currentFiber'[i] = h /\ running'[i] = NoFiber
      /\ suspendedFibers'[i] = Append(suspendedFibers[i], f)
      /\ \A j \in Instances : j # i =>
            /\ pc'[j] = pc[j] /\ running'[j] = running[j] /\ currentFiber'[j] = currentFiber[j]
            /\ suspendedFibers'[j] = suspendedFibers[j]
  BY <1>1, <1>2, <1>3, <1>4, <1>6
<1>8. Away(i)' = Range(suspendedFibers[i]) \cup {f}
  BY <1>3, <1>6, <1>7, AppendRange DEF Away, Resumed
<1>9. h # f /\ h \notin Range(suspendedFibers[i])
  BY <1>5, <1>6, FibersApart DEF SystemInv, Placed, Holding
<1>10. /\ fiberParent'[h] = i
       /\ \A g \in Fibers : g # h => fiberParent'[g] = fiberParent[g]
  BY <1>2, <1>3, <1>4
<1>11. \A g \in Fibers : g \in Away(i)' \/ g \notin Holding(i) \cup Range(freeFibers) => g # h
  BY <1>5, <1>8, <1>9
<1>12. /\ \A g \in Away(i)' : g \in Away(i) \/ (pc[i] = "Suspended" /\ g = running[i])
       /\ pc'[i] # "Suspended" /\ fiberParent'[currentFiber'[i]] = i
  BY <1>2, <1>6, <1>7, <1>8, <1>10 DEF Away
<1> QED
  BY <1>2, <1>7, <1>10, <1>11, <1>12 DEF OwnMove

\* A resumed fiber is suspended again.
LEMMA RequeueFiberMove ==
    ASSUME SystemInv, program' = program, NEW i \in Instances, RequeueFiber(i)
    PROVE  OwnMove(i)
<1>1. /\ pc[i] = "Suspended" /\ running[i] # currentFiber[i]
      /\ pc' = [pc EXCEPT ![i] = "Resume"]
      /\ running' = [running EXCEPT ![i] = NoFiber]
      /\ suspendedFibers' = [suspendedFibers EXCEPT ![i] = Append(@, running[i])]
      /\ UNCHANGED <<currentFiber, fiberTask, fiberParent>>
  BY DEF RequeueFiber, GoTo, fiberVars
<1>2. /\ pc \in [Instances -> AllSteps]
      /\ running \in [Instances -> Fibers \cup {NoFiber}]
      /\ suspendedFibers \in [Instances -> Seq(Fibers)]
  BY DEF SystemInv, Typed, TypeOK
<1>3. PICK f \in Current(i) \cup Resumed(i) : f = running[i] /\ f \in Fibers
  BY <1>1, OnOneFiber DEF FiberSteps
<1>4. /\ pc'[i] = "Resume" /\ running'[i] = NoFiber
      /\ suspendedFibers'[i] = Append(suspendedFibers[i], f)
      /\ \A j \in Instances : j # i =>
            /\ pc'[j] = pc[j] /\ running'[j] = running[j] /\ currentFiber'[j] = currentFiber[j]
            /\ suspendedFibers'[j] = suspendedFibers[j]
  BY <1>1, <1>2, <1>3
<1>5. Away(i)' = Range(suspendedFibers[i]) \cup {f}
  BY <1>2, <1>3, <1>4, AppendRange DEF Away, Resumed
<1>6. \A g \in Away(i)' : g \in Away(i) \/ (pc[i] = "Suspended" /\ g = running[i])
  BY <1>1, <1>3, <1>5 DEF Away
<1> QED
  BY <1>1, <1>4, <1>6 DEF OwnMove, Unconverted

\* The fiber of a finished task stays current, or is released.
LEMMA ClearFiberMove ==
    ASSUME SystemInv, program' = program, NEW i \in Instances, ClearFiber(i)
    PROVE  OwnMove(i)
<1>1. PICK step \in {"Check", "Loop", "Take"} : pc' = [pc EXCEPT ![i] = step]
  BY AfterStepIs DEF ClearFiber, GoTo
<1>2. /\ pc[i] = "Add" /\ running' = [running EXCEPT ![i] = NoFiber]
      /\ UNCHANGED <<currentFiber, suspendedFibers>>
  BY DEF ClearFiber, instanceVars
<1>3. PICK f \in Current(i) \cup Resumed(i) : f = running[i] /\ f \in Fibers
  BY <1>2, OnOneFiber DEF FiberSteps
<1>4. f \in Holding(i) /\ f \notin Range(suspendedFibers[i])
  BY FibersApart DEF Holding
<1>5. /\ \A h \in Fibers : h # f => fiberTask'[h] = fiberTask[h] /\ fiberParent'[h] = fiberParent[h]
      /\ f = currentFiber[i] => fiberParent' = fiberParent
  BY <1>3 DEF ClearFiber, ReleaseFiber, SystemInv, Typed, TypeOK
<1>6. /\ pc'[i] = step /\ running'[i] = NoFiber
      /\ \A j \in Instances : j # i =>
            /\ pc'[j] = pc[j] /\ running'[j] = running[j] /\ currentFiber'[j] = currentFiber[j]
            /\ suspendedFibers'[j] = suspendedFibers[j]
  BY <1>1, <1>2 DEF SystemInv, Typed, TypeOK
<1>7. Away(i)' = Range(suspendedFibers[i])
  BY <1>2, <1>6 DEF Away, Resumed
<1>8. currentFiber[i] \in Fibers
  BY DEF SystemInv, Typed, TypeOK
<1>9. /\ \A h \in Fibers :
            h \in Away(i)' \/ h \notin Holding(i) \cup Range(freeFibers)
               => fiberTask'[h] = fiberTask[h] /\ fiberParent'[h] = fiberParent[h]
      /\ fiberParent'[currentFiber[i]] = fiberParent[currentFiber[i]]
  BY <1>4, <1>5, <1>7, <1>8
<1>10. /\ \A h \in Away(i)' : h \in Away(i)
       /\ pc[i] \notin Unconverted /\ pc'[i] # "Suspended" /\ currentFiber'[i] = currentFiber[i]
  BY <1>2, <1>6, <1>7 DEF Away, Unconverted
<1> QED
  BY <1>6, <1>9, <1>10 DEF OwnMove

\* The other parts of the execution step.
LEMMA ExecutionStepMove ==
    ASSUME SystemInv, PoolSuffices, program' = program, NEW i \in Instances, ExecutionStep(i)
    PROVE  OwnMove(i)
<1> USE DEF taskVars, fiberVars, instanceVars, stepVars, dispatchVars, threadVars
<1>0. pc \in [Instances -> AllSteps] /\ isThereMoreWork[i] \in BOOLEAN
  BY DEF SystemInv, Typed, TypeOK
<1>1. CASE EndResume(i) \/ StartStealing(i) \/ EndUpdate(i)
  BY <1>0, <1>1, MoveKept DEF EndResume, StartStealing, EndUpdate, GoTo, Unconverted
<1>2. CASE UpdateDependecies(i) \/ AddReadyTask(i) \/ DispatchTask(i) \/ WakeUp(i)
  BY <1>2, MoveKept DEF UpdateDependecies, AddReadyTask, DispatchTask, WakeUp
<1>3. CASE NothingToSteal(i)
  <2>1. AfterStep(i, isThereMoreWork[i]) \in {"Check", "Loop", "Wait"}
    BY <1>0, AfterStepIs
  <2> QED
    BY <1>0, <1>3, <2>1, MoveKept DEF NothingToSteal, GoTo, Unconverted
<1>4. CASE TakeOwnTask(i) \/ StealTask(i)
  BY <1>4, TakenTasks, ExecuteMove
<1>5. CASE KeepCurrentFiber(i)
  BY <1>5 DEF KeepCurrentFiber, PoolSuffices
<1>6. CASE RunTask(i)
  BY <1>6, MoveKept DEF RunTask
<1>7. CASE SubmitFromTask(i)
  BY <1>7, MoveKept DEF SubmitFromTask, SubmitNext
<1>8. CASE SuspendTask(i)
  <2>1. /\ UNCHANGED <<fiberTask, fiberParent, currentFiber, running, suspendedFibers>>
        /\ pc[i] = "OnFiber" /\ \A j \in Instances : j # i => pc'[j] = pc[j]
    BY <1>0, <1>8 DEF SuspendTask, SwitchToParent, GoTo, InFunction, At
  <2> QED
    BY <1>8, <2>1 DEF OwnMove, Away, Resumed, Unconverted
<1>9. CASE FinishTask(i)
  BY <1>0, <1>9, MoveKept DEF FinishTask, SwitchToParent, GoTo, InFunction, At, Unconverted
<1> QED
  BY <1>1, <1>2, <1>3, <1>4, <1>5, <1>6, <1>7, <1>8, <1>9, ResumeFiberMove,
     ReplaceCurrentFiberMove, RequeueFiberMove, ClearFiberMove
     DEF ExecutionStep

\* Every step of a worker is one with its own fibers.
LEMMA WorkerThreadMove ==
    ASSUME SystemInv, PoolSuffices, NEW w \in 1 .. MaxWorkers, WorkerThread(w)
    PROVE  w \in Instances /\ OwnMove(w)
<1> USE DEF taskVars, fiberVars, instanceVars, stepVars, dispatchVars, threadVars
<1>0. program' = program /\ w \in Workers /\ w \in Instances /\ pc \in [Instances -> AllSteps]
  BY HelperFacts DEF WorkerThread
<1>1. CASE StartThread(w)
  BY <1>0, <1>1, ConvertMove DEF StartThread, GoTo
<1>2. CASE WaitForEvent(w) \/ ResetEvent(w) \/ CheckFinish(w)
  BY <1>0, <1>2, MoveKept DEF WaitForEvent, ResetEvent, CheckFinish, GoTo, Unconverted
<1>3. CASE Loop(w)
  BY <1>0, <1>3, MoveKept DEF Loop, BeginStep, GoTo, Unconverted
<1>4. CASE Retire(w)
  BY <1>0, <1>4, ReleaseMove DEF Retire, GoTo
<1> QED
  BY <1>0, <1>1, <1>2, <1>3, <1>4, ExecutionStepMove DEF WorkerThread

\* So is every step of the main thread, but the flush of suspended fibers.
LEMMA MainThreadMove ==
    ASSUME SystemInv, PoolSuffices, MainThread
    PROVE  FlushFiber \/ AdoptFiber \/ OwnMove(Helper)
<1> USE DEF taskVars, fiberVars, instanceVars, stepVars, dispatchVars, threadVars
<1>0. program' = program /\ Helper \in Instances /\ pc \in [Instances -> AllSteps]
  BY HelperFacts DEF MainThread
<1>1. CASE SubmitFromMain \/ FlushTask
  BY <1>0, <1>1, MoveKept DEF SubmitFromMain, SubmitNext, FlushTask
<1>2. CASE ConvertMainThread
  BY <1>0, <1>2, ConvertMove DEF ConvertMainThread, GoTo, At
<1>3. CASE CheckCondition \/ EndFlushFibers \/ RaiseFence
  BY <1>0, <1>3, MoveKept
     DEF CheckCondition, BeginStep, EndFlushFibers, RaiseFence, GoTo, At, Unconverted
<1>4. CASE ReturnFromWaitUntil
  <2>1. AfterWaitUntil \in {"Fence", "Stop", "Returned"}
    BY DEF AfterWaitUntil
  <2> QED
    BY <1>0, <1>4, <2>1, MoveKept DEF ReturnFromWaitUntil, GoTo, At, Unconverted
<1>5. CASE RequestFinish \/ WakeUpToFinish
  BY <1>0, <1>5, MoveKept DEF RequestFinish, WakeUpToFinish, GoTo, Unconverted
<1>6. CASE Deinitialize
  BY <1>0, <1>6, ReleaseMove DEF Deinitialize, GoTo
<1> QED
  BY <1>0, <1>1, <1>2, <1>3, <1>4, <1>5, <1>6, ExecutionStepMove DEF MainThread

-----------------------------------------------------------------------------
(***************************************************************************)
(* A pool that is large enough.                                            *)
(*                                                                         *)
(* Only tasks that wait are suspended, so that a pool with a fiber for each*)
(* and for every instance is never used up (OnlyWaitersWait).              *)
(***************************************************************************)

\* A fiber that is away or about to be has a task that waits.
OnlyWaitersWait ==
    \A i \in Instances :
        /\ \A f \in Away(i) : fiberTask[f] \in Waiters(program)
        /\ pc[i] = "Suspended" => fiberTask[running[i]] \in Waiters(program)

\* What instance i has away, it holds.
LEMMA AwayIsHeld ==
    ASSUME SystemInv, NEW i \in Instances, NEW f \in Away(i)
    PROVE  f \in Fibers /\ f \in Holding(i)
<1>1. Range(suspendedFibers[i]) \subseteq Fibers
  BY RangeOfSequence DEF SystemInv, Typed, TypeOK
<1> QED
  BY <1>1 DEF Away, Holding, Resumed, SystemInv, Typed, TypeOK

\* The task whose function a thread executes.
LEMMA FunctionsTask ==
    ASSUME SystemInv, Linked, Graph!IInv, NEW i \in Instances, InFunction(i)
    PROVE  /\ pc[i] = "OnFiber" /\ running[i] \in Fibers
           /\ Caller(i) = fiberTask[running[i]]
           /\ Caller(i) \in Tasks /\ Caller(i) \in SubmittedIn(program)
<1>1. pc[i] = "OnFiber" /\ fiberState[running[i]] # "Idle"
  BY DEF InFunction, At
<1>2. running[i] \in Fibers
  BY <1>1, OnOneFiber DEF FiberSteps
<1>3. stack[running[i]] # NoTask
  BY <1>1, <1>2 DEF SystemInv, Contents
<1>4. Caller(i) = fiberTask[running[i]] /\ fiberTask[running[i]] # NoTask
  BY <1>1, <1>2, <1>3 DEF Caller, Linked
<1> QED
  BY <1>1, <1>2, <1>4, TaskOfFiber

\* Only a task that waits for something is suspended.
LEMMA SuspendedTaskWaits ==
    ASSUME SystemInv, Linked, Graph!IInv, NEW i \in Instances, SuspendTask(i)
    PROVE  /\ fiberTask' = fiberTask /\ running' = running
           /\ fiberTask[running[i]] \in Waiters(program)
<1>1. InFunction(i) /\ ~CanProceed(Caller(i)) /\ fiberTask' = fiberTask /\ running' = running
  BY DEF SuspendTask, stepVars
<1>2. Caller(i) = fiberTask[running[i]] /\ Caller(i) \in SubmittedIn(program)
  BY <1>1, FunctionsTask
<1>3. Awaits[Caller(i)] # {} \/ Caller(i) \in Fenced
  BY <1>1 DEF CanProceed
<1> QED
  BY <1>1, <1>2, <1>3 DEF Waiters, Awaits, Fenced

\* What a step of thread i leaves of the others.
LEMMA OthersAway ==
    ASSUME SystemInv, NEW i \in Instances, OwnMove(i), NEW j \in Instances, j # i
    PROVE  /\ Away(j)' = Away(j)
           /\ \A f \in Holding(j) : fiberTask'[f] = fiberTask[f] /\ fiberParent'[f] = fiberParent[f]
<1>1. Away(j)' = Away(j)
  BY DEF OwnMove, Away, Resumed
<1>2. Holding(j) \subseteq Fibers
  <2>1. Range(suspendedFibers[j]) \subseteq Fibers
    BY RangeOfSequence DEF SystemInv, Typed, TypeOK
  <2> QED
    BY <2>1 DEF Holding, Current, Resumed, SystemInv, Typed, TypeOK
<1>3. \A f \in Holding(j) : f \notin Holding(i) \cup Range(freeFibers)
  BY DEF SystemInv, Placed
<1> QED
  BY <1>1, <1>2, <1>3 DEF OwnMove

\* A step of a thread with its own fibers.
LEMMA OwnMoveWaits ==
    ASSUME SystemInv, SystemInv', Linked, Graph!IInv, OnlyWaitersWait, NEW i \in Instances, OwnMove(i)
    PROVE  OnlyWaitersWait'
<1>1. program' = program /\ Instances' = Instances /\ Waiters(program)' = Waiters(program)
  BY ProgramStays DEF OwnMove, Waiters, SubmittedIn
<1>2. ASSUME NEW j \in Instances, j # i
      PROVE  /\ \A f \in Away(j)' : fiberTask'[f] \in Waiters(program)
             /\ pc'[j] = "Suspended" => fiberTask'[running'[j]] \in Waiters(program)
  <2>1. \A f \in Away(j)' : fiberTask'[f] \in Waiters(program)
    BY <1>2, OthersAway, AwayIsHeld DEF OnlyWaitersWait
  <2>2. ASSUME pc'[j] = "Suspended" PROVE fiberTask'[running'[j]] \in Waiters(program)
    <3>1. pc[j] = "Suspended" /\ running'[j] = running[j]
      BY <1>2, <2>2 DEF OwnMove
    <3>2. running[j] \in Holding(j)
      BY <3>1, OnOneFiber DEF FiberSteps, Holding
    <3> QED
      BY <1>2, <3>1, <3>2, OthersAway DEF OnlyWaitersWait
  <2> QED
    BY <2>1, <2>2
<1>3. \A f \in Away(i)' : fiberTask'[f] \in Waiters(program)
  <2> SUFFICES ASSUME NEW f \in Away(i)' PROVE fiberTask'[f] \in Waiters(program)
    OBVIOUS
  <2>1. f \in Away(i) \/ (pc[i] = "Suspended" /\ f = running[i])
    BY DEF OwnMove
  <2>2. f \in Fibers
    BY <2>1, AwayIsHeld, OnOneFiber DEF FiberSteps
  <2>3. fiberTask'[f] = fiberTask[f]
    BY <2>2 DEF OwnMove
  <2> QED
    BY <2>1, <2>3 DEF OnlyWaitersWait
<1>4. pc'[i] = "Suspended" => fiberTask'[running'[i]] \in Waiters(program)
  BY SuspendedTaskWaits DEF OwnMove, OnlyWaitersWait
<1> QED
  BY <1>1, <1>2, <1>3, <1>4 DEF OnlyWaitersWait

\* A suspended fiber goes from the helper instance to another one.
LEMMA FlushFiberWaits ==
    ASSUME SystemInv, OnlyWaitersWait, program' = program, FlushFiber PROVE OnlyWaitersWait'
<1> DEFINE q == suspendedFibers[Helper]
           f == q[Len(q)]
           rest == SubSeq(q, 1, Len(q) - 1)
<1>1. /\ Helper \in Instances /\ \A v \in Workers : v \in Instances /\ v # Helper
      /\ pc \in [Instances -> AllSteps]
  BY HelperFacts
<1>2. PICK w \in Workers :
         suspendedFibers' = [suspendedFibers EXCEPT ![Helper] = rest, ![w] = Append(@, f)]
  BY DEF FlushFiber
<1>3. /\ q # <<>> /\ pc' = [pc EXCEPT ![Helper] = "Adopt"]
      /\ UNCHANGED <<fiberTask, currentFiber, running>>
  BY DEF FlushFiber, At, GoTo, fiberVars, stepVars
<1>4. /\ suspendedFibers \in [Instances -> Seq(Fibers)] /\ q \in Seq(Fibers) /\ IsInjective(q)
      /\ suspendedFibers[w] \in Seq(Fibers)
  BY <1>1 DEF SystemInv, Typed, TypeOK, Placed
<1>5. f \in Fibers /\ f \in Range(q) /\ Range(rest) = Range(q) \ {f}
  BY <1>3, <1>4, FrontRange
<1>6. Range(Append(suspendedFibers[w], f)) = Range(suspendedFibers[w]) \cup {f}
  BY <1>4, <1>5, AppendRange
<1>7. /\ suspendedFibers'[Helper] = rest
      /\ suspendedFibers'[w] = Append(suspendedFibers[w], f)
      /\ \A j \in Instances : j # Helper /\ j # w => suspendedFibers'[j] = suspendedFibers[j]
  BY <1>1, <1>2, <1>4
<1>8. pc'[Helper] = "Adopt" /\ \A j \in Instances : j # Helper => pc'[j] = pc[j]
  BY <1>1, <1>3
<1>9. f \in Away(Helper)
  BY <1>5 DEF Away
<1>10. \A h \in Range(rest) : h \in Range(suspendedFibers[Helper])
  BY <1>5
<1> HIDE DEF q, f, rest
<1>11. ASSUME NEW j \in Instances, NEW h \in Range(suspendedFibers'[j])
       PROVE  h \in Range(suspendedFibers[j]) \/ h = f
  <2>1. CASE j = Helper
    BY <1>7, <1>10, <1>11, <2>1
  <2>2. CASE j = w
    BY <1>6, <1>7, <1>11, <2>2
  <2> QED
    BY <1>7, <2>1, <2>2
<1>12. \A j \in Instances : \A h \in Away(j)' : h \in Away(j) \/ h = f
  BY <1>3, <1>11 DEF Away, Resumed
<1>13. fiberTask[f] \in Waiters(program)
  BY <1>1, <1>9 DEF OnlyWaitersWait
<1> QED
  BY <1>3, <1>8, <1>12, <1>13, ProgramStays DEF OnlyWaitersWait, Waiters, SubmittedIn

\* It gets its new parent.
LEMMA AdoptFiberWaits ==
    ASSUME SystemInv, OnlyWaitersWait, program' = program, AdoptFiber PROVE OnlyWaitersWait'
<1>1. /\ UNCHANGED <<fiberTask, currentFiber, running, suspendedFibers>>
      /\ GoTo(Helper, "FlushFibers") /\ pc \in [Instances -> AllSteps] /\ Helper \in Instances
  BY HelperFacts DEF AdoptFiber, instanceVars, stepVars
<1>2. pc'[Helper] = "FlushFibers" /\ \A j \in Instances : j # Helper => pc'[j] = pc[j]
  BY <1>1 DEF GoTo
<1> QED
  BY <1>1, <1>2, ProgramStays DEF OnlyWaitersWait, Waiters, SubmittedIn, Away, Resumed

\* So in every step.
LEMMA WaitersStep ==
    ASSUME SystemInv, SystemInv', Linked, Graph!IInv, OnlyWaitersWait, PoolSuffices, [Next]_vars
    PROVE  OnlyWaitersWait'
<1>1. CASE UNCHANGED vars
  BY <1>1 DEF vars, taskVars, fiberVars, instanceVars, stepVars, OnlyWaitersWait, Waiters,
              SubmittedIn, Away, Resumed, Instances, Workers, NumWorkers
<1>2. CASE MainThread
  <2>1. program' = program /\ Helper \in Instances
    BY <1>2, HelperFacts DEF MainThread
  <2> QED
    BY <1>2, <2>1, MainThreadMove, FlushFiberWaits, AdoptFiberWaits, OwnMoveWaits
<1>3. CASE \E w \in 1 .. MaxWorkers : WorkerThread(w)
  BY <1>3, WorkerThreadMove, OwnMoveWaits
<1> QED
  BY <1>1, <1>2, <1>3 DEF Next

\* A set that two others cover has at most as many elements as they have together.
LEMMA CoveredByTwo ==
    ASSUME NEW S, NEW T, NEW X, IsFiniteSet(S), IsFiniteSet(T), X \subseteq S \cup T
    PROVE  /\ IsFiniteSet(X) /\ Cardinality(X) <= Cardinality(S) + Cardinality(T)
           /\ Cardinality(X) \in Nat /\ Cardinality(S) \in Nat /\ Cardinality(T) \in Nat
<1>1. /\ IsFiniteSet(S \cup T)
      /\ Cardinality(S \cup T) = Cardinality(S) + Cardinality(T) - Cardinality(S \cap T)
  BY FS_Union
<1>2. IsFiniteSet(X) /\ Cardinality(X) <= Cardinality(S \cup T)
  BY <1>1, FS_Subset
<1>3. IsFiniteSet(S \cap T)
  BY FS_Subset
<1>4. /\ Cardinality(X) \in Nat /\ Cardinality(S) \in Nat /\ Cardinality(T) \in Nat
      /\ Cardinality(S \cap T) \in Nat
  BY <1>2, <1>3, FS_CardinalityType
<1> QED
  BY <1>1, <1>2, <1>4

\* The fibers with a task of a set are no more than the tasks.
LEMMA FibersOfTasks ==
    ASSUME SystemInv, Graph!IInv, NEW W \in SUBSET Tasks, NEW F,
           F = {f \in Fibers : fiberTask[f] \in W}
    PROVE  IsFiniteSet(F) /\ IsFiniteSet(W) /\ Cardinality(F) <= Cardinality(W)
<1>1. IsFiniteSet(W)
  BY SizesAssumption, FS_Subset
<1>2. PICK task : task = [f \in F |-> fiberTask[f]]
  OBVIOUS
<1>3. task \in [F -> W]
  BY <1>2
<1>4. \A f, h \in F : task[f] = task[h] => f = h
  <2>1. \A f \in F : f \in Fibers /\ task[f] = fiberTask[f] /\ fiberTask[f] # NoTask
    BY <1>2, NamesAssumption DEF Submitters
  <2> QED
    BY <2>1, TasksApart
<1>5. task \in Injection(F, W)
  BY <1>3, <1>4 DEF Injection, IsInjective
<1> QED
  BY <1>1, <1>5, FS_Injection

\* One fewer than the instances have a current fiber other than that of one of them.
LEMMA CurrentFibersOfOthers ==
    ASSUME SystemInv, NEW i \in Instances, NEW C,
           C = {currentFiber[j] : j \in Instances \ {i}}
    PROVE  IsFiniteSet(C) /\ Cardinality(C) <= NumWorkers
<1>1. NumWorkers \in Nat /\ Instances = 0 .. NumWorkers
  BY InstanceFacts DEF SystemInv, Typed, TypeOK, Instances, Helper, Workers
<1>2. IsFiniteSet(Instances) /\ Cardinality(Instances) = NumWorkers + 1
  BY <1>1, FS_Interval
<1>3. PICK J : J = Instances \ {i}
  OBVIOUS
<1>4. IsFiniteSet(J) /\ Cardinality(J) = NumWorkers
  <2>1. IsFiniteSet(J) /\ Cardinality(J) = Cardinality(Instances) - 1
    BY <1>2, <1>3, FS_RemoveElement
  <2> QED
    BY <1>1, <1>2, <2>1
<1>5. PICK current : current = [j \in J |-> currentFiber[j]]
  OBVIOUS
<1>6. current \in Surjection(J, C)
  BY <1>3, <1>5 DEF Surjection
<1>7. IsFiniteSet(C) /\ Cardinality(C) <= Cardinality(J)
  BY <1>4, <1>6, FS_Surjection
<1> QED
  BY <1>4, <1>7

\* A pool with a fiber for every instance and every task that waits is never used up.
LEMMA EnoughFibersSuffice ==
    ASSUME EnoughFibers, SystemInv, Graph!IInv, OnlyWaitersWait
    PROVE  PoolSuffices
<1> SUFFICES ASSUME NEW i \in Instances, pc[i] = "Suspended", running[i] = currentFiber[i],
                    freeFibers = <<>>
             PROVE  FALSE
  BY DEF PoolSuffices
<1>1. PICK W : W = Waiters(program)
  OBVIOUS
<1>2. W \in SUBSET Tasks
  <2>1. program \in Programs
    BY DEF SystemInv, Typed, TypeOK
  <2>2. \A c \in Submitters : \A k \in DOMAIN program.submits[c] : program.submits[c][k] \in Tasks
    <3> SUFFICES ASSUME NEW c \in Submitters, NEW k \in DOMAIN program.submits[c]
                 PROVE  program.submits[c][k] \in Tasks
      OBVIOUS
    <3>1. program.submits[c] \in Seq(Tasks)
      BY <2>1, ProgramsAssumption
    <3> QED
      BY <3>1, ElementOfSeq, LenProperties
  <2> QED
    BY <1>1, <2>2 DEF Waiters, SubmittedIn
<1>3. PICK F : F = {f \in Fibers : fiberTask[f] \in W}
  OBVIOUS
<1>4. PICK C : C = {currentFiber[j] : j \in Instances \ {i}}
  OBVIOUS
<1>5. Fibers \subseteq F \cup C
  <2> SUFFICES ASSUME NEW f \in Fibers PROVE f \in F \cup C
    OBVIOUS
  <2>1. f \notin Range(freeFibers)
    BY EmptyRange
  <2>2. PICK j \in Instances : f \in Holding(j)
    BY <2>1 DEF SystemInv, Placed
  <2>3. CASE f \in Away(j)
    BY <1>1, <1>3, <2>3 DEF OnlyWaitersWait
  <2>4. CASE f = currentFiber[j] /\ j # i
    BY <1>4, <2>4
  <2>5. CASE f = currentFiber[i]
    BY <1>1, <1>3, <2>5 DEF OnlyWaitersWait
  <2> QED
    BY <2>2, <2>3, <2>4, <2>5 DEF Holding, Away, Current
<1>6. IsFiniteSet(F) /\ IsFiniteSet(W) /\ Cardinality(F) <= Cardinality(W)
  BY <1>2, <1>3, FibersOfTasks
<1>7. IsFiniteSet(C) /\ Cardinality(C) <= NumWorkers
  BY <1>4, CurrentFibersOfOthers
<1>8. Cardinality(Fibers) = NumFibers
  BY SizesAssumption, FS_Interval DEF Fibers
<1>9. NumWorkers + 1 + Cardinality(W) <= NumFibers /\ NumWorkers \in Nat
  BY <1>1, InstanceFacts DEF EnoughFibers, NumWorkers, SystemInv, Typed, TypeOK
<1>10. /\ Cardinality(Fibers) <= Cardinality(F) + Cardinality(C)
       /\ Cardinality(F) \in Nat /\ Cardinality(C) \in Nat
  BY <1>5, <1>6, <1>7, CoveredByTwo
<1>11. Cardinality(W) \in Nat
  BY <1>6, FS_CardinalityType
<1> QED
  BY <1>6, <1>7, <1>8, <1>9, <1>10, <1>11, SizesAssumption

-----------------------------------------------------------------------------
(***************************************************************************)
(* Where threads go.                                                       *)
(***************************************************************************)

\* The steps of the main thread after the condition of its WaitUntil held.
AfterCheck == {"FlushFibers", "FlushTasks", "Returned", "Stop", "StopWakeUp", "Done"}

\* Where thread i may go: it leaves its fiber for a wrong thread only if the fiber has another
\* parent, and it does nothing after its end.
Goes(i) ==
    /\ pc[i] = "Done" => pc'[i] = "Done"
    /\ pc'[i] = "Astray" =>
          pc[i] = "Astray" \/ (pc[i] = "OnFiber" /\ fiberParent[running[i]] # i)

\* Where the main thread may go.
MainGoes ==
    /\ pc'[Helper] = "Adopt" => pc[Helper] = "Adopt" \/ FlushFiber
    /\ pc'[Helper] = "Fence" => pc[Helper] = "Fence" \/ WaitsForTimer
    /\ pc'[Helper] \in AfterCheck =>
          pc[Helper] \in AfterCheck \cup {"Adopt"} \/ CanProceed(Main) \/ WaitsForTimer
    /\ pc'[Helper] = "Done" => pc[Helper] = "Done" \/ \A w \in Workers : pc[w] = "Done"

\* The execution step.
LEMMA ExecutionStepGoes ==
    ASSUME SystemInv, PoolSuffices, NEW i \in Instances, ExecutionStep(i)
    PROVE  Goes(i) /\ (pc'[i] = pc[i] \/ pc'[i] \in ExecutionSteps \cup {"Check", "Loop", "Wait"})
<1> USE DEF ExecutionSteps, Goes
<1>0. /\ pc \in [Instances -> AllSteps] /\ isThereMoreWork[i] \in BOOLEAN
      /\ AfterStep(i, isThereMoreWork[i]) \in {"Check", "Loop", "Wait"}
      /\ AfterStep(i, TRUE) \in {"Check", "Loop", "Wait"}
  BY AfterStepIs DEF SystemInv, Typed, TypeOK
<1>1. CASE ResumeFiber(i) \/ EndResume(i) \/ StartStealing(i)
  BY <1>0, <1>1 DEF ResumeFiber, EndResume, StartStealing, GoTo
<1>2. CASE TakeOwnTask(i) \/ StealTask(i)
  BY <1>0, <1>2 DEF TakeOwnTask, StealTask, Execute, GoTo
<1>3. CASE NothingToSteal(i)
  BY <1>0, <1>3 DEF NothingToSteal, GoTo
<1>4. CASE ReplaceCurrentFiber(i) \/ KeepCurrentFiber(i) \/ RequeueFiber(i)
  BY <1>0, <1>4 DEF ReplaceCurrentFiber, KeepCurrentFiber, RequeueFiber, GoTo
<1>5. CASE RunTask(i) \/ SubmitFromTask(i) \/ UpdateDependecies(i) \/ AddReadyTask(i)
           \/ DispatchTask(i) \/ WakeUp(i)
  BY <1>5 DEF RunTask, SubmitFromTask, SubmitNext, UpdateDependecies, AddReadyTask, DispatchTask,
              WakeUp
<1>6. CASE SuspendTask(i) \/ FinishTask(i)
  BY <1>0, <1>6 DEF SuspendTask, FinishTask, SwitchToParent, GoTo, InFunction, At
<1>7. CASE EndUpdate(i) \/ ClearFiber(i)
  BY <1>0, <1>7 DEF EndUpdate, ClearFiber, GoTo
<1> QED
  BY <1>1, <1>2, <1>3, <1>4, <1>5, <1>6, <1>7 DEF ExecutionStep

\* A worker thread.
LEMMA WorkerThreadGoes ==
    ASSUME SystemInv, PoolSuffices, NEW w \in 1 .. MaxWorkers, WorkerThread(w)
    PROVE  w \in Workers /\ w # Helper /\ Goes(w)
<1>0. w \in Workers /\ w \in Instances /\ w # Helper /\ pc \in [Instances -> AllSteps]
  BY HelperFacts DEF WorkerThread
<1>1. CASE ExecutionStep(w)
  BY <1>0, <1>1, ExecutionStepGoes
<1>2. CASE ~ExecutionStep(w)
  BY <1>0, <1>2 DEF WorkerThread, StartThread, WaitForEvent, ResetEvent, CheckFinish, Loop,
                    BeginStep, Retire, GoTo, Goes
<1> QED
  BY <1>0, <1>1, <1>2

\* The main thread.
LEMMA MainThreadGoes ==
    ASSUME SystemInv, PoolSuffices, MainThread
    PROVE  Goes(Helper) /\ MainGoes
<1> USE DEF Goes, MainGoes, AfterCheck
<1>0. Helper \in Instances /\ pc \in [Instances -> AllSteps]
  BY HelperFacts
<1>1. CASE ExecutionStep(Helper)
  BY <1>0, <1>1, ExecutionStepGoes DEF ExecutionSteps
<1>2. CASE SubmitFromMain \/ FlushTask
  BY <1>2 DEF SubmitFromMain, SubmitNext, FlushTask
<1>3. CASE ConvertMainThread \/ FlushFiber \/ AdoptFiber \/ EndFlushFibers
  BY <1>0, <1>3 DEF ConvertMainThread, FlushFiber, AdoptFiber, EndFlushFibers, At, GoTo
<1>4. CASE CheckCondition
  BY <1>0, <1>4 DEF CheckCondition, BeginStep, GoTo
<1>5. CASE ReturnFromWaitUntil
  BY <1>0, <1>5 DEF ReturnFromWaitUntil, AfterWaitUntil, At, GoTo
<1>6. CASE RaiseFence \/ RequestFinish \/ WakeUpToFinish \/ Deinitialize
  BY <1>0, <1>6 DEF RaiseFence, RequestFinish, WakeUpToFinish, Deinitialize, GoTo
<1> QED
  BY <1>1, <1>2, <1>3, <1>4, <1>5, <1>6 DEF MainThread

-----------------------------------------------------------------------------
(***************************************************************************)
(* What has finished, and what it has waited for.                          *)
(***************************************************************************)

\* A task that has finished had got what it waited for.
Waited ==
    \A t \in SubmittedIn(program) : IsFinished(t) => \A u \in Awaits[t] : IsFinished(u)

\* The names in a program are tasks of the program.
LEMMA NamesInProgram ==
    ASSUME program \in Programs
    PROVE  /\ SubmittedIn(program) \subseteq Tasks
           /\ \A c \in Submitters : Awaits[c] \subseteq SubmittedIn(program)
           /\ \A t \in Tasks : \A s \in Slots : Dependants[t][s] \in Tasks \cup {NoTask}
<1>1. SubmittedIn(program) \subseteq Tasks
  <2>1. ASSUME NEW c \in Submitters, NEW k \in DOMAIN program.submits[c]
        PROVE  program.submits[c][k] \in Tasks
    <3>1. program.submits[c] \in Seq(Tasks)
      BY ProgramsAssumption
    <3> QED
      BY <2>1, <3>1, ElementOfSeq, LenProperties
  <2> QED
    BY <2>1 DEF SubmittedIn
<1>2. NoTask \notin Tasks
  BY NamesAssumption DEF Submitters
<1>3. \A c \in Submitters : Awaits[c] \subseteq NamedIn(program)
  BY <1>2, ProgramsAssumption DEF NamedIn, Awaits
<1> QED
  BY <1>1, <1>3, ProgramsAssumption DEF Dependants

\* A task that has finished stays so, and one that finishes has submitted all its tasks and
\* has got what it waits for.
LEMMA CountersStep ==
    ASSUME GraphReady, PoolSuffices, [Next]_vars
    PROVE  /\ program' = program
           /\ \A t \in Tasks : IsFinished(t) => IsFinished(t)'
           /\ \A t \in Tasks : IsFinished(t)' =>
                 IsFinished(t) \/ (HasSubmittedAll(t) /\ CanProceed(t))
<1> USE DEF taskVars, fiberVars, instanceVars, stepVars, dispatchVars, threadVars
<1>0. /\ program' = program /\ numberOfChildTasks \in [Tasks -> Int]
      /\ \E i \in Instances : QuietStep(i) \/ TaskStep(i)
  BY EveryStep DEF GraphReady, SystemInv, Typed, TypeOK
<1>1. PICK i \in Instances : QuietStep(i) \/ TaskStep(i)
  BY <1>0
<1>2. CASE numberOfChildTasks' = numberOfChildTasks
  BY <1>0, <1>2 DEF IsFinished
<1>3. CASE FinishTask(i)
  <2>1. /\ HasSubmittedAll(Caller(i)) /\ CanProceed(Caller(i))
        /\ numberOfChildTasks' = [numberOfChildTasks EXCEPT ![Caller(i)] = 0]
    BY <1>3 DEF FinishTask
  <2> QED
    BY <1>0, <2>1 DEF IsFinished
<1>4. CASE UpdateDependecies(i)
  <2>1. PICK p \in Tasks : p = fiberTask[running[i]]
    BY <1>4, Finishing DEF UpdateDependecies
  <2>2. PICK s \in Slots : s = index[i]
    BY <1>4, Finishing, SizesAssumption DEF UpdateDependecies, Slots
  <2>3. PICK d \in Tasks \cup {NoTask} : d = Dependants[p][s]
    BY NamesInProgram DEF GraphReady, SystemInv, Typed, TypeOK
  <2>4. CASE d = NoTask
    BY <1>2, <1>4, <2>1, <2>2, <2>3, <2>4 DEF UpdateDependecies
  <2>5. CASE d # NoTask
    <3>1. numberOfChildTasks' = [numberOfChildTasks EXCEPT ![d] = @ - 1] /\ d \in Tasks
      BY <1>4, <2>1, <2>2, <2>3, <2>5 DEF UpdateDependecies
    <3>2. numberOfChildTasks[d] > 1
      BY <1>4, <2>1, <2>2, <2>3, <3>1, NotifiedDependant DEF UpdateDependecies
    <3> QED
      BY <1>0, <3>1, <3>2 DEF IsFinished
  <2> QED
    BY <2>4, <2>5
<1>5. CASE ~FinishTask(i) /\ ~UpdateDependecies(i)
  <2>1. numberOfChildTasks' = numberOfChildTasks
    BY <1>1, <1>5 DEF TaskStep, QuietStep, SubmitFromTask, SubmitFromMain, SubmitNext, DispatchTask,
                      TakeOwnTask, StealTask, Execute, RunTask, EndUpdate, AddReadyTask, ClearFiber,
                      FlushTask
  <2> QED
    BY <1>2, <2>1
<1> QED
  BY <1>3, <1>4, <1>5

\* So every task goes on having got what it waited for.
LEMMA WaitedStep ==
    ASSUME GraphReady, PoolSuffices, Waited, [Next]_vars
    PROVE  Waited'
<1>1. /\ program' = program
      /\ \A t \in Tasks : IsFinished(t) => IsFinished(t)'
      /\ \A t \in Tasks : IsFinished(t)' => IsFinished(t) \/ CanProceed(t)
  BY CountersStep
<1>2. /\ SubmittedIn(program) \subseteq Tasks
      /\ \A c \in Submitters : Awaits[c] \subseteq SubmittedIn(program)
  BY NamesInProgram DEF GraphReady, SystemInv, Typed, TypeOK
<1>3. SubmittedIn(program)' = SubmittedIn(program) /\ Awaits' = Awaits
  BY <1>1 DEF SubmittedIn, Awaits
<1> SUFFICES ASSUME NEW t \in SubmittedIn(program), IsFinished(t)', NEW u \in Awaits[t]
             PROVE  IsFinished(u)'
  BY <1>3 DEF Waited
<1>4. t \in Tasks /\ u \in Tasks
  BY <1>2 DEF Submitters
<1>5. IsFinished(u)
  BY <1>1, <1>4 DEF Waited, CanProceed
<1> QED
  BY <1>1, <1>4, <1>5

\* What has finished has its prerequisites finished, and what its tasks waited for.
LEMMA FinishedIsClosed ==
    ASSUME GraphReady, DependantsFirst(program), Waited
    PROVE  IsClosed(program, {t \in SubmittedIn(program) : IsFinished(t)})
<1>1. PICK S : S = {t \in SubmittedIn(program) : IsFinished(t)}
  OBVIOUS
<1>2. /\ SubmittedIn(program) \subseteq Tasks
      /\ \A c \in Submitters : Awaits[c] \subseteq SubmittedIn(program)
      /\ NoTask \notin Tasks
  BY NamesInProgram, NamesAssumption DEF GraphReady, SystemInv, Typed, TypeOK, Submitters
<1>3. \A t \in S : program.awaits[t] \subseteq S
  BY <1>1, <1>2 DEF Waited, Awaits, Submitters
<1>4. ASSUME NEW t \in Tasks, NEW s \in Slots, program.dependants[t][s] \in S PROVE t \in S
  <2>1. PICK d \in Tasks : /\ d = Dependants[t][s]
                           /\ d \in SubmittedIn(program) /\ IsFinished(d)
    BY <1>1, <1>2, <1>4 DEF Dependants
  <2>2. t \in SubmittedIn(program)
    BY <1>2, <1>4, <2>1 DEF DependantsFirst, NothingReady, Dependants
  <2>3. GraphWaits[d] = {}
    BY <2>1, GraphIs DEF GraphReady, Graph!IInv, Graph!CountInv, IsFinished, Graph!IsFinished
  <2>4. ~HasToNotify(t, s)
    <3> SUFFICES ASSUME HasToNotify(t, s) PROVE FALSE
      OBVIOUS
    <3>1. <<t, s>> \in GraphWaits[d]
      BY <2>1 DEF GraphWaits
    <3> QED
      BY <2>3, <3>1
  <2> QED
    BY <1>1, <2>2, <2>4 DEF HasToNotify
<1> QED
  BY <1>1, <1>3, <1>4 DEF IsClosed

\* A suspended task has not finished.
LEMMA SuspendedIsUnfinished ==
    ASSUME GraphReady, NEW i \in Instances, NEW f \in Range(suspendedFibers[i])
    PROVE  f \in Fibers /\ ~IsFinished(fiberTask[f])
<1>1. f \in Fibers /\ f # NoFiber
  BY AwayIsHeld, NamesAssumption DEF GraphReady, Away
<1>2. fiberTask[f] # NoTask /\ stack[f] # NoTask
  BY <1>1 DEF GraphReady, Linked, SystemInv, Contents
<1>3. \A j \in Instances : running[j] # f
  <2> SUFFICES ASSUME NEW j \in Instances, running[j] = f PROVE FALSE
    OBVIOUS
  <2>1. pc[j] \in FiberSteps
    BY <1>1 DEF GraphReady, SystemInv, Contents
  <2> QED
    BY <2>1, OnOneFiber, FibersApart DEF GraphReady
<1>4. GraphFiberState(f) = "Running"
  BY <1>2, <1>3 DEF GraphFiberState, ThreadsOn
<1>5. numberOfChildTasks[fiberTask[f]] = 1
  BY <1>1, <1>4, GraphIs DEF GraphReady, Graph!IInv, Graph!FiberInv
<1> QED
  BY <1>1, <1>5 DEF IsFinished

-----------------------------------------------------------------------------
(***************************************************************************)
(* Fibers stay with their threads.                                         *)
(*                                                                         *)
(* When the main thread waits for all tasks that wait, no WaitUntil ends   *)
(* while a task is suspended: the flush finds no fiber (AtHome).           *)
(***************************************************************************)

\* The tasks that wait have finished.
WaitersFinished == \A t \in Waiters(program) : IsFinished(t)

\* Every fiber has the thread as its parent that will resume it, and the flush of the helper
\* instance finds no suspended fiber: WaitUntil ends when there is none left.
AtHome ==
    /\ \A i \in Instances :
          /\ pc[i] # "Astray"
          /\ \A f \in Away(i) : fiberParent[f] = i
          /\ pc[i] \notin Unconverted => fiberParent[currentFiber[i]] = i
    /\ pc[Helper] \notin {"Adopt", "Fence"}
    /\ pc[Helper] \in AfterCheck => WaitersFinished
    /\ pc[Helper] = "Done" => \A w \in Workers : pc[w] = "Done"

\* No fiber is suspended when all tasks that wait have finished.
LEMMA NothingSuspended ==
    ASSUME GraphReady, OnlyWaitersWait, WaitersFinished, NEW i \in Instances
    PROVE  suspendedFibers[i] = <<>>
<1> SUFFICES ASSUME suspendedFibers[i] # <<>> PROVE FALSE
  OBVIOUS
<1>1. suspendedFibers[i] \in Seq(Fibers) /\ IsInjective(suspendedFibers[i])
  BY DEF GraphReady, SystemInv, Typed, TypeOK, Placed
<1>2. PICK f \in Range(suspendedFibers[i]) : TRUE
  BY <1>1, TailRange
<1>3. fiberTask[f] \in Waiters(program)
  BY DEF OnlyWaitersWait, Away
<1> QED
  BY <1>3, SuspendedIsUnfinished DEF WaitersFinished

\* When the main thread has got what it waits for, all tasks that wait have finished.
LEMMA MainWaitsForTheWaiters ==
    ASSUME MainEndsLast, GraphReady, DependantsFirst(program), Waited, CanProceed(Main)
    PROVE  WaitersFinished
<1>1. PICK S : S = {t \in SubmittedIn(program) : IsFinished(t)}
  OBVIOUS
<1>2. IsClosed(program, S) /\ S \in SUBSET SubmittedIn(program)
  BY <1>1, FinishedIsClosed
<1>3. program \in Programs /\ \A c \in Submitters : Awaits[c] \subseteq SubmittedIn(program)
  BY NamesInProgram DEF GraphReady, SystemInv, Typed, TypeOK
<1>4. program.awaits[Main] \subseteq S
  BY <1>1, <1>3 DEF CanProceed, Awaits, Submitters
<1>5. Waiters(program) \subseteq S
  BY <1>2, <1>3, <1>4 DEF MainEndsLast
<1> QED
  BY <1>1, <1>5 DEF WaitersFinished

\* It is then that the main thread goes on.
LEMMA WaitersFinishedStep ==
    ASSUME MainEndsLast, GraphReady, PoolSuffices, DependantsFirst(program), Waited, [Next]_vars,
           WaitersFinished \/ CanProceed(Main)
    PROVE  WaitersFinished'
<1>1. WaitersFinished
  BY MainWaitsForTheWaiters
<1>2. program' = program /\ \A t \in Tasks : IsFinished(t) => IsFinished(t)'
  BY CountersStep
<1>3. Waiters(program)' = Waiters(program)
  BY <1>2 DEF Waiters, SubmittedIn
<1>4. Waiters(program) \subseteq Tasks
  BY NamesInProgram DEF GraphReady, SystemInv, Typed, TypeOK, Waiters
<1> QED
  BY <1>1, <1>2, <1>3, <1>4 DEF WaitersFinished

\* A thread's own step leaves its fibers at home.
LEMMA OwnMoveHome ==
    ASSUME SystemInv, AtHome, NEW i \in Instances, OwnMove(i), Goes(i)
    PROVE  \A j \in Instances :
              /\ pc'[j] # "Astray"
              /\ \A f \in Away(j)' : fiberParent'[f] = j
              /\ pc'[j] \notin Unconverted => fiberParent'[currentFiber'[j]] = j
<1>1. ASSUME NEW j \in Instances, j # i
      PROVE  /\ pc'[j] # "Astray"
             /\ \A f \in Away(j)' : fiberParent'[f] = j
             /\ pc'[j] \notin Unconverted => fiberParent'[currentFiber'[j]] = j
  <2>1. pc'[j] = pc[j] /\ currentFiber'[j] = currentFiber[j]
    BY <1>1 DEF OwnMove
  <2>2. \A f \in Away(j)' : fiberParent'[f] = j
    BY <1>1, OthersAway, AwayIsHeld DEF AtHome
  <2>3. pc[j] \notin Unconverted => currentFiber[j] \in Holding(j)
    BY DEF Unconverted, Holding, Current
  <2>4. pc[j] \notin Unconverted => fiberParent'[currentFiber[j]] = j
    BY <1>1, <2>3, OthersAway DEF AtHome
  <2> QED
    BY <2>1, <2>2, <2>4 DEF AtHome
<1>2. pc[i] \in {"OnFiber", "Suspended"} => running[i] \in Fibers /\ fiberParent[running[i]] = i
  <2> SUFFICES ASSUME pc[i] \in {"OnFiber", "Suspended"}
               PROVE  running[i] \in Fibers /\ fiberParent[running[i]] = i
    OBVIOUS
  <2>1. running[i] \in Fibers /\ running[i] \in Current(i) \cup Resumed(i)
    BY OnOneFiber DEF FiberSteps
  <2>2. CASE running[i] \in Resumed(i)
    BY <2>1, <2>2 DEF AtHome, Away
  <2>3. CASE running[i] \in Current(i)
    BY <2>1, <2>3 DEF AtHome, Current, Unconverted
  <2> QED
    BY <2>1, <2>2, <2>3
<1>3. pc'[i] # "Astray"
  BY <1>2 DEF Goes, AtHome
<1>4. ASSUME NEW f \in Away(i)' PROVE fiberParent'[f] = i
  <2>1. f \in Away(i) \/ (pc[i] = "Suspended" /\ f = running[i])
    BY <1>4 DEF OwnMove
  <2>2. f \in Fibers /\ fiberParent[f] = i
    BY <1>2, <2>1, AwayIsHeld DEF AtHome
  <2> QED
    BY <1>4, <2>2 DEF OwnMove
<1>5. pc'[i] \notin Unconverted => fiberParent'[currentFiber'[i]] = i
  BY DEF OwnMove, AtHome
<1> QED
  BY <1>1, <1>3, <1>4, <1>5

\* Every step is a thread's own: the main thread has no fiber to flush.
LEMMA NothingToFlush ==
    ASSUME GraphReady, PoolSuffices, OnlyWaitersWait, AtHome, MainThread
    PROVE  OwnMove(Helper) /\ ~FlushFiber
<1>1. SystemInv /\ Helper \in Instances
  BY HelperFacts DEF GraphReady
<1>2. ~FlushFiber
  BY <1>1, NothingSuspended DEF FlushFiber, At, AtHome, AfterCheck
<1>3. ~AdoptFiber
  BY DEF AdoptFiber, AtHome
<1> QED
  BY <1>1, <1>2, <1>3, MainThreadMove

\* So all fibers stay at home.
LEMMA AtHomeStep ==
    ASSUME MainEndsLast, GraphReady, PoolSuffices, DependantsFirst(program), Waited,
           OnlyWaitersWait, AtHome, [Next]_vars
    PROVE  AtHome'
<1> USE DEF taskVars, fiberVars, instanceVars, stepVars, dispatchVars, threadVars
<1>1. /\ SystemInv /\ Helper \in Instances /\ program' = program /\ Fenced = {}
      /\ WaitersFinished \/ CanProceed(Main) => WaitersFinished'
  BY HelperFacts, CountersStep, WaitersFinishedStep
     DEF GraphReady, MainEndsLast, Fenced, SystemInv, Typed, TypeOK
<1>2. Instances' = Instances /\ Workers' = Workers
  BY <1>1, ProgramStays
<1>3. CASE UNCHANGED vars
  BY <1>1, <1>2, <1>3 DEF vars, AtHome, Away, Resumed
<1>4. CASE MainThread
  <2>1. OwnMove(Helper) /\ ~FlushFiber /\ Goes(Helper) /\ MainGoes
    BY <1>1, <1>4, NothingToFlush, MainThreadGoes
  <2>2. /\ pc'[Helper] \notin {"Adopt", "Fence"}
        /\ pc'[Helper] \in AfterCheck => WaitersFinished'
        /\ pc'[Helper] = "Done" => \A w \in Workers : pc[w] = "Done"
    BY <1>1, <2>1 DEF MainGoes, WaitsForTimer, AtHome, AfterCheck
  <2>3. \A w \in Workers : pc'[w] = pc[w]
    BY <1>1, <2>1, HelperFacts DEF OwnMove
  <2> QED
    BY <1>1, <1>2, <2>1, <2>2, <2>3, OwnMoveHome DEF AtHome
<1>5. ASSUME NEW v \in 1 .. MaxWorkers, WorkerThread(v) PROVE AtHome'
  <2>1. v \in Workers /\ v \in Instances /\ v # Helper /\ OwnMove(v) /\ Goes(v)
    BY <1>1, <1>5, WorkerThreadMove, WorkerThreadGoes
  <2>2. pc'[Helper] = pc[Helper] /\ \A j \in Instances : j # v => pc'[j] = pc[j]
    BY <1>1, <2>1 DEF OwnMove
  <2>3. /\ pc'[Helper] \in AfterCheck => WaitersFinished'
        /\ pc'[Helper] = "Done" => \A w \in Workers : pc'[w] = "Done"
    BY <1>1, <2>1, <2>2, HelperFacts DEF AtHome, Goes
  <2> QED
    BY <1>1, <1>2, <2>1, <2>2, <2>3, OwnMoveHome DEF AtHome
<1> QED
  BY <1>3, <1>4, <1>5 DEF Next

-----------------------------------------------------------------------------
(***************************************************************************)
(* What follows for such programs.                                         *)
(***************************************************************************)

\* What a pool with enough fibers needs.
PoolInv == GraphSystemInv /\ OnlyWaitersWait

\* In the beginning nothing is suspended.
LEMMA PoolInvInitial ==
    ASSUME Init, DependantsFirst(program)
    PROVE  PoolInv
<1>1. GraphSystemInv
  BY GraphSystemInitial
<1>2. \A i \in Instances : Range(suspendedFibers[i]) = {} /\ running[i] = NoFiber /\ pc[i] # "Suspended"
  BY EmptyRange DEF Init
<1>3. OnlyWaitersWait
  BY <1>2 DEF OnlyWaitersWait, Away, Resumed
<1> QED
  BY <1>1, <1>3 DEF PoolInv

\* The pool suffices in each state, and so in the next.
LEMMA PoolInvStep ==
    ASSUME EnoughFibers, PoolInv, FibersReturnHome', [Next]_vars
    PROVE  PoolInv' /\ PoolSuffices
<1>1. /\ GraphSystemInv /\ OnlyWaitersWait /\ GraphReady
      /\ SystemInv /\ Idleness /\ Linked /\ Graph!IInv
  BY DEF PoolInv, GraphSystemInv, GraphReady
<1>2. PoolSuffices
  BY <1>1, EnoughFibersSuffice
<1>3. SystemInv' /\ Idleness'
  BY <1>1, <1>2, SystemInvNext, IdlenessNext
<1>4. GraphSystemInv'
  BY <1>1, <1>2, <1>3, GraphSystemStep
<1>5. OnlyWaitersWait'
  BY <1>1, <1>2, <1>3, WaitersStep
<1> QED
  BY <1>2, <1>4, <1>5 DEF PoolInv

\* ASSERT( false ) of OnSuspendedCurrrentTaskFiber does not fail if the pool has a fiber for
\* every instance and for every task that waits, whatever the programs do, as long as
\* fibers return to the threads that switched to them.
THEOREM PoolSufficesCorrect ==
    ASSUME ClientsSubmitDependantsFirst, EnoughFibers
    PROVE  Spec /\ []FibersReturnHome => []PoolSuffices
<1>1. Init => PoolInv
  BY PoolInvInitial DEF Init, ClientsSubmitDependantsFirst
<1>2. PoolInv /\ FibersReturnHome' /\ [Next]_vars => PoolInv'
  BY PoolInvStep
<1>3. PoolInv => PoolSuffices
  BY EnoughFibersSuffice DEF PoolInv, GraphSystemInv, GraphReady
<1> QED
  BY <1>1, <1>2, <1>3, PTL DEF Spec

\* What a program whose main thread ends last keeps.
HomeInv == PoolInv /\ Waited /\ AtHome

\* In the beginning no task has finished.
LEMMA NothingFinished ==
    ASSUME Init, DependantsFirst(program)
    PROVE  \A t \in SubmittedIn(program) : ~IsFinished(t)
<1> SUFFICES ASSUME NEW t \in SubmittedIn(program) PROVE ~IsFinished(t)
  OBVIOUS
<1>1. t \in Tasks
  BY SystemInvInitial, NamesInProgram DEF SystemInv, Typed, TypeOK
<1>2. IsFiniteSet(GraphWaits[t]) /\ numberOfChildTasks[t] = 1 + Cardinality(GraphWaits[t])
  BY <1>1, FirstGraph
<1>3. Cardinality(GraphWaits[t]) \in Nat
  BY <1>2, FS_CardinalityType
<1> QED
  BY <1>2, <1>3 DEF IsFinished

\* In the beginning no task has finished, and no fiber is away.
LEMMA HomeInvInitial ==
    ASSUME Init, ClientsSubmitDependantsFirst
    PROVE  HomeInv
<1>1. DependantsFirst(program)
  BY DEF Init, ClientsSubmitDependantsFirst
<1>2. SystemInv /\ PoolInv
  BY <1>1, SystemInvInitial, PoolInvInitial
<1>3. Waited
  <2>1. \A t \in SubmittedIn(program) : ~IsFinished(t)
    BY <1>1, NothingFinished
  <2> QED
    BY <2>1 DEF Waited
<1>4. AtHome
  <2>1. \A i \in Instances : /\ Range(suspendedFibers[i]) = {} /\ running[i] = NoFiber
                             /\ pc[i] \in {"Main", "Start"}
    BY EmptyRange DEF Init
  <2>2. Helper \in Instances
    BY <1>2, HelperFacts
  <2> QED
    BY <2>1, <2>2 DEF AtHome, Away, Resumed, AfterCheck, Unconverted
<1> QED
  BY <1>2, <1>3, <1>4 DEF HomeInv

\* Every step keeps that.
LEMMA HomeInvStep ==
    ASSUME ClientsSubmitDependantsFirst, EnoughFibers, MainEndsLast, HomeInv, [Next]_vars
    PROVE  HomeInv' /\ PoolSuffices
<1>1. /\ GraphSystemInv /\ OnlyWaitersWait /\ GraphReady /\ PoolInv
      /\ SystemInv /\ Idleness /\ Linked /\ Graph!IInv
      /\ Waited /\ AtHome /\ DependantsFirst(program)
  BY DEF HomeInv, PoolInv, GraphSystemInv, GraphReady, SystemInv, Typed, TypeOK,
         ClientsSubmitDependantsFirst
<1>2. PoolSuffices
  BY <1>1, EnoughFibersSuffice
<1>3. AtHome' /\ Waited'
  BY <1>1, <1>2, AtHomeStep, WaitedStep
<1>4. FibersReturnHome'
  BY <1>3 DEF FibersReturnHome, AtHome
<1>5. PoolInv'
  BY <1>1, <1>4, PoolInvStep
<1> QED
  BY <1>2, <1>3, <1>5 DEF HomeInv

\* It holds in every state.
LEMMA HomeInvCorrect ==
    ASSUME ClientsSubmitDependantsFirst, EnoughFibers, MainEndsLast
    PROVE  Spec => []HomeInv /\ []PoolSuffices /\ []FibersReturnHome
<1>1. Init => HomeInv
  BY HomeInvInitial
<1>2. HomeInv /\ [Next]_vars => HomeInv'
  BY HomeInvStep
<1>3. HomeInv => PoolSuffices
  BY EnoughFibersSuffice DEF HomeInv, PoolInv, GraphSystemInv, GraphReady
<1>4. HomeInv => FibersReturnHome
  BY DEF HomeInv, AtHome, FibersReturnHome
<1> QED
  BY <1>1, <1>2, <1>3, <1>4, PTL DEF Spec

\* A task fiber gives control back to the thread that switched to it, if the main thread waits
\* for all tasks that wait and there are enough fibers.
THEOREM FibersReturnHomeCorrect ==
    ASSUME ClientsSubmitDependantsFirst, EnoughFibers, MainEndsLast
    PROVE  Spec => []FibersReturnHome
BY HomeInvCorrect, PTL

\* Then a task is given only to a fiber that has no function on its stack,
THEOREM CurrentFiberIsAlwaysIdle ==
    ASSUME ClientsSubmitDependantsFirst, EnoughFibers, MainEndsLast
    PROVE  Spec => CurrentFiberIsIdle
BY HomeInvCorrect, CurrentFiberIsIdleCorrect, PTL

\* and the system implements the task graph, with nothing assumed but the program.
THEOREM AlwaysImplementsTaskGraph ==
    ASSUME ClientsSubmitDependantsFirst, EnoughFibers, MainEndsLast
    PROVE  Spec => ImplementsTaskGraph
BY HomeInvCorrect, ImplementsTaskGraphCorrect, PTL

\* When the system has been shut down, all fibers are in the free list.
LEMMA AllReleased ==
    ASSUME HomeInv, pc[Helper] = "Done"
    PROVE  Len(freeFibers) = NumFibers
<1>1. /\ SystemInv /\ GraphReady /\ OnlyWaitersWait /\ AtHome
  BY DEF HomeInv, PoolInv, GraphSystemInv, GraphReady
<1>2. WaitersFinished /\ \A i \in Instances : pc[i] = "Done"
  BY <1>1, HelperFacts, InstanceFacts DEF AtHome, AfterCheck, SystemInv, Typed, TypeOK
<1>3. ASSUME NEW i \in Instances PROVE Holding(i) = {}
  <2>1. suspendedFibers[i] = <<>>
    BY <1>1, <1>2, NothingSuspended
  <2>2. running[i] = NoFiber
    BY <1>1, <1>2 DEF SystemInv, Contents, FiberSteps
  <2> QED
    BY <1>2, <2>1, <2>2, EmptyRange DEF Holding, Current, Resumed
<1>4. /\ freeFibers \in Seq(Fibers) /\ IsInjective(freeFibers)
      /\ \A f \in Fibers : f \in Range(freeFibers)
  BY <1>1, <1>3 DEF SystemInv, Typed, TypeOK, Placed
<1>5. /\ freeFibers \in [1 .. Len(freeFibers) -> Fibers] /\ Len(freeFibers) \in Nat
      /\ \A f \in Fibers : \E k \in 1 .. Len(freeFibers) : freeFibers[k] = f
  BY <1>4, LenProperties DEF Range
<1>6. freeFibers \in Injection(1 .. Len(freeFibers), Fibers)
  BY <1>4, <1>5 DEF Injection
<1>7. freeFibers \in Surjection(1 .. Len(freeFibers), Fibers)
  BY <1>5 DEF Surjection
<1>8. IsFiniteSet(Fibers) /\ Cardinality(Fibers) = NumFibers
  BY SizesAssumption, FS_Interval DEF Fibers
<1>9. Cardinality(1 .. Len(freeFibers)) = Cardinality(Fibers)
  BY <1>6, <1>7, <1>8, FS_Injection
<1>10. Cardinality(1 .. Len(freeFibers)) = Len(freeFibers)
  <2>1. PICK n \in Nat : n = Len(freeFibers)
    BY <1>5
  <2>2. Cardinality(1 .. n) = IF 1 > n THEN 0 ELSE n - 1 + 1
    BY FS_Interval
  <2> QED
    BY <2>1, <2>2
<1> QED
  BY <1>8, <1>9, <1>10

\* ~TaskFiberAllocator: ASSERT( m_freeList.GetCurrentSize() == TASK_FIBER_POOL_SIZE ) does not
\* fail: the shutdown releases every fiber.
THEOREM AllFibersReleasedCorrect ==
    ASSUME ClientsSubmitDependantsFirst, EnoughFibers, MainEndsLast
    PROVE  Spec => []AllFibersReleased
<1>1. HomeInv => AllFibersReleased
  BY AllReleased DEF AllFibersReleased
<1> QED
  BY <1>1, HomeInvCorrect, PTL

-----------------------------------------------------------------------------
(***************************************************************************)
(* No task is forgotten.                                                   *)
(*                                                                         *)
(* In the graph, a task that waits for nothing is dispatched (NoneLeft).   *)
(* When the threads rest, no queue, fiber or thread has a task, so none is *)
(* dispatched.  Then a first unfinished task would have been submitted, as *)
(* its submitter has finished (AllSubmitted), and wait for nothing.        *)
(***************************************************************************)

\* A task of the graph that waits for nothing and has not run is on its way to execution.
NoneLeft == GraphProofs!ReadyArrays /\ GraphProofs!NoneForgotten

\* The steps of the graph keep that.
LEMMA NoneLeftStep ==
    ASSUME Graph!IInv, NoneLeft, [Graph!Next]_(Graph!vars)
    PROVE  NoneLeft'
<1>1. GraphProofs!IInv /\ [GraphProofs!Next]_(GraphProofs!vars)
  BY SameIInv, SameNext
<1>2. NoTask \notin Tasks /\ NoTask \notin Submitters /\ MaxDependants \in Nat
  BY NamesAssumption, SizesAssumption DEF Submitters
<1>3. GraphProofs!ReadyArrays'
  BY <1>1, <1>2, GraphProofs!ReadyArraysInductive DEF NoneLeft
<1>4. GraphProofs!NoneForgotten'
  BY <1>1, <1>2, GraphProofs!NoneForgottenInductive DEF NoneLeft
<1> QED
  BY <1>3, <1>4 DEF NoneLeft

\* In the beginning nothing has been submitted.
LEMMA NoneLeftInitial ==
    ASSUME Init, DependantsFirst(program)
    PROVE  NoneLeft
<1>1. \A f \in Fibers : \A s \in Slots : GraphReadyArrays[f][s] = NoTask
  BY FirstGraph DEF NothingReady
<1>2. \A t \in Tasks : ~GraphSubmitted[t]
  BY FirstGraph DEF GraphSubmitted
<1> QED
  BY <1>1, <1>2 DEF NoneLeft, GraphProofs!ReadyArrays, GraphProofs!NoneForgotten,
                    GraphProofs!Slots, Slots

\* The main thread has left when it may have something to flush; it has nothing any more
\* when it has flushed it.
Emptied ==
    /\ pc[Helper] \in {"FlushFibers", "Adopt", "FlushTasks", "Returned"} => ~converted[Helper]
    /\ pc[Helper] \in {"FlushTasks", "Returned"} => suspendedFibers[Helper] = <<>>
    /\ pc[Helper] = "Returned" => pendingTasks[Helper] = <<>>

\* The main thread has submitted its tasks before it waits, and each task before it finishes.
AllSubmitted ==
    /\ pc[Helper] # "Main" => HasSubmittedAll(Main)
    /\ \A t \in SubmittedIn(program) : IsFinished(t) => HasSubmittedAll(t)

\* A thread gives tasks to its own instance or to a worker.
LEMMA ExecutionStepGives ==
    ASSUME SystemInv, NEW i \in Instances, ExecutionStep(i)
    PROVE  /\ converted' = converted
           /\ pc[i] \notin ExecutionSteps => pc' = pc /\ suspendedFibers' = suspendedFibers
           /\ \A j \in Instances :
                 pendingTasks[j] = <<>> /\ pendingTasks'[j] # <<>> =>
                     \/ j = i /\ pc[i] \in ExecutionSteps
                     \/ j \in Targets(i)
<1> USE DEF ExecutionSteps, taskVars, fiberVars, instanceVars, stepVars, dispatchVars, threadVars
<1>0. pendingTasks \in [Instances -> Seq(Tasks)]
  BY DEF SystemInv, Typed, TypeOK
<1>1. CASE ResumeFiber(i) \/ EndResume(i) \/ StartStealing(i) \/ NothingToSteal(i)
  BY <1>1 DEF ResumeFiber, EndResume, StartStealing, NothingToSteal
<1>2. CASE TakeOwnTask(i)
  BY <1>0, <1>2 DEF TakeOwnTask, Execute
<1>3. CASE StealTask(i)
  BY <1>0, <1>3 DEF StealTask, Execute
<1>4. CASE ReplaceCurrentFiber(i) \/ KeepCurrentFiber(i) \/ RequeueFiber(i)
  BY <1>4 DEF ReplaceCurrentFiber, KeepCurrentFiber, RequeueFiber
<1>5. CASE RunTask(i) \/ SubmitFromTask(i) \/ SuspendTask(i) \/ FinishTask(i)
  BY <1>5 DEF RunTask, SubmitFromTask, SubmitNext, SuspendTask, FinishTask, InFunction, At
<1>6. CASE UpdateDependecies(i) \/ EndUpdate(i) \/ ClearFiber(i)
  BY <1>6 DEF UpdateDependecies, EndUpdate, ClearFiber
<1>7. CASE AddReadyTask(i)
  BY <1>0, <1>7 DEF AddReadyTask
<1>8. CASE DispatchTask(i)
  BY <1>0, <1>8 DEF DispatchTask
<1>9. CASE WakeUp(i)
  BY <1>9 DEF WakeUp
<1> QED
  BY <1>1, <1>2, <1>3, <1>4, <1>5, <1>6, <1>7, <1>8, <1>9 DEF ExecutionStep

\* A worker gives the helper instance neither tasks nor fibers.
LEMMA WorkerLeavesHelper ==
    ASSUME SystemInv, PoolSuffices, Emptied, NEW w \in 1 .. MaxWorkers, WorkerThread(w)
    PROVE  Emptied' /\ pc'[Helper] = pc[Helper]
<1> USE DEF taskVars, fiberVars, instanceVars, stepVars, dispatchVars, threadVars
<1>0. /\ w \in Workers /\ w \in Instances /\ w # Helper /\ Helper \in Instances
      /\ Helper \notin Workers /\ OwnMove(w)
      /\ converted \in [Instances -> BOOLEAN]
  BY HelperFacts, WorkerThreadMove DEF WorkerThread, SystemInv, Typed, TypeOK
<1>1. pc'[Helper] = pc[Helper] /\ suspendedFibers'[Helper] = suspendedFibers[Helper]
  BY <1>0 DEF OwnMove
<1>2. /\ converted'[Helper] = converted[Helper]
      /\ pendingTasks[Helper] = <<>> => pendingTasks'[Helper] = <<>>
  <2>1. CASE ExecutionStep(w)
    <3>1. Helper \notin Targets(w)
      BY <1>0 DEF Targets
    <3> QED
      BY <1>0, <2>1, <3>1, ExecutionStepGives
  <2>2. CASE ~ExecutionStep(w)
    BY <1>0, <2>2 DEF WorkerThread, StartThread, WaitForEvent, ResetEvent, CheckFinish, Loop,
                      BeginStep, Retire, Convert
  <2> QED
    BY <2>1, <2>2
<1> QED
  BY <1>1, <1>2 DEF Emptied

\* The main thread leaves the helper instance empty.
LEMMA MainThreadEmpties ==
    ASSUME SystemInv, PoolSuffices, Emptied, MainThread
    PROVE  Emptied'
<1> USE DEF taskVars, fiberVars, instanceVars, stepVars, dispatchVars, threadVars, Emptied
<1>0. /\ Helper \in Instances /\ Helper \notin Workers /\ pc \in [Instances -> AllSteps]
      /\ converted \in [Instances -> BOOLEAN]
      /\ \A w \in Workers : w \in Instances /\ w # Helper
      /\ suspendedFibers \in [Instances -> Seq(Fibers)]
  BY HelperFacts DEF SystemInv, Typed, TypeOK
<1>1. CASE ExecutionStep(Helper)
  <2>1. CASE pc[Helper] \in ExecutionSteps
    BY <1>0, <1>1, <2>1, ExecutionStepGoes DEF ExecutionSteps
  <2>2. CASE pc[Helper] \notin ExecutionSteps
    <3>1. ~converted[Helper] => Helper \notin Targets(Helper)
      BY <1>0 DEF Targets
    <3> QED
      BY <1>0, <1>1, <2>2, <3>1, ExecutionStepGives
  <2> QED
    BY <2>1, <2>2
<1>2. CASE SubmitFromMain \/ RequestFinish \/ WakeUpToFinish \/ Deinitialize
  BY <1>0, <1>2 DEF SubmitFromMain, SubmitNext, RequestFinish, WakeUpToFinish, Deinitialize, GoTo,
                    At
<1>3. CASE ConvertMainThread \/ RaiseFence
  BY <1>0, <1>3 DEF ConvertMainThread, RaiseFence, GoTo
<1>4. CASE CheckCondition
  BY <1>0, <1>4 DEF CheckCondition, BeginStep, GoTo
<1>5. CASE FlushFiber
  BY <1>0, <1>5 DEF FlushFiber, GoTo, At
<1>6. CASE AdoptFiber \/ EndFlushFibers
  BY <1>0, <1>6 DEF AdoptFiber, EndFlushFibers, GoTo, At
<1>7. CASE FlushTask
  BY <1>0, <1>7 DEF FlushTask, At
<1>8. CASE ReturnFromWaitUntil
  BY <1>0, <1>8 DEF ReturnFromWaitUntil, GoTo, At, AfterWaitUntil
<1> QED
  BY <1>1, <1>2, <1>3, <1>4, <1>5, <1>6, <1>7, <1>8 DEF MainThread

\* Who has submitted everything has done so for ever.
LEMMA SubmissionsStay ==
    ASSUME GraphReady, PoolSuffices, [Next]_vars, NEW c \in Submitters, HasSubmittedAll(c)
    PROVE  HasSubmittedAll(c)'
<1> USE DEF taskVars, fiberVars, instanceVars, stepVars, dispatchVars, threadVars
<1>1. /\ program' = program /\ progress \in [Submitters -> Nat]
      /\ progress[c] = Len(Submits[c]) /\ Submits' = Submits
  BY EveryStep DEF GraphReady, SystemInv, Typed, HasSubmittedAll, Submits
<1>2. PICK i \in Instances : QuietStep(i) \/ TaskStep(i)
  BY EveryStep DEF GraphReady
<1>3. CASE SubmitFromTask(i) \/ (i = Helper /\ SubmitFromMain)
  <2>1. \E d : progress[d] < Len(Submits[d]) /\ progress' = [progress EXCEPT ![d] = @ + 1]
    BY <1>3 DEF SubmitFromTask, SubmitFromMain, SubmitNext
  <2>2. PICK d : progress[d] < Len(Submits[d]) /\ progress' = [progress EXCEPT ![d] = @ + 1]
    BY <2>1
  <2>3. d # c
    BY <1>1, <2>2
  <2>4. progress'[c] = progress[c]
    BY <1>1, <2>2, <2>3
  <2> QED
    BY <1>1, <2>4 DEF HasSubmittedAll
<1>4. CASE ~SubmitFromTask(i) /\ ~(i = Helper /\ SubmitFromMain)
  <2>1. progress' = progress
    BY <1>2, <1>4 DEF TaskStep, QuietStep, DispatchTask, TakeOwnTask, StealTask, Execute, RunTask,
                      FinishTask, UpdateDependecies, EndUpdate, AddReadyTask, ClearFiber, FlushTask
  <2> QED
    BY <1>1, <2>1 DEF HasSubmittedAll
<1> QED
  BY <1>3, <1>4

\* The main thread goes to its WaitUntil when it has submitted everything.
LEMMA MainSubmitsFirst ==
    ASSUME SystemInv, PoolSuffices, MainThread, pc[Helper] = "Main", pc'[Helper] # "Main"
    PROVE  HasSubmittedAll(Main)
<1>0. Helper \in Instances /\ pc \in [Instances -> AllSteps]
  BY HelperFacts
<1>1. CASE ExecutionStep(Helper)
  BY <1>0, <1>1, ExecutionStepGives DEF ExecutionSteps
<1>2. CASE ~ExecutionStep(Helper)
  BY <1>0, <1>2 DEF MainThread, SubmitFromMain, SubmitNext, ConvertMainThread, CheckCondition,
                    FlushFiber, AdoptFiber, EndFlushFibers, FlushTask, ReturnFromWaitUntil,
                    RaiseFence, RequestFinish, WakeUpToFinish, Deinitialize, At
<1> QED
  BY <1>1, <1>2

\* So all this is kept.
LEMMA AllSubmittedStep ==
    ASSUME GraphReady, PoolSuffices, Emptied, AllSubmitted, [Next]_vars
    PROVE  AllSubmitted' /\ Emptied'
<1>1. /\ SystemInv /\ Helper \in Instances /\ Main \in Submitters
      /\ SubmittedIn(program) \subseteq Tasks
  BY HelperFacts, NamesInProgram DEF GraphReady, SystemInv, Typed, TypeOK, Submitters
<1>2. /\ program' = program
      /\ \A t \in Tasks : IsFinished(t)' =>
            IsFinished(t) \/ (HasSubmittedAll(t) /\ CanProceed(t))
  BY CountersStep
<1>3. \A c \in Submitters : HasSubmittedAll(c) => HasSubmittedAll(c)'
  BY SubmissionsStay
<1>4. \A t \in SubmittedIn(program)' : IsFinished(t)' => HasSubmittedAll(t)'
  <2>1. SubmittedIn(program)' = SubmittedIn(program)
    BY <1>2 DEF SubmittedIn
  <2> QED
    BY <1>1, <1>2, <1>3, <2>1 DEF AllSubmitted, Submitters
<1>5. CASE UNCHANGED vars
  <2>1. Emptied'
    BY <1>5 DEF vars, instanceVars, Emptied
  <2>2. pc' = pc
    BY <1>5 DEF vars
  <2> QED
    BY <1>1, <1>3, <1>4, <2>1, <2>2 DEF AllSubmitted
<1>6. CASE MainThread
  <2>1. pc'[Helper] # "Main" => HasSubmittedAll(Main)
    BY <1>1, <1>6, MainSubmitsFirst DEF AllSubmitted
  <2> QED
    BY <1>1, <1>3, <1>4, <1>6, <2>1, MainThreadEmpties DEF AllSubmitted
<1>7. ASSUME NEW w \in 1 .. MaxWorkers, WorkerThread(w) PROVE AllSubmitted' /\ Emptied'
  BY <1>1, <1>3, <1>4, <1>7, WorkerLeavesHelper DEF AllSubmitted
<1> QED
  BY <1>5, <1>6, <1>7 DEF Next

\* When the threads rest, no fiber has a task and no queue holds one.
LEMMA RestIsEmpty ==
    ASSUME GraphReady, Emptied, AtRest
    PROVE  /\ \A f \in Fibers : fiberTask[f] = NoTask
           /\ \A i \in Instances : pendingTasks[i] = <<>> /\ dispatching[i] = NoTask
<1>1. SystemInv /\ Helper \in Instances
  BY HelperFacts DEF GraphReady
<1>2. Instances = {Helper} \cup Workers
  BY DEF Instances
<1>3. \A i \in Instances : dispatching[i] = NoTask /\ waking[i] = 0
  BY DEF AtRest, InDispatcher
<1>4. \A w \in Workers : \A i \in Instances : ~IsAboutToWake(i, w)
  BY <1>3 DEF IsAboutToWake, AtRest
<1>5. \A w \in Workers : pendingTasks[w] = <<>> /\ suspendedFibers[w] = <<>>
  BY <1>1, <1>4 DEF SystemInv, Awaited, AwaitedBy, Announced, AtRest
<1>6. \A i \in Instances : pendingTasks[i] = <<>> /\ suspendedFibers[i] = <<>>
  BY <1>2, <1>5 DEF Emptied, AtRest
<1>7. \A i \in Instances : pc[i] \in {"Returned", "Wait"}
  BY <1>2 DEF AtRest
<1>8. ASSUME NEW f \in Fibers PROVE fiberTask[f] = NoTask
  <2>1. CASE f \in Range(freeFibers)
    BY <2>1 DEF GraphReady, Linked
  <2>2. CASE f \notin Range(freeFibers)
    <3>1. PICK i \in Instances : f \in Holding(i)
      BY <1>1, <2>2 DEF SystemInv, Placed
    <3>2. running[i] = NoFiber /\ Range(suspendedFibers[i]) = {} /\ pc[i] # "Done"
      BY <1>1, <1>6, <1>7, EmptyRange DEF SystemInv, Contents, FiberSteps
    <3>3. f = currentFiber[i] /\ f # NoFiber
      BY <3>1, <3>2, NamesAssumption DEF Holding, Current, Resumed
    <3> QED
      BY <3>2, <3>3 DEF GraphReady, Linked
  <2> QED
    BY <2>1, <2>2
<1> QED
  BY <1>3, <1>6, <1>8

\* So nothing is dispatched in the graph,
LEMMA RestDispatchesNothing ==
    ASSUME GraphReady, Emptied, AtRest, NEW t \in Tasks
    PROVE  ~GraphProofs!IsDispatched(t)
<1>1. /\ \A f \in Fibers : fiberTask[f] = NoTask
      /\ \A i \in Instances : pendingTasks[i] = <<>> /\ dispatching[i] = NoTask
  BY RestIsEmpty
<1>2. t # NoTask /\ SystemInv
  BY NamesAssumption DEF Submitters, GraphReady
<1>3. PendingEntries(t) = {}
  BY <1>1, <1>2 DEF PendingEntries
<1>4. GraphPending[t] = 0
  BY <1>3, FS_EmptySet DEF GraphPending
<1>5. \A c \in Submitters : GraphDispatching[c] # t
  <2>1. \A c \in Submitters : DispatchedBy(c) = {}
    BY <1>1 DEF DispatchedBy
  <2> QED
    BY <1>2, <2>1 DEF GraphDispatching
<1>6. \A f \in Fibers : GraphFiberStates[f] = "Idle" /\ GraphReadyArrays[f] = NothingReady
  BY <1>1, <1>2, IdleView, GraphIs
<1>7. \A f \in Fibers : \A s \in GraphProofs!Slots : GraphReadyArrays[f][s] = NoTask
  BY <1>6 DEF GraphProofs!Slots, NothingReady, Slots
<1> QED
  BY <1>2, <1>4, <1>5, <1>6, <1>7 DEF GraphProofs!IsDispatched

\* and a task whose prerequisites have finished waits for nothing.
LEMMA RestNotifiesNobody ==
    ASSUME GraphReady, Emptied, AtRest, NEW t \in Tasks, ~IsFinished(t),
           \A u \in Tasks : \A s \in Slots : Dependants[u][s] = t => IsFinished(u)
    PROVE  GraphWaits[t] = {} /\ GraphExecutions[t] = 0
<1>1. \A f \in Fibers : fiberTask[f] = NoTask
  BY RestIsEmpty
<1>2. NoTask \notin Tasks /\ SystemInv
  BY NamesAssumption DEF Submitters, GraphReady
<1>3. \A u \in Tasks : \A s \in Slots : Dependants[u][s] = t => ~HasToNotify(u, s)
  BY <1>1, <1>2 DEF HasToNotify
<1>4. GraphWaits[t] = {}
  BY <1>3 DEF GraphWaits
<1>5. \A f \in Fibers : stack[f] # t
  BY <1>1, <1>2 DEF GraphReady, Linked
<1> QED
  BY <1>4, <1>5 DEF GraphExecutions

\* When the threads rest, every task has finished.
LEMMA RestForgetsNothing ==
    ASSUME NoCycles, ClientsSubmitDependantsFirst, GraphReady, NoneLeft, Emptied, AllSubmitted
    PROVE  NothingForgotten
<1> SUFFICES ASSUME AtRest, ~\A t \in SubmittedIn(program) : IsFinished(t) PROVE FALSE
  BY DEF NothingForgotten
<1>1. /\ program \in Programs /\ SubmittedIn(program) \subseteq Tasks /\ SystemInv
      /\ DependantsFirst(program) /\ NoTask \notin Tasks
  BY NamesInProgram, NamesAssumption
     DEF GraphReady, SystemInv, Typed, TypeOK, ClientsSubmitDependantsFirst, Submitters
<1>2. PICK S : S = {t \in SubmittedIn(program) : ~IsFinished(t)}
  OBVIOUS
<1>3. S # {} /\ S \in SUBSET SubmittedIn(program)
  BY <1>2
<1>4. PICK t \in S :
         /\ \A u \in S : \A s \in Slots : program.dependants[u][s] # t
         /\ \A c \in Submitters : (\E k \in DOMAIN program.submits[c] : program.submits[c][k] = t)
                => c = Main \/ c \in SubmittedIn(program) \ S
  BY <1>1, <1>3 DEF NoCycles
<1>5. t \in Tasks /\ t \in SubmittedIn(program) /\ ~IsFinished(t)
  BY <1>1, <1>2, <1>4
<1>6. Submitted(t)
  <2>1. PICK c \in Submitters : \E k \in DOMAIN Submits[c] : Submits[c][k] = t
    BY <1>5 DEF SubmittedIn, Submits
  <2>2. c = Main \/ (c \in SubmittedIn(program) /\ IsFinished(c))
    BY <1>2, <1>4, <2>1 DEF Submits
  <2>3. HasSubmittedAll(c)
    BY <2>2 DEF AllSubmitted, AtRest
  <2>4. DOMAIN Submits[c] = 1 .. Len(Submits[c])
    BY <1>1, ProgramsAssumption DEF Submits
  <2> QED
    BY <2>1, <2>3, <2>4 DEF Submitted, HasSubmittedAll
<1>7. ASSUME NEW u \in Tasks, NEW s \in Slots, Dependants[u][s] = t PROVE IsFinished(u)
  <2>1. u \in SubmittedIn(program)
    BY <1>1, <1>5, <1>7 DEF DependantsFirst, NothingReady, Dependants
  <2> QED
    BY <1>2, <1>4, <1>7, <2>1 DEF Dependants
<1>8. GraphWaits[t] = {} /\ GraphExecutions[t] = 0
  BY <1>5, <1>7, RestNotifiesNobody
<1>9. GraphSubmitted[t]
  BY <1>5, <1>6 DEF GraphSubmitted
<1>10. GraphProofs!IsDispatched(t)
  BY <1>5, <1>8, <1>9 DEF NoneLeft, GraphProofs!NoneForgotten
<1> QED
  BY <1>5, <1>10, RestDispatchesNothing

\* What no task is forgotten for.
RestInv == NoneLeft /\ Emptied /\ AllSubmitted

\* In the beginning nothing is submitted or finished.
LEMMA RestInvInitial ==
    ASSUME Init, ClientsSubmitDependantsFirst
    PROVE  RestInv
<1>1. DependantsFirst(program)
  BY DEF Init, ClientsSubmitDependantsFirst
<1>2. NoneLeft
  BY <1>1, NoneLeftInitial
<1>3. SystemInv
  BY SystemInvInitial
<1>4. pc[Helper] = "Main"
  BY <1>3, HelperFacts DEF Init
<1>5. \A t \in SubmittedIn(program) : ~IsFinished(t)
  BY <1>1, NothingFinished
<1> QED
  BY <1>2, <1>4, <1>5 DEF RestInv, Emptied, AllSubmitted

\* When the threads come to rest, every task that has been submitted has finished: no wake-up,
\* no notification and no queue loses one, in any interleaving of any program, as long as
\* the pool of task fibers suffices and fibers return to their threads.
THEOREM NothingForgottenCorrect ==
    ASSUME ClientsSubmitDependantsFirst, NoCycles
    PROVE  Spec /\ []PoolSuffices /\ []FibersReturnHome => []NothingForgotten
<1>1. Init => RestInv
  BY RestInvInitial
<1>2. GraphSystemInv /\ PoolSuffices /\ RestInv /\ [Next]_vars /\ [Graph!Next]_(Graph!vars)
        => RestInv'
  <2> SUFFICES ASSUME GraphSystemInv, PoolSuffices, RestInv, [Next]_vars, [Graph!Next]_(Graph!vars)
               PROVE  RestInv'
    OBVIOUS
  <2>1. GraphReady /\ Graph!IInv
    BY DEF GraphSystemInv, GraphReady
  <2> QED
    BY <2>1, NoneLeftStep, AllSubmittedStep DEF RestInv
<1>3. GraphSystemInv /\ RestInv => NothingForgotten
  BY RestForgetsNothing DEF GraphSystemInv, RestInv
<1> QED
  BY <1>1, <1>2, <1>3, GraphSystemInvCorrect, PTL DEF Spec

\* The hypotheses of the runs suffice, if the main thread ends last.
THEOREM NothingIsEverForgotten ==
    ASSUME ClientsSubmitDependantsFirst, NoCycles, EnoughFibers, MainEndsLast
    PROVE  Spec => []NothingForgotten
BY NothingForgottenCorrect, HomeInvCorrect, PTL
=============================================================================
