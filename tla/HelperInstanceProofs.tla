------------------------- MODULE HelperInstanceProofs -------------------------
(***************************************************************************)
(* Theorems about HelperInstance, for any number of threads, task fibers   *)
(* and calls.  The argument: at most one thread is in a call, so that what *)
(* the instance keeps (its conversion, its current and its suspended       *)
(* fibers) is that thread's from Setup to the end of the flush, and a task *)
(* fiber is at one place at a time, so that no other step touches the      *)
(* parent of a fiber that the thread may switch to.                        *)
(***************************************************************************)
EXTENDS HelperInstance, SequenceLemmas

\* A thread is in a call or not; at most one is.  A second one calls only while the
\* others are idle or inside, and is refused if one is inside.
OneCallAtATime ==
    \A e, o \in Threads : pc[e] # "Idle" /\ pc[o] # "Idle" => e = o

\* The instance belongs to the thread in the loop, which is a fiber from Setup on.
Conversion ==
    /\ \A e \in Threads : pc[e] \in Inside \cup {"Setup"} => threadFiber[e] # NoFiber
    /\ \A e \in Threads :
          pc[e] \in Inside =>
              m_convertedFlag /\ m_convertedThreadID = e /\ m_thisFiberID = threadFiber[e]
    /\ (\A e \in Threads : pc[e] \notin Inside) => ~m_convertedFlag

\* A thread is on a task fiber exactly in the step OnFiber.
SwitchedTo == \A e \in Threads : running[e] # NoFiber <=> pc[e] = "OnFiber"

\* Every task fiber has one place: it is free, with the workers, suspended (once), the
\* current fiber, or, once resumed, the fiber that a thread is on.
OnePlace ==
    /\ freeFibers \cap workersFibers = {}
    /\ IsInjective(m_suspendedTaskFibers)
    /\ Range(m_suspendedTaskFibers) \cap (freeFibers \cup workersFibers) = {}
    /\ m_currentFiber \notin Range(m_suspendedTaskFibers) \cup freeFibers \cup workersFibers
    /\ \A e \in Threads :
          running[e] \notin Range(m_suspendedTaskFibers) \cup freeFibers \cup workersFibers

\* What a call leaves is flushed before it ends, and nothing comes before the loop.
NothingBeforeTheLoop ==
    (\A e \in Threads : pc[e] \in {"Idle", "Convert", "Setup", "FlushTasks"})
        => /\ m_suspendedTaskFibers = <<>>
           /\ (\A e \in Threads : pc[e] # "FlushTasks") => m_pendingTaskQueue = 0

HelperInv ==
    /\ TypeOK /\ OneCallAtATime /\ Conversion /\ SwitchedTo /\ OnePlace
    /\ FibersReturnToTheirThread /\ NothingBeforeTheLoop

-----------------------------------------------------------------------------
\* Nobody has called yet.
LEMMA HelperInvInitial == Init => HelperInv
<1> SUFFICES ASSUME Init PROVE HelperInv
  OBVIOUS
<1>1. TypeOK
  <2>1. \A e \in Threads : OwnFiber(e) \in ThreadFibers
    BY BoundsAssumption DEF OwnFiber, ThreadFibers
  <2>2. m_suspendedTaskFibers \in Seq(Fibers) /\ m_currentFiber \in Fibers /\ 0 \in 0 .. MaxPending
        /\ 0 \in 0 .. MaxCalls
    BY BoundsAssumption, EmptySeq DEF Init, Fibers
  <2> QED
    BY <2>1, <2>2 DEF Init, TypeOK, Inside
<1>2. Range(m_suspendedTaskFibers) = {} /\ IsInjective(m_suspendedTaskFibers)
  BY EmptyRange DEF Init
<1>3. \A e \in Threads : pc[e] = "Idle" /\ running[e] = NoFiber
  BY DEF Init
<1>4. OnePlace
  BY <1>2, <1>3, BoundsAssumption DEF Init, OnePlace, Fibers
<1> QED
  BY <1>1, <1>3, <1>4
     DEF Init, HelperInv, OneCallAtATime, Conversion, SwitchedTo, FibersReturnToTheirThread,
         NothingBeforeTheLoop, Inside

\* A step that goes on with the one call under way: the others are idle, on no fiber.
LEMMA OthersAreIdle ==
    ASSUME HelperInv, NEW e \in Threads, pc[e] # "Idle"
    PROVE  \A o \in Threads \ {e} : pc[o] = "Idle" /\ running[o] = NoFiber
BY DEF HelperInv, OneCallAtATime, SwitchedTo

\* NoFiber is at none of the places of fibers.
LEMMA NoFiberIsNoFiber ==
    ASSUME TypeOK'
    PROVE  NoFiber \notin Range(m_suspendedTaskFibers') \cup freeFibers' \cup workersFibers'
<1>1. Range(m_suspendedTaskFibers') \subseteq Fibers
  BY RangeOfSequence DEF TypeOK
<1> QED
  BY <1>1, BoundsAssumption DEF TypeOK, Fibers

\* A call begins only while nobody is in one.
LEMMA WaitUntilStep ==
    ASSUME HelperInv, NEW e \in Threads, WaitUntil(e) PROVE HelperInv'
<1>1. \A o \in Threads : pc[o] = "Idle"
  BY NoFiberAssumption
     DEF HelperInv, Conversion, TypeOK, WaitUntil, MayCall, IsConvertedToWorkerInstance
<1>2. TypeOK'
  BY BoundsAssumption DEF HelperInv, TypeOK, WaitUntil, GoTo, Inside, convertVars, queueVars, poolVars
<1> QED
  BY <1>1, <1>2
     DEF HelperInv, OneCallAtATime, Conversion, SwitchedTo, OnePlace, TypeOK,
         FibersReturnToTheirThread, NothingBeforeTheLoop, WaitUntil, GoTo, Inside, convertVars,
         queueVars, poolVars

\* A call that meets a thread inside changes its count only.
LEMMA RefuseStep ==
    ASSUME HelperInv, NEW e \in Threads, Refuse(e) PROVE HelperInv'
<1>1. TypeOK'
  BY BoundsAssumption
     DEF HelperInv, TypeOK, Refuse, Inside, convertVars, queueVars, poolVars
<1> QED
  BY <1>1
     DEF HelperInv, OneCallAtATime, Conversion, SwitchedTo, OnePlace, FibersReturnToTheirThread,
         NothingBeforeTheLoop, Refuse, Inside, convertVars, queueVars, poolVars

\* The thread becomes a fiber, if it is none, and remembers whether it did.
LEMMA ConvertThreadToFiberStep ==
    ASSUME HelperInv, NEW e \in Threads, ConvertThreadToFiber(e) PROVE HelperInv'
<1>1. \A o \in Threads \ {e} : pc[o] = "Idle" /\ running[o] = NoFiber
  BY OthersAreIdle DEF ConvertThreadToFiber
<1>2. CallFiber(e) \in ThreadFibers
  BY DEF HelperInv, TypeOK, CallFiber, ThreadFibers
<1>3. TypeOK'
  BY <1>2 DEF HelperInv, TypeOK, ConvertThreadToFiber, GoTo, Inside, queueVars, poolVars
<1> QED
  BY <1>1, <1>2, <1>3, NoFiberAssumption
     DEF HelperInv, OneCallAtATime, Conversion, SwitchedTo, OnePlace, FibersReturnToTheirThread,
         NothingBeforeTheLoop, TypeOK, ConvertThreadToFiber, GoTo, Inside, queueVars, poolVars

\* Nothing is suspended, so that the current fiber is the only one to set up.
LEMMA SetupStep ==
    ASSUME HelperInv, NEW e \in Threads, Setup(e) PROVE HelperInv'
<1>1. \A o \in Threads \ {e} : pc[o] = "Idle" /\ running[o] = NoFiber
  BY OthersAreIdle DEF Setup
<1>2. m_suspendedTaskFibers = <<>> /\ Range(m_suspendedTaskFibers) = {}
  BY <1>1, EmptyRange DEF HelperInv, NothingBeforeTheLoop, Setup
<1>3. TypeOK'
  BY DEF HelperInv, TypeOK, Setup, GoTo, Inside, threadVars, queueVars
<1>4. FibersReturnToTheirThread'
  BY <1>1, <1>2
     DEF HelperInv, TypeOK, SwitchedTo, FibersReturnToTheirThread, Setup, GoTo, Inside,
         threadVars, queueVars
<1> QED
  BY <1>1, <1>2, <1>3, <1>4
     DEF HelperInv, OneCallAtATime, Conversion, SwitchedTo, OnePlace,
         NothingBeforeTheLoop, TypeOK, Setup, GoTo, Inside, threadVars, queueVars

\* The fiber that is resumed was suspended, and all suspended fibers return to e.
LEMMA ResumeFiberStep ==
    ASSUME HelperInv, NEW e \in Threads, ResumeFiber(e) PROVE HelperInv'
<1> DEFINE f == Head(m_suspendedTaskFibers)
<1>1. \A o \in Threads \ {e} : pc[o] = "Idle" /\ running[o] = NoFiber
  BY OthersAreIdle DEF ResumeFiber
<1>2. /\ f \in Fibers /\ f \in Range(m_suspendedTaskFibers)
      /\ m_suspendedTaskFibers' \in Seq(Fibers)
      /\ Range(m_suspendedTaskFibers') = Range(m_suspendedTaskFibers) \ {f}
      /\ IsInjective(m_suspendedTaskFibers')
  BY TailRange DEF HelperInv, TypeOK, OnePlace, ResumeFiber
<1> HIDE DEF f
<1>3. f # NoFiber /\ running' = [running EXCEPT ![e] = f]
  BY <1>2, BoundsAssumption DEF Fibers, ResumeFiber, f
<1>4. TypeOK'
  BY <1>2, <1>3 DEF HelperInv, TypeOK, ResumeFiber, GoTo, Inside, threadVars, convertVars, poolVars
<1>5. OnePlace'
  BY <1>1, <1>2, <1>3 DEF HelperInv, TypeOK, OnePlace, ResumeFiber, poolVars
<1>6. FibersReturnToTheirThread'
  BY <1>1, <1>2, <1>3
     DEF HelperInv, TypeOK, FibersReturnToTheirThread, ResumeFiber, GoTo, Inside, threadVars,
         poolVars
<1> QED
  BY <1>1, <1>3, <1>4, <1>5, <1>6
     DEF HelperInv, OneCallAtATime, Conversion, SwitchedTo, TypeOK,
         NothingBeforeTheLoop, ResumeFiber, GoTo, Inside, threadVars, convertVars, poolVars

\* A task goes from the queue onto a fiber, whose parent has been set by Setup.
LEMMA ExecuteSingleTaskStep ==
    ASSUME HelperInv, NEW e \in Threads, ExecuteSingleTask(e) PROVE HelperInv'
<1>1. \A o \in Threads \ {e} : pc[o] = "Idle" /\ running[o] = NoFiber
  BY OthersAreIdle DEF ExecuteSingleTask
<1>2. m_currentFiber # NoFiber
  BY BoundsAssumption DEF HelperInv, TypeOK, Fibers
<1>3. TypeOK'
  BY BoundsAssumption
     DEF HelperInv, TypeOK, ExecuteSingleTask, GoTo, Inside, threadVars, convertVars, poolVars
<1> QED
  BY <1>1, <1>2, <1>3
     DEF HelperInv, OneCallAtATime, Conversion, SwitchedTo, OnePlace, TypeOK,
         FibersReturnToTheirThread, NothingBeforeTheLoop, ExecuteSingleTask, GoTo, Inside,
         threadVars, convertVars, poolVars

\* A task is submitted, which moves no fiber.
LEMMA SubmitTaskStep ==
    ASSUME HelperInv, NEW e \in Threads, SubmitTask(e) PROVE HelperInv'
<1>1. TypeOK'
  BY BoundsAssumption
     DEF HelperInv, TypeOK, SubmitTask, Inside, threadVars, convertVars, poolVars
<1> QED
  BY <1>1
     DEF HelperInv, OneCallAtATime, Conversion, SwitchedTo, OnePlace, FibersReturnToTheirThread,
         NothingBeforeTheLoop, SubmitTask, Inside, threadVars, convertVars, poolVars

\* A fiber that goes back to the pool was resumed before: nobody else has it.
LEMMA FinishTaskStep ==
    ASSUME HelperInv, NEW e \in Threads, FinishTask(e) PROVE HelperInv'
<1> DEFINE f == running[e]
<1>1. \A o \in Threads \ {e} : pc[o] = "Idle" /\ running[o] = NoFiber
  BY OthersAreIdle DEF FinishTask
<1>2. f # NoFiber /\ f \in Fibers
      /\ f \notin Range(m_suspendedTaskFibers) \cup freeFibers \cup workersFibers
  BY DEF HelperInv, TypeOK, SwitchedTo, OnePlace, FinishTask
<1>3. TypeOK'
  BY <1>2
     DEF HelperInv, TypeOK, FinishTask, GoTo, Inside, threadVars, convertVars, queueVars, poolVars
<1>4. NoFiber \notin Range(m_suspendedTaskFibers') \cup freeFibers' \cup workersFibers'
  BY <1>3, NoFiberIsNoFiber
<1>5. OnePlace'
  BY <1>1, <1>2, <1>4 DEF HelperInv, TypeOK, OnePlace, FinishTask, queueVars, poolVars
<1>6. FibersReturnToTheirThread'
  <2>1. \A o \in Threads : running'[o] = NoFiber
    BY <1>1 DEF HelperInv, TypeOK, FinishTask
  <2>2. \A g \in Range(m_suspendedTaskFibers) \cup {m_currentFiber} :
           fiberParent[g] = threadFiber[e]
    BY DEF HelperInv, FibersReturnToTheirThread, FinishTask, Inside
  <2>3. \A g \in Range(m_suspendedTaskFibers) \cup {m_currentFiber} :
           fiberParent'[g] = fiberParent[g]
    BY <1>2, RangeOfSequence DEF HelperInv, TypeOK, FinishTask, poolVars
  <2> QED
    BY <1>1, <2>1, <2>2, <2>3
       DEF HelperInv, TypeOK, FibersReturnToTheirThread, FinishTask, GoTo, Inside, threadVars,
           queueVars
<1> QED
  BY <1>1, <1>3, <1>5, <1>6
     DEF HelperInv, OneCallAtATime, Conversion, SwitchedTo, TypeOK,
         NothingBeforeTheLoop, FinishTask, GoTo, Inside, threadVars, convertVars, queueVars

\* The fiber that replaces the current one was free, and is set up for e as well.
LEMMA SuspendTaskStep ==
    ASSUME HelperInv, NEW e \in Threads, SuspendTask(e) PROVE HelperInv'
<1> DEFINE f == running[e]
<1>1. \A o \in Threads \ {e} : pc[o] = "Idle" /\ running[o] = NoFiber
  BY OthersAreIdle DEF SuspendTask
<1>2. f # NoFiber /\ f \in Fibers
      /\ f \notin Range(m_suspendedTaskFibers) \cup freeFibers \cup workersFibers
  BY DEF HelperInv, TypeOK, SwitchedTo, OnePlace, SuspendTask
<1>3. /\ m_suspendedTaskFibers' \in Seq(Fibers)
      /\ Range(m_suspendedTaskFibers') = Range(m_suspendedTaskFibers) \cup {f}
      /\ IsInjective(m_suspendedTaskFibers')
  BY <1>2, AppendRange DEF HelperInv, TypeOK, OnePlace, SuspendTask
<1>4. TypeOK'
  <2>1. m_currentFiber' \in Fibers /\ fiberParent' \in [Fibers -> ThreadFibers \cup {Worker, NoFiber}]
        /\ freeFibers' \subseteq Fibers /\ workersFibers' \subseteq Fibers
    BY DEF HelperInv, TypeOK, SuspendTask, poolVars
  <2> QED
  BY <1>2, <1>3, <2>1
     DEF HelperInv, TypeOK, SuspendTask, GoTo, Inside, threadVars, convertVars, poolVars
<1>5. NoFiber \notin Range(m_suspendedTaskFibers') \cup freeFibers' \cup workersFibers'
  BY <1>4, NoFiberIsNoFiber
<1>6. OnePlace'
  BY <1>1, <1>2, <1>3, <1>5 DEF HelperInv, TypeOK, OnePlace, SuspendTask, poolVars
<1>7. m_thisFiberID = threadFiber[e]
  BY DEF HelperInv, Conversion, SuspendTask, Inside
<1>8. FibersReturnToTheirThread'
  <2>1. \A o \in Threads : running'[o] = NoFiber
    BY <1>1 DEF HelperInv, TypeOK, SuspendTask
  <2>2. \A g \in Range(m_suspendedTaskFibers) \cup {m_currentFiber, f} :
           g \in Fibers /\ g \notin freeFibers /\ fiberParent[g] = threadFiber[e]
    BY <1>2, RangeOfSequence
       DEF HelperInv, TypeOK, OnePlace, FibersReturnToTheirThread, SuspendTask, Inside
  <2>3. \A g \in Range(m_suspendedTaskFibers') \cup {m_currentFiber'} :
           fiberParent'[g] = threadFiber[e]
    <3>1. CASE f # m_currentFiber
      BY <1>3, <2>2, <3>1 DEF SuspendTask, poolVars
    <3>2. CASE f = m_currentFiber
      BY <1>3, <1>7, <2>2, <3>2 DEF HelperInv, TypeOK, SuspendTask
    <3> QED
      BY <3>1, <3>2
  <2> QED
    BY <1>1, <2>1, <2>3
       DEF HelperInv, TypeOK, FibersReturnToTheirThread, SuspendTask, GoTo, Inside, threadVars
<1> QED
  BY <1>1, <1>4, <1>6, <1>8
     DEF HelperInv, OneCallAtATime, Conversion, SwitchedTo, TypeOK,
         NothingBeforeTheLoop, SuspendTask, GoTo, Inside, threadVars, convertVars

\* The thread leaves the loop; no fiber of the instance runs on it any more.
LEMMA ConvertToNormalThreadStep ==
    ASSUME HelperInv, NEW e \in Threads, ConvertToNormalThread(e) PROVE HelperInv'
<1>1. \A o \in Threads \ {e} : pc[o] = "Idle" /\ running[o] = NoFiber
  BY OthersAreIdle DEF ConvertToNormalThread
<1>2. TypeOK'
  BY DEF HelperInv, TypeOK, ConvertToNormalThread, GoTo, Inside, queueVars, poolVars
<1> QED
  BY <1>1, <1>2
     DEF HelperInv, OneCallAtATime, Conversion, SwitchedTo, OnePlace, TypeOK,
         FibersReturnToTheirThread, NothingBeforeTheLoop, ConvertToNormalThread, GoTo, Inside,
         queueVars, poolVars

\* Nobody is inside, so that a parent may change.
LEMMA FlushFibersStep ==
    ASSUME HelperInv, NEW e \in Threads, FlushFibers(e) PROVE HelperInv'
<1>1. \A o \in Threads \ {e} : pc[o] = "Idle" /\ running[o] = NoFiber
  BY OthersAreIdle DEF FlushFibers
<1>2. running[e] = NoFiber
  BY DEF HelperInv, SwitchedTo, FlushFibers
<1>3. CASE m_suspendedTaskFibers = <<>>
  <2>1. GoTo(e, "FlushTasks") /\ UNCHANGED <<m_suspendedTaskFibers, poolVars>>
    BY <1>3 DEF FlushFibers
  <2>2. TypeOK'
    BY <2>1 DEF HelperInv, TypeOK, FlushFibers, GoTo, threadVars, convertVars, poolVars
  <2> QED
    BY <1>1, <1>2, <1>3, <2>1, <2>2
       DEF HelperInv, OneCallAtATime, Conversion, SwitchedTo, OnePlace, TypeOK,
           FibersReturnToTheirThread, NothingBeforeTheLoop, FlushFibers, GoTo, Inside,
           threadVars, convertVars, poolVars
<1>4. CASE m_suspendedTaskFibers # <<>>
  <2> DEFINE f == m_suspendedTaskFibers[Len(m_suspendedTaskFibers)]
  <2>1. /\ f \in Fibers /\ f \in Range(m_suspendedTaskFibers)
        /\ m_suspendedTaskFibers' \in Seq(Fibers)
        /\ Range(m_suspendedTaskFibers') = Range(m_suspendedTaskFibers) \ {f}
        /\ IsInjective(m_suspendedTaskFibers')
    <3>1. m_suspendedTaskFibers' = SubSeq(m_suspendedTaskFibers, 1, Len(m_suspendedTaskFibers) - 1)
      BY <1>4 DEF FlushFibers
    <3>2. m_suspendedTaskFibers \in Seq(Fibers) /\ IsInjective(m_suspendedTaskFibers)
      BY DEF HelperInv, TypeOK, OnePlace
    <3> QED
      BY <1>4, <3>1, <3>2, FrontRange
  <2>2. /\ workersFibers' = workersFibers \cup {f}
        /\ fiberParent' = [fiberParent EXCEPT ![f] = Worker]
        /\ UNCHANGED <<pc, freeFibers>>
    BY <1>4 DEF FlushFibers
  <2> HIDE DEF f
  <2>3. TypeOK'
    BY <2>1, <2>2 DEF HelperInv, TypeOK, FlushFibers, threadVars, convertVars
  <2>4. f # NoFiber
    BY <2>1, BoundsAssumption DEF Fibers
  <2>5. OnePlace'
    BY <1>1, <1>2, <2>1, <2>2, <2>4 DEF HelperInv, OnePlace, FlushFibers
  <2> QED
    BY <1>1, <1>2, <2>2, <2>3, <2>5
       DEF HelperInv, OneCallAtATime, Conversion, SwitchedTo, TypeOK,
           FibersReturnToTheirThread, NothingBeforeTheLoop, FlushFibers, Inside,
           threadVars, convertVars
<1> QED
  BY <1>3, <1>4

\* The last step of the way out: what is left of the tasks goes to the workers.
LEMMA FlushTasksStep ==
    ASSUME HelperInv, NEW e \in Threads, FlushTasks(e) PROVE HelperInv'
<1>1. \A o \in Threads \ {e} : pc[o] = "Idle" /\ running[o] = NoFiber
  BY OthersAreIdle DEF FlushTasks
<1>2. TypeOK'
  <2>1. m_pendingTaskQueue' \in 0 .. MaxPending
    BY BoundsAssumption DEF HelperInv, TypeOK, FlushTasks
  <2> QED
    BY <2>1 DEF HelperInv, TypeOK, FlushTasks, GoTo, threadVars, convertVars, poolVars
<1> QED
  BY <1>1, <1>2
     DEF HelperInv, OneCallAtATime, Conversion, SwitchedTo, OnePlace, TypeOK,
         FibersReturnToTheirThread, NothingBeforeTheLoop, FlushTasks, GoTo, Inside,
         threadVars, convertVars, poolVars

\* The workers take a task, which moves no fiber.
LEMMA StealTaskStep ==
    ASSUME HelperInv, StealTask PROVE HelperInv'
<1>1. TypeOK'
  BY BoundsAssumption DEF HelperInv, TypeOK, StealTask, threadVars, convertVars, poolVars
<1> QED
  BY <1>1, BoundsAssumption
     DEF HelperInv, OneCallAtATime, Conversion, SwitchedTo, OnePlace, TypeOK,
         FibersReturnToTheirThread, NothingBeforeTheLoop, StealTask,
         threadVars, convertVars, poolVars

\* A fiber that is with the workers is nobody's else.
LEMMA FinishFlushedFiberStep ==
    ASSUME HelperInv, NEW f \in Fibers, FinishFlushedFiber(f) PROVE HelperInv'
<1>1. TypeOK'
  BY DEF HelperInv, TypeOK, FinishFlushedFiber, threadVars, convertVars, queueVars
<1>2. OnePlace'
  BY DEF HelperInv, OnePlace, FinishFlushedFiber, queueVars
<1>3. FibersReturnToTheirThread'
  BY DEF HelperInv, TypeOK, OnePlace, FibersReturnToTheirThread, FinishFlushedFiber, threadVars,
         queueVars
<1> QED
  BY <1>1, <1>2, <1>3
     DEF HelperInv, OneCallAtATime, Conversion, SwitchedTo, NothingBeforeTheLoop,
         FinishFlushedFiber, threadVars, convertVars, queueVars

\* Every step keeps the invariant: one case for each action.
LEMMA HelperInvInductive == HelperInv /\ [Next]_vars => HelperInv'
<1> SUFFICES ASSUME HelperInv, [Next]_vars PROVE HelperInv'
  OBVIOUS
<1>1. ASSUME NEW e \in Threads, Thread(e) PROVE HelperInv'
  BY <1>1, WaitUntilStep, RefuseStep, ConvertThreadToFiberStep, SetupStep, ResumeFiberStep,
     ExecuteSingleTaskStep, SubmitTaskStep, FinishTaskStep, SuspendTaskStep,
     ConvertToNormalThreadStep, FlushFibersStep, FlushTasksStep
     DEF Thread
<1>2. CASE UNCHANGED vars
  BY <1>2
     DEF vars, threadVars, convertVars, queueVars, poolVars, HelperInv, TypeOK, OneCallAtATime,
         Conversion, SwitchedTo, OnePlace, FibersReturnToTheirThread, NothingBeforeTheLoop
<1> QED
  BY <1>1, <1>2, StealTaskStep, FinishFlushedFiberStep DEF Next

\* What the proofs keep of a run: HelperInv holds throughout.
THEOREM HelperInvCorrect == Spec => []HelperInv
BY HelperInvInitial, HelperInvInductive, PTL DEF Spec

\* Every variable keeps its type.
THEOREM TypeCorrect == Spec => []TypeOK
<1>1. HelperInv => TypeOK
  BY DEF HelperInv
<1> QED
  BY <1>1, HelperInvCorrect, PTL

\* A task fiber that a thread is on, or will resume, returns to the fiber that this
\* thread is now (ConvertToWorkerInstance, SetupFiberForThread, FlushAllSuspendedFibers).
THEOREM FibersReturnToTheirThreadCorrect == Spec => []FibersReturnToTheirThread
<1>1. HelperInv => FibersReturnToTheirThread
  BY DEF HelperInv
<1> QED
  BY <1>1, HelperInvCorrect, PTL

\* The instance is converted exactly while a thread is in the loop, and for that thread.
THEOREM OneThreadInsideCorrect == Spec => []OneThreadInside
<1>1. HelperInv => OneThreadInside
  BY DEF HelperInv, Conversion, OneThreadInside, IsConvertedToWorkerInstance, Inside
<1> QED
  BY <1>1, HelperInvCorrect, PTL

\* When WaitUntil has returned, the helper instance has been flushed of all it had.
THEOREM NothingIsStrandedCorrect == Spec => []NothingIsStranded
<1>1. HelperInv => NothingIsStranded
  BY DEF HelperInv, NothingBeforeTheLoop, NothingIsStranded
<1> QED
  BY <1>1, HelperInvCorrect, PTL

-----------------------------------------------------------------------------
(***************************************************************************)
(* The threads leave as they came, if all of them use fibers or none does. *)
(* Without that the flag m_convertedToFiberByThisWorkerInstance, which is  *)
(* never reset, may be another thread's.                                   *)
(***************************************************************************)

\* The program makes fibers of all of its threads that call WaitUntil, or of none.
UniformUse == FiberUsers \subseteq {{}, Threads}

Entered(e) == IF e \in ownFibers THEN OwnFiber(e) ELSE NoFiber

\* Outside the loop a thread is what it was; in it, it is a fiber of the call exactly if
\* the instance has converted it.
ConvertedOnlyIfNeeded ==
    /\ m_convertedToFiberByThisWorkerInstance => ownFibers = {}
    /\ \A e \in Threads :
          IF pc[e] \in Inside \cup {"Setup"}
          THEN /\ e \in ownFibers => threadFiber[e] = OwnFiber(e)
               /\ e \notin ownFibers => m_convertedToFiberByThisWorkerInstance
          ELSE threadFiber[e] = Entered(e)

\* If all threads are fibers, or none is, a thread that was converted needed it.
LEMMA ConvertedOnlyIfNeededInductive ==
    ASSUME UniformUse, HelperInv, ConvertedOnlyIfNeeded, [Next]_vars
    PROVE  ConvertedOnlyIfNeeded'
<1>1. ownFibers = {} \/ ownFibers = Threads
  BY DEF UniformUse, HelperInv, TypeOK
<1>2. ASSUME NEW e \in Threads, ConvertThreadToFiber(e) PROVE ConvertedOnlyIfNeeded'
  <2>1. OwnFiber(e) # NoFiber
    BY NoFiberAssumption, BoundsAssumption DEF OwnFiber, ThreadFibers
  <2>2. threadFiber[e] = Entered(e)
    BY <1>2 DEF ConvertThreadToFiber, ConvertedOnlyIfNeeded, Inside
  <2>3. /\ ownFibers' = ownFibers
        /\ \A o \in Threads \ {e} : pc'[o] = pc[o] /\ threadFiber'[o] = threadFiber[o]
        /\ pc'[e] = "Setup"
    BY <1>2 DEF ConvertThreadToFiber, GoTo, HelperInv, TypeOK
  <2>4. CASE threadFiber[e] = NoFiber
    <3>1. e \notin ownFibers /\ m_convertedToFiberByThisWorkerInstance'
      BY <1>2, <2>1, <2>2, <2>4 DEF ConvertThreadToFiber, Entered
    <3> QED
      BY <1>1, <2>3, <3>1 DEF ConvertedOnlyIfNeeded, Entered, OwnFiber
  <2>5. CASE threadFiber[e] # NoFiber
    <3>1. /\ e \in ownFibers /\ threadFiber[e] = OwnFiber(e)
          /\ UNCHANGED <<threadFiber, m_convertedToFiberByThisWorkerInstance>>
      BY <1>2, <2>2, <2>5 DEF ConvertThreadToFiber, Entered
    <3> QED
      BY <2>3, <3>1 DEF ConvertedOnlyIfNeeded, Entered, OwnFiber
  <2> QED
    BY <2>4, <2>5
<1>3. ASSUME NEW e \in Threads,
             \/ WaitUntil(e) \/ Refuse(e)
             \/ Setup(e) \/ ResumeFiber(e) \/ ExecuteSingleTask(e) \/ SubmitTask(e)
             \/ FinishTask(e) \/ SuspendTask(e) \/ FlushFibers(e) \/ FlushTasks(e)
      PROVE  ConvertedOnlyIfNeeded'
  <2>1. /\ UNCHANGED <<ownFibers, threadFiber, m_convertedToFiberByThisWorkerInstance>>
        /\ \A o \in Threads :
              pc'[o] \in Inside \cup {"Setup"} <=> pc[o] \in Inside \cup {"Setup"}
    BY <1>3
       DEF WaitUntil, Refuse, Setup, ResumeFiber, ExecuteSingleTask, SubmitTask, FinishTask, SuspendTask,
           FlushFibers, FlushTasks, GoTo, HelperInv, TypeOK, Inside, threadVars, convertVars
  <2> QED
    BY <2>1 DEF ConvertedOnlyIfNeeded, Entered, OwnFiber
<1>4. ASSUME NEW e \in Threads, ConvertToNormalThread(e) PROVE ConvertedOnlyIfNeeded'
  \* The flag tells whether e was converted, as what one thread is the others are.
  BY <1>1, <1>4
     DEF ConvertToNormalThread, GoTo, HelperInv, TypeOK, ConvertedOnlyIfNeeded, Entered,
         OwnFiber, Inside
<1>5. ASSUME StealTask \/ (\E f \in Fibers : FinishFlushedFiber(f)) \/ UNCHANGED vars
      PROVE  ConvertedOnlyIfNeeded'
  BY <1>5
     DEF StealTask, FinishFlushedFiber, vars, threadVars, convertVars, ConvertedOnlyIfNeeded,
         Entered, OwnFiber
<1> QED
  BY <1>2, <1>3, <1>4, <1>5 DEF Next, Thread

\* Whoever calls WaitUntil is afterwards what it was before (ConvertToNormalThread).
THEOREM LeavesAsEnteredCorrect == UniformUse => (Spec => []LeavesAsEntered)
<1> SUFFICES ASSUME UniformUse PROVE Spec => []LeavesAsEntered
  OBVIOUS
<1>1. Init => ConvertedOnlyIfNeeded
  BY DEF Init, ConvertedOnlyIfNeeded, Entered, OwnFiber, Inside
<1>2. HelperInv /\ ConvertedOnlyIfNeeded /\ [Next]_vars => ConvertedOnlyIfNeeded'
  BY ConvertedOnlyIfNeededInductive
<1>3. ConvertedOnlyIfNeeded => LeavesAsEntered
  BY DEF ConvertedOnlyIfNeeded, LeavesAsEntered, Entered, Inside
<1> QED
  BY <1>1, <1>2, <1>3, HelperInvCorrect, PTL DEF Spec
=============================================================================
