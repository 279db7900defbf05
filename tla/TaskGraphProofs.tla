--------------------------- MODULE TaskGraphProofs ---------------------------
(***************************************************************************)
(* Proofs about TaskGraph, for any pool of tasks, any number of fibers,    *)
(* clients and dependant slots.                                            *)
(***************************************************************************)
EXTENDS TaskGraph, FiniteSetTheorems, TLAPS

\* The variables stay in their types whatever order the clients submit tasks in and
\* whenever they release them.
LEMMA TypeInductive == TypeOK /\ [Next]_vars => TypeOK'
<1> SUFFICES ASSUME TypeOK, [Next]_vars PROVE TypeOK'
  OBVIOUS
<1> USE NoTaskAssumption, MaxDependantsAssumption
<1> USE DEF TypeOK, Slots, NoDependants, FiberStates, clientVars, fiberVars
<1>1. ASSUME NEW c \in Clients, NEW t \in Tasks, CreateNewTask(c, t) PROVE TypeOK'
  BY <1>1 DEF CreateNewTask
<1>2. ASSUME NEW c \in Clients, NEW t \in Tasks, NEW i \in Slots, NEW d \in Tasks,
             AddDependantTasks(c, t, i, d)
      PROVE  TypeOK'
  <2>1. dependants' \in [Tasks -> [Slots -> Tasks \cup {NoTask}]]
    BY <1>2 DEF AddDependantTasks
  <2>2. numberOfChildTasks' \in [Tasks -> Int]
    BY <1>2 DEF AddDependantTasks
  <2>3. waits' \in [Tasks -> SUBSET (Tasks \X Slots)]
    BY <1>2 DEF AddDependantTasks
  <2>4. QED
    BY <1>2, <2>1, <2>2, <2>3 DEF AddDependantTasks
<1>3. ASSUME NEW c \in Clients, NEW t \in Tasks, SetTaskFunction(c, t) PROVE TypeOK'
  BY <1>3 DEF SetTaskFunction
<1>4. ASSUME NEW c \in Clients, NEW t \in Tasks, SubmitTask(c, t) PROVE TypeOK'
  BY <1>4 DEF SubmitTask
<1>5. ASSUME NEW c \in Clients, DispatchTask(c) PROVE TypeOK'
  BY <1>5 DEF DispatchTask
<1>6. ASSUME NEW c \in Clients, NEW t \in Tasks, ReleaseTask(c, t) PROVE TypeOK'
  BY <1>6 DEF ReleaseTask, Clear
<1>7. ASSUME NEW f \in Fibers, NEW t \in Tasks, TakeTask(f, t) PROVE TypeOK'
  BY <1>7 DEF TakeTask
<1>8. ASSUME NEW f \in Fibers, RunTask(f) PROVE TypeOK'
  BY <1>8 DEF RunTask
<1>9. ASSUME NEW f \in Fibers, NEW success \in BOOLEAN, FinishTask(f, success)
      PROVE  TypeOK'
  BY <1>9 DEF FinishTask
<1>10. ASSUME NEW f \in Fibers, UpdateDependecies(f) PROVE TypeOK'
  <2> DEFINE p == fiberTask[f]
             i == slot[f]
             d == dependants[p][i]
  <2>1. p \in Tasks /\ i \in Slots /\ d \in Tasks \cup {NoTask}
    BY <1>10 DEF UpdateDependecies, BecomesReady
  <2>2. slot' \in [Fibers -> 0 .. MaxDependants]
    BY <1>10, <2>1 DEF UpdateDependecies, BecomesReady
  <2>3. CASE d = NoTask
    BY <1>10, <2>2, <2>3 DEF UpdateDependecies, BecomesReady
  <2>4. CASE d # NoTask
    <3>1. /\ numberOfChildTasks' = [numberOfChildTasks EXCEPT ![d] = @ - 1]
          /\ waits' = [waits EXCEPT ![d] = @ \ {<<p, i>>}]
          /\ readyArray' = [readyArray EXCEPT ![f][i] =
                                IF numberOfChildTasks[d] = 2 THEN d ELSE @]
          /\ UNCHANGED <<hasFunction, dependants, pending, executions, clientVars,
                         fiberState, fiberTask>>
      BY <1>10, <2>4 DEF UpdateDependecies, BecomesReady
    <3> HIDE DEF p, i, d
    <3>2. numberOfChildTasks' \in [Tasks -> Int]
      BY <3>1, <2>1, <2>4
    <3>3. waits' \in [Tasks -> SUBSET (Tasks \X Slots)]
      BY <3>1, <2>1, <2>4
    <3>4. readyArray' \in [Fibers -> [Slots -> Tasks \cup {NoTask}]]
      BY <3>1, <2>1
    <3>5. QED
      BY <2>2, <3>1, <3>2, <3>3, <3>4
  <2>5. QED
    BY <2>3, <2>4
<1>11. ASSUME NEW f \in Fibers, EndUpdate(f) PROVE TypeOK'
  BY <1>11 DEF EndUpdate
<1>12. ASSUME NEW f \in Fibers, AddReadyTask(f) PROVE TypeOK'
  <2> DEFINE d == readyArray[f][slot[f]]
  <2>1. slot[f] \in Slots /\ d \in Tasks \cup {NoTask}
    BY <1>12 DEF AddReadyTask
  <2>2. pending' \in [Tasks -> Nat]
    BY <1>12, <2>1 DEF AddReadyTask
  <2>3. readyArray' \in [Fibers -> [Slots -> Tasks \cup {NoTask}]]
    BY <1>12, <2>1 DEF AddReadyTask
  <2>4. slot' \in [Fibers -> 0 .. MaxDependants]
    BY <1>12, <2>1 DEF AddReadyTask
  <2>5. QED
    BY <1>12, <2>2, <2>3, <2>4 DEF AddReadyTask
<1>13. ASSUME NEW f \in Fibers, ClearFiber(f) PROVE TypeOK'
  BY <1>13 DEF ClearFiber
<1>14. CASE UNCHANGED vars
  BY <1>14 DEF vars
<1> HIDE DEF TypeOK, Slots, NoDependants, FiberStates, clientVars, fiberVars
<1>15. QED
  BY <1>1, <1>2, <1>3, <1>4, <1>5, <1>6, <1>7, <1>8, <1>9, <1>10, <1>11, <1>12, <1>13,
     <1>14 DEF Next, ClientStep, FiberStep

\* Type correctness of TaskGraph.
THEOREM TypeCorrect == Spec => []TypeOK
<1>1. Init => TypeOK
  BY NoTaskAssumption, MaxDependantsAssumption
     DEF Init, TypeOK, Slots, NoDependants, FiberStates
<1>2. QED
  BY <1>1, TypeInductive, PTL DEF Spec

-----------------------------------------------------------------------------
(***************************************************************************)
(* The inductive invariant, one lemma per action.                          *)
(***************************************************************************)

\* A task without the edges it waits for counts only itself.
LEMMA NoWaits ==
    ASSUME TypeOK, CountInv, NEW t \in Tasks, hasFunction[t], numberOfChildTasks[t] = 1
    PROVE  waits[t] = {}
<1>1. Cardinality(waits[t]) = 0
  <2>1. Cardinality(waits[t]) \in Nat
    BY FS_CardinalityType DEF CountInv
  <2>2. QED
    BY <2>1 DEF CountInv, IsFinished, OwnShare
<1>2. QED
  BY <1>1, FS_EmptySet DEF CountInv

\* Clients do not touch the fibers.
LEMMA FiberViewUnchanged ==
    ASSUME UNCHANGED fiberVars
    PROVE  \A p \in Tasks, i \in Slots : IsToNotify(p, i)' <=> IsToNotify(p, i)
BY DEF fiberVars, IsToNotify

\* A step that leaves the edges and what they are compared with alone.
LEMMA EdgesUnchanged ==
    ASSUME EdgeInv,
           UNCHANGED <<waits, dependants, submitted, hasFunction, numberOfChildTasks>>,
           \A p \in Tasks, i \in Slots : IsToNotify(p, i)' <=> IsToNotify(p, i)
    PROVE  EdgeInv'
<1> SUFFICES ASSUME NEW p \in Tasks, NEW d \in Tasks, NEW i \in Slots
             PROVE  EdgeOK(p, d, i)'
  BY DEF EdgeInv
<1>1. EdgeOK(p, d, i) /\ (IsToNotify(p, i)' <=> IsToNotify(p, i))
  BY DEF EdgeInv
<1>2. QED
  BY <1>1 DEF EdgeOK, IsFinished

\* A task fresh from the pool has no edge, no function and no execution, so IInv
\* holds of it as of a task under construction.
LEMMA CreateNewTaskStep ==
    ASSUME IInv, TypeOK', NEW c \in Clients, NEW t \in Tasks, CreateNewTask(c, t)
    PROVE  IInv'
<1> USE DEF IInv, CreateNewTask, Calls, InPool, clientVars, fiberVars
<1>1. LifeInv'
  BY NoClientAssumption DEF TypeOK, LifeInv
<1>2. CountInv'
  BY DEF TypeOK, LifeInv, CountInv, IsFinished, OwnShare
<1>3. EdgeInv'
  BY FiberViewUnchanged DEF EdgeInv, EdgeOK, IsFinished
<1>4. DispatchInv'
  BY DEF TypeOK, LifeInv, DispatchInv, IsDispatched
<1>5. FiberInv'
  BY DEF TypeOK, LifeInv, FiberInv, IsFinished
<1>6. QED
  BY <1>1, <1>2, <1>3, <1>4, <1>5

\* Setting the function raises the counter by the task's own share.
LEMMA SetTaskFunctionStep ==
    ASSUME IInv, TypeOK', NEW c \in Clients, NEW t \in Tasks, SetTaskFunction(c, t)
    PROVE  IInv'
<1> USE DEF IInv, SetTaskFunction, MayBuild, clientVars, fiberVars
<1>0. numberOfChildTasks[t] = Cardinality(waits[t]) /\ Cardinality(waits[t]) \in Nat
  BY FS_CardinalityType DEF TypeOK, CountInv, OwnShare
<1>1. LifeInv'
  BY NoClientAssumption DEF TypeOK, LifeInv, InPool
<1>2. CountInv'
  BY <1>0 DEF TypeOK, CountInv, IsFinished, OwnShare
<1>3. EdgeInv'
  <2>1. \A p \in Tasks : /\ hasFunction'[p] = (hasFunction[p] \/ p = t)
                         /\ p # t => IsFinished(p)' = IsFinished(p)
    BY DEF TypeOK, IsFinished
  <2>2. ~IsFinished(t)'
    BY <1>0 DEF TypeOK, IsFinished
  <2>3. SUFFICES ASSUME NEW p \in Tasks, NEW d \in Tasks, NEW i \in Slots
                 PROVE  EdgeOK(p, d, i)'
    BY DEF EdgeInv
  <2>4. IsToNotify(p, i)' <=> IsToNotify(p, i)
    BY FiberViewUnchanged
  <2>5. EdgeOK(p, d, i)
    BY DEF EdgeInv
  <2>6. waits' = waits /\ dependants' = dependants /\ submitted' = submitted
    OBVIOUS
  <2> HIDE DEF SetTaskFunction
  <2>7. CASE p = t
    BY <2>2, <2>4, <2>5, <2>6, <2>7 DEF EdgeOK, SetTaskFunction
  <2>8. CASE p # t
    BY <2>1, <2>4, <2>5, <2>6, <2>8 DEF EdgeOK
  <2>9. QED
    BY <2>7, <2>8
<1>4. DispatchInv'
  BY DEF TypeOK, DispatchInv, IsDispatched
<1>5. FiberInv'
  BY DEF TypeOK, FiberInv, IsFinished
<1>6. QED
  BY <1>1, <1>2, <1>3, <1>4, <1>5

\* A task that SubmitTask finds ready waits for nothing, so nobody else is about
\* to dispatch it.
LEMMA SubmitTaskStep ==
    ASSUME CarefulClient, IInv, TypeOK', NEW c \in Clients, NEW t \in Tasks,
           SubmitTask(c, t)
    PROVE  IInv'
<1> USE DEF IInv, SubmitTask, MayBuild, Calls, fiberVars
<1>0. ~IsDispatched(t) /\ owner[t] = c /\ ~InPool(t) /\ executions[t] = 0
  BY NoClientAssumption DEF DispatchInv, InPool, LifeInv
<1>1. LifeInv'
  BY DEF TypeOK, LifeInv, InPool
<1>2. CountInv'
  BY DEF CountInv, IsFinished, OwnShare
<1>3. EdgeInv'
  <2>1. \A p \in Tasks : submitted'[p] = (submitted[p] \/ p = t)
    BY DEF TypeOK
  <2>2. \A d \in Tasks, i \in Slots : dependants[t][i] = d => submitted[d]
    BY DEF MaySubmit, HasDependant, CarefulClient
  <2>3. SUFFICES ASSUME NEW p \in Tasks, NEW d \in Tasks, NEW i \in Slots
                 PROVE  EdgeOK(p, d, i)'
    BY DEF EdgeInv
  <2>4. IsToNotify(p, i)' <=> IsToNotify(p, i)
    BY FiberViewUnchanged
  <2>5. QED
    BY <2>1, <2>2, <2>4 DEF EdgeInv, EdgeOK, IsFinished
<1>4. DispatchInv'
  BY <1>0, NoTaskAssumption DEF TypeOK, DispatchInv, IsDispatched, IsReadyToBeExecuted
<1>5. FiberInv'
  BY DEF TypeOK, FiberInv, IsFinished
<1>6. QED
  BY <1>1, <1>2, <1>3, <1>4, <1>5

\* The dispatched task moves from the client to a pending queue.
LEMMA DispatchTaskStep ==
    ASSUME IInv, TypeOK', NEW c \in Clients, DispatchTask(c)
    PROVE  IInv'
<1> USE DEF IInv, DispatchTask, fiberVars
<1>0. dispatching[c] \in Tasks /\ IsDispatched(dispatching[c])
  BY DEF TypeOK, IsDispatched
<1>1. LifeInv'
  BY DEF LifeInv, InPool
<1>2. CountInv'
  BY DEF CountInv, IsFinished, OwnShare
<1>3. EdgeInv'
  BY FiberViewUnchanged DEF EdgeInv, EdgeOK, IsFinished
<1>4. DispatchInv'
  <2>1. \A t \in Tasks : IsDispatched(t)' => IsDispatched(t)
    <3> SUFFICES ASSUME NEW t \in Tasks, IsDispatched(t)', t # dispatching[c]
                 PROVE  IsDispatched(t)
      BY <1>0
    <3>1. pending'[t] = pending[t]
      BY <1>0 DEF TypeOK
    <3>2. \A b \in Clients : dispatching'[b] = t => dispatching[b] = t
      BY NoTaskAssumption DEF TypeOK
    <3>3. QED
      BY <3>1, <3>2 DEF IsDispatched
  <2>2. QED
    BY <1>0, <2>1 DEF TypeOK, DispatchInv
<1>5. FiberInv'
  BY <1>0, NoTaskAssumption DEF TypeOK, FiberInv, IsFinished
<1>6. QED
  BY <1>1, <1>2, <1>3, <1>4, <1>5

\* A new edge is counted once, in the dependant's counter.
LEMMA AddDependantTasksStep ==
    ASSUME IInv, TypeOK', NEW c \in Clients, NEW t \in Tasks, NEW s \in Slots,
           NEW e \in Tasks, AddDependantTasks(c, t, s, e)
    PROVE  IInv'
<1> USE DEF IInv
<1>1. /\ ~submitted[t] /\ ~submitted[e] /\ owner[t] = c /\ owner[e] = c
      /\ t # e /\ dependants[t][s] = NoTask
      /\ dependants' = [dependants EXCEPT ![t][s] = e]
      /\ numberOfChildTasks' = [numberOfChildTasks EXCEPT ![e] = @ + 1]
      /\ waits' = [waits EXCEPT ![e] = @ \cup {<<t, s>>}]
      /\ UNCHANGED <<hasFunction, pending, executions, clientVars, fiberVars>>
  BY DEF AddDependantTasks, MayBuild
<1>2. /\ executions[e] = 0 /\ ~InPool(e) /\ ~InPool(t)
      /\ ~(hasFunction[e] /\ IsFinished(e))
      /\ ~(hasFunction[t] /\ IsFinished(t))
      /\ ~IsDispatched(e)
  BY <1>1, NoClientAssumption DEF LifeInv, InPool, CountInv, DispatchInv
<1>3. <<t, s>> \notin waits[e]
  BY <1>1, NoTaskAssumption DEF EdgeInv, EdgeOK
<1>4. /\ numberOfChildTasks'[e] = numberOfChildTasks[e] + 1
      /\ waits'[e] = waits[e] \cup {<<t, s>>}
      /\ \A d \in Tasks : d # e => /\ numberOfChildTasks'[d] = numberOfChildTasks[d]
                                   /\ waits'[d] = waits[d]
  BY <1>1 DEF TypeOK
<1>5. /\ IsFiniteSet(waits'[e])
      /\ Cardinality(waits'[e]) = Cardinality(waits[e]) + 1
      /\ Cardinality(waits[e]) \in Nat
  <2>1. IsFiniteSet(waits[e])
    BY DEF CountInv
  <2>2. Cardinality(waits[e]) \in Nat
    BY <2>1, FS_CardinalityType
  <2> HIDE DEF IInv
  <2>3. /\ IsFiniteSet(waits[e] \cup {<<t, s>>})
        /\ Cardinality(waits[e] \cup {<<t, s>>}) = Cardinality(waits[e]) + 1
    BY <1>3, <2>1, FS_AddElement, Zenon
  <2>4. QED
    BY <1>4, <2>2, <2>3
<1>6. numberOfChildTasks[e] = Cardinality(waits[e]) + OwnShare(e)
  BY <1>2 DEF CountInv
<1>7. LifeInv'
  BY <1>1, <1>2, <1>4 DEF TypeOK, LifeInv, InPool, clientVars
<1>8. CountInv'
  <2> SUFFICES ASSUME NEW d \in Tasks
               PROVE  /\ IsFiniteSet(waits'[d])
                      /\ executions'[d] <= 1
                      /\ waits'[d] # {} => executions'[d] = 0
                      /\ IF hasFunction'[d] /\ IsFinished(d)'
                           THEN executions'[d] = 1 /\ waits'[d] = {}
                           ELSE numberOfChildTasks'[d] =
                                    Cardinality(waits'[d]) + OwnShare(d)'
    BY DEF CountInv
  <2>1. CASE d = e
    BY <1>1, <1>2, <1>4, <1>5, <1>6, <2>1 DEF IsFinished, OwnShare
  <2>2. CASE d # e
    BY <1>1, <1>4, <2>2 DEF CountInv, IsFinished, OwnShare
  <2>3. QED
    BY <2>1, <2>2
<1>9. EdgeInv'
  <2> SUFFICES ASSUME NEW p \in Tasks, NEW d \in Tasks, NEW i \in Slots
               PROVE  EdgeOK(p, d, i)'
    BY DEF EdgeInv
  <2>1. IsToNotify(p, i)' <=> IsToNotify(p, i)
    BY <1>1, FiberViewUnchanged
  <2>2. EdgeOK(p, d, i)
    BY DEF EdgeInv
  <2>3. CASE p = t /\ i = s
    <3>1. dependants'[p][i] = e
      BY <1>1, <2>3 DEF TypeOK
    <3>2. <<p, i>> \in waits'[d] <=> d = e
      BY <1>1, <1>4, <2>2, <2>3, NoTaskAssumption DEF EdgeOK
    <3>3. ~(hasFunction[p] /\ IsFinished(p)')
      BY <1>1, <1>2, <1>4, <2>3 DEF IsFinished
    <3>4. QED
      BY <1>1, <2>3, <3>1, <3>2, <3>3 DEF EdgeOK, clientVars
  <2>4. CASE ~(p = t /\ i = s)
    <3>1. dependants'[p][i] = dependants[p][i]
      BY <1>1, <2>4 DEF TypeOK
    <3>2. <<p, i>> \in waits'[d] <=> <<p, i>> \in waits[d]
      BY <1>4, <2>4
    <3>3. hasFunction[p] => (IsFinished(p)' <=> IsFinished(p))
      <4>1. hasFunction[e] => ~IsFinished(e)' /\ ~IsFinished(e)
        BY <1>2, <1>4, <1>5, <1>6 DEF IsFinished, OwnShare
      <4>2. QED
        BY <1>4, <4>1 DEF IsFinished
    <3>4. QED
      BY <1>1, <2>1, <2>2, <3>1, <3>2, <3>3 DEF EdgeOK, clientVars
  <2>5. QED
    BY <2>3, <2>4
<1>10. DispatchInv'
  BY <1>1, <1>2, <1>4 DEF DispatchInv, IsDispatched, clientVars, fiberVars
<1>11. FiberInv'
  <2>1. \A f \in Fibers : fiberState[f] # "Idle" => fiberTask[f] # e
    BY <1>1 DEF FiberInv
  <2>2. \A f \in Fibers : fiberState[f] # "Idle" => fiberTask[f] \in Tasks
    BY DEF TypeOK
  <2>3. QED
    BY <1>1, <1>4, <2>1, <2>2 DEF FiberInv, IsFinished, clientVars, fiberVars
<1>12. QED
  BY <1>7, <1>8, <1>9, <1>10, <1>11

\* A released task has notified all its dependants and is clear in the pool.
LEMMA ReleaseTaskStep ==
    ASSUME CarefulClient, IInv, TypeOK', NEW c \in Clients, NEW t \in Tasks,
           ReleaseTask(c, t)
    PROVE  IInv'
<1> USE DEF IInv
<1>1. /\ dispatching[c] = NoTask /\ owner[t] = c /\ submitted[t] /\ IsFinished(t)
      /\ hasFunction' = [hasFunction EXCEPT ![t] = FALSE]
      /\ dependants' = [dependants EXCEPT ![t] = NoDependants]
      /\ numberOfChildTasks' = [numberOfChildTasks EXCEPT ![t] = 0]
      /\ owner' = [owner EXCEPT ![t] = NoClient]
      /\ submitted' = [submitted EXCEPT ![t] = FALSE]
      /\ UNCHANGED <<dispatching, pending, waits, executions, fiberVars>>
  BY DEF ReleaseTask, Clear, Calls
<1>2. \A f \in Fibers : fiberTask[f] # t
  BY ReleaseTimeAssumption DEF ReleaseTask, Clear, MayRelease, CarefulClient
<1>3. hasFunction[t] /\ waits[t] = {} /\ ~IsDispatched(t)
  BY <1>1 DEF LifeInv, CountInv, DispatchInv, IsFinished
<1>4. \A d \in Tasks, i \in Slots : <<t, i>> \notin waits[d]
  BY <1>1, <1>2, <1>3 DEF EdgeInv, EdgeOK, IsToNotify
<1>5. /\ ~hasFunction'[t] /\ dependants'[t] = NoDependants /\ numberOfChildTasks'[t] = 0
      /\ owner'[t] = NoClient /\ ~submitted'[t]
      /\ \A d \in Tasks \ {t} :
            /\ hasFunction'[d] = hasFunction[d] /\ dependants'[d] = dependants[d]
            /\ numberOfChildTasks'[d] = numberOfChildTasks[d]
            /\ owner'[d] = owner[d] /\ submitted'[d] = submitted[d]
  BY <1>1 DEF TypeOK
<1>6. LifeInv'
  BY <1>1, <1>3, <1>5 DEF LifeInv, InPool
<1>7. CountInv'
  BY <1>1, <1>3, <1>5, FS_EmptySet DEF CountInv, IsFinished, OwnShare
<1>8. EdgeInv'
  <2> SUFFICES ASSUME NEW p \in Tasks, NEW d \in Tasks, NEW i \in Slots
               PROVE  EdgeOK(p, d, i)'
    BY DEF EdgeInv
  <2>1. IsToNotify(p, i)' <=> IsToNotify(p, i)
    BY <1>1, FiberViewUnchanged
  <2>2. EdgeOK(p, d, i)
    BY DEF EdgeInv
  <2>3. CASE p = t
    BY <1>1, <1>4, <1>5, <2>3, NoTaskAssumption DEF EdgeOK, NoDependants
  <2>4. CASE p # t
    BY <1>1, <1>3, <1>5, <2>1, <2>2, <2>4 DEF EdgeOK, IsFinished
  <2>5. QED
    BY <2>3, <2>4
<1>9. DispatchInv'
  <2>1. \A d \in Tasks : IsDispatched(d)' <=> IsDispatched(d)
    BY <1>1 DEF IsDispatched, fiberVars
  <2>2. \A b \in Clients : dispatching[b] # t
    BY <1>3 DEF IsDispatched
  <2>3. QED
    BY <1>1, <1>3, <1>5, <2>1, <2>2 DEF TypeOK, DispatchInv, fiberVars
<1>10. FiberInv'
  BY <1>1, <1>2, <1>5 DEF TypeOK, FiberInv, IsFinished, fiberVars
<1>11. QED
  BY <1>6, <1>7, <1>8, <1>9, <1>10

\* A pending task moves to a fiber, which then has it for itself.
LEMMA TakeTaskStep ==
    ASSUME IInv, TypeOK', NEW f \in Fibers, NEW t \in Tasks, TakeTask(f, t)
    PROVE  IInv'
<1> USE DEF IInv
<1>1. /\ fiberState[f] = "Idle" /\ pending[t] = 1 /\ IsDispatched(t)
      /\ pending' = [pending EXCEPT ![t] = @ - 1]
      /\ fiberState' = [fiberState EXCEPT ![f] = "Starting"]
      /\ fiberTask' = [fiberTask EXCEPT ![f] = t]
      /\ UNCHANGED <<numberOfChildTasks, hasFunction, dependants, waits, executions,
                     clientVars, slot, readyArray>>
  BY DEF TakeTask, TypeOK, DispatchInv, IsDispatched
<1>2. /\ submitted[t] /\ executions[t] = 0 /\ numberOfChildTasks[t] = 1
      /\ \A b \in Clients : dispatching[b] # t
      /\ \A g \in Fibers, j \in Slots : readyArray[g][j] # t
  BY <1>1, NoTaskAssumption DEF DispatchInv
<1>3. \A g \in Fibers : fiberTask[g] # t
  BY <1>1, <1>2, NoTaskAssumption DEF TypeOK, FiberInv
<1>4. /\ pending'[t] = 0 /\ fiberState'[f] = "Starting" /\ fiberTask'[f] = t
      /\ \A d \in Tasks \ {t} : pending'[d] = pending[d]
      /\ \A g \in Fibers \ {f} : /\ fiberState'[g] = fiberState[g]
                                 /\ fiberTask'[g] = fiberTask[g]
  BY <1>1 DEF TypeOK
<1>5. LifeInv'
  BY <1>1 DEF LifeInv, InPool, clientVars
<1>6. CountInv'
  BY <1>1 DEF CountInv, IsFinished, OwnShare
<1>7. EdgeInv'
  <2>1. \A p \in Tasks, i \in Slots : IsToNotify(p, i)' <=> IsToNotify(p, i)
    BY <1>1, <1>4 DEF IsToNotify
  <2>2. QED
    BY <1>1, <2>1, EdgesUnchanged DEF clientVars
<1>8. DispatchInv'
  <2>1. \A d \in Tasks : IsDispatched(d)' => IsDispatched(d)
    BY <1>1, <1>4 DEF IsDispatched, clientVars
  <2>2. \A d \in Tasks : pending'[d] <= pending[d]
    BY <1>1, <1>4 DEF TypeOK
  <2>3. \A d \in Tasks : pending[d] = 0 => pending'[d] = 0
    BY <1>1, <1>4 DEF TypeOK
  <2>4. QED
    BY <1>1, <2>1, <2>2, <2>3 DEF TypeOK, DispatchInv, clientVars
<1>9. FiberInv'
  BY <1>1, <1>2, <1>3, <1>4 DEF TypeOK, FiberInv, IsFinished, clientVars
<1>10. QED
  BY <1>5, <1>6, <1>7, <1>8, <1>9

\* A task on a starting fiber has not been executed before.
LEMMA RunTaskStep ==
    ASSUME IInv, TypeOK', NEW f \in Fibers, RunTask(f)
    PROVE  IInv'
<1> USE DEF IInv
<1>1. PICK t \in Tasks :
      /\ fiberTask[f] = t /\ fiberState[f] = "Starting" /\ hasFunction[t] /\ IsDispatched(t)
      /\ executions' = [executions EXCEPT ![t] = @ + 1]
      /\ fiberState' = [fiberState EXCEPT ![f] = "Running"]
      /\ UNCHANGED <<numberOfChildTasks, hasFunction, dependants, pending, waits, clientVars,
                     fiberTask, slot, readyArray>>
  BY DEF RunTask, TypeOK, IsDispatched
<1>2. numberOfChildTasks[t] = 1 /\ executions[t] = 0 /\ submitted[t] /\ waits[t] = {}
  BY <1>1, NoWaits DEF DispatchInv
<1>3. /\ executions'[t] = 1 /\ fiberState'[f] = "Running"
      /\ \A d \in Tasks \ {t} : executions'[d] = executions[d]
      /\ \A g \in Fibers \ {f} : fiberState'[g] = fiberState[g]
  BY <1>1, <1>2 DEF TypeOK
<1>4. LifeInv'
  BY <1>1, <1>2, <1>3 DEF LifeInv, InPool, clientVars
<1>5. CountInv'
  BY <1>1, <1>2, <1>3 DEF CountInv, IsFinished, OwnShare
<1>6. EdgeInv'
  <2>1. \A p \in Tasks, i \in Slots : IsToNotify(p, i)' <=> IsToNotify(p, i)
    BY <1>1, <1>3 DEF IsToNotify
  <2>2. QED
    BY <1>1, <2>1, EdgesUnchanged DEF clientVars
<1>7. DispatchInv'
  <2>1. \A d \in Tasks : IsDispatched(d)' => IsDispatched(d) /\ d # t
    <3>1. ~IsDispatched(t)'
      <4>1. /\ pending[t] = 0
            /\ \A b \in Clients : dispatching[b] # t
            /\ \A g \in Fibers, j \in Slots : readyArray[g][j] # t
            /\ \A g \in Fibers : fiberTask[g] = t => g = f
        BY <1>1 DEF FiberInv
      <4>2. QED
        BY <1>1, <1>3, <4>1 DEF IsDispatched, clientVars
    <3>2. QED
      BY <1>1, <1>3, <3>1 DEF IsDispatched, clientVars
  <2>2. QED
    BY <1>1, <1>3, <2>1 DEF DispatchInv, clientVars
<1>8. FiberInv'
  <2>1. \A g \in Fibers : g # f /\ fiberState[g] # "Idle" => fiberTask[g] \in Tasks \ {t}
    BY <1>1 DEF TypeOK, FiberInv
  <2>2. QED
    BY <1>1, <1>2, <1>3, <2>1 DEF FiberInv, IsFinished, clientVars
<1>9. QED
  BY <1>4, <1>5, <1>6, <1>7, <1>8

\* The finished task waits for nothing, and all its slots are still to be read.
LEMMA FinishTaskStep ==
    ASSUME IInv, TypeOK', NEW f \in Fibers, NEW success \in BOOLEAN, FinishTask(f, success)
    PROVE  IInv'
<1> USE DEF IInv
<1>1. PICK t \in Tasks :
      /\ fiberTask[f] = t /\ fiberState[f] = "Running"
      /\ numberOfChildTasks' = [numberOfChildTasks EXCEPT ![t] = IF success THEN 0 ELSE -1]
      /\ fiberState' = [fiberState EXCEPT ![f] = "Updating"]
      /\ slot' = [slot EXCEPT ![f] = 0]
      /\ UNCHANGED <<hasFunction, dependants, pending, waits, executions, clientVars,
                     fiberTask, readyArray>>
  BY DEF FinishTask, TypeOK
<1>2. /\ numberOfChildTasks[t] = 1 /\ executions[t] = 1 /\ submitted[t] /\ hasFunction[t]
      /\ ~IsDispatched(t)
      /\ \A g \in Fibers : fiberTask[g] = t => g = f
  BY <1>1 DEF FiberInv, LifeInv, DispatchInv
<1>4. waits[t] = {}
  BY <1>1, <1>2, NoWaits
<1>5. /\ numberOfChildTasks'[t] <= 0 /\ fiberState'[f] = "Updating" /\ slot'[f] = 0
      /\ \A d \in Tasks \ {t} : numberOfChildTasks'[d] = numberOfChildTasks[d]
      /\ \A g \in Fibers \ {f} : fiberState'[g] = fiberState[g] /\ slot'[g] = slot[g]
  BY <1>1 DEF TypeOK
<1>6. LifeInv'
  BY <1>1 DEF LifeInv, InPool, clientVars
<1>7. CountInv'
  BY <1>1, <1>2, <1>4, <1>5 DEF CountInv, IsFinished, OwnShare
<1>8. EdgeInv'
  <2> SUFFICES ASSUME NEW p \in Tasks, NEW d \in Tasks, NEW i \in Slots
               PROVE  EdgeOK(p, d, i)'
    BY DEF EdgeInv
  <2>1. EdgeOK(p, d, i)
    BY DEF EdgeInv
  <2>2. CASE p = t
    <3>1. IsToNotify(t, i)'
      BY <1>1, <1>5, MaxDependantsAssumption DEF IsToNotify, Slots
    <3>2. dependants[t][i] = d => <<t, i>> \in waits[d]
      BY <1>2, <2>1, <2>2 DEF EdgeOK, IsFinished
    <3>3. QED
      BY <1>1, <2>1, <2>2, <3>1, <3>2 DEF EdgeOK, clientVars
  <2>3. CASE p # t
    <3>1. IsToNotify(p, i)' <=> IsToNotify(p, i)
      BY <1>1, <1>5, <2>3 DEF IsToNotify
    <3>2. QED
      BY <1>1, <1>5, <2>1, <2>3, <3>1 DEF EdgeOK, IsFinished, clientVars
  <2>4. QED
    BY <2>2, <2>3
<1>9. DispatchInv'
  <2>1. \A d \in Tasks : IsDispatched(d)' => IsDispatched(d) /\ d # t
    BY <1>1, <1>2, <1>5 DEF IsDispatched, clientVars
  <2>2. QED
    BY <1>1, <1>5, <2>1 DEF DispatchInv, clientVars
<1>10. FiberInv'
  <2>1. \A g \in Fibers : g # f /\ fiberState[g] # "Idle" => fiberTask[g] \in Tasks \ {t}
    BY <1>2 DEF TypeOK
  <2>2. QED
    BY <1>1, <1>2, <1>5, <2>1 DEF FiberInv, IsFinished, clientVars
<1>11. QED
  BY <1>6, <1>7, <1>8, <1>9, <1>10

\* One notification removes one edge and one count; the fiber that takes the last
\* one is the only one to find the dependant ready.
LEMMA UpdateDependeciesStep ==
    ASSUME IInv, TypeOK', NEW f \in Fibers, UpdateDependecies(f)
    PROVE  IInv'
<1> USE DEF IInv
<1>1. PICK p \in Tasks, s \in Slots :
      /\ fiberTask[f] = p /\ slot[f] = s /\ fiberState[f] = "Updating"
      /\ slot' = [slot EXCEPT ![f] = @ + 1]
      /\ UNCHANGED <<hasFunction, dependants, pending, executions, clientVars,
                     fiberState, fiberTask>>
  BY MaxDependantsAssumption DEF UpdateDependecies, BecomesReady, TypeOK, Slots
<1>2. /\ submitted[p] /\ hasFunction[p] /\ IsFinished(p) /\ executions[p] = 1
      /\ \A g \in Fibers : fiberTask[g] = p => g = f
  BY <1>1 DEF FiberInv, LifeInv
<1>3. /\ slot'[f] = s + 1
      /\ \A g \in Fibers \ {f} : slot'[g] = slot[g]
  BY <1>1 DEF TypeOK
<1>4. LifeInv' <=> \A d \in Tasks : InPool(d) => waits'[d] = {}
  BY <1>1 DEF LifeInv, InPool, clientVars
<1>5. /\ IsToNotify(p, s)
      /\ \A i \in Slots : IsToNotify(p, i)' <=> IsToNotify(p, i) /\ i # s
      /\ \A q \in Tasks \ {p}, i \in Slots : IsToNotify(q, i)' <=> IsToNotify(q, i)
  <2>1. IsToNotify(p, s)
    BY <1>1 DEF IsToNotify, Slots
  <2>2. ASSUME NEW i \in Slots PROVE IsToNotify(p, i)' <=> IsToNotify(p, i) /\ i # s
    <3>1. IsToNotify(p, i) <=> s <= i
      BY <1>1, <1>2 DEF IsToNotify
    <3>2. IsToNotify(p, i)' <=> s + 1 <= i
      BY <1>1, <1>2, <1>3 DEF IsToNotify
    <3>3. QED
      BY <3>1, <3>2 DEF Slots
  <2>3. ASSUME NEW q \in Tasks \ {p}, NEW i \in Slots
        PROVE  IsToNotify(q, i)' <=> IsToNotify(q, i)
    BY <1>1, <1>3 DEF IsToNotify
  <2>4. QED
    BY <2>1, <2>2, <2>3
<1>6. CASE dependants[p][s] = NoTask
  <2>1. UNCHANGED <<numberOfChildTasks, waits, readyArray>>
    BY <1>1, <1>6 DEF UpdateDependecies, BecomesReady
  <2>2. LifeInv'
    BY <1>4, <2>1 DEF LifeInv
  <2>3. CountInv'
    BY <1>1, <2>1 DEF CountInv, IsFinished, OwnShare
  <2>4. EdgeInv'
    <3> SUFFICES ASSUME NEW q \in Tasks, NEW d \in Tasks, NEW i \in Slots
                 PROVE  EdgeOK(q, d, i)'
      BY DEF EdgeInv
    <3>1. EdgeOK(q, d, i)
      BY DEF EdgeInv
    <3>2. CASE q = p /\ i = s
      BY <1>1, <1>6, <2>1, <3>1, <3>2, NoTaskAssumption DEF EdgeOK
    <3>3. CASE ~(q = p /\ i = s)
      BY <1>1, <1>5, <2>1, <3>1, <3>3 DEF EdgeOK, IsFinished, clientVars
    <3>4. QED
      BY <3>2, <3>3
  <2>5. DispatchInv'
    BY <1>1, <2>1 DEF DispatchInv, IsDispatched, clientVars
  <2>6. FiberInv'
    BY <1>1, <2>1 DEF FiberInv, IsFinished, clientVars
  <2>7. QED
    BY <2>2, <2>3, <2>4, <2>5, <2>6
<1>7. CASE dependants[p][s] # NoTask
  <2>1. PICK e \in Tasks :
        /\ dependants[p][s] = e
        /\ numberOfChildTasks' = [numberOfChildTasks EXCEPT ![e] = @ - 1]
        /\ waits' = [waits EXCEPT ![e] = @ \ {<<p, s>>}]
        /\ readyArray' = [readyArray EXCEPT ![f][s] =
                              IF numberOfChildTasks[e] = 2 THEN e ELSE @]
    BY <1>1, <1>7 DEF UpdateDependecies, BecomesReady, TypeOK
  <2>2. /\ numberOfChildTasks'[e] = numberOfChildTasks[e] - 1
        /\ waits'[e] = waits[e] \ {<<p, s>>}
        /\ \A d \in Tasks \ {e} : /\ numberOfChildTasks'[d] = numberOfChildTasks[d]
                                  /\ waits'[d] = waits[d]
    BY <2>1 DEF TypeOK
  <2>3. <<p, s>> \in waits[e]
    BY <1>5, <2>1 DEF EdgeInv, EdgeOK
  <2>4. /\ submitted[e] /\ hasFunction[e] /\ ~IsFinished(e) /\ executions[e] = 0
        /\ numberOfChildTasks[e] = Cardinality(waits[e]) + 1
    <3>1. submitted[e]
      BY <1>2, <2>3 DEF EdgeInv, EdgeOK
    <3>2. hasFunction[e] /\ executions[e] = 0
      BY <2>3, <3>1 DEF LifeInv, CountInv
    <3>3. ~IsFinished(e)
      BY <2>3, <3>2 DEF CountInv
    <3>4. QED
      BY <3>1, <3>2, <3>3 DEF CountInv, OwnShare
  <2>5. /\ IsFiniteSet(waits'[e])
        /\ Cardinality(waits'[e]) = Cardinality(waits[e]) - 1
        /\ Cardinality(waits'[e]) \in Nat /\ Cardinality(waits[e]) \in Nat
    <3>1. IsFiniteSet(waits[e])
      BY DEF CountInv
    <3> HIDE DEF IInv
    <3>2. /\ IsFiniteSet(waits[e] \ {<<p, s>>})
          /\ Cardinality(waits[e] \ {<<p, s>>}) = Cardinality(waits[e]) - 1
      BY <2>3, <3>1, FS_RemoveElement, Zenon
    <3>3. QED
      BY <2>2, <3>1, <3>2, FS_CardinalityType
  <2>6. numberOfChildTasks'[e] = Cardinality(waits'[e]) + 1 /\ ~IsFinished(e)'
    BY <2>2, <2>4, <2>5 DEF IsFinished, TypeOK
  <2>7. ~IsDispatched(e)
    <3>1. numberOfChildTasks[e] # 1
      BY <2>2, <2>6, <2>5 DEF TypeOK
    <3>2. QED
      BY <3>1 DEF DispatchInv
  <2>8. LifeInv'
    BY <1>4, <2>2 DEF LifeInv
  <2>9. CountInv'
    <3> SUFFICES ASSUME NEW d \in Tasks
                 PROVE  /\ IsFiniteSet(waits'[d])
                        /\ executions'[d] <= 1
                        /\ waits'[d] # {} => executions'[d] = 0
                        /\ IF hasFunction'[d] /\ IsFinished(d)'
                             THEN executions'[d] = 1 /\ waits'[d] = {}
                             ELSE numberOfChildTasks'[d] =
                                      Cardinality(waits'[d]) + OwnShare(d)'
      BY DEF CountInv
    <3>1. CASE d = e
      BY <1>1, <2>4, <2>5, <2>6, <3>1 DEF OwnShare
    <3>2. CASE d # e
      BY <1>1, <2>2, <3>2 DEF CountInv, IsFinished, OwnShare
    <3>3. QED
      BY <3>1, <3>2
  <2>10. EdgeInv'
    <3> SUFFICES ASSUME NEW q \in Tasks, NEW d \in Tasks, NEW i \in Slots
                 PROVE  EdgeOK(q, d, i)'
      BY DEF EdgeInv
    <3>1. EdgeOK(q, d, i)
      BY DEF EdgeInv
    <3>2. hasFunction[q] /\ IsFinished(q)' <=> hasFunction[q] /\ IsFinished(q)
      BY <2>2, <2>4, <2>6 DEF IsFinished
    <3>3. CASE q = p /\ i = s
      <4>1. <<q, i>> \notin waits'[d]
        BY <2>1, <2>2, <3>1, <3>3 DEF EdgeOK
      <4>2. QED
        BY <1>1, <1>2, <1>5, <3>2, <3>3, <4>1 DEF EdgeOK
    <3>4. CASE ~(q = p /\ i = s)
      <4>1. <<q, i>> \in waits'[d] <=> <<q, i>> \in waits[d]
        BY <2>2, <3>4
      <4>2. QED
        BY <1>1, <1>5, <3>1, <3>2, <3>4, <4>1 DEF EdgeOK, clientVars
    <3>5. QED
      BY <3>3, <3>4
  <2>11. DispatchInv'
    <3>1. ASSUME NEW g \in Fibers, NEW j \in Slots
          PROVE  \/ readyArray'[g][j] = readyArray[g][j]
                 \/ g = f /\ j = s /\ readyArray'[g][j] = e /\ numberOfChildTasks[e] = 2
      BY <2>1 DEF TypeOK
    <3>2. \A d \in Tasks \ {e} : IsDispatched(d)' => IsDispatched(d)
      BY <1>1, <3>1 DEF IsDispatched, clientVars
    <3>3. IsDispatched(e)' => numberOfChildTasks'[e] = 1
      BY <1>1, <2>2, <2>7, <3>1 DEF IsDispatched, clientVars
    <3>4. /\ pending[e] = 0
          /\ \A c \in Clients : dispatching[c] # e
          /\ \A g \in Fibers, j \in Slots : readyArray[g][j] # e
      BY <2>7 DEF IsDispatched, TypeOK
    <3>5. \A d \in Tasks : IsDispatched(d)' =>
             numberOfChildTasks'[d] = 1 /\ executions[d] = 0 /\ submitted[d]
      BY <2>2, <2>4, <3>2, <3>3 DEF DispatchInv
    <3>6. \A g \in Fibers, j \in Slots : readyArray'[g][j] # NoTask =>
             /\ pending[readyArray'[g][j]] = 0
             /\ \A c \in Clients : dispatching[c] # readyArray'[g][j]
             /\ \A h \in Fibers, k \in Slots :
                   readyArray'[h][k] = readyArray'[g][j] => h = g /\ k = j
      BY <3>1, <3>4 DEF DispatchInv
    <3>7. QED
      BY <1>1, <3>5, <3>6 DEF DispatchInv, clientVars
  <2>12. FiberInv'
    <3>1. \A g \in Fibers : fiberState[g] # "Idle" => fiberTask[g] \in Tasks \ {e}
      <4> SUFFICES ASSUME NEW g \in Fibers, fiberState[g] # "Idle", fiberTask[g] = e
                   PROVE  FALSE
        BY DEF TypeOK
      <4>1. CASE fiberState[g] = "Starting"
        BY <2>7, <4>1 DEF IsDispatched
      <4>2. CASE fiberState[g] # "Starting"
        BY <2>4, <4>2 DEF FiberInv
      <4>3. QED
        BY <4>1, <4>2
    <3>2. \A g \in Fibers, j \in Slots :
             readyArray'[g][j] = readyArray[g][j] \/ readyArray'[g][j] = e
      BY <2>1 DEF TypeOK
    <3>3. QED
      BY <1>1, <2>2, <3>1, <3>2 DEF FiberInv, IsFinished, clientVars
  <2>13. QED
    BY <2>8, <2>9, <2>10, <2>11, <2>12
<1>8. QED
  BY <1>6, <1>7

\* When all slots are read no edge of the finished task is left.
LEMMA EndUpdateStep ==
    ASSUME IInv, TypeOK', NEW f \in Fibers, EndUpdate(f)
    PROVE  IInv'
<1> USE DEF IInv
<1>1. /\ fiberState[f] = "Updating" /\ slot[f] = MaxDependants
      /\ fiberState' = [fiberState EXCEPT ![f] = "Adding"]
      /\ slot' = [slot EXCEPT ![f] = 0]
      /\ UNCHANGED <<numberOfChildTasks, hasFunction, dependants, pending, waits, executions,
                     clientVars, fiberTask, readyArray>>
  BY DEF EndUpdate
<1>2. /\ fiberState'[f] = "Adding"
      /\ \A g \in Fibers \ {f} : fiberState'[g] = fiberState[g] /\ slot'[g] = slot[g]
  BY <1>1 DEF TypeOK
<1>3. LifeInv'
  BY <1>1 DEF LifeInv, InPool, clientVars
<1>4. CountInv'
  BY <1>1 DEF CountInv, IsFinished, OwnShare
<1>5. EdgeInv'
  <2>1. ASSUME NEW p \in Tasks, NEW i \in Slots
        PROVE  IsToNotify(p, i)' <=> IsToNotify(p, i)
    <3>1. ~(slot[f] <= i)
      BY <1>1, MaxDependantsAssumption DEF Slots
    <3>2. QED
      BY <1>1, <1>2, <3>1 DEF IsToNotify
  <2>2. QED
    BY <1>1, <2>1, EdgesUnchanged DEF clientVars
<1>6. DispatchInv'
  <2>1. \A d \in Tasks : IsDispatched(d)' <=> IsDispatched(d)
    BY <1>1, <1>2 DEF IsDispatched, clientVars
  <2>2. QED
    BY <1>1, <2>1 DEF DispatchInv, clientVars
<1>7. FiberInv'
  BY <1>1, <1>2 DEF FiberInv, IsFinished, clientVars
<1>8. QED
  BY <1>3, <1>4, <1>5, <1>6, <1>7

\* A ready dependant moves from the fiber's array to a pending queue.
LEMMA AddReadyTaskStep ==
    ASSUME IInv, TypeOK', NEW f \in Fibers, AddReadyTask(f)
    PROVE  IInv'
<1> USE DEF IInv
<1>1. PICK s \in Slots, d \in Tasks \cup {NoTask} :
      /\ slot[f] = s /\ readyArray[f][s] = d /\ fiberState[f] = "Adding"
      /\ slot' = [slot EXCEPT ![f] = @ + 1]
      /\ readyArray' = [readyArray EXCEPT ![f][s] = NoTask]
      /\ pending' = IF d = NoTask THEN pending ELSE [pending EXCEPT ![d] = @ + 1]
      /\ UNCHANGED <<numberOfChildTasks, hasFunction, dependants, waits, executions,
                     clientVars, fiberState, fiberTask>>
  <2>1. slot[f] \in Slots /\ readyArray[f][slot[f]] \in Tasks \cup {NoTask}
    BY MaxDependantsAssumption DEF AddReadyTask, TypeOK, Slots
  <2>2. QED
    BY <2>1 DEF AddReadyTask
<1>2. /\ readyArray'[f][s] = NoTask
      /\ \A g \in Fibers, j \in Slots :
            ~(g = f /\ j = s) => readyArray'[g][j] = readyArray[g][j]
      /\ \A e \in Tasks \ {d} : pending'[e] = pending[e]
      /\ d # NoTask => /\ pending'[d] = 1 /\ pending[d] = 0
                       /\ IsDispatched(d)
                       /\ \A b \in Clients : dispatching[b] # d
                       /\ \A g \in Fibers, j \in Slots : readyArray'[g][j] # d
  <2>1. /\ readyArray'[f][s] = NoTask
        /\ \A g \in Fibers, j \in Slots :
              ~(g = f /\ j = s) => readyArray'[g][j] = readyArray[g][j]
        /\ \A e \in Tasks \ {d} : pending'[e] = pending[e]
    BY <1>1 DEF TypeOK
  <2>2. ASSUME d # NoTask
        PROVE  /\ pending[d] = 0
               /\ IsDispatched(d)
               /\ \A b \in Clients : dispatching[b] # d
               /\ \A g \in Fibers, j \in Slots : readyArray'[g][j] # d
    BY <1>1, <2>1, <2>2 DEF DispatchInv, IsDispatched
  <2>3. d # NoTask => pending'[d] = 1
    BY <1>1, <2>2 DEF TypeOK
  <2>4. QED
    BY <2>1, <2>2, <2>3
<1>3. LifeInv'
  BY <1>1 DEF LifeInv, InPool, clientVars
<1>4. CountInv'
  BY <1>1 DEF CountInv, IsFinished, OwnShare
<1>5. EdgeInv'
  <2>1. \A p \in Tasks, i \in Slots : IsToNotify(p, i)' <=> IsToNotify(p, i)
    <3>1. \A g \in Fibers : fiberState[g] = "Updating" => slot'[g] = slot[g]
      BY <1>1 DEF TypeOK
    <3>2. QED
      BY <1>1, <3>1 DEF IsToNotify
  <2>2. QED
    BY <1>1, <2>1, EdgesUnchanged DEF clientVars
<1>6. DispatchInv'
  <2>1. \A e \in Tasks : IsDispatched(e)' => IsDispatched(e)
    <3>1. \A e \in Tasks \ {d} : IsDispatched(e)' => IsDispatched(e)
      BY <1>1, <1>2, NoTaskAssumption DEF IsDispatched, clientVars
    <3>2. QED
      BY <1>2, <3>1, NoTaskAssumption
  <2>2. \A e \in Tasks : pending'[e] <= 1
    BY <1>2, NoTaskAssumption DEF DispatchInv
  <2>3. \A b \in Clients : dispatching[b] # NoTask =>
           owner[dispatching[b]] = b /\ pending'[dispatching[b]] = 0
    BY <1>2 DEF DispatchInv, TypeOK
  <2>4. \A g \in Fibers, i \in Slots : readyArray'[g][i] # NoTask =>
           /\ pending'[readyArray'[g][i]] = 0
           /\ \A b \in Clients : dispatching[b] # readyArray'[g][i]
           /\ \A h \in Fibers, j \in Slots :
                 readyArray'[h][j] = readyArray'[g][i] => h = g /\ j = i
    <3> SUFFICES ASSUME NEW g \in Fibers, NEW i \in Slots, readyArray'[g][i] # NoTask
                 PROVE  /\ pending'[readyArray'[g][i]] = 0
                        /\ \A b \in Clients : dispatching[b] # readyArray'[g][i]
                        /\ \A h \in Fibers, j \in Slots :
                              readyArray'[h][j] = readyArray'[g][i] => h = g /\ j = i
      OBVIOUS
    <3>1. readyArray'[g][i] = readyArray[g][i]
      BY <1>2
    <3>2. readyArray[g][i] \in Tasks \ {d}
      BY <1>2, <3>1, NoTaskAssumption DEF TypeOK
    <3>3. pending'[readyArray[g][i]] = 0
      BY <1>2, <3>1, <3>2 DEF DispatchInv
    <3>4. \A h \in Fibers, j \in Slots :
             readyArray'[h][j] = readyArray[g][i] => readyArray[h][j] = readyArray[g][i]
      BY <1>2, <3>1
    <3>5. QED
      BY <3>1, <3>3, <3>4 DEF DispatchInv
  <2>5. QED
    BY <1>1, <2>1, <2>2, <2>3, <2>4 DEF DispatchInv, clientVars
<1>7. FiberInv'
  <2>1. ASSUME NEW g \in Fibers, fiberState[g] = "Starting"
        PROVE  /\ pending'[fiberTask[g]] = 0
               /\ \A h \in Fibers, j \in Slots : readyArray'[h][j] # fiberTask[g]
    <3>1. /\ fiberTask[g] \in Tasks
          /\ \A h \in Fibers, j \in Slots : readyArray[h][j] # fiberTask[g]
          /\ pending[fiberTask[g]] = 0
      BY <2>1 DEF FiberInv, TypeOK
    <3>2. QED
      BY <1>1, <1>2, <3>1, NoTaskAssumption
  <2>2. QED
    BY <1>1, <2>1 DEF FiberInv, IsFinished, clientVars
<1>8. QED
  BY <1>3, <1>4, <1>5, <1>6, <1>7

\* A fiber that lets go of its task has nothing left to notify or to queue.
LEMMA ClearFiberStep ==
    ASSUME IInv, TypeOK', NEW f \in Fibers, ClearFiber(f)
    PROVE  IInv'
<1> USE DEF IInv
<1>1. /\ fiberState[f] = "Adding"
      /\ fiberState' = [fiberState EXCEPT ![f] = "Idle"]
      /\ fiberTask' = [fiberTask EXCEPT ![f] = NoTask]
      /\ slot' = [slot EXCEPT ![f] = 0]
      /\ UNCHANGED <<numberOfChildTasks, hasFunction, dependants, pending, waits, executions,
                     clientVars, readyArray>>
  BY DEF ClearFiber
<1>2. /\ fiberState'[f] = "Idle" /\ fiberTask'[f] = NoTask
      /\ \A g \in Fibers \ {f} : /\ fiberState'[g] = fiberState[g]
                                 /\ fiberTask'[g] = fiberTask[g]
                                 /\ slot'[g] = slot[g]
  BY <1>1 DEF TypeOK
<1>3. LifeInv'
  BY <1>1 DEF LifeInv, InPool, clientVars
<1>4. CountInv'
  BY <1>1 DEF CountInv, IsFinished, OwnShare
<1>5. EdgeInv'
  <2>1. \A p \in Tasks, i \in Slots : IsToNotify(p, i)' <=> IsToNotify(p, i)
    BY <1>1, <1>2 DEF IsToNotify
  <2>2. QED
    BY <1>1, <2>1, EdgesUnchanged DEF clientVars
<1>6. DispatchInv'
  <2>1. \A d \in Tasks : IsDispatched(d)' => IsDispatched(d)
    BY <1>1, <1>2 DEF IsDispatched, clientVars
  <2>2. QED
    BY <1>1, <2>1 DEF DispatchInv, clientVars
<1>7. FiberInv'
  BY <1>1, <1>2, NoTaskAssumption DEF TypeOK, FiberInv, IsFinished, clientVars
<1>8. QED
  BY <1>3, <1>4, <1>5, <1>6, <1>7

\* IInv is an inductive invariant for a careful client.
LEMMA InvariantInductive ==
    ASSUME CarefulClient, IInv, [Next]_vars
    PROVE  IInv'
<1>1. TypeOK'
  BY TypeInductive DEF IInv
<1>2. CASE UNCHANGED vars
  <2>1. UNCHANGED <<numberOfChildTasks, hasFunction, dependants, pending, waits, executions,
                    owner, submitted, dispatching, fiberState, fiberTask, slot, readyArray>>
    BY <1>2 DEF vars, clientVars, fiberVars
  <2>2. LifeInv'
    BY <2>1 DEF IInv, LifeInv, InPool
  <2>3. CountInv'
    BY <2>1 DEF IInv, CountInv, IsFinished, OwnShare
  <2>4. EdgeInv'
    <3>1. \A p \in Tasks, i \in Slots : IsToNotify(p, i)' <=> IsToNotify(p, i)
      BY <2>1 DEF IsToNotify
    <3>2. QED
      BY <2>1, <3>1, EdgesUnchanged DEF IInv
  <2>5. DispatchInv'
    BY <2>1 DEF IInv, DispatchInv, IsDispatched
  <2>6. FiberInv'
    BY <2>1 DEF IInv, FiberInv, IsFinished
  <2>7. QED
    BY <1>1, <2>2, <2>3, <2>4, <2>5, <2>6 DEF IInv
<1>3. ASSUME NEW c \in Clients, ClientStep(c) PROVE IInv'
  BY <1>1, <1>3, CreateNewTaskStep, AddDependantTasksStep, SetTaskFunctionStep,
     SubmitTaskStep, DispatchTaskStep, ReleaseTaskStep DEF ClientStep
<1>4. ASSUME NEW f \in Fibers, FiberStep(f) PROVE IInv'
  BY <1>1, <1>4, TakeTaskStep, RunTaskStep, FinishTaskStep, UpdateDependeciesStep,
     EndUpdateStep, AddReadyTaskStep, ClearFiberStep DEF FiberStep
<1>5. QED
  BY <1>2, <1>3, <1>4 DEF Next

\* Everything TaskGraph's safety rests on holds whenever clients are careful.
THEOREM InvariantCorrect ==
    ASSUME CarefulClient
    PROVE  Spec => []IInv
<1>1. Init => IInv
  <2> SUFFICES ASSUME Init PROVE IInv
    OBVIOUS
  <2>1. TypeOK
    BY NoTaskAssumption, MaxDependantsAssumption
       DEF Init, TypeOK, Slots, NoDependants, FiberStates
  <2>2. LifeInv
    BY DEF Init, LifeInv, InPool
  <2>3. CountInv
    BY FS_EmptySet DEF Init, CountInv, IsFinished, OwnShare
  <2>4. EdgeInv
    BY NoTaskAssumption DEF Init, EdgeInv, EdgeOK, NoDependants
  <2>5. DispatchInv
    BY NoTaskAssumption DEF Init, DispatchInv, IsDispatched, NoDependants
  <2>6. FiberInv
    BY DEF Init, FiberInv
  <2>7. QED
    BY <2>1, <2>2, <2>3, <2>4, <2>5, <2>6 DEF IInv
<1>2. IInv /\ [Next]_vars => IInv'
  BY InvariantInductive
<1>3. QED
  BY <1>1, <1>2, PTL DEF Spec

-----------------------------------------------------------------------------
(***************************************************************************)
(* What follows from the invariant.                                        *)
(***************************************************************************)

\* A task is executed at most once between its creation and its release.
THEOREM ExecutedAtMostOnceCorrect ==
    ASSUME CarefulClient
    PROVE  Spec => []ExecutedAtMostOnce
<1>1. IInv => ExecutedAtMostOnce
  BY DEF IInv, CountInv, ExecutedAtMostOnce
<1>2. QED
  BY <1>1, InvariantCorrect, PTL

\* A task that runs has no prerequisite left.
LEMMA RunningTasksHaveNoPrerequisite ==
    ASSUME IInv
    PROVE  PrerequisitesFinishFirst
<1> SUFFICES ASSUME NEW f \in Fibers, NEW p \in Tasks, NEW i \in Slots,
                    fiberState[f] = "Running", dependants[p][i] = fiberTask[f]
             PROVE  IsFinished(p)
  BY DEF PrerequisitesFinishFirst, HasDependant
<1>1. /\ fiberTask[f] \in Tasks
      /\ numberOfChildTasks[fiberTask[f]] = 1
      /\ hasFunction[fiberTask[f]]
  BY DEF IInv, TypeOK, FiberInv, LifeInv
<1>2. waits[fiberTask[f]] = {}
  BY <1>1, NoWaits DEF IInv
<1>3. EdgeOK(p, fiberTask[f], i)
  BY <1>1 DEF IInv, EdgeInv
<1>4. QED
  BY <1>2, <1>3 DEF EdgeOK

\* While a task runs, every task that names it as a dependant has finished.
THEOREM PrerequisitesFinishFirstCorrect ==
    ASSUME CarefulClient
    PROVE  Spec => []PrerequisitesFinishFirst
BY RunningTasksHaveNoPrerequisite, InvariantCorrect, PTL

\* Every ASSERT( IsReadyToBeExecuted() ) on the way to execution holds.
THEOREM DispatchedTasksAreReadyCorrect ==
    ASSUME CarefulClient
    PROVE  Spec => []DispatchedTasksAreReady
<1>1. IInv => DispatchedTasksAreReady
  BY DEF IInv, DispatchInv, DispatchedTasksAreReady, IsReadyToBeExecuted
<1>2. QED
  BY <1>1, InvariantCorrect, PTL

\* A task has at most one entry in all the pending queues together.
THEOREM PendingAtMostOnceCorrect ==
    ASSUME CarefulClient
    PROVE  Spec => []PendingAtMostOnce
<1>1. IInv => PendingAtMostOnce
  BY DEF IInv, DispatchInv, PendingAtMostOnce
<1>2. QED
  BY <1>1, InvariantCorrect, PTL

\* The counter is exact.
THEOREM CounterIsExactCorrect ==
    ASSUME CarefulClient
    PROVE  Spec => []CounterIsExact
<1>1. IInv => CounterIsExact
  BY DEF IInv, CountInv, CounterIsExact
<1>2. QED
  BY <1>1, InvariantCorrect, PTL

\* The result of a finished task stays as it is until the task is released.
THEOREM ResultIsStableCorrect ==
    ASSUME CarefulClient
    PROVE  Spec => ResultIsStable
<1> DEFINE Stable == \A t \in Tasks :
                         (hasFunction[t] /\ IsFinished(t) /\ hasFunction'[t])
                             => numberOfChildTasks'[t] = numberOfChildTasks[t]
<1>1. ASSUME IInv, Next PROVE Stable
  <2> USE <1>1 DEF IInv
  <2>1. ASSUME NEW c \in Clients, NEW t \in Tasks, CreateNewTask(c, t) PROVE Stable
    BY <2>1 DEF CreateNewTask
  <2>2. ASSUME NEW c \in Clients, NEW t \in Tasks, NEW i \in Slots, NEW d \in Tasks,
               AddDependantTasks(c, t, i, d)
        PROVE  Stable
    <3>1. ~(hasFunction[d] /\ IsFinished(d))
      BY <2>2, NoClientAssumption DEF AddDependantTasks, MayBuild, LifeInv, CountInv, InPool
    <3>2. QED
      BY <2>2, <3>1 DEF AddDependantTasks, TypeOK
  <2>3. ASSUME NEW c \in Clients, NEW t \in Tasks, SetTaskFunction(c, t) PROVE Stable
    BY <2>3 DEF SetTaskFunction, TypeOK
  <2>4. ASSUME NEW c \in Clients, NEW t \in Tasks, SubmitTask(c, t) PROVE Stable
    BY <2>4 DEF SubmitTask
  <2>5. ASSUME NEW c \in Clients, DispatchTask(c) PROVE Stable
    BY <2>5 DEF DispatchTask
  <2>6. ASSUME NEW c \in Clients, NEW t \in Tasks, ReleaseTask(c, t) PROVE Stable
    BY <2>6 DEF ReleaseTask, Clear, TypeOK
  <2>7. ASSUME NEW f \in Fibers, NEW t \in Tasks, TakeTask(f, t) PROVE Stable
    BY <2>7 DEF TakeTask
  <2>8. ASSUME NEW f \in Fibers, RunTask(f) PROVE Stable
    BY <2>8 DEF RunTask
  <2>9. ASSUME NEW f \in Fibers, NEW success \in BOOLEAN, FinishTask(f, success)
        PROVE  Stable
    <3>1. PICK t \in Tasks : fiberTask[f] = t /\ fiberState[f] = "Running"
      BY <2>9 DEF FinishTask, TypeOK
    <3>2. ~IsFinished(t)
      BY <3>1 DEF FiberInv, IsFinished
    <3>3. numberOfChildTasks' =
              [numberOfChildTasks EXCEPT ![t] = IF success THEN 0 ELSE -1]
      BY <2>9, <3>1 DEF FinishTask
    <3>4. QED
      BY <3>2, <3>3 DEF TypeOK
  <2>10. ASSUME NEW f \in Fibers, UpdateDependecies(f) PROVE Stable
    <3>1. PICK p \in Tasks, s \in Slots :
             fiberTask[f] = p /\ slot[f] = s /\ fiberState[f] = "Updating"
      BY <2>10, MaxDependantsAssumption DEF UpdateDependecies, BecomesReady, TypeOK, Slots
    <3>2. CASE dependants[p][s] = NoTask
      BY <2>10, <3>1, <3>2 DEF UpdateDependecies, BecomesReady
    <3>3. CASE dependants[p][s] # NoTask
      <4>1. PICK e \in Tasks : dependants[p][s] = e
        BY <3>3 DEF TypeOK
      <4>2. <<p, s>> \in waits[e]
        BY <3>1, <4>1 DEF EdgeInv, EdgeOK, IsToNotify, TypeOK, Slots
      <4>3. ~(hasFunction[e] /\ IsFinished(e))
        BY <4>2 DEF CountInv
      <4>4. numberOfChildTasks' = [numberOfChildTasks EXCEPT ![e] = @ - 1]
        BY <2>10, <3>1, <3>3, <4>1 DEF UpdateDependecies, BecomesReady
      <4>5. QED
        BY <4>3, <4>4 DEF TypeOK
    <3>4. QED
      BY <3>2, <3>3
  <2>11. ASSUME NEW f \in Fibers, EndUpdate(f) PROVE Stable
    BY <2>11 DEF EndUpdate
  <2>12. ASSUME NEW f \in Fibers, AddReadyTask(f) PROVE Stable
    BY <2>12 DEF AddReadyTask
  <2>13. ASSUME NEW f \in Fibers, ClearFiber(f) PROVE Stable
    BY <2>13 DEF ClearFiber
  <2> HIDE DEF Stable, IInv
  <2>14. QED
    BY <1>1, <2>1, <2>2, <2>3, <2>4, <2>5, <2>6, <2>7, <2>8, <2>9, <2>10, <2>11, <2>12,
       <2>13 DEF Next, ClientStep, FiberStep
<1>2. IInv /\ [Next]_vars => [Stable]_vars
  BY <1>1
<1>3. QED
  BY <1>2, InvariantCorrect, PTL DEF Spec, ResultIsStable

-----------------------------------------------------------------------------
(***************************************************************************)
(* No task is forgotten: it is on its way to execution from the moment it  *)
(* has been submitted and waits for nothing any more.                      *)
(***************************************************************************)

\* A fiber keeps ready tasks only where its two loops have put them and not yet taken them.
ReadyArrays ==
    \A f \in Fibers, i \in Slots : readyArray[f][i] # NoTask =>
        \/ fiberState[f] = "Updating" /\ i < slot[f]
        \/ fiberState[f] = "Adding" /\ i >= slot[f]

NoneForgotten ==
    \A t \in Tasks : submitted[t] /\ executions[t] = 0 /\ waits[t] = {} => IsDispatched(t)

\* A submitted task that waits for nothing and has not run has a counter of 1, so the
\* SubmitTask or the notification after which that is so sees that it is ready.
LEMMA ReadyWhenNothingIsLeft ==
    ASSUME IInv, NEW t \in Tasks, hasFunction[t], executions[t] = 0
    PROVE  /\ ~IsFinished(t) /\ IsFiniteSet(waits[t])
           /\ numberOfChildTasks[t] = Cardinality(waits[t]) + 1
BY DEF IInv, CountInv, OwnShare

\* Every ready array stays as the loops leave it.
LEMMA ReadyArraysInductive ==
    ASSUME IInv, ReadyArrays, [Next]_vars
    PROVE  ReadyArrays'
<1> USE MaxDependantsAssumption, NoTaskAssumption
<1> USE DEF Slots
<1>0. TypeOK
  BY DEF IInv
<1>1. CASE UNCHANGED <<fiberState, slot, readyArray>>
  BY <1>1 DEF ReadyArrays
<1>2. ASSUME NEW f \in Fibers, FiberStep(f) PROVE ReadyArrays'
  <2>1. CASE \E t \in Tasks : TakeTask(f, t)
    BY <1>0, <2>1 DEF TakeTask, TypeOK, ReadyArrays
  <2>2. CASE RunTask(f)
    BY <1>0, <2>2 DEF RunTask, TypeOK, ReadyArrays
  <2>3. CASE \E success \in BOOLEAN : FinishTask(f, success)
    BY <1>0, <2>3 DEF FinishTask, TypeOK, ReadyArrays
  <2>4. CASE UpdateDependecies(f)
    <3>1. PICK s \in Slots : s = slot[f] /\ fiberState[f] = "Updating"
      BY <1>0, <2>4 DEF UpdateDependecies, TypeOK
    <3>2. /\ slot' = [slot EXCEPT ![f] = s + 1] /\ fiberState' = fiberState
          /\ \A h \in Fibers, i \in Slots : h # f \/ i # s => readyArray'[h][i] = readyArray[h][i]
      BY <1>0, <2>4, <3>1 DEF UpdateDependecies, TypeOK
    <3>3. slot'[f] = s + 1 /\ \A h \in Fibers : h # f => slot'[h] = slot[h]
      BY <1>0, <3>2 DEF TypeOK
    <3>4. ASSUME NEW h \in Fibers, NEW i \in Slots, readyArray'[h][i] # NoTask
          PROVE  \/ fiberState'[h] = "Updating" /\ i < slot'[h]
                 \/ fiberState'[h] = "Adding" /\ i >= slot'[h]
      <4>1. CASE h = f /\ i = s
        BY <3>1, <3>2, <3>3, <4>1
      <4>2. CASE h = f /\ i # s
        <5>1. i < s
          BY <3>1, <3>2, <3>4, <4>2 DEF ReadyArrays
        <5> QED
          BY <3>1, <3>2, <3>3, <4>2, <5>1
      <4>3. CASE h # f
        BY <3>2, <3>3, <3>4, <4>3 DEF ReadyArrays
      <4> QED
        BY <4>1, <4>2, <4>3
    <3> QED
      BY <3>4 DEF ReadyArrays
  <2>5. CASE EndUpdate(f)
    <3>1. /\ fiberState' = [fiberState EXCEPT ![f] = "Adding"] /\ readyArray' = readyArray
          /\ slot' = [slot EXCEPT ![f] = 0]
      BY <2>5 DEF EndUpdate
    <3>2. fiberState'[f] = "Adding" /\ slot'[f] = 0
      BY <1>0, <3>1 DEF TypeOK
    <3>3. \A h \in Fibers : h # f => fiberState'[h] = fiberState[h] /\ slot'[h] = slot[h]
      BY <1>0, <3>1 DEF TypeOK
    <3>4. \A i \in Slots : i >= 0
      OBVIOUS
    <3> QED
      BY <3>1, <3>2, <3>3, <3>4 DEF ReadyArrays
  <2>6. CASE AddReadyTask(f)
    <3>1. PICK s \in Slots : s = slot[f] /\ fiberState[f] = "Adding"
      BY <1>0, <2>6 DEF AddReadyTask, TypeOK
    <3>2. /\ slot' = [slot EXCEPT ![f] = s + 1] /\ fiberState' = fiberState
          /\ readyArray' = [readyArray EXCEPT ![f][s] = NoTask]
      BY <2>6, <3>1 DEF AddReadyTask
    <3> QED
      BY <1>0, <3>1, <3>2 DEF ReadyArrays, TypeOK
  <2>7. CASE ClearFiber(f)
    BY <1>0, <2>7 DEF ClearFiber, TypeOK, ReadyArrays
  <2> QED
    BY <1>2, <2>1, <2>2, <2>3, <2>4, <2>5, <2>6, <2>7 DEF FiberStep
<1>3. ASSUME NEW c \in Clients, ClientStep(c) PROVE UNCHANGED <<fiberState, slot, readyArray>>
  BY <1>3 DEF ClientStep, CreateNewTask, AddDependantTasks, SetTaskFunction, SubmitTask,
              DispatchTask, ReleaseTask, fiberVars
<1> QED
  BY <1>1, <1>2, <1>3 DEF Next, vars, fiberVars

\* A step that does not begin a task leaves it dispatched, one that makes it ready dispatches it.
LEMMA NoneForgottenInductive ==
    ASSUME IInv, ReadyArrays, NoneForgotten, [Next]_vars
    PROVE  NoneForgotten'
<1> USE MaxDependantsAssumption, NoTaskAssumption, NoClientAssumption
<1> USE DEF Slots
<1>0. TypeOK
  BY DEF IInv
<1>1. ASSUME \A t \in Tasks :
                 /\ submitted'[t] /\ executions'[t] = 0 /\ waits'[t] = {}
                       => submitted[t] /\ executions[t] = 0 /\ waits[t] = {}
                 /\ IsDispatched(t) => IsDispatched(t)' \/ executions'[t] # 0
      PROVE  NoneForgotten'
  BY <1>1 DEF NoneForgotten
<1>2. CASE UNCHANGED vars
  BY <1>2 DEF vars, clientVars, fiberVars, NoneForgotten, IsDispatched
<1>3. ASSUME NEW c \in Clients, ClientStep(c) PROVE NoneForgotten'
  <2>1. CASE \E t \in Tasks : CreateNewTask(c, t)
    <3>1. PICK t \in Tasks : CreateNewTask(c, t)
      BY <2>1
    <3>2. ~submitted[t]
      BY <3>1 DEF CreateNewTask, IInv, LifeInv
    <3> QED
      BY <1>0, <1>1, <3>1, <3>2 DEF CreateNewTask, fiberVars, IsDispatched, TypeOK
  <2>2. CASE \E t \in Tasks : \E i \in Slots, d \in Tasks : AddDependantTasks(c, t, i, d)
    BY <1>0, <1>1, <2>2 DEF AddDependantTasks, MayBuild, clientVars, fiberVars, IsDispatched, TypeOK
  <2>3. CASE \E t \in Tasks : SetTaskFunction(c, t)
    BY <1>0, <1>1, <2>3 DEF SetTaskFunction, clientVars, fiberVars, IsDispatched, TypeOK
  <2>4. CASE \E t \in Tasks : SubmitTask(c, t)
    <3>1. PICK t \in Tasks : SubmitTask(c, t)
      BY <2>4
    <3>2. /\ dispatching[c] = NoTask /\ hasFunction[t]
          /\ submitted' = [submitted EXCEPT ![t] = TRUE]
          /\ dispatching' = [dispatching EXCEPT ![c] = IF IsReadyToBeExecuted(t) THEN t ELSE @]
          /\ UNCHANGED <<pending, waits, executions, fiberState, fiberTask, readyArray>>
      BY <3>1 DEF SubmitTask, MayBuild, Calls, fiberVars
    <3>3. \A d \in Tasks : IsDispatched(d) => IsDispatched(d)'
      BY <1>0, <3>2 DEF IsDispatched, TypeOK
    <3>4. executions[t] = 0 /\ waits[t] = {} => IsDispatched(t)'
      <4> SUFFICES ASSUME executions[t] = 0, waits[t] = {} PROVE IsDispatched(t)'
        OBVIOUS
      <4>1. numberOfChildTasks[t] = 1
        BY <3>2, ReadyWhenNothingIsLeft, FS_EmptySet
      <4>2. dispatching'[c] = t
        BY <1>0, <3>2, <4>1 DEF IsReadyToBeExecuted, TypeOK
      <4> QED
        BY <4>2 DEF IsDispatched
    <3> QED
      BY <1>0, <3>2, <3>3, <3>4 DEF NoneForgotten, TypeOK
  <2>5. CASE DispatchTask(c)
    <3>1. PICK t \in Tasks : t = dispatching[c]
      BY <1>0, <2>5 DEF DispatchTask, TypeOK
    <3>2. /\ pending' = [pending EXCEPT ![t] = @ + 1]
          /\ dispatching' = [dispatching EXCEPT ![c] = NoTask]
          /\ UNCHANGED <<submitted, waits, executions, fiberState, fiberTask, readyArray>>
      BY <2>5, <3>1 DEF DispatchTask, fiberVars
    <3>3. pending'[t] > 0 /\ \A d \in Tasks : pending[d] > 0 => pending'[d] > 0
      BY <1>0, <3>2 DEF TypeOK
    <3>4. \A d \in Tasks : IsDispatched(d) => IsDispatched(d)'
      BY <1>0, <3>1, <3>2, <3>3 DEF IsDispatched, TypeOK
    <3> QED
      BY <1>1, <3>2, <3>4
  <2>6. CASE \E t \in Tasks : ReleaseTask(c, t)
    BY <1>0, <1>1, <2>6 DEF ReleaseTask, fiberVars, IsDispatched, TypeOK
  <2> QED
    BY <1>3, <2>1, <2>2, <2>3, <2>4, <2>5, <2>6 DEF ClientStep
<1>4. ASSUME NEW f \in Fibers, FiberStep(f) PROVE NoneForgotten'
  <2>1. CASE \E t \in Tasks : TakeTask(f, t)
    <3>1. PICK t \in Tasks : TakeTask(f, t)
      BY <2>1
    <3>2. /\ pending' = [pending EXCEPT ![t] = @ - 1]
          /\ fiberTask' = [fiberTask EXCEPT ![f] = t]
          /\ fiberState' = [fiberState EXCEPT ![f] = "Starting"]
          /\ fiberState[f] = "Idle"
          /\ UNCHANGED <<submitted, waits, executions, dispatching, readyArray>>
      BY <3>1 DEF TakeTask, clientVars
    <3>3. \A d \in Tasks : IsDispatched(d) => IsDispatched(d)'
      BY <1>0, <3>2 DEF IsDispatched, TypeOK
    <3> QED
      BY <1>1, <3>2, <3>3
  <2>2. CASE RunTask(f)
    <3>1. PICK t \in Tasks : t = fiberTask[f]
      BY <1>0, <2>2 DEF RunTask, TypeOK
    <3>2. /\ executions' = [executions EXCEPT ![t] = @ + 1]
          /\ fiberState' = [fiberState EXCEPT ![f] = "Running"]
          /\ UNCHANGED <<submitted, waits, pending, dispatching, fiberTask, readyArray>>
      BY <2>2, <3>1 DEF RunTask, clientVars
    <3>3. \A d \in Tasks : d # t /\ IsDispatched(d) => IsDispatched(d)'
      BY <1>0, <3>1, <3>2 DEF IsDispatched, TypeOK
    <3>4. executions'[t] # 0 /\ \A d \in Tasks : executions'[d] = 0 => executions[d] = 0
      BY <1>0, <3>2 DEF TypeOK
    <3> QED
      BY <1>1, <3>2, <3>3, <3>4
  <2>3. CASE \E success \in BOOLEAN : FinishTask(f, success)
    <3>1. /\ fiberState[f] = "Running" /\ fiberState' = [fiberState EXCEPT ![f] = "Updating"]
          /\ UNCHANGED <<submitted, waits, executions, pending, dispatching, fiberTask, readyArray>>
      BY <2>3 DEF FinishTask, clientVars
    <3>2. \A d \in Tasks : IsDispatched(d) => IsDispatched(d)'
      BY <1>0, <3>1 DEF IsDispatched, TypeOK
    <3> QED
      BY <1>1, <3>1, <3>2
  <2>4. CASE UpdateDependecies(f)
    <3>1. PICK p \in Tasks, s \in Slots :
             p = fiberTask[f] /\ s = slot[f] /\ fiberState[f] = "Updating"
      BY <1>0, <2>4 DEF UpdateDependecies, TypeOK
    <3>2. /\ UNCHANGED <<submitted, executions, pending, dispatching, fiberState, fiberTask>>
          /\ readyArray[f][s] = NoTask
      BY <2>4, <3>1 DEF UpdateDependecies, clientVars, ReadyArrays
    <3>3. CASE dependants[p][s] = NoTask
      <4>1. UNCHANGED <<waits, readyArray>>
        BY <2>4, <3>1, <3>3 DEF UpdateDependecies
      <4> QED
        BY <1>1, <3>2, <4>1 DEF IsDispatched
    <3>4. CASE dependants[p][s] # NoTask
      <4>1. PICK d \in Tasks : d = dependants[p][s]
        BY <1>0, <3>4 DEF TypeOK
      <4>2. /\ waits' = [waits EXCEPT ![d] = @ \ {<<p, s>>}]
            /\ readyArray' = [readyArray EXCEPT ![f][s] = IF BecomesReady(d) THEN d ELSE @]
        BY <2>4, <3>1, <4>1 DEF UpdateDependecies
      <4>3. \A t \in Tasks : IsDispatched(t) => IsDispatched(t)'
        BY <1>0, <3>2, <4>2 DEF IsDispatched, TypeOK
      <4>4. ASSUME submitted[d], executions[d] = 0, waits'[d] = {}
            PROVE  IsDispatched(d)'
        <5>1. <<p, s>> \in waits[d]
          BY <1>0, <3>1, <4>1 DEF IInv, EdgeInv, EdgeOK, IsToNotify, TypeOK
        <5>2. waits[d] = {<<p, s>>}
          BY <1>0, <4>2, <4>4, <5>1 DEF TypeOK
        <5>3. hasFunction[d]
          BY <4>4 DEF IInv, LifeInv
        <5>4. numberOfChildTasks[d] = 2
          <6>1. numberOfChildTasks[d] = Cardinality(waits[d]) + 1
            BY <4>4, <5>3, ReadyWhenNothingIsLeft
          <6>2. Cardinality(waits[d]) = 1
            BY <5>2, FS_Singleton
          <6> QED
            BY <6>1, <6>2
        <5>5. readyArray'[f][s] = d
          BY <1>0, <4>2, <5>4 DEF BecomesReady, TypeOK
        <5> QED
          BY <5>5 DEF IsDispatched
      <4> QED
        BY <1>0, <3>2, <4>2, <4>3, <4>4 DEF NoneForgotten, TypeOK
    <3> QED
      BY <3>3, <3>4
  <2>5. CASE EndUpdate(f)
    <3>1. /\ fiberState[f] = "Updating" /\ fiberState' = [fiberState EXCEPT ![f] = "Adding"]
          /\ UNCHANGED <<submitted, waits, executions, pending, dispatching, fiberTask, readyArray>>
      BY <2>5 DEF EndUpdate, clientVars
    <3>2. \A d \in Tasks : IsDispatched(d) => IsDispatched(d)'
      BY <1>0, <3>1 DEF IsDispatched, TypeOK
    <3> QED
      BY <1>1, <3>1, <3>2
  <2>6. CASE AddReadyTask(f)
    <3>1. PICK s \in Slots : s = slot[f]
      BY <1>0, <2>6 DEF AddReadyTask, TypeOK
    <3>2. PICK d \in Tasks \cup {NoTask} : d = readyArray[f][s]
      BY <1>0 DEF TypeOK
    <3>3. /\ readyArray' = [readyArray EXCEPT ![f][s] = NoTask]
          /\ pending' = IF d = NoTask THEN pending ELSE [pending EXCEPT ![d] = @ + 1]
          /\ UNCHANGED <<submitted, waits, executions, dispatching, fiberState, fiberTask>>
      BY <2>6, <3>1, <3>2 DEF AddReadyTask, clientVars
    <3>4. /\ \A t \in Tasks : pending[t] > 0 => pending'[t] > 0
          /\ d # NoTask => pending'[d] > 0
      BY <1>0, <3>2, <3>3 DEF TypeOK
    <3>5. ASSUME NEW t \in Tasks, IsDispatched(t) PROVE IsDispatched(t)'
      <4>1. CASE t = d
        BY <3>4, <4>1 DEF IsDispatched
      <4>2. CASE t # d
        BY <1>0, <3>2, <3>3, <3>4, <3>5, <4>2 DEF IsDispatched, TypeOK
      <4> QED
        BY <4>1, <4>2
    <3> QED
      BY <1>1, <3>3, <3>5
  <2>7. CASE ClearFiber(f)
    <3>1. /\ fiberState[f] = "Adding" /\ fiberState' = [fiberState EXCEPT ![f] = "Idle"]
          /\ fiberTask' = [fiberTask EXCEPT ![f] = NoTask]
          /\ UNCHANGED <<submitted, waits, executions, pending, dispatching, readyArray>>
      BY <2>7 DEF ClearFiber, clientVars
    <3>2. \A d \in Tasks : IsDispatched(d) => IsDispatched(d)'
      BY <1>0, <3>1 DEF IsDispatched, TypeOK
    <3> QED
      BY <1>1, <3>1, <3>2
  <2> QED
    BY <1>4, <2>1, <2>2, <2>3, <2>4, <2>5, <2>6, <2>7 DEF FiberStep
<1> QED
  BY <1>2, <1>3, <1>4 DEF Next

\* No task is forgotten, in any interleaving of the clients and the fibers.
THEOREM NoneForgottenCorrect ==
    ASSUME CarefulClient
    PROVE  Spec => []NoneForgotten
<1>1. Init => ReadyArrays /\ NoneForgotten
  BY DEF Init, ReadyArrays, NoneForgotten, NoDependants
<1> QED
  BY <1>1, ReadyArraysInductive, NoneForgottenInductive, InvariantCorrect, PTL DEF Spec
=============================================================================
