----------------------------- MODULE MCTaskSystem -----------------------------
(***************************************************************************)
(* Programs for TaskSystem, for TLC.  Every task has two dependant slots.  *)
(***************************************************************************)
EXTENDS TestPrograms, TLC

FourTasks  == {a, b, c, g}
ThreeTasks == {a, b, c}

\* a submits b and waits for it, and c runs when a has finished; Main waits for c.
Nested ==
    [DynamicTree(Flat(<<c, a>>, 2), a, <<b>>) EXCEPT !.dependants[a][1] = c, !.awaits[Main] = {c}]

\* a submits b and waits for it, and a, b and g have to finish before c; Main waits
\* for a, and its helper instance may be left with c.
Join ==
    [DynamicTree(Flat(<<c, a, g>>, 1), a, <<b>>)
        EXCEPT !.dependants[a][0] = c, !.dependants[b][0] = c, !.dependants[g][0] = c,
               !.awaits[Main] = {a}, !.shutsDown = FALSE]

\* The main thread does not wait for the task that waits, but for b only.
NestedAwaitsInner == [Nested EXCEPT !.awaits[Main] = {b}, !.shutsDown = FALSE]

AllPrograms ==
    {SimpleSingleTask, SimpleSingleLambdaTask, SimpleChainTask, SimpleFlatTree,
     SimpleDynamicTree, TwoLevelDynamicTree, DynamicTaskTreeTestWithLambdas,
     MaxDependenciesTest, MaxTasksFlat, MaxTasksDynamic, Join, Nested}

FlushPrograms  == {FlushingSuspendedTasks}
AstrayPrograms == {NestedAwaitsInner}

\* The hypotheses of the theorems: the order of the submissions, no cycles, the size of the
\* pool, and what the main thread waits for.  The programs of the flush do without the last
\* ones, one with too few fibers, both with a main thread that does not wait for a task that
\* waits.
ASSUME ClientsAssumption == ClientsSubmitDependantsFirst
ASSUME CyclesAssumption == NoCycles
ASSUME PoolAssumption == EnoughFibers <=> Programs # FlushPrograms
ASSUME MainAssumption == MainEndsLast <=> Programs \notin {FlushPrograms, AstrayPrograms}

\* The tests that are not run here: what can happen to their tasks is what TLC finds in
\* MCTaskGraph for a client that submits in any order.
PrerequisitesFirstTests == {StaticTaskTreeTest, DynamicTaskTreeTestWithLambdas2}
ASSUME TestsAssumption ==
    Tasks = FourTasks => \A p \in PrerequisitesFirstTests : ~DependantsFirst(p)
=============================================================================
