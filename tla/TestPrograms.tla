----------------------------- MODULE TestPrograms -----------------------------
(***************************************************************************)
(* The client programs of the unit tests of the task system, for the       *)
(* module TaskSystem to run.  A test that makes many alike tasks makes one *)
(* or two of them here.  Each program waits for what its test waits for.   *)
(* The tests share one task system; a program has it for itself.           *)
(***************************************************************************)
EXTENDS TaskSystem

CONSTANTS a, b, c, g

\* What one submitter submits and awaits, and nobody else.
By(x, s, nothing) == [y \in Submitters |-> IF y = x THEN s ELSE nothing]

\* A program whose tasks have no dependants and submit nothing.
Flat(tasks, n) ==
    [numWorkers |-> n,
     dependants |-> [t \in Tasks |-> NothingReady],
     submits    |-> By(Main, tasks, <<>>),
     awaits     |-> By(Main, {tasks[k] : k \in DOMAIN tasks}, {}),
     fenced     |-> {},
     shutsDown  |-> TRUE]

SimpleSingleTask == Flat(<<a>>, 1)

\* The same with a lambda for a function.
SimpleSingleLambdaTask == SimpleSingleTask

\* A root task and a child task that has to finish before it.
SimpleChainTask ==
    [Flat(<<a, b>>, 1) EXCEPT !.dependants[b][0] = a, !.awaits[Main] = {a}]

\* A batch of tasks that know nothing of each other.
SimpleFlatTree == Flat(<<a, b>>, 1)

\* The same with every task of the pool; that no more can be made is FreeList's concern.
MaxTasksFlat == SimpleFlatTree

\* TaskFunctionDynamicTree: task t makes a batch of children and waits for it.
DynamicTree(p, t, children) ==
    [p EXCEPT !.submits[t] = children,
              !.awaits[t] = {children[k] : k \in DOMAIN children}]

\* One task that makes two children.
SimpleDynamicTree == DynamicTree(Flat(<<a>>, 1), a, <<b, c>>)

\* Several tasks that each make children.
TwoLevelDynamicTree == DynamicTree(DynamicTree(Flat(<<a, c>>, 1), a, <<b>>), c, <<g>>)

\* The same, with lambdas.
MaxTasksDynamic == TwoLevelDynamicTree

\* A lambda that makes a task for each item and waits for all of them; the task system
\* stays for the next test.
DynamicTaskTreeTestWithLambdas ==
    [DynamicTree(Flat(<<a>>, 1), a, <<b, c>>) EXCEPT !.shutsDown = FALSE]

\* Tasks that use every dependant slot: the dependants are submitted first.
MaxDependenciesTest ==
    [Flat(<<a, b, c, g>>, 1) EXCEPT !.dependants[c] = [s \in Slots |-> IF s = 0 THEN a ELSE b],
                                    !.dependants[g] = [s \in Slots |-> IF s = 0 THEN a ELSE b]]

\* The tasks wait for a fence that the main thread raises between two WaitUntil; the
\* helper instance is left with tasks suspended.
FlushingSuspendedTasks == [Flat(<<a, b>>, 2) EXCEPT !.fenced = {a, b}, !.shutsDown = FALSE]

-----------------------------------------------------------------------------
(***************************************************************************)
(* Two tests that submit prerequisites before their dependants, against    *)
(* what TaskGraph asks of a client.                                        *)
(***************************************************************************)

\* A tree of three levels, submitted from the leaves to the root.
StaticTaskTreeTest ==
    [Flat(<<a, b, c, g>>, 1) EXCEPT !.dependants[a][0] = c, !.dependants[b][0] = c,
                                    !.dependants[c][0] = g]

\* A lambda that makes a tree of two levels and submits the root last.
DynamicTaskTreeTestWithLambdas2 ==
    [DynamicTree(Flat(<<a>>, 1), a, <<b, c, g>>)
        EXCEPT !.dependants[b][0] = g, !.dependants[c][0] = g]
=============================================================================
