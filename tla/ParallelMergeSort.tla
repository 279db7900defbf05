-------------------------- MODULE ParallelMergeSort --------------------------
(***************************************************************************)
(* ParallelMergeSort: a tree of tasks, each of which sorts a range on its  *)
(* own or has two tasks sort the halves and merges them.  A merge writes   *)
(* into the other one of two containers, so a range that a task returns    *)
(* says where its elements now are.                                        *)
(*                                                                         *)
(* The last field of a range is a union: on the way down it is the length  *)
(* up to which a range is not split (m_maxRange), on the way up a number   *)
(* whose parity is to tell which container holds the result (m_levels).    *)
(* The function of a leaf increments the one to make the other.            *)
(***************************************************************************)
EXTENDS TaskBatch, FiniteSets

CONSTANTS
    MaxLength,    \* Bound of the model: the longest container.
    Workers,      \* GetWorkersCount().
    MaxRanges,    \* The values of container.size() / Workers to look at.
    Keys          \* What the elements are ordered by.

ASSUME SortAssumption ==
    /\ MaxLength \in Nat
    /\ Workers \in Nat \ {0}
    /\ MaxRanges \subseteq Nat
    /\ Keys \subseteq Int

VARIABLES
    input,     \* The container before the call.
    data,      \* The elements of the container and of working_container.
    storage,   \* The range in the storage of each task.
    batch,     \* The tasks that each task, and the call, has created.
    merged     \* How many elements of its left and of its right half each task has merged.

sortVars == <<poolSize, refused, task, input, data, storage, batch, merged>>

Containers == {"container", "working_container"}
Other(c) == IF c = "container" THEN "working_container" ELSE "container"

\* m_tempContainer is always the other container.
Range0(max) ==
    [container |-> "container", start |-> 1, range |-> Len(input), maxRangeOrLevels |-> max]

LastIndex(r) == r.start + r.range - 1

Nothing == [left |-> 0, right |-> 0]

SortInit ==
    /\ BatchInit
    /\ input \in UNION {[1 .. n -> Keys] : n \in 0 .. MaxLength}
    /\ Len(input) \div Workers \in MaxRanges
    /\ data = [c \in Containers |-> input]
    /\ storage = [t \in Tasks |-> Range0(0)]
    /\ batch = [t \in Threads |-> <<>>]
    /\ merged = [t \in Tasks |-> Nothing]

-----------------------------------------------------------------------------
(***************************************************************************)
(* The task function.                                                      *)
(***************************************************************************)

IsSmall(t) == storage[t].range <= storage[t].maxRangeOrLevels

Return(t, success) ==
    /\ task' = ReturnAndRelease(t, success, batch[t])
    /\ batch' = [batch EXCEPT ![t] = <<>>]

\* How often a key occurs from one place to another.
Occurrences(s, first, last, key) == Cardinality({i \in first .. last : s[i] = key})

IsOrdered(s, first, last) == \A i, j \in first .. last : i < j => s[i] <= s[j]

\* s has there, in order, the elements that u has there.
IsSorted(s, u, first, last) ==
    /\ IsOrdered(s, first, last)
    /\ \A key \in Keys : Occurrences(s, first, last, key) = Occurrences(u, first, last, key)

\* What std::sort makes of the elements of a range.
SortRange(s, r) ==
    {u \in [DOMAIN s -> Keys] :
        /\ IsSorted(u, s, r.start, LastIndex(r))
        /\ \A i \in DOMAIN s : i \notin r.start .. LastIndex(r) => u[i] = s[i]}

SortSequentially(t) ==
    /\ t # Main /\ IsExecuting(t)
    /\ IsSmall(t)
    /\ \E u \in SortRange(data[storage[t].container], storage[t]) :
            data' = [data EXCEPT ![storage[t].container] = u]
    /\ storage' = [storage EXCEPT ![t].maxRangeOrLevels = @ + 1]
    /\ Return(t, TRUE)
    /\ UNCHANGED <<poolSize, refused, input, merged>>

CreateHalf(t) ==
    /\ t # Main /\ IsExecuting(t)
    /\ ~IsSmall(t)
    /\ Len(batch[t]) < 2
    /\ FreeTasks # {}
    /\ task' = [task EXCEPT ![NewTask] = "Created"]
    /\ batch' = [batch EXCEPT ![t] = Append(@, NewTask)]
    /\ UNCHANGED <<poolSize, refused, input, data, storage, merged>>

\* A half that has been created is released without having been submitted.
FailToCreateHalf(t) ==
    /\ t # Main /\ IsExecuting(t)
    /\ ~IsSmall(t)
    /\ Len(batch[t]) < 2
    /\ FreeTasks = {}
    /\ Return(t, FALSE)
    /\ UNCHANGED <<poolSize, refused, input, data, storage, merged>>

LeftHalf(r) == [r EXCEPT !.range = r.range \div 2]

RightHalf(r) ==
    [r EXCEPT !.range = r.range - r.range \div 2, !.start = r.start + r.range \div 2]

SubmitHalves(t) ==
    /\ t # Main
    /\ Len(batch[t]) = 2
    /\ \A i \in 1 .. 2 : task[batch[t][i]] = "Created"
    /\ storage' = [storage EXCEPT ![batch[t][1]] = LeftHalf(storage[t]),
                                  ![batch[t][2]] = RightHalf(storage[t])]
    /\ task' = SubmitAll(batch[t])
    /\ UNCHANGED <<poolSize, refused, input, data, batch, merged>>

HasSortedHalves(t) ==
    /\ Len(batch[t]) = 2
    /\ AreAllTaskFinished(batch[t]) /\ ~HasExecutionError(batch[t])

\* Mutant: the merge writes into the container of the left half.
LeftContainer(left) == left.container

\* m_tempContainer of the left half.  The right half can be in that container, too.
MergeContainer(left) == Other(left.container)

\* One element of std::merge, which writes from the front to the back and takes the
\* element of the left half when both are equal.
MergeElement(t) ==
    /\ t # Main
    /\ HasSortedHalves(t)
    /\ LET left  == storage[batch[t][1]]
           right == storage[batch[t][2]]
           i == left.start + merged[t].left
           j == right.start + merged[t].right
           k == left.start + merged[t].left + merged[t].right
           to == MergeContainer(left)
           take(source, from, half) ==
               /\ data' = [data EXCEPT ![to][k] = data[source][from]]
               /\ merged' = [merged EXCEPT ![t][half] = @ + 1]
           takeRight == \/ i > LastIndex(left)
                        \/ /\ j <= LastIndex(right)
                           /\ data[right.container][j] < data[left.container][i]
       IN  /\ i <= LastIndex(left) \/ j <= LastIndex(right)
           /\ \/ takeRight /\ take(right.container, j, "right")
              \/ ~takeRight /\ take(left.container, i, "left")
    /\ UNCHANGED <<poolSize, refused, task, input, storage, batch>>

\* Both halves have been merged.
MergeHalves(t) ==
    /\ t # Main
    /\ HasSortedHalves(t)
    /\ LET left  == storage[batch[t][1]]
           right == storage[batch[t][2]]
       IN  /\ merged[t] = [left |-> left.range, right |-> right.range]
           /\ storage' = [storage EXCEPT
                ![t].container = Other(left.container),
                ![t].maxRangeOrLevels = left.maxRangeOrLevels + 1]
    /\ merged' = [merged EXCEPT ![t] = Nothing]
    /\ Return(t, TRUE)
    /\ UNCHANGED <<poolSize, refused, input, data>>

FailAfterHalves(t) ==
    /\ t # Main
    /\ Len(batch[t]) = 2
    /\ AreAllTaskFinished(batch[t]) /\ HasExecutionError(batch[t])
    /\ Return(t, FALSE)
    /\ UNCHANGED <<poolSize, refused, input, data, storage, merged>>

-----------------------------------------------------------------------------
(***************************************************************************)
(* The call itself.                                                        *)
(***************************************************************************)

FailToStart ==
    /\ IsExecuting(Main)
    /\ batch[Main] = <<>>
    /\ FreeTasks = {}
    /\ Return(Main, FALSE)
    /\ UNCHANGED <<poolSize, refused, input, data, storage, merged>>

StartSorting ==
    /\ IsExecuting(Main)
    /\ batch[Main] = <<>>
    /\ FreeTasks # {}
    /\ batch' = [batch EXCEPT ![Main] = <<NewTask>>]
    /\ storage' = [storage EXCEPT ![NewTask] = Range0(Len(input) \div Workers)]
    /\ task' = SubmitAll(<<NewTask>>)
    /\ UNCHANGED <<poolSize, refused, input, data, merged>>

\* Mutant: the other parity.
IsResultCopiedIfOdd(r) == r.maxRangeOrLevels % 2 = 1

\* m_levels & 1 == 0.
IsResultCopied(r) == r.maxRangeOrLevels % 2 = 0

FinishSorting ==
    /\ IsExecuting(Main)
    /\ batch[Main] # <<>>
    /\ AreAllTaskFinished(batch[Main])
    /\ LET success == ~HasExecutionError(batch[Main])
           copied == success /\ IsResultCopied(storage[batch[Main][1]])
       IN  /\ Return(Main, success)
           /\ data' = [data EXCEPT
                !["container"] = IF copied THEN data["working_container"] ELSE @]
    /\ UNCHANGED <<poolSize, refused, input, storage, merged>>

\* WaitUntil is refused, whether or not the task has finished by now.
FailToFinish ==
    /\ IsExecuting(Main)
    /\ batch[Main] # <<>>
    /\ refused' = TRUE
    /\ Return(Main, FALSE)
    /\ UNCHANGED <<poolSize, input, data, storage, merged>>

\* The tasks work on a variable of the call: when that has returned, what is left of
\* them has no container to work on.
TaskStep ==
    /\ IsExecuting(Main)
    /\ \E t \in Tasks :
            \/ SortSequentially(t)
            \/ CreateHalf(t) \/ FailToCreateHalf(t) \/ SubmitHalves(t)
            \/ MergeElement(t) \/ MergeHalves(t) \/ FailAfterHalves(t)

SortStep == FailToStart \/ StartSorting \/ FinishSorting \/ TaskStep

SortNext == SortStep \/ FailToFinish

\* A worker that can take a step of a task takes one; nobody need be refused to wait.
SortSpec == SortInit /\ [][SortNext]_sortVars /\ WF_sortVars(SortStep)

-----------------------------------------------------------------------------
(***************************************************************************)
(* Properties.                                                             *)
(***************************************************************************)

SortTypeOK ==
    /\ BatchTypeOK
    /\ input \in Seq(Keys)
    /\ data \in [Containers -> [DOMAIN input -> Keys]]
    /\ storage \in [Tasks -> [container : Containers, start : 1 .. Len(input) + 1,
                              range : 0 .. Len(input), maxRangeOrLevels : Nat]]
    /\ batch \in [Threads -> Seq(Tasks)] /\ \A t \in Threads : Len(batch[t]) <= 2
    /\ merged \in [Tasks -> [left : 0 .. Len(input), right : 0 .. Len(input)]]

\* The task that has created another one has begun to merge what that has sorted.
IsMerged(t) == \E u \in Tasks : merged[u] # Nothing /\ \E i \in DOMAIN batch[u] : batch[u][i] = t

\* What a task leaves behind when it returns true: the elements that its range had,
\* in order, in the container that the range names, until they are merged.
RangesAreSorted ==
    \A t \in Tasks :
        task[t] = "Succeeded" /\ ~IsMerged(t) =>
            LET r == storage[t]
            IN  IsSorted(data[r.container], input, r.start, LastIndex(r))

\* The call returns true if it has sorted the container, as its comment says.
TrueMeansSorted ==
    task[Main] = "Succeeded" => IsSorted(data["container"], input, 1, Len(input))

\* Whatever failed: when the call returns, every task is back in the pool, unless it was
\* refused to wait while a task of it was not done.
AllTasksAreReleased ==
    IsFinished(Main) => FreeTasks = 1 .. poolSize \/ \E t \in Tasks : IsAbandoned(t)

\* How many tasks the tree of a range of n elements has.
TreeSize[n \in 0 .. MaxLength] ==
    IF n <= Len(input) \div Workers THEN 1
    ELSE 1 + TreeSize[n \div 2] + TreeSize[n - n \div 2]

\* With an element for each worker and a task for each node of the tree, a call that
\* is not refused to wait gets the container sorted.
SortSucceeds ==
    Len(input) >= Workers /\ poolSize >= TreeSize[Len(input)]
        => <>(\/ refused
              \/ /\ task[Main] = "Succeeded"
                 /\ IsSorted(data["container"], input, 1, Len(input)))
=============================================================================
