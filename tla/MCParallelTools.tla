--------------------------- MODULE MCParallelTools ---------------------------
(***************************************************************************)
(* The tools above the task system, for TLC: a behaviour is one call of    *)
(* one of the parallel algorithms, or the uses of one task's storage.  The *)
(* variables of the others keep their initial values.                      *)
(***************************************************************************)
EXTENDS ParallelMergeSort, ParallelForEach, TaskStorage, TLC

VARIABLE
    kind   \* What the behaviour is about.

ownForVars  == <<size, cutOff, stack, calls>>
ownSortVars == <<input, data, storage, batch, merged>>
batchVars   == <<poolSize, refused, task>>
toolsVars   == <<kind, batchVars, ownForVars, ownSortVars, storageVars>>

IsSort    == kind = "ParallelMergeSort"
IsForEach == kind = "ParallelForEach"
IsStorage == kind = "TaskStorage"

NothingToSort == SortInit /\ input = <<>>
NothingToCall == ForInit /\ size = 0 /\ cutOff = 1

ToolsInit ==
    /\ StorageInit
    /\ \/ kind = "ParallelMergeSort" /\ SortInit /\ NothingToCall
       \/ kind = "ParallelForEach" /\ ForInit /\ NothingToSort
       \/ kind = "TaskStorage" /\ NothingToSort /\ NothingToCall /\ poolSize = 0

InSort    == IsSort /\ UNCHANGED <<kind, ownForVars, storageVars>>
InForEach == IsForEach /\ UNCHANGED <<kind, ownSortVars, storageVars>>
InStorage == IsStorage /\ UNCHANGED <<kind, batchVars, ownForVars, ownSortVars>>

ToolsStep ==
    \/ InSort /\ SortStep
    \/ InForEach /\ ForStep
    \/ InStorage /\ StorageNext

ToolsNext ==
    \/ ToolsStep
    \/ InSort /\ FailToFinish
    \/ InForEach /\ FailToWait

ToolsSpec == ToolsInit /\ [][ToolsNext]_toolsVars /\ WF_toolsVars(ToolsStep)

\* The type invariant of what the behaviour is about.
ToolsTypeOK ==
    /\ IsSort => SortTypeOK
    /\ IsForEach => ForTypeOK
    /\ IsStorage => StorageTypeOK

\* ParallelForEach does not return before the task that uses its variables is done,
\* unless its WaitUntil was refused.
ForEachFramesOutliveTheirTasks == IsForEach => FramesOutliveTheirTasks

\* A call ends, whatever its cut-off, its number of workers and its pool: the recursion
\* that does not make the range shorter ends, too.
CallsEnd == ~IsStorage => <>IsFinished(Main)

\* Every call ends, and with enough tasks and no refusal both algorithms succeed:
\* ParallelMergeSort sorts a container with an element for each worker, and
\* ParallelForEach processes every element if the cut-off is at least 3.
CallsSucceed ==
    /\ CallsEnd
    /\ SortSucceeds
    /\ ForEachSucceeds
=============================================================================
