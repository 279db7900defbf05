------------------------------ MODULE TaskBatch ------------------------------
(***************************************************************************)
(* What the parallel algorithms see of the task system: a pool of tasks    *)
(* that can be used up, batches that submit tasks, wait for them and       *)
(* release them, and one bit, the result, that comes back from a task.     *)
(* TaskGraph and TaskSystem say how a submitted task gets executed; here   *)
(* it takes the steps of its function whenever it likes.                   *)
(*                                                                         *)
(* The call of an algorithm is the thread Main; it is "Submitted" until it *)
(* returns, so that its result is kept like that of a task.                *)
(*                                                                         *)
(* Main is an external thread, so its WaitUntil can be refused: another    *)
(* external thread may be inside the helper instance (HelperInstance says  *)
(* when).  The call then returns false, and its batch releases a task that *)
(* may be queued or running.  Nothing is said of what such a task does     *)
(* from then on (Task::Clear asserts that there is none): it is            *)
(* "Abandoned", takes no more steps and is not handed out again.           *)
(***************************************************************************)
EXTENDS Integers, Sequences

CONSTANT MaxTasks   \* Bound of the model: the greatest pool.

ASSUME PoolAssumption == MaxTasks \in Nat

VARIABLES
    poolSize,   \* How many tasks the pool has left for the algorithm.
    refused,    \* Main has been refused to wait.
    task        \* The status of each task, and of the call.

Main    == 0
Tasks   == 1 .. MaxTasks
Threads == {Main} \cup Tasks
NoTask  == Main

BatchInit ==
    /\ poolSize \in 0 .. MaxTasks
    /\ refused = FALSE
    /\ task = [t \in Threads |-> IF t = Main THEN "Submitted" ELSE "Free"]

FreeTasks == {t \in 1 .. poolSize : task[t] = "Free"}

\* Any free task is as good as another.
NewTask == CHOOSE t \in FreeTasks : TRUE

IsExecuting(t) == task[t] = "Submitted"
IsFinished(t) == task[t] \in {"Succeeded", "Failed"}
HasFailed(t) == task[t] = "Failed"

AreAllTaskFinished(batch) == \A i \in DOMAIN batch : IsFinished(batch[i])
HasExecutionError(batch) == \E i \in DOMAIN batch : HasFailed(batch[i])

\* Mutant: the loop over the batch stops one task early.
SubmitAllButLast(batch) ==
    [t \in Threads |->
        IF \E i \in 1 .. Len(batch) - 1 : batch[i] = t THEN "Submitted" ELSE task[t]]

SubmitAll(batch) ==
    [t \in Threads |-> IF \E i \in DOMAIN batch : batch[i] = t THEN "Submitted" ELSE task[t]]

Outcome(success) == IF success THEN "Succeeded" ELSE "Failed"

\* The function of t has been, or is to be, called and has not returned.
IsAlive(t) == task[t] \in {"Submitted", "Abandoned"}

\* What becomes of a task that is released.
Released(t) == IF IsAlive(t) THEN "Abandoned" ELSE "Free"

\* Mutant: a batch is released at the end of the function, not where it fails.
ReleaseOnlyOnSuccess(t, success, batch) ==
    [u \in Threads |->
        IF u = t THEN Outcome(success)
        ELSE IF success /\ \E i \in DOMAIN batch : batch[i] = u THEN Released(u)
        ELSE task[u]]

\* The function that t executes returns, and the destructor of its batch releases
\* the tasks of the batch, whatever has become of them.
ReturnAndRelease(t, success, batch) ==
    [u \in Threads |->
        IF u = t THEN Outcome(success)
        ELSE IF \E i \in DOMAIN batch : batch[i] = u THEN Released(u)
        ELSE task[u]]

\* A task has been released while it was queued or running, which happens only to a
\* call that was refused to wait.
IsAbandoned(t) == refused /\ task[t] = "Abandoned"

Statuses == {"Free", "Created", "Submitted", "Succeeded", "Failed", "Abandoned"}

BatchTypeOK ==
    /\ poolSize \in 0 .. MaxTasks
    /\ refused \in BOOLEAN
    /\ task \in [Threads -> Statuses]
=============================================================================
