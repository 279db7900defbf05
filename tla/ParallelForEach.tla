--------------------------- MODULE ParallelForEach ---------------------------
(***************************************************************************)
(* ParallelForEach calls a functor on every element of a range.  A range   *)
(* shorter than the cut-off is processed in a loop; of a longer one the    *)
(* second half becomes a task, and the first half is processed by a        *)
(* recursive call before the caller waits for the task.                    *)
(*                                                                         *)
(* The lambda of the task holds references into the frame of the call      *)
(* that made it, so each thread has its stack of frames here.  The first   *)
(* half of n elements has (n \div 2) + 1 of them: with a cut-off of 1 or 2 *)
(* it can be the whole range again, and the recursion ends only when the   *)
(* pool is used up.                                                        *)
(***************************************************************************)
EXTENDS TaskBatch

CONSTANTS
    MaxElements,   \* Bound of the model: the longest range.
    MaxCutOff      \* Bound of the model: the greatest cut-off.

ASSUME BoundsAssumption == MaxElements \in Nat /\ MaxCutOff \in Nat

VARIABLES
    size,      \* The number of elements of the range.
    cutOff,
    stack,     \* The frames of each thread, the innermost last.
    calls      \* How often the functor has been called on each element.

forVars == <<poolSize, refused, task, size, cutOff, stack, calls>>

Elements == 1 .. size

\* A call for the elements from begin up to, and without, end.
Frame(begin, end) == [begin |-> begin, end |-> end, task |-> NoTask]

ForInit ==
    /\ BatchInit
    /\ size \in 0 .. MaxElements
    /\ cutOff \in 1 .. MaxCutOff
    /\ stack = [t \in Threads |-> IF t = Main THEN <<Frame(1, size + 1)>> ELSE <<>>]
    /\ calls = [i \in Elements |-> 0]

Top(t) == stack[t][Len(stack[t])]
WithoutTop(t) == SubSeq(stack[t], 1, Len(stack[t]) - 1)

Entered(t) == IsExecuting(t) /\ Top(t).task = NoTask

\* Mutant: the loop includes the end.
UpToEnd(frame) == frame.begin .. frame.end

ElementsOf(frame) == frame.begin .. frame.end - 1
IsLong(frame) == frame.end - frame.begin >= cutOff

\* The top call of t returns.  Only the result of the outermost call of a task, or
\* of the main thread, reaches anybody: the one of a first half is ignored.
ReturnFromTop(t, success, batch) ==
    /\ stack' = [stack EXCEPT ![t] = WithoutTop(t)]
    /\ task' = [ReturnAndRelease(t, success, batch) EXCEPT
                    ![t] = IF Len(stack[t]) = 1 THEN @ ELSE "Submitted"]

ProcessSequentially(t) ==
    /\ Entered(t)
    /\ ~IsLong(Top(t))
    /\ calls' = [i \in Elements |->
                    IF i \in ElementsOf(Top(t)) THEN calls[i] + 1 ELSE calls[i]]
    /\ ReturnFromTop(t, TRUE, <<>>)
    /\ UNCHANGED <<poolSize, refused, size, cutOff>>

FailToSplit(t) ==
    /\ Entered(t)
    /\ IsLong(Top(t))
    /\ FreeTasks = {}
    /\ ReturnFromTop(t, FALSE, <<>>)
    /\ UNCHANGED <<poolSize, refused, size, cutOff, calls>>

\* Mutant: std::advance by one more.
MiddlePlusOne(frame) == frame.begin + (frame.end - frame.begin) \div 2 + 2

\* Where the first half ends.
Middle(frame) == frame.begin + (frame.end - frame.begin) \div 2 + 1

FirstHalf(frame) == Frame(frame.begin, Middle(frame))

\* What the lambda of the task does: a call for the second half.
SecondHalf(frame) == <<Frame(Middle(frame), frame.end)>>

\* The task is created and submitted, and the call for the first half begins.
Split(t) ==
    /\ Entered(t)
    /\ IsLong(Top(t))
    /\ FreeTasks # {}
    /\ stack' = [stack EXCEPT
            ![t] = WithoutTop(t) \o <<[Top(t) EXCEPT !.task = NewTask], FirstHalf(Top(t))>>,
            ![NewTask] = SecondHalf(Top(t))]
    /\ task' = SubmitAll(<<NewTask>>)
    /\ UNCHANGED <<poolSize, refused, size, cutOff, calls>>

\* Mutant: the function returns without waiting for its task.
ReturnEarly(t) ==
    /\ IsExecuting(t)
    /\ Top(t).task # NoTask
    /\ ReturnFromTop(t, ~HasExecutionError(<<Top(t).task>>), <<Top(t).task>>)
    /\ UNCHANGED <<poolSize, refused, size, cutOff, calls>>

\* WaitUntil is refused, whether or not the task has finished by now.
FailToWait ==
    /\ IsExecuting(Main)
    /\ Top(Main).task # NoTask
    /\ refused' = TRUE
    /\ ReturnFromTop(Main, FALSE, <<Top(Main).task>>)
    /\ UNCHANGED <<poolSize, size, cutOff, calls>>

\* The first half has returned, and WaitUntil returns true.
FinishSecondHalf(t) ==
    /\ IsExecuting(t)
    /\ Top(t).task # NoTask
    /\ LET batch == <<Top(t).task>>
       IN  /\ AreAllTaskFinished(batch)
           /\ ReturnFromTop(t, ~HasExecutionError(batch), batch)
    /\ UNCHANGED <<poolSize, refused, size, cutOff, calls>>

ForStep ==
    \E t \in Threads :
        \/ ProcessSequentially(t) \/ FailToSplit(t)
        \/ Split(t) \/ FinishSecondHalf(t)

ForNext == ForStep \/ FailToWait

\* A worker that can take a step of a task takes one; nobody need be refused to wait.
ForSpec == ForInit /\ [][ForNext]_forVars /\ WF_forVars(ForStep)

-----------------------------------------------------------------------------
(***************************************************************************)
(* Properties.                                                             *)
(***************************************************************************)

ForTypeOK ==
    /\ BatchTypeOK
    /\ size \in 0 .. MaxElements
    /\ cutOff \in 1 .. MaxCutOff
    /\ DOMAIN stack = Threads
    /\ \A t \in Threads : \A k \in DOMAIN stack[t] :
            stack[t][k] \in [begin : 1 .. size + 1, end : 1 .. size + 1, task : Threads]
    /\ calls \in [Elements -> Nat]

\* No element is processed twice, be it by two threads at once.
CalledAtMostOnce == \A i \in Elements : calls[i] <= 1

\* A task that executes a second half uses variables of the call that made it: that
\* call has not returned, unless it was refused to wait while the task was not done.
FramesOutliveTheirTasks ==
    \A t \in Tasks :
        task[t] # "Free" =>
            \/ \E u \in Threads : \E k \in DOMAIN stack[u] : stack[u][k].task = t
            \/ IsAbandoned(t)

\* What parallelFor.h promises: if the call returns true, every element has been
\* processed.
TrueMeansDone == task[Main] = "Succeeded" => \A i \in Elements : calls[i] = 1

\* With a cut-off that makes every half shorter, and a task for each element, a call
\* that is never refused to wait returns true, and every element has been processed
\* exactly once.
ForEachSucceeds ==
    cutOff >= 3 /\ poolSize >= size
        => <>(\/ refused
              \/ task[Main] = "Succeeded" /\ \A i \in Elements : calls[i] = 1)
=============================================================================
