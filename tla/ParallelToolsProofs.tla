------------------------- MODULE ParallelToolsProofs -------------------------
(***************************************************************************)
(* Proofs about the tools above the task system, for every pool, every     *)
(* range and cut-off, every storage and every sequence of objects:         *)
(* ParallelForEach, whose calls share the elements out and outlive their   *)
(* tasks; ParallelMergeSort, which gives its tasks back and leaves every   *)
(* element in order; and the storage of a task.  A call that is refused to *)
(* wait leaves tasks behind: the statements say where that matters.        *)
(***************************************************************************)
EXTENDS MCParallelTools, SequenceTheorems, FiniteSetTheorems, TLAPS

-----------------------------------------------------------------------------
(***************************************************************************)
(* ParallelForEach.                                                        *)
(***************************************************************************)

Frames == [begin : 1 .. size + 1, end : 1 .. size + 1, task : Threads]

ForTypes ==
    /\ BatchTypeOK
    /\ size \in 0 .. MaxElements
    /\ cutOff \in 1 .. MaxCutOff
    /\ stack \in [Threads -> Seq(Frames)]
    /\ calls \in [Elements -> Nat]

\* A thread has frames until it returns, and each but the innermost has made a task.
StacksAreCalls ==
    \A t \in Threads :
        /\ stack[t] # <<>> <=> IsAlive(t)
        /\ \A k \in 1 .. Len(stack[t]) - 1 : stack[t][k].task # NoTask

\* No element of a range that is still to be divided or processed has been processed,
\* and no two threads are about to process the same one.
RangesAreShared ==
    /\ \A t \in Threads : Entered(t) => \A i \in ElementsOf(Top(t)) : calls[i] = 0
    /\ \A t, u \in Threads :
            t # u /\ Entered(t) /\ Entered(u)
                => ElementsOf(Top(t)) \cap ElementsOf(Top(u)) = {}

\* The inductive invariant of ParallelForEach.
ForInv ==
    /\ ForTypes
    /\ StacksAreCalls
    /\ FramesOutliveTheirTasks
    /\ CalledAtMostOnce
    /\ RangesAreShared

-----------------------------------------------------------------------------
(***************************************************************************)
(* ParallelMergeSort, as far as its tasks go.                              *)
(***************************************************************************)

Allocated == {u \in Tasks : task[u] # "Free"}

Owns(t, u) == \E i \in DOMAIN batch[t] : batch[t][i] = u

BatchTypes ==
    /\ BatchTypeOK
    /\ DOMAIN storage = Tasks
    /\ batch \in [Threads -> Seq(Tasks)]

\* A thread with a batch is executing, and its range is one that is split; a task with
\* half a batch has not submitted it.
BatchesAreOfCallers ==
    /\ \A t \in Threads : batch[t] # <<>> => IsExecuting(t)
    /\ \A t \in Tasks : batch[t] # <<>> => ~IsSmall(t)
    /\ \A t \in Tasks : Len(batch[t]) < 2 =>
            \A i \in DOMAIN batch[t] : task[batch[t][i]] = "Created"

\* A task in a batch is allocated, and is in no other batch.
BatchesAreExclusive ==
    /\ \A t \in Threads : \A i \in DOMAIN batch[t] : task[batch[t][i]] # "Free"
    /\ \A t, u \in Threads : \A i \in DOMAIN batch[t] : \A j \in DOMAIN batch[u] :
            batch[t][i] = batch[u][j] => t = u

\* No set of tasks is held by its own members only: every allocated task goes back, over
\* those that made it, to the call.
NoIslands ==
    \A S \in SUBSET Allocated :
        S # {} => \E u \in S : \E t \in Threads \ S : Owns(t, u)

\* The inductive invariant of ParallelMergeSort that says who releases which task.
OwnersInv ==
    /\ BatchTypes
    /\ BatchesAreOfCallers
    /\ BatchesAreExclusive
    /\ NoIslands

\* The call has been refused to wait, and has returned before its task was done: the
\* only way out of the invariant, and there is none back.
CallIsLost == task[Main] = "Failed" /\ \E t \in Tasks : IsAbandoned(t)

-----------------------------------------------------------------------------
(***************************************************************************)
(* ParallelMergeSort: what it does to the elements.                        *)
(***************************************************************************)

\* The places where a key occurs.
PlacesOf(s, first, last, key) == {i \in first .. last : s[i] = key}

\* How far std::merge has come: all of out before k has been written and is in order,
\* nothing in it is greater than what is left of the halves, from i and from j, and
\* all together are the elements there were from the first to the last.
AreMerged(out, first, k, left, i, mid, right, j, last) ==
    /\ IsOrdered(out, first, k - 1) /\ IsOrdered(left, i, mid) /\ IsOrdered(right, j, last)
    /\ \A x \in first .. k - 1 :
        /\ \A y \in i .. mid : out[x] <= left[y]
        /\ \A y \in j .. last : out[x] <= right[y]
    /\ \A key \in Keys :
        Occurrences(out, first, k - 1, key) + Occurrences(left, i, mid, key)
            + Occurrences(right, j, last, key) = Occurrences(input, first, last, key)

\* One element of the right half is taken: what it leaves of the three sequences.
TakesRight(out, left, right, out2, left2, right2, first, k, i, mid, j, last) ==
    /\ first <= k /\ j <= last
    /\ AreMerged(out, first, k, left, i, mid, right, j, last)
    /\ \A x \in first .. k - 1 : out[x] \in Int
    /\ \A x \in i .. mid : left[x] \in Int
    /\ \A x \in j .. last : right[x] \in Int
    /\ i <= mid => right[j] <= left[i]
    /\ \A x \in first .. k - 1 : out2[x] = out[x]
    /\ out2[k] = right[j]
    /\ \A x \in i .. mid : left2[x] = left[x]
    /\ \A x \in j + 1 .. last : right2[x] = right[x]

\* One of the left half.
TakesLeft(out, left, right, out2, left2, right2, first, k, i, mid, j, last) ==
    /\ first <= k /\ i <= mid
    /\ AreMerged(out, first, k, left, i, mid, right, j, last)
    /\ \A x \in first .. k - 1 : out[x] \in Int
    /\ \A x \in i .. mid : left[x] \in Int
    /\ \A x \in j .. last : right[x] \in Int
    /\ j <= last => left[i] <= right[j]
    /\ \A x \in first .. k - 1 : out2[x] = out[x]
    /\ out2[k] = left[i]
    /\ \A x \in i + 1 .. mid : left2[x] = left[x]
    /\ \A x \in j .. last : right2[x] = right[x]

\* A task that has been submitted, and one that has handed its range over to its halves.
IsActive(t) == task[t] \in {"Submitted", "Succeeded", "Failed"}
Delegates(t) == Len(batch[t]) = 2 /\ IsActive(batch[t][1])

\* A task whose range is not in other hands.
Holds(t) == IsActive(t) /\ ~Delegates(t)

Left(t)  == storage[batch[t][1]]
Right(t) == storage[batch[t][2]]

SortTypes ==
    /\ SortTypeOK
    /\ \A t \in Tasks : storage[t].start + storage[t].range <= Len(input) + 1

\* Two tasks with half of the range each, both of them submitted or neither.
HalvesAreHalves ==
    \A t \in Tasks : Len(batch[t]) = 2 =>
        /\ batch[t][1] # batch[t][2]
        /\ \A i \in 1 .. 2 : task[batch[t][i]] = "Created" <=> ~Delegates(t)
        /\ Delegates(t) =>
            /\ Left(t).start = storage[t].start
            /\ Left(t).range = storage[t].range \div 2
            /\ Right(t).start = Left(t).start + Left(t).range
            /\ Right(t).range = storage[t].range - Left(t).range

\* The call has one task, for everything.
RootIsWhole ==
    batch[Main] # <<>> =>
        /\ Len(batch[Main]) = 1
        /\ IsActive(batch[Main][1])
        /\ Left(Main).start = 1 /\ Left(Main).range = Len(input)

PlacesIn(r) == r.start .. LastIndex(r)

\* No two tasks hold the same element.
HoldersAreDisjoint ==
    \A t, u \in Tasks : t # u /\ Holds(t) /\ Holds(u) =>
        \A i \in PlacesIn(storage[t]) : i \notin PlacesIn(storage[u])

\* Nothing has been changed before there is a task.
StartsWithInput == IsExecuting(Main) /\ batch[Main] = <<>> => data["container"] = input

\* A range that has still to be sorted or split is in the container, as it was.
UnsortedIsInput ==
    \A t \in Tasks : Holds(t) /\ task[t] = "Submitted" =>
        /\ storage[t].container = "container"
        /\ storage[t].maxRangeOrLevels = Len(input) \div Workers
        /\ \A i \in PlacesIn(storage[t]) : data["container"][i] = input[i]

\* Where the merge of a task's halves reads and writes.
ReadsLeft(t)  == Left(t).start + merged[t].left
ReadsRight(t) == Right(t).start + merged[t].right
Writes(t)     == Left(t).start + merged[t].left + merged[t].right

MergeAgrees(t) ==
    /\ merged[t].left <= Left(t).range /\ merged[t].right <= Right(t).range
    /\ AreMerged(data[MergeContainer(Left(t))], Left(t).start, Writes(t),
                 data[Left(t).container], ReadsLeft(t), LastIndex(Left(t)),
                 data[Right(t).container], ReadsRight(t), LastIndex(Right(t)))

MergesAgree ==
    \A t \in Tasks : merged[t] # Nothing =>
        Delegates(t) /\ HasSortedHalves(t) /\ MergeAgrees(t)

\* The inductive invariant of what the sort does to the elements.
SortInv ==
    /\ OwnersInv
    /\ SortTypes
    /\ HalvesAreHalves
    /\ RootIsWhole
    /\ StartsWithInput
    /\ HoldersAreDisjoint
    /\ UnsortedIsInput
    /\ MergesAgree
    /\ RangesAreSorted

\* What is left of it when the call has returned without its task.
LostInv ==
    /\ CallIsLost
    /\ SortTypes
    /\ RangesAreSorted

\* Where MAX_RANGE is even, the parity tells the container.
LevelsAgree ==
    \A t \in Tasks : task[t] = "Succeeded" =>
        (storage[t].container = "working_container" <=> storage[t].maxRangeOrLevels % 2 = 0)

\* The inductive invariant of the result.
LevelsInv ==
    /\ SortInv
    /\ Len(input) \div Workers \in MaxRanges
    /\ LevelsAgree
    /\ TrueMeansSorted

-----------------------------------------------------------------------------
(***************************************************************************)
(* The storage of a task.                                                  *)
(***************************************************************************)

Phases == {"Released", "Arguments", "ReadArguments", "Results", "ReadResults",
           "Lambda", "InLambda"}

Words == (0 .. MaxUses) \X Phases \X Nat \X (1 .. MaxObjectSize)
Objects == UNION {[1 .. n -> Words] : n \in ObjectSizes}

StorageTypes ==
    /\ StorageTypeOK
    /\ m_storage = [i \in DOMAIN m_storage |-> m_storage[i]]
    /\ written \in Seq([object : Objects, stored : BOOLEAN])
    /\ received \in Seq(Objects \cup {Unset})
    /\ lambda \in Objects \cup {Unset}

\* An object lies in a storage at an offset.
LiesIn(memory, object, offset) ==
    /\ Fits(offset, Len(object))
    /\ \A i \in 1 .. Len(object) : memory[offset + i - 1] = object[i]

\* The offsets at which a writer has tried to write its objects, and the one it is at.
OffsetFunctions == [1 .. Len(written) + 1 -> 0 .. StorageSize]

AreOffsets(off) ==
    /\ off[1] = 0
    /\ \A n \in DOMAIN written :
        LET object == written[n].object
        IN  /\ written[n].stored = Fits(off[n], Len(object))
            /\ off[n + 1] = IF written[n].stored THEN off[n] + Len(object) ELSE off[n]
            /\ off[n + 1] <= off[Len(written) + 1]
            /\ written[n].stored => LiesIn(m_storage, object, off[n])

\* The writer is after the objects it has stored; the reader, where the writer was
\* before the next object to be read.
OffsetsAgree ==
    \E off \in OffsetFunctions :
        /\ AreOffsets(off)
        /\ IsWriting => writerOffset = off[Len(written) + 1]
        /\ IsReading => /\ Len(received) <= Len(written)
                        /\ readerOffset = off[Len(received) + 1]

\* The lambda is in the storage until it is called, and in a variable then.
LambdaIsKept ==
    /\ phase = "Lambda" => lambda # Unset /\ LiesIn(m_storage, lambda, 0)
    /\ phase = "InLambda" => received = <<lambda>>

\* The inductive invariant of the storage.
StorageInv ==
    /\ StorageTypes
    /\ OffsetsAgree
    /\ LambdaIsKept
    /\ RoundTrip

ToolsInv ==
    /\ IsForEach => ForInv
    /\ IsSort => SortInv \/ LostInv
    /\ IsStorage => StorageInv

-----------------------------------------------------------------------------
(***************************************************************************)
(* ParallelForEach: proofs.                                                *)
(***************************************************************************)

\* A task that can be created is one of the pool, and free.
LEMMA NewTaskIsFree ==
    ASSUME poolSize \in 0 .. MaxTasks, FreeTasks # {}
    PROVE  NewTask \in Tasks /\ NewTask \in FreeTasks /\ task[NewTask] = "Free"
BY PoolAssumption DEF NewTask, FreeTasks, Tasks

\* The first n - 1 elements of a sequence that has n.
LEMMA AllButTheLast ==
    ASSUME NEW S, NEW s, NEW n \in Nat \ {0}, \A k \in 1 .. n : s[k] \in S
    PROVE  LET r == SubSeq(s, 1, n - 1)
           IN  /\ r \in Seq(S) /\ Len(r) = n - 1
               /\ \A k \in 1 .. n - 1 : r[k] = s[k]
               /\ r = <<>> <=> n = 1
<1> DEFINE r == SubSeq(s, 1, n - 1)
<1>1. /\ r \in Seq(S)
      /\ Len(r) = IF 1 <= n - 1 THEN n - 1 - 1 + 1 ELSE 0
      /\ \A k \in 1 .. n - 1 - 1 + 1 : r[k] = s[1 + k - 1]
  BY SubSeqProperties
<1> HIDE DEF r
<1>2. Len(r) = n - 1 /\ \A k \in 1 .. n - 1 : r[k] = s[k]
  BY <1>1
<1>3. r = <<>> <=> n = 1
  BY <1>1, <1>2, EmptySeq
<1> QED
  BY <1>1, <1>2, <1>3 DEF r

\* What remains of a stack when its last frame is taken off.
LEMMA FrontOfStack ==
    ASSUME NEW S, NEW s \in Seq(S), s # <<>>
    PROVE  LET r == SubSeq(s, 1, Len(s) - 1)
           IN  /\ s[Len(s)] \in S /\ Len(s) \in Nat \ {0}
               /\ r \in Seq(S) /\ Len(r) = Len(s) - 1
               /\ \A k \in 1 .. Len(s) - 1 : r[k] = s[k]
               /\ r = <<>> <=> Len(s) = 1
<1>1. Len(s) \in Nat \ {0}
  BY EmptySeq
<1>2. \A k \in 1 .. Len(s) : s[k] \in S
  BY ElementOfSeq
<1> DEFINE n == Len(s)
<1>3. n \in Nat \ {0} /\ (\A k \in 1 .. n : s[k] \in S) /\ s[n] \in S
  BY <1>1, <1>2
<1> HIDE DEF n
<1>4. LET r == SubSeq(s, 1, n - 1)
      IN  /\ r \in Seq(S) /\ Len(r) = n - 1
          /\ \A k \in 1 .. n - 1 : r[k] = s[k]
          /\ r = <<>> <=> n = 1
  BY <1>3, AllButTheLast
<1> QED
  BY <1>3, <1>4 DEF n

\* A stack of n frames in which the last is replaced by two.
Divided(s, n, a, b) == SubSeq(s, 1, n - 1) \o <<a, b>>

\* What Split makes of a stack is a stack, ...
LEMMA DividedIsStack ==
    ASSUME NEW S, NEW s \in Seq(S), NEW n \in Nat \ {0}, n = Len(s), NEW a \in S, NEW b \in S
    PROVE  Divided(s, n, a, b) \in Seq(S)
<1> DEFINE q == SubSeq(s, 1, n - 1)
           p == <<a, b>>
           r == Divided(s, n, a, b)
<1>1. \A k \in 1 .. n : s[k] \in S
  BY ElementOfSeq
<1>2. q \in Seq(S) /\ Len(q) = n - 1 /\ \A k \in 1 .. n - 1 : q[k] = s[k]
  BY <1>1, AllButTheLast
<1>3. p \in Seq(S) /\ Len(p) = 2 /\ p[1] = a /\ p[2] = b
  OBVIOUS
<1>4. r = q \o p
  BY DEF Divided
<1> HIDE DEF q, p, r
<1> QED
  BY <1>2, <1>3, <1>4, ConcatProperties DEF r

\* ... higher by one frame, ...
LEMMA DividedLength ==
    ASSUME NEW S, NEW s \in Seq(S), NEW n \in Nat \ {0}, n = Len(s), NEW a \in S, NEW b \in S
    PROVE  Len(Divided(s, n, a, b)) = n + 1
<1> DEFINE q == SubSeq(s, 1, n - 1)
           p == <<a, b>>
           r == Divided(s, n, a, b)
<1>1. \A k \in 1 .. n : s[k] \in S
  BY ElementOfSeq
<1>2. q \in Seq(S) /\ Len(q) = n - 1 /\ \A k \in 1 .. n - 1 : q[k] = s[k]
  BY <1>1, AllButTheLast
<1>3. p \in Seq(S) /\ Len(p) = 2 /\ p[1] = a /\ p[2] = b
  OBVIOUS
<1>4. r = q \o p
  BY DEF Divided
<1> HIDE DEF q, p, r
<1>5. Len(r) = Len(q) + Len(p)
  BY <1>2, <1>3, <1>4, ConcatProperties
<1> QED
  BY <1>2, <1>3, <1>5 DEF r

\* ... with the old frames below the last ...
LEMMA DividedFirst ==
    ASSUME NEW S, NEW s \in Seq(S), NEW n \in Nat \ {0}, n = Len(s), NEW a \in S, NEW b \in S,
           NEW j \in 1 .. n - 1
    PROVE  Divided(s, n, a, b)[j] = s[j]
<1> DEFINE q == SubSeq(s, 1, n - 1)
           p == <<a, b>>
           r == Divided(s, n, a, b)
<1>1. \A k \in 1 .. n : s[k] \in S
  BY ElementOfSeq
<1>2. q \in Seq(S) /\ Len(q) = n - 1 /\ \A k \in 1 .. n - 1 : q[k] = s[k]
  BY <1>1, AllButTheLast
<1>3. p \in Seq(S) /\ Len(p) = 2 /\ p[1] = a /\ p[2] = b
  OBVIOUS
<1>4. r = q \o p
  BY DEF Divided
<1> HIDE DEF q, p, r
<1>5. j \in 1 .. Len(q) + Len(p) /\ j <= Len(q)
  BY <1>2, <1>3
<1>6. r[j] = q[j]
  BY <1>2, <1>3, <1>4, <1>5, ConcatProperties
<1> QED
  BY <1>2, <1>6 DEF r

\* ... and the two new ones on top.
LEMMA DividedLast ==
    ASSUME NEW S, NEW s \in Seq(S), NEW n \in Nat \ {0}, n = Len(s), NEW a \in S, NEW b \in S
    PROVE  Divided(s, n, a, b)[n] = a /\ Divided(s, n, a, b)[n + 1] = b
<1> DEFINE q == SubSeq(s, 1, n - 1)
           p == <<a, b>>
           r == Divided(s, n, a, b)
<1>1. \A k \in 1 .. n : s[k] \in S
  BY ElementOfSeq
<1>2. q \in Seq(S) /\ Len(q) = n - 1 /\ \A k \in 1 .. n - 1 : q[k] = s[k]
  BY <1>1, AllButTheLast
<1>3. p \in Seq(S) /\ Len(p) = 2 /\ p[1] = a /\ p[2] = b
  OBVIOUS
<1>4. r = q \o p
  BY DEF Divided
<1> HIDE DEF q, p, r
<1>5. ASSUME NEW k \in 1 .. 2, NEW m, m = n - 1 + k PROVE r[m] = p[k]
  <2>1. m \in 1 .. Len(q) + Len(p) /\ ~(m <= Len(q)) /\ m - Len(q) = k
    BY <1>2, <1>3, <1>5
  <2> QED
    BY <1>2, <1>3, <1>4, <2>1, ConcatProperties
<1>6. n = n - 1 + 1 /\ n + 1 = n - 1 + 2
  OBVIOUS
<1>7. r[n] = p[1] /\ r[n + 1] = p[2]
  BY <1>5, <1>6
<1> QED
  BY <1>3, <1>7 DEF r

\* A call that returns is the innermost of its thread: its own task, if it made one, is
\* released, every other frame stays, and no thread enters a call.
LEMMA ReturnKeepsFrames ==
    ASSUME ForInv, NEW t \in Threads, IsExecuting(t), NEW success, NEW released,
           \/ released = <<>> /\ Top(t).task = NoTask
           \/ /\ released = <<Top(t).task>>
              /\ \/ IsFinished(Top(t).task)
                 \/ t = Main /\ Top(t).task # NoTask /\ refused',
           refused => refused', refused' \in BOOLEAN,
           ReturnFromTop(t, success, released), UNCHANGED <<poolSize, size, cutOff>>
    PROVE  /\ BatchTypeOK' /\ (stack \in [Threads -> Seq(Frames)])'
           /\ StacksAreCalls' /\ FramesOutliveTheirTasks'
           /\ \A u \in Threads : Entered(u)' => u # t /\ Entered(u) /\ Top(u)' = Top(u)
<1> DEFINE L == Len(stack[t])
           s == Top(t).task
           Gone(u) == \E i \in DOMAIN released : released[i] = u
<1>1. /\ stack[t] \in Seq(Frames) /\ stack[t] # <<>>
      /\ \A u \in Threads : task[u] \in Statuses
  BY DEF ForInv, ForTypes, StacksAreCalls, BatchTypeOK, IsExecuting, IsAlive
<1>2. /\ Top(t) \in Frames /\ L \in Nat \ {0} /\ s \in Threads
      /\ WithoutTop(t) \in Seq(Frames) /\ Len(WithoutTop(t)) = L - 1
      /\ \A k \in 1 .. L - 1 : WithoutTop(t)[k] = stack[t][k]
      /\ WithoutTop(t) = <<>> <=> L = 1
  <2>1. Top(t) \in Frames /\ L \in Nat \ {0}
    BY <1>1, FrontOfStack DEF Top
  <2>2. /\ WithoutTop(t) \in Seq(Frames) /\ Len(WithoutTop(t)) = L - 1
        /\ \A k \in 1 .. L - 1 : WithoutTop(t)[k] = stack[t][k]
        /\ WithoutTop(t) = <<>> <=> L = 1
    BY <1>1, FrontOfStack DEF WithoutTop
  <2> QED
    BY <2>1, <2>2 DEF Frames
<1>3. \A u \in Threads : Gone(u) => u = s /\ u # t /\ (IsFinished(u) \/ refused')
  BY DEF IsExecuting, IsFinished, NoTask
<1>4. /\ stack' \in [Threads -> Seq(Frames)]
      /\ stack'[t] = WithoutTop(t)
      /\ \A u \in Threads : u # t => stack'[u] = stack[u]
  BY <1>2 DEF ReturnFromTop, ForInv, ForTypes
<1>5. /\ task'[t] = IF L = 1 THEN Outcome(success) ELSE "Submitted"
      /\ \A u \in Threads : u # t => task'[u] = IF Gone(u) THEN Released(u) ELSE task[u]
      /\ BatchTypeOK'
  BY <1>1
     DEF ReturnFromTop, ReturnAndRelease, Released, Outcome, ForInv, ForTypes, BatchTypeOK, Statuses
<1>6. ~Gone(t)
  BY <1>3
<1> HIDE DEF Gone
<1>7. StacksAreCalls'
  <2> SUFFICES ASSUME NEW u \in Threads
               PROVE  /\ stack'[u] # <<>> <=> task'[u] \in {"Submitted", "Abandoned"}
                      /\ \A k \in 1 .. Len(stack'[u]) - 1 : stack'[u][k].task # NoTask
    BY DEF StacksAreCalls, IsAlive
  <2>1. CASE u = t
    <3>1. \A k \in 1 .. L - 1 : stack[t][k].task # NoTask
      BY DEF ForInv, StacksAreCalls
    <3> QED
      BY <2>1, <3>1, <1>2, <1>4, <1>5 DEF Outcome
  <2>2. CASE u # t
    BY <2>2, <1>4, <1>5 DEF ForInv, StacksAreCalls, IsAlive, Released
  <2> QED
    BY <2>1, <2>2
<1>8. FramesOutliveTheirTasks'
  <2> SUFFICES ASSUME NEW x \in Tasks, task'[x] # "Free", ~IsAbandoned(x)'
               PROVE  \E u \in Threads : \E k \in DOMAIN stack'[u] : stack'[u][k].task = x
    BY DEF FramesOutliveTheirTasks
  <2>0. x \in Threads /\ ~Gone(x)
    <3>1. x \in Threads
      BY DEF Threads
    <3>2. ASSUME Gone(x) PROVE FALSE
      <4>1. x # t /\ task'[x] = Released(x) /\ (IsFinished(x) \/ refused')
        BY <3>1, <3>2, <1>3, <1>5
      <4> QED
        BY <4>1 DEF Released, IsAlive, IsFinished, IsAbandoned
    <3> QED
      BY <3>1, <3>2
  <2>1. task[x] # "Free" /\ ~IsAbandoned(x)
    <3>1. CASE x = t
      BY <3>1 DEF IsExecuting, IsAbandoned
    <3>2. CASE x # t
      BY <2>0, <3>2, <1>5 DEF IsAbandoned
    <3> QED
      BY <3>1, <3>2
  <2>2. PICK u \in Threads : \E k \in DOMAIN stack[u] : stack[u][k].task = x
    BY <2>1 DEF ForInv, FramesOutliveTheirTasks
  <2>3. PICK k \in DOMAIN stack[u] : stack[u][k].task = x
    BY <2>2
  <2>4. CASE u # t
    BY <2>3, <2>4, <1>4
  <2>5. CASE u = t
    <3>1. s # x
      BY <2>0 DEF Gone, NoTask, Main, Tasks
    <3>2. k \in 1 .. L /\ k # L
      BY <2>3, <2>5, <3>1, <1>1, LenProperties DEF Top
    <3>3. k \in DOMAIN stack'[t] /\ stack'[t][k] = stack[t][k]
      BY <3>2, <1>2, <1>4, LenProperties
    <3> QED
      BY <2>3, <2>5, <3>3
  <2> QED
    BY <2>4, <2>5
<1>9. ASSUME NEW u \in Threads, Entered(u)'
      PROVE  u # t /\ Entered(u) /\ Top(u)' = Top(u)
  <2>1. task'[u] = "Submitted" /\ Top(u)' = stack'[u][Len(stack'[u])] /\ Top(u)'.task = NoTask
    BY <1>9 DEF Entered, IsExecuting, Top
  <2>2. u # t
    <3> SUFFICES ASSUME u = t PROVE FALSE
      OBVIOUS
    <3>1. L # 1 /\ L - 1 \in 1 .. L - 1
      BY <2>1, <1>2, <1>5 DEF Outcome
    <3>2. Top(t)' = stack[t][L - 1]
      BY <2>1, <3>1, <1>2, <1>4
    <3> QED
      BY <2>1, <3>1, <3>2 DEF ForInv, StacksAreCalls
  <2>3. stack'[u] = stack[u] /\ task[u] = "Submitted"
    BY <2>1, <2>2, <1>4, <1>5 DEF Released
  <2> QED
    BY <2>1, <2>2, <2>3 DEF Entered, IsExecuting, Top
<1> QED
  BY <1>4, <1>5, <1>7, <1>8, <1>9 DEF Frames

\* The sequential loop processes its elements for the first time.
LEMMA ProcessKeepsInv ==
    ASSUME ForInv, NEW t \in Threads, ProcessSequentially(t)
    PROVE  ForInv'
<1>1. IsExecuting(t) /\ Top(t).task = NoTask /\ Entered(t)
  BY DEF ProcessSequentially, Entered
<1>2. /\ BatchTypeOK' /\ (stack \in [Threads -> Seq(Frames)])'
      /\ StacksAreCalls' /\ FramesOutliveTheirTasks'
      /\ \A u \in Threads : Entered(u)' => u # t /\ Entered(u) /\ Top(u)' = Top(u)
  <2>1. ReturnFromTop(t, TRUE, <<>>) /\ UNCHANGED <<poolSize, refused, size, cutOff>>
    BY DEF ProcessSequentially
  <2>2. refused' \in BOOLEAN
    BY <2>1 DEF ForInv, ForTypes, BatchTypeOK
  <2> QED
    BY <1>1, <2>1, <2>2, ReturnKeepsFrames
<1>3. /\ Elements' = Elements /\ calls' \in [Elements -> Nat]
      /\ \A i \in Elements :
            calls'[i] = IF i \in ElementsOf(Top(t)) THEN calls[i] + 1 ELSE calls[i]
  BY DEF ProcessSequentially, ForInv, ForTypes, Elements
<1>4. ForTypes'
  BY <1>2, <1>3 DEF ProcessSequentially, ForInv, ForTypes
<1>5. CalledAtMostOnce'
  BY <1>1, <1>3 DEF CalledAtMostOnce, ForInv, ForTypes, RangesAreShared
<1>6. RangesAreShared'
  <2>1. ASSUME NEW u \in Threads, Entered(u)', NEW i \in ElementsOf(Top(u))'
        PROVE  calls'[i] = 0
    <3>1. Entered(u) /\ u # t /\ Top(u)' = Top(u)
      BY <1>2, <2>1
    <3>2. i \in ElementsOf(Top(u))
      BY <2>1, <3>1 DEF ElementsOf
    <3>3. calls[i] = 0 /\ i \notin ElementsOf(Top(t))
      BY <3>1, <3>2, <1>1 DEF ForInv, RangesAreShared
    <3>4. i \in Elements
      <4>1. Top(u) \in Frames
        BY <3>1, FrontOfStack
           DEF Entered, IsExecuting, IsAlive, ForInv, ForTypes, StacksAreCalls, Top
      <4> QED
        BY <3>2, <4>1 DEF Frames, ElementsOf, Elements, ForInv, ForTypes
    <3> QED
      BY <3>3, <3>4, <1>3
  <2>2. \A u, v \in Threads : u # v /\ Entered(u)' /\ Entered(v)'
            => (ElementsOf(Top(u)) \cap ElementsOf(Top(v)))' = {}
    BY <1>2 DEF ForInv, RangesAreShared, ElementsOf
  <2> QED
    BY <2>1, <2>2 DEF RangesAreShared
<1> QED
  BY <1>2, <1>4, <1>5, <1>6 DEF ForInv

\* A call that returns without having processed anything itself.
LEMMA ReturnKeepsInv ==
    ASSUME ForInv, NEW t \in Threads,
           FailToSplit(t) \/ FinishSecondHalf(t) \/ (t = Main /\ FailToWait)
    PROVE  ForInv'
<1>1. /\ UNCHANGED <<poolSize, size, cutOff, calls>>
      /\ BatchTypeOK' /\ (stack \in [Threads -> Seq(Frames)])'
      /\ StacksAreCalls' /\ FramesOutliveTheirTasks'
      /\ \A u \in Threads : Entered(u)' => u # t /\ Entered(u) /\ Top(u)' = Top(u)
  <2>0. refused \in BOOLEAN
    BY DEF ForInv, ForTypes, BatchTypeOK
  <2>1. CASE FailToSplit(t)
    BY <2>0, <2>1, ReturnKeepsFrames DEF FailToSplit, Entered
  <2>2. CASE FinishSecondHalf(t)
    <3> DEFINE released == <<Top(t).task>>
    <3>1. IsFinished(Top(t).task) /\ IsExecuting(t)
      BY <2>2 DEF FinishSecondHalf, AreAllTaskFinished
    <3>2. /\ ReturnFromTop(t, ~HasExecutionError(released), released)
          /\ UNCHANGED <<poolSize, refused, size, cutOff, calls>>
      BY <2>2 DEF FinishSecondHalf
    <3> QED
      BY <2>0, <3>1, <3>2, ReturnKeepsFrames
  <2>3. CASE t = Main /\ FailToWait
    BY <2>3, ReturnKeepsFrames DEF FailToWait
  <2> QED
    BY <2>1, <2>2, <2>3
<1>2. ForTypes' /\ CalledAtMostOnce'
  BY <1>1 DEF ForInv, ForTypes, CalledAtMostOnce, Elements
<1>3. RangesAreShared'
  BY <1>1 DEF ForInv, RangesAreShared, ElementsOf
<1> QED
  BY <1>1, <1>2, <1>3 DEF ForInv

\* Where a long range is split: inside it, behind at least one element.
LEMMA MiddleIsInside ==
    ASSUME ForTypes, NEW f \in Frames, IsLong(f)
    PROVE  Middle(f) \in Int /\ f.begin < Middle(f) /\ Middle(f) <= f.end
<1>1. f.begin \in Nat /\ f.end \in Nat /\ cutOff \in Nat \ {0} /\ f.end - f.begin >= 1
  BY BoundsAssumption DEF ForTypes, Frames, IsLong
<1> QED
  BY <1>1 DEF Middle

\* The halves share the elements of the range out between the task and the call.
LEMMA SplitKeepsInv ==
    ASSUME ForInv, NEW t \in Threads, Split(t)
    PROVE  ForInv'
<1>0. stack[t] \in Seq(Frames) /\ stack[t] # <<>>
  BY DEF Split, Entered, ForInv, ForTypes, StacksAreCalls, IsExecuting, IsAlive
<1> PICK L \in Nat \ {0} : L = Len(stack[t])
  BY <1>0, EmptySeq
<1> DEFINE own == [Top(t) EXCEPT !.task = NewTask]
           first == FirstHalf(Top(t))
           second == Frame(Middle(Top(t)), Top(t).end)
           mid == Middle(Top(t))
<1>1. /\ task[t] = "Submitted" /\ Top(t).task = NoTask /\ stack[t] # <<>>
      /\ stack[t] \in Seq(Frames) /\ Entered(t)
      /\ NewTask \in Tasks /\ task[NewTask] = "Free" /\ NewTask \in Threads /\ NewTask # t
  BY NewTaskIsFree
     DEF Split, Entered, IsExecuting, IsAlive, ForInv, ForTypes, BatchTypeOK, StacksAreCalls,
         Threads
<1>2. /\ Top(t) \in Frames /\ L \in Nat \ {0}
      /\ mid \in Int /\ Top(t).begin < mid /\ mid <= Top(t).end
  BY <1>1, FrontOfStack, MiddleIsInside DEF Top, Split, ForInv
<1>3. own \in Frames /\ first \in Frames /\ second \in Frames
  <2>1. /\ Top(t).begin \in 1 .. size + 1 /\ Top(t).end \in 1 .. size + 1
        /\ mid \in 1 .. size + 1 /\ NoTask \in Threads
    BY <1>2 DEF Frames, ForInv, ForTypes, NoTask, Threads
  <2> QED
    BY <1>1, <1>2, <2>1 DEF Frames, FirstHalf, Frame
<1>4. /\ stack' \in [Threads -> Seq(Frames)]
      /\ stack'[NewTask] = <<second>>
      /\ Len(stack'[t]) = L + 1 /\ stack'[t] # <<>>
      /\ \A k \in 1 .. L - 1 : stack'[t][k] = stack[t][k]
      /\ stack'[t][L] = own /\ stack'[t][L + 1] = first
      /\ \A u \in Threads \ {t, NewTask} : stack'[u] = stack[u]
  <2> DEFINE r == WithoutTop(t) \o <<own, first>>
  <2>1. /\ r \in Seq(Frames) /\ Len(r) = L + 1 /\ r # <<>>
        /\ \A k \in 1 .. L - 1 : r[k] = stack[t][k]
        /\ r[L] = own /\ r[L + 1] = first
    <3> HIDE DEF own, first
    <3>1. r = Divided(stack[t], L, own, first)
      BY DEF WithoutTop, Divided
    <3>2. stack[t] \in Seq(Frames) /\ L = Len(stack[t]) /\ own \in Frames /\ first \in Frames
      BY <1>1, <1>3
    <3> HIDE DEF r
    <3>3. r \in Seq(Frames) /\ Len(r) = L + 1 /\ r # <<>>
      <4>1. r \in Seq(Frames)
        BY <3>1, <3>2, DividedIsStack
      <4>2. Len(r) = L + 1
        BY <3>1, <3>2, DividedLength
      <4> QED
        BY <4>1, <4>2, EmptySeq
    <3>4. r[L] = own /\ r[L + 1] = first
      BY <3>1, <3>2, DividedLast
    <3>5. \A k \in 1 .. L - 1 : r[k] = stack[t][k]
      BY <3>1, <3>2, DividedFirst
    <3> QED
      BY <3>3, <3>4, <3>5
  <2>2. <<second>> \in Seq(Frames)
    BY <1>3
  <2>3. stack' = [stack EXCEPT ![t] = r, ![NewTask] = <<second>>]
    BY DEF Split, SecondHalf
  <2> HIDE DEF r, second
  <2>4. /\ stack' \in [Threads -> Seq(Frames)]
        /\ stack'[t] = r /\ stack'[NewTask] = <<second>>
        /\ \A u \in Threads \ {t, NewTask} : stack'[u] = stack[u]
    BY <2>1, <2>2, <2>3, <1>1 DEF ForInv, ForTypes
  <2> QED
    BY <2>1, <2>4
<1>5. /\ BatchTypeOK' /\ task'[NewTask] = "Submitted"
      /\ \A u \in Threads : u # NewTask => task'[u] = task[u]
  BY <1>1 DEF Split, SubmitAll, ForInv, ForTypes, BatchTypeOK, Statuses
<1>6. UNCHANGED <<refused, size, cutOff, calls>> /\ Elements' = Elements /\ Frames' = Frames
  BY DEF Split, Elements, Frames
<1>7. ForTypes' /\ CalledAtMostOnce'
  BY <1>4, <1>5, <1>6 DEF ForInv, ForTypes, CalledAtMostOnce
<1> HIDE DEF own, first, second
<1>8. own.task = NewTask /\ NewTask # NoTask
  BY <1>1, <1>2 DEF own, Frames, Tasks, NoTask, Main
<1>9. StacksAreCalls'
  <2> SUFFICES ASSUME NEW u \in Threads
               PROVE  /\ stack'[u] # <<>> <=> task'[u] \in {"Submitted", "Abandoned"}
                      /\ \A k \in 1 .. Len(stack'[u]) - 1 : stack'[u][k].task # NoTask
    BY DEF StacksAreCalls, IsAlive
  <2>1. CASE u = NewTask
    BY <2>1, <1>4, <1>5
  <2>2. CASE u = t
    <3>1. \A k \in 1 .. L - 1 : stack[t][k].task # NoTask
      BY DEF ForInv, StacksAreCalls
    <3>2. ASSUME NEW k \in 1 .. Len(stack'[t]) - 1 PROVE stack'[t][k].task # NoTask
      <4>1. k \in 1 .. L
        BY <3>2, <1>2, <1>4
      <4>2. CASE k = L
        BY <4>2, <1>4, <1>8
      <4>3. CASE k # L
        <5>1. k \in 1 .. L - 1
          BY <4>1, <4>3, <1>2
        <5> QED
          BY <5>1, <3>1, <1>4
      <4> QED
        BY <4>2, <4>3
    <3> QED
      BY <2>2, <3>2, <1>1, <1>4, <1>5
  <2>3. CASE u \notin {t, NewTask}
    BY <2>3, <1>4, <1>5 DEF ForInv, StacksAreCalls, IsAlive
  <2> QED
    BY <2>1, <2>2, <2>3
<1>10. FramesOutliveTheirTasks'
  <2> SUFFICES ASSUME NEW x \in Tasks, task'[x] # "Free", ~IsAbandoned(x)'
               PROVE  \E u \in Threads : \E k \in DOMAIN stack'[u] : stack'[u][k].task = x
    BY DEF FramesOutliveTheirTasks
  <2>0. DOMAIN stack'[t] = 1 .. L + 1
    BY <1>4, LenProperties
  <2>1. CASE x = NewTask
    <3>1. L \in DOMAIN stack'[t]
      BY <2>0, <1>2
    <3> QED
      BY <2>1, <3>1, <1>4, <1>8
  <2>2. CASE x # NewTask
    <3>1. task[x] # "Free" /\ ~IsAbandoned(x) /\ x # NoTask
      BY <2>2, <1>5, <1>6 DEF Tasks, Threads, NoTask, Main, IsAbandoned
    <3>2. PICK u \in Threads : \E k \in DOMAIN stack[u] : stack[u][k].task = x
      BY <3>1 DEF ForInv, FramesOutliveTheirTasks
    <3>3. PICK k \in DOMAIN stack[u] : stack[u][k].task = x
      BY <3>2
    <3>4. CASE u = t
      <4>1. k \in 1 .. L /\ k # L
        BY <3>1, <3>3, <3>4, <1>1, LenProperties DEF Top
      <4>2. k \in DOMAIN stack'[t] /\ stack'[t][k].task = x
        BY <4>1, <2>0, <3>3, <3>4, <1>2, <1>4
      <4> QED
        BY <4>2
    <3>5. u # NewTask
      <4>1. stack[NewTask] = <<>>
        BY <1>1 DEF ForInv, StacksAreCalls, IsAlive
      <4> QED
        BY <3>3, <4>1
    <3> QED
      BY <3>3, <3>4, <3>5, <1>4
  <2> QED
    BY <2>1, <2>2
<1>11. RangesAreShared'
  <2>0. PICK n \in Threads : n = NewTask
    BY <1>1
  <2>1. /\ Top(t)' = first /\ Top(n)' = second
        /\ \A u \in Threads \ {t, n} : Top(u)' = Top(u) /\ (Entered(u)' <=> Entered(u))
    <3>1. Top(t)' = first
      BY <1>2, <1>4 DEF Top
    <3>2. Top(n)' = second
      BY <2>0, <1>4 DEF Top
    <3>3. \A u \in Threads \ {t, n} : Top(u)' = Top(u) /\ (Entered(u)' <=> Entered(u))
      BY <2>0, <1>4, <1>5 DEF Top, Entered, IsExecuting
    <3> QED
      BY <3>1, <3>2, <3>3
  <2>2. /\ ElementsOf(first) = Top(t).begin .. mid - 1
        /\ ElementsOf(second) = mid .. Top(t).end - 1
        /\ ElementsOf(Top(t)) = Top(t).begin .. Top(t).end - 1
    BY DEF first, second, FirstHalf, Frame, ElementsOf
  <2> HIDE DEF mid
  <2>3. /\ Top(t).begin \in Nat /\ Top(t).end \in Nat
    BY <1>2 DEF Frames, ForInv, ForTypes
  <2>4. /\ ElementsOf(first) \subseteq ElementsOf(Top(t))
        /\ ElementsOf(second) \subseteq ElementsOf(Top(t))
        /\ ElementsOf(first) \cap ElementsOf(second) = {}
    BY <1>2, <2>2, <2>3
  <2>5. ASSUME NEW u \in Threads, Entered(u)', NEW i \in ElementsOf(Top(u))'
        PROVE  calls'[i] = 0
    <3>1. CASE u \in {t, n}
      <4>1. i \in ElementsOf(Top(t))
        BY <2>1, <2>4, <2>5, <3>1 DEF ElementsOf
      <4> QED
        BY <4>1, <1>1, <1>6 DEF ForInv, RangesAreShared
    <3>2. CASE u \notin {t, n}
      BY <2>1, <2>5, <3>2, <1>6 DEF ForInv, RangesAreShared, ElementsOf
    <3> QED
      BY <3>1, <3>2
  <2>6. ASSUME NEW u \in Threads, NEW v \in Threads, u # v, Entered(u)', Entered(v)'
        PROVE  (ElementsOf(Top(u)) \cap ElementsOf(Top(v)))' = {}
    <3> DEFINE old(w) == IF w = n THEN t ELSE w
    <3>1. \A w \in Threads : Entered(w)' =>
              /\ old(w) \in Threads /\ Entered(old(w))
              /\ ElementsOf(Top(w))' \subseteq ElementsOf(Top(old(w)))
      <4> SUFFICES ASSUME NEW w \in Threads, Entered(w)'
                   PROVE  /\ old(w) \in Threads /\ Entered(old(w))
                          /\ ElementsOf(Top(w))' \subseteq ElementsOf(Top(old(w)))
        OBVIOUS
      <4>1. CASE w \in {t, n}
        BY <4>1, <1>1, <2>1, <2>4 DEF ElementsOf
      <4>2. CASE w \notin {t, n}
        BY <4>2, <2>1 DEF ElementsOf
      <4> QED
        BY <4>1, <4>2
    <3>2. CASE old(u) # old(v)
      BY <3>1, <3>2, <2>6 DEF ForInv, RangesAreShared
    <3>3. CASE old(u) = old(v)
      <4>1. {u, v} = {t, n}
        BY <3>3, <2>6
      <4> QED
        BY <4>1, <2>1, <2>4, <2>6 DEF ElementsOf
    <3> QED
      BY <3>2, <3>3
  <2> QED
    BY <2>5, <2>6 DEF RangesAreShared
<1> QED
  BY <1>7, <1>9, <1>10, <1>11 DEF ForInv

\* The first call is about to begin: it has every element before it.
LEMMA ForInitInv == ForInit => ForInv
<1> SUFFICES ASSUME ForInit PROVE ForInv
  OBVIOUS
<1>1. Main \in Threads /\ Main \notin Tasks /\ NoTask = Main
  BY DEF Main, Threads, Tasks, NoTask
<1>2. size \in Nat /\ Frame(1, size + 1) \in Frames
  BY <1>1, BoundsAssumption DEF ForInit, Frame, Frames
<1>3. stack \in [Threads -> Seq(Frames)]
  BY <1>2 DEF ForInit
<1>4. ForTypes
  BY <1>3 DEF ForTypes, ForInit, BatchInit, BatchTypeOK, Statuses
<1>5. StacksAreCalls
  BY <1>1 DEF StacksAreCalls, ForInit, BatchInit, IsAlive
<1>6. FramesOutliveTheirTasks /\ CalledAtMostOnce
  BY <1>1 DEF FramesOutliveTheirTasks, CalledAtMostOnce, ForInit, BatchInit, Threads
<1>7. \A t \in Threads : Entered(t) => t = Main
  BY DEF Entered, IsExecuting, ForInit, BatchInit
<1>8. ElementsOf(Top(Main)) \subseteq Elements
  <2>1. Top(Main) = Frame(1, size + 1)
    BY <1>1 DEF Top, ForInit
  <2> QED
    BY <2>1, <1>2 DEF ElementsOf, Elements, Frame
<1>9. RangesAreShared
  BY <1>7, <1>8 DEF RangesAreShared, ForInit
<1> QED
  BY <1>4, <1>5, <1>6, <1>9 DEF ForInv

\* The invariant holds on, whichever thread takes a step.
LEMMA ForNextInv == ForInv /\ [ForNext]_forVars => ForInv'
<1>1. ASSUME ForInv, ForNext PROVE ForInv'
  <2>1. Main \in Threads
    BY DEF Main, Threads
  <2> QED
    BY <1>1, <2>1, ProcessKeepsInv, ReturnKeepsInv, SplitKeepsInv DEF ForNext, ForStep
<1>2. ASSUME ForInv, UNCHANGED forVars PROVE ForInv'
  <2>1. UNCHANGED <<poolSize, refused, task, size, cutOff, stack, calls>>
    BY <1>2 DEF forVars
  <2>2. ForTypes'
    BY <1>2, <2>1 DEF ForInv, ForTypes, BatchTypeOK, Elements, Frames
  <2>3. StacksAreCalls' /\ FramesOutliveTheirTasks' /\ CalledAtMostOnce'
    BY <1>2, <2>1
       DEF ForInv, StacksAreCalls, IsAlive, FramesOutliveTheirTasks, IsAbandoned,
           CalledAtMostOnce, Elements
  <2>4. RangesAreShared'
    BY <1>2, <2>1 DEF ForInv, RangesAreShared, Entered, IsExecuting, Top, ElementsOf
  <2> QED
    BY <2>2, <2>3, <2>4 DEF ForInv
<1> QED
  BY <1>1, <1>2

\* The ranges of the calls that are about to begin share the elements out
\* (ParallelForEach), for every range, cut-off and pool.
THEOREM ForInvCorrect == ForSpec => []ForInv
BY ForInitInv, ForNextInv, PTL DEF ForSpec

\* The functor is called at most once on every element, whatever the order of the tasks
\* and whichever of them cannot be created.
THEOREM CalledAtMostOnceCorrect == ForSpec => []CalledAtMostOnce
<1>1. ForInv => CalledAtMostOnce
  BY DEF ForInv
<1> QED
  BY <1>1, ForInvCorrect, PTL

\* The call that made a task is there as long as the task, unless that call was refused to
\* wait for it (parallelFor.h): otherwise the references that the task's lambda holds stay
\* valid, for every range, cut-off and pool.
THEOREM FramesOutliveTheirTasksCorrect == ForSpec => []FramesOutliveTheirTasks
<1>1. ForInv => FramesOutliveTheirTasks
  BY DEF ForInv
<1> QED
  BY <1>1, ForInvCorrect, PTL

-----------------------------------------------------------------------------
(***************************************************************************)
(* ParallelMergeSort: proofs.                                              *)
(***************************************************************************)

\* A function that returns gives back the tasks of its batch, which have no batch of
\* their own any more.
LEMMA ReturnKeepsOwners ==
    ASSUME OwnersInv, NEW t \in Threads, NEW success, Return(t, success),
           IsExecuting(t),
           \A i \in DOMAIN batch[t] : ~IsAlive(batch[t][i]),
           poolSize' = poolSize, refused' \in BOOLEAN,
           DOMAIN storage' = Tasks, \A u \in Tasks : u # t => storage'[u] = storage[u]
    PROVE  OwnersInv'
<1> DEFINE B == batch[t]
<1>1. /\ \A u \in Threads : task[u] \in Statuses
      /\ B \in Seq(Tasks) /\ \A i \in DOMAIN B : B[i] \in Tasks
      /\ Tasks \subseteq Threads
  BY ElementOfSeq, LenProperties DEF OwnersInv, BatchTypes, BatchTypeOK, Threads
<1>2. /\ task'[t] \in {"Succeeded", "Failed"}
      /\ \A u \in Threads : u # t => task'[u] = IF Owns(t, u) THEN "Free" ELSE task[u]
      /\ BatchTypeOK'
  BY <1>1
     DEF Return, ReturnAndRelease, Released, Outcome, Owns, OwnersInv, BatchTypes, BatchTypeOK,
         Statuses
<1>3. /\ batch' \in [Threads -> Seq(Tasks)] /\ batch'[t] = <<>>
      /\ \A u \in Threads : u # t => batch'[u] = batch[u]
  BY EmptySeq DEF Return, OwnersInv, BatchTypes
<1>4. \A u \in Threads : Owns(t, u) => ~IsExecuting(u) /\ u # t /\ batch[u] = <<>>
  BY <1>1 DEF Owns, OwnersInv, BatchesAreOfCallers, IsExecuting, IsAlive
<1>5. \A u \in Threads : \A i \in DOMAIN batch'[u] :
            u # t /\ i \in DOMAIN batch[u] /\ batch'[u][i] = batch[u][i]
  BY <1>3
<1>6. BatchTypes'
  BY <1>2, <1>3 DEF BatchTypes
<1>7. ASSUME NEW u \in Threads, NEW i \in DOMAIN batch'[u]
      PROVE  /\ batch[u][i] \in Threads /\ ~Owns(t, batch[u][i])
             /\ batch[u][i] # t => task'[batch[u][i]] = task[batch[u][i]]
  <2>1. u # t /\ i \in DOMAIN batch[u] /\ batch[u][i] \in Tasks
    BY <1>5, <1>7, ElementOfSeq, LenProperties DEF OwnersInv, BatchTypes
  <2>2. ~Owns(t, batch[u][i])
    BY <2>1 DEF Owns, OwnersInv, BatchesAreExclusive
  <2> QED
    BY <2>1, <2>2, <1>1, <1>2
<1> HIDE DEF B
<1>8. BatchesAreOfCallers'
  <2>1. ASSUME NEW u \in Threads, batch'[u] # <<>> PROVE task'[u] = "Submitted"
    <3>1. u # t /\ batch[u] # <<>>
      BY <1>3, <2>1
    <3> QED
      BY <3>1, <1>2, <1>4 DEF OwnersInv, BatchesAreOfCallers, IsExecuting
  <2>2. ASSUME NEW u \in Tasks, batch'[u] # <<>> PROVE ~IsSmall(u)'
    <3>1. u # t /\ batch[u] # <<>>
      BY <1>1, <1>3, <2>2
    <3> QED
      BY <3>1, <2>2 DEF OwnersInv, BatchesAreOfCallers, IsSmall
  <2>3. ASSUME NEW u \in Tasks, Len(batch'[u]) < 2, NEW i \in DOMAIN batch'[u]
        PROVE  task'[batch'[u][i]] = "Created"
    <3>1. u # t /\ batch'[u] = batch[u] /\ task[batch[u][i]] = "Created"
      BY <1>1, <1>3, <1>5, <2>3 DEF OwnersInv, BatchesAreOfCallers
    <3>2. batch[u][i] # t
      BY <3>1 DEF IsExecuting
    <3> QED
      BY <1>1, <1>7, <2>3, <3>1, <3>2
  <2> QED
    BY <2>1, <2>2, <2>3 DEF BatchesAreOfCallers, IsExecuting
<1>9. BatchesAreExclusive'
  <2>1. ASSUME NEW u \in Threads, NEW i \in DOMAIN batch'[u]
        PROVE  task'[batch'[u][i]] # "Free"
    <3>1. batch'[u][i] = batch[u][i] /\ task[batch[u][i]] # "Free"
      BY <1>5, <2>1 DEF OwnersInv, BatchesAreExclusive
    <3> QED
      BY <1>2, <1>7, <2>1, <3>1
  <2> QED
    BY <2>1, <1>5 DEF OwnersInv, BatchesAreExclusive
<1>10. NoIslands'
  <2> SUFFICES ASSUME NEW S \in SUBSET Allocated', S # {}
               PROVE  \E u \in S : \E v \in Threads \ S : Owns(v, u)'
    BY DEF NoIslands
  <2>1. \A u \in S : u \in Tasks /\ u \in Threads /\ ~Owns(t, u) /\ task[u] # "Free"
    BY <1>1, <1>2, <1>4 DEF Allocated, IsExecuting
  <2>2. PICK u \in S : \E v \in Threads \ S : Owns(v, u)
    BY <2>1 DEF OwnersInv, NoIslands, Allocated
  <2>3. PICK v \in Threads \ S : Owns(v, u)
    BY <2>2
  <2>4. v # t /\ batch'[v] = batch[v]
    BY <2>1, <2>3, <1>3
  <2> QED
    BY <2>3, <2>4 DEF Owns
<1> QED
  BY <1>6, <1>8, <1>9, <1>10 DEF OwnersInv

\* The steps in which a function, or the call, returns.
LEMMA ReturningStepKeepsOwners ==
    ASSUME OwnersInv,
           \/ FailToStart \/ FinishSorting
           \/ FailToFinish /\ \A i \in DOMAIN batch[Main] : ~IsAlive(batch[Main][i])
           \/ \E t \in Tasks : \/ SortSequentially(t) \/ FailToCreateHalf(t)
                              \/ MergeHalves(t) \/ FailAfterHalves(t)
    PROVE  OwnersInv'
<1> USE DEF IsExecuting
<1>1. Main \in Threads /\ Main \notin Tasks /\ Tasks \subseteq Threads /\ DOMAIN storage = Tasks
      /\ refused \in BOOLEAN
  BY DEF Main, Threads, Tasks, OwnersInv, BatchTypes, BatchTypeOK
<1>2. CASE FailToStart
  <2>1. Return(Main, FALSE) /\ \A i \in DOMAIN batch[Main] : ~IsAlive(batch[Main][i])
    <3>1. DOMAIN batch[Main] = {}
      BY <1>2 DEF FailToStart
    <3> QED
      BY <1>2, <3>1 DEF FailToStart
  <2> QED
    BY <1>1, <1>2, <2>1, ReturnKeepsOwners DEF FailToStart
<1>3. CASE FinishSorting
  <2>1. PICK success : Return(Main, success)
    BY <1>3 DEF FinishSorting
  <2>2. \A i \in DOMAIN batch[Main] : ~IsAlive(batch[Main][i])
    BY <1>3 DEF FinishSorting, AreAllTaskFinished, IsFinished, IsAlive
  <2> QED
    BY <1>1, <1>3, <2>1, <2>2, ReturnKeepsOwners DEF FinishSorting
<1>4. ASSUME NEW t \in Tasks, SortSequentially(t) PROVE OwnersInv'
  <2>1. batch[t] = <<>>
    BY <1>1, <1>4 DEF SortSequentially, OwnersInv, BatchesAreOfCallers
  <2>2. Return(t, TRUE) /\ \A i \in DOMAIN batch[t] : ~IsAlive(batch[t][i])
    <3>1. DOMAIN batch[t] = {}
      BY <2>1
    <3> QED
      BY <1>4, <3>1 DEF SortSequentially
  <2>3. DOMAIN storage' = Tasks /\ \A u \in Tasks : u # t => storage'[u] = storage[u]
    BY <1>1, <1>4 DEF SortSequentially
  <2> QED
    BY <1>1, <1>4, <2>2, <2>3, ReturnKeepsOwners DEF SortSequentially
<1>5. ASSUME NEW t \in Tasks, FailToCreateHalf(t) PROVE OwnersInv'
  <2>1. \A i \in DOMAIN batch[t] : ~IsAlive(batch[t][i])
    BY <1>5 DEF FailToCreateHalf, OwnersInv, BatchesAreOfCallers, IsAlive
  <2> QED
    BY <1>1, <1>5, <2>1, ReturnKeepsOwners DEF FailToCreateHalf
<1>6. ASSUME NEW t \in Tasks, MergeHalves(t) \/ FailAfterHalves(t) PROVE OwnersInv'
  <2>1. Len(batch[t]) = 2 /\ batch[t] # <<>> /\ IsExecuting(t)
    <3>1. Len(batch[t]) = 2
      BY <1>6 DEF MergeHalves, FailAfterHalves, HasSortedHalves
    <3>2. batch[t] # <<>>
      BY <3>1, EmptySeq
    <3> QED
      BY <1>1, <3>1, <3>2 DEF OwnersInv, BatchesAreOfCallers
  <2>2. \A i \in DOMAIN batch[t] : ~IsAlive(batch[t][i])
    BY <1>6 DEF MergeHalves, FailAfterHalves, HasSortedHalves, AreAllTaskFinished, IsFinished, IsAlive
  <2>3. PICK success : Return(t, success)
    BY <1>6 DEF MergeHalves, FailAfterHalves, HasSortedHalves
  <2>4. /\ poolSize' = poolSize /\ refused' = refused /\ DOMAIN storage' = Tasks
        /\ \A u \in Tasks : u # t => storage'[u] = storage[u]
    BY <1>1, <1>6 DEF MergeHalves, FailAfterHalves, HasSortedHalves
  <2> QED
    BY <1>1, <2>1, <2>2, <2>3, <2>4, ReturnKeepsOwners
<1>7. CASE FailToFinish /\ \A i \in DOMAIN batch[Main] : ~IsAlive(batch[Main][i])
  BY <1>1, <1>7, ReturnKeepsOwners DEF FailToFinish
<1> QED
  BY <1>2, <1>3, <1>4, <1>5, <1>6, <1>7

\* A new task belongs to whoever has created it, and owns nothing yet.
LEMMA NewTaskKeepsOwners ==
    ASSUME OwnersInv, NEW t \in Threads, IsExecuting(t), FreeTasks # {},
           t \in Tasks => ~IsSmall(t),
           NEW new, new = NewTask, NEW status \in {"Created", "Submitted"},
           t \in Tasks => status = "Created",
           batch' = [batch EXCEPT ![t] = Append(@, new)],
           task' = [task EXCEPT ![new] = status],
           poolSize' = poolSize, refused' = refused,
           DOMAIN storage' = Tasks, \A u \in Tasks : u # new => storage'[u] = storage[u]
    PROVE  OwnersInv'
<1>1. /\ new \in Tasks /\ task[new] = "Free" /\ new # t /\ new \in Threads
      /\ batch[new] = <<>> /\ Tasks \subseteq Threads
  BY NewTaskIsFree
     DEF OwnersInv, BatchTypes, BatchTypeOK, BatchesAreOfCallers, IsExecuting, Threads
<1>2. /\ BatchTypeOK' /\ task'[new] = status
      /\ \A u \in Threads : u # new => task'[u] = task[u]
  BY <1>1 DEF OwnersInv, BatchTypes, BatchTypeOK, Statuses
<1>3. /\ batch[t] \in Seq(Tasks) /\ DOMAIN batch[t] = 1 .. Len(batch[t])
      /\ \A u \in Threads : \A i \in DOMAIN batch[u] : batch[u][i] \in Tasks
  BY LenProperties, ElementOfSeq DEF OwnersInv, BatchTypes
<1> PICK n \in Nat : n = Len(batch[t])
  BY <1>3, LenProperties
<1>4. /\ batch' \in [Threads -> Seq(Tasks)]
      /\ batch'[t] = Append(batch[t], new)
      /\ \A u \in Threads : u # t => batch'[u] = batch[u]
  BY <1>1, <1>3, AppendProperties DEF OwnersInv, BatchTypes
<1>5. /\ Len(batch'[t]) = n + 1 /\ batch'[t][n + 1] = new
      /\ \A i \in 1 .. n : batch'[t][i] = batch[t][i]
  BY <1>1, <1>3, <1>4, AppendProperties
<1>6. DOMAIN batch'[t] = 1 .. n + 1 /\ DOMAIN batch[t] = 1 .. n
  BY <1>3, <1>4, <1>5, LenProperties
<1>7. ASSUME NEW u \in Threads, NEW i \in DOMAIN batch'[u]
      PROVE  \/ i \in DOMAIN batch[u] /\ batch'[u][i] = batch[u][i] /\ batch[u][i] # new
             \/ u = t /\ i = n + 1 /\ batch'[u][i] = new
  <2>1. \A j \in DOMAIN batch[u] : batch[u][j] # new
    BY <1>1 DEF OwnersInv, BatchesAreExclusive
  <2>2. CASE u # t
    BY <1>4, <1>7, <2>1, <2>2
  <2>3. CASE u = t
    <3>1. i = n + 1 \/ i \in 1 .. n
      BY <1>6, <1>7, <2>3
    <3> QED
      BY <1>5, <1>6, <2>1, <2>3, <3>1
  <2> QED
    BY <2>2, <2>3
<1>8. BatchTypes'
  BY <1>2, <1>4 DEF BatchTypes
<1>9. BatchesAreOfCallers'
  <2>1. ASSUME NEW u \in Threads, batch'[u] # <<>>
        PROVE  u # new /\ task'[u] = "Submitted" /\ (u # t => batch[u] # <<>>)
    <3>1. u # new
      BY <1>1, <1>4, <2>1
    <3>2. CASE u = t
      BY <1>2, <3>1, <3>2 DEF IsExecuting
    <3>3. CASE u # t
      BY <1>2, <1>4, <2>1, <3>1, <3>3 DEF OwnersInv, BatchesAreOfCallers, IsExecuting
    <3> QED
      BY <3>1, <3>2, <3>3
  <2>2. ASSUME NEW u \in Tasks, batch'[u] # <<>> PROVE ~IsSmall(u)'
    <3>1. u # new /\ storage'[u] = storage[u] /\ ~IsSmall(u)
      BY <1>1, <2>1, <2>2 DEF OwnersInv, BatchesAreOfCallers
    <3> QED
      BY <3>1 DEF IsSmall
  <2>3. ASSUME NEW u \in Tasks, Len(batch'[u]) < 2, NEW i \in DOMAIN batch'[u]
        PROVE  task'[batch'[u][i]] = "Created"
    <3>1. CASE batch'[u][i] = new
      <4>1. u = t
        BY <1>1, <1>7, <2>3, <3>1
      <4> QED
        BY <1>2, <2>3, <3>1, <4>1
    <3>2. CASE batch'[u][i] # new
      <4>1. /\ u \in Threads /\ i \in DOMAIN batch[u]
            /\ batch'[u][i] = batch[u][i] /\ batch[u][i] \in Threads
        BY <1>1, <1>3, <1>7, <2>3, <3>2
      <4>2. Len(batch[u]) < 2
        BY <1>4, <1>5, <2>3
      <4> QED
        BY <1>2, <2>3, <3>2, <4>1, <4>2 DEF OwnersInv, BatchesAreOfCallers
    <3> QED
      BY <3>1, <3>2
  <2> QED
    BY <2>1, <2>2, <2>3 DEF BatchesAreOfCallers, IsExecuting
<1>10. BatchesAreExclusive'
  <2>1. ASSUME NEW u \in Threads, NEW i \in DOMAIN batch'[u]
        PROVE  task'[batch'[u][i]] # "Free"
    BY <1>1, <1>2, <1>3, <1>7, <2>1 DEF OwnersInv, BatchesAreExclusive
  <2>2. ASSUME NEW u \in Threads, NEW v \in Threads,
               NEW i \in DOMAIN batch'[u], NEW j \in DOMAIN batch'[v],
               batch'[u][i] = batch'[v][j]
        PROVE  u = v
    BY <1>7, <2>2 DEF OwnersInv, BatchesAreExclusive
  <2> QED
    BY <2>1, <2>2 DEF BatchesAreExclusive
<1>11. NoIslands'
  <2> SUFFICES ASSUME NEW S \in SUBSET Allocated', S # {}
               PROVE  \E u \in S : \E v \in Threads \ S : Owns(v, u)'
    BY DEF NoIslands
  <2>1. \A u, v \in Threads : Owns(v, u) => Owns(v, u)' /\ v # new
    <3> SUFFICES ASSUME NEW u \in Threads, NEW v \in Threads, Owns(v, u)
                 PROVE  Owns(v, u)' /\ v # new
      OBVIOUS
    <3>1. PICK i \in DOMAIN batch[v] : batch[v][i] = u
      BY DEF Owns
    <3>2. v # new
      BY <1>1, <3>1
    <3>3. i \in DOMAIN batch'[v] /\ batch'[v][i] = u
      BY <1>4, <1>5, <1>6, <3>1
    <3> QED
      BY <3>2, <3>3 DEF Owns
  <2>2. Owns(t, new)'
    <3>1. n + 1 \in DOMAIN batch'[t]
      BY <1>6
    <3> QED
      BY <1>5, <3>1 DEF Owns
  <2>3. S \ {new} \in SUBSET Allocated /\ Allocated \subseteq Threads
    BY <1>1, <1>2 DEF Allocated
  <2>4. CASE S \ {new} # {}
    <3>1. PICK u \in S \ {new} : \E v \in Threads \ (S \ {new}) : Owns(v, u)
      BY <2>3, <2>4 DEF OwnersInv, NoIslands
    <3>2. PICK v \in Threads \ (S \ {new}) : Owns(v, u)
      BY <3>1
    <3>3. v \in Threads \ S /\ Owns(v, u)'
      BY <2>1, <2>3, <3>2
    <3> QED
      BY <3>3
  <2>5. CASE S = {new}
    BY <1>1, <2>2, <2>5
  <2> QED
    BY <2>4, <2>5
<1> QED
  BY <1>8, <1>9, <1>10, <1>11 DEF OwnersInv

\* Both halves are submitted: nobody owns another task.
LEMMA SubmitHalvesKeepsOwners ==
    ASSUME OwnersInv, NEW t \in Tasks, SubmitHalves(t)
    PROVE  OwnersInv'
<1>1. /\ Tasks \subseteq Threads /\ Len(batch[t]) = 2 /\ batch[t] \in Seq(Tasks)
      /\ UNCHANGED <<poolSize, refused, batch>>
      /\ DOMAIN storage = Tasks
  BY DEF SubmitHalves, Threads, OwnersInv, BatchTypes
<1>2. DOMAIN batch[t] = 1 .. 2 /\ batch[t][1] \in Tasks /\ batch[t][2] \in Tasks
  BY <1>1, LenProperties
<1>3. ASSUME NEW u \in Threads, Owns(t, u)
      PROVE  u \in {batch[t][1], batch[t][2]} /\ u \in Tasks /\ task[u] = "Created"
  BY <1>2, <1>3 DEF Owns, SubmitHalves
<1>4. \A u \in Threads : task'[u] = IF Owns(t, u) THEN "Submitted" ELSE task[u]
  BY DEF SubmitHalves, SubmitAll, Owns
<1>5. DOMAIN storage' = Tasks
      /\ \A u \in Tasks : ~Owns(t, u) => storage'[u] = storage[u]
  <2>1. Owns(t, batch[t][1]) /\ Owns(t, batch[t][2])
    BY <1>2 DEF Owns
  <2> QED
    BY <1>1, <2>1 DEF SubmitHalves
<1>6. BatchTypes'
  <2>1. BatchTypeOK'
    BY <1>1 DEF SubmitHalves, SubmitAll, OwnersInv, BatchTypes, BatchTypeOK, Statuses
  <2> QED
    BY <2>1, <1>1, <1>5 DEF OwnersInv, BatchTypes
<1>7. BatchesAreOfCallers'
  <2>1. ASSUME NEW u \in Threads, batch[u] # <<>>
        PROVE  task[u] = "Submitted" /\ task'[u] = "Submitted" /\ ~Owns(t, u)
    BY <1>3, <1>4, <2>1 DEF OwnersInv, BatchesAreOfCallers, IsExecuting
  <2>2. ASSUME NEW u \in Tasks, batch[u] # <<>> PROVE ~IsSmall(u)'
    BY <1>1, <1>5, <2>1, <2>2 DEF OwnersInv, BatchesAreOfCallers, IsSmall
  <2>3. ASSUME NEW u \in Tasks, Len(batch[u]) < 2, NEW i \in DOMAIN batch[u]
        PROVE  task'[batch[u][i]] = "Created"
    <3>1. task[batch[u][i]] = "Created" /\ batch[u][i] \in Threads
      BY <1>1, <2>3, LenProperties, ElementOfSeq
         DEF OwnersInv, BatchesAreOfCallers, BatchTypes
    <3>2. ~Owns(t, batch[u][i])
      <4>0. ~(2 < 2)
        OBVIOUS
      <4>1. u # t /\ u \in Threads /\ t \in Threads
        BY <1>1, <2>3, <4>0, Zenon
      <4>2. \A j \in DOMAIN batch[t] : batch[t][j] # batch[u][i]
        BY <2>3, <4>1 DEF OwnersInv, BatchesAreExclusive
      <4> QED
        BY <4>2 DEF Owns
    <3> QED
      BY <1>4, <3>1, <3>2
  <2> QED
    BY <1>1, <2>1, <2>2, <2>3 DEF BatchesAreOfCallers, IsExecuting
<1>8. \A u \in Threads : task'[u] = "Free" <=> task[u] = "Free"
  BY <1>3, <1>4
<1>9. BatchesAreExclusive'
  <2>1. ASSUME NEW u \in Threads, NEW i \in DOMAIN batch[u] PROVE task'[batch[u][i]] # "Free"
    <3>1. batch[u][i] \in Threads
      BY <1>1, <2>1, LenProperties, ElementOfSeq DEF OwnersInv, BatchTypes
    <3> QED
      BY <1>8, <2>1, <3>1 DEF OwnersInv, BatchesAreExclusive
  <2> QED
    BY <1>1, <2>1 DEF OwnersInv, BatchesAreExclusive
<1>10. NoIslands'
  <2>1. Allocated' = Allocated
    BY <1>1, <1>8 DEF Allocated
  <2> QED
    BY <1>1, <2>1 DEF OwnersInv, NoIslands, Owns
<1> QED
  BY <1>6, <1>7, <1>9, <1>10 DEF OwnersInv

\* A step that changes nothing changes no owner.
LEMMA StutteringKeepsOwners == OwnersInv /\ UNCHANGED sortVars => OwnersInv'
BY DEF sortVars, OwnersInv, BatchTypes, BatchTypeOK, BatchesAreOfCallers, BatchesAreExclusive,
       NoIslands, IsExecuting, IsSmall, Allocated, Owns

\* The whole sort, as far as its tasks go.
LEMMA SortNextKeepsOwners ==
    OwnersInv /\ [SortNext]_sortVars => OwnersInv' \/ (FailToFinish /\ CallIsLost')
<1>1. Main \in Threads /\ Main \notin Tasks /\ Tasks \subseteq Threads
  BY DEF Main, Threads, Tasks
<1>2. ASSUME OwnersInv, StartSorting PROVE OwnersInv'
  <2>1. NewTask \in Tasks
    BY <1>2, NewTaskIsFree DEF StartSorting, OwnersInv, BatchTypes, BatchTypeOK
  <2>2. batch' = [batch EXCEPT ![Main] = Append(@, NewTask)]
    BY <1>2 DEF StartSorting
  <2>3. task' = [task EXCEPT ![NewTask] = "Submitted"]
    <3>1. \A u : (\E i \in DOMAIN <<NewTask>> : <<NewTask>>[i] = u) <=> u = NewTask
      OBVIOUS
    <3>2. task' = [u \in Threads |-> IF u = NewTask THEN "Submitted" ELSE task[u]]
      BY <1>2, <3>1 DEF StartSorting, SubmitAll
    <3> QED
      BY <1>2, <2>1, <3>2 DEF OwnersInv, BatchTypes, BatchTypeOK
  <2>4. DOMAIN storage' = Tasks /\ \A u \in Tasks : u # NewTask => storage'[u] = storage[u]
    BY <1>2 DEF StartSorting, OwnersInv, BatchTypes
  <2> QED
    BY <1>1, <1>2, <2>2, <2>3, <2>4, NewTaskKeepsOwners DEF StartSorting
<1>3. ASSUME OwnersInv, NEW t \in Tasks, CreateHalf(t) PROVE OwnersInv'
  <2>1. /\ t \in Threads /\ IsExecuting(t) /\ FreeTasks # {} /\ ~IsSmall(t)
        /\ batch' = [batch EXCEPT ![t] = Append(@, NewTask)]
        /\ task' = [task EXCEPT ![NewTask] = "Created"]
        /\ UNCHANGED <<poolSize, refused, storage>>
    BY <1>1, <1>3 DEF CreateHalf
  <2>2. DOMAIN storage' = Tasks /\ \A u \in Tasks : storage'[u] = storage[u]
    BY <1>3, <2>1 DEF OwnersInv, BatchTypes
  <2> QED
    BY <1>3, <2>1, <2>2, NewTaskKeepsOwners
<1>4. ASSUME OwnersInv, UNCHANGED sortVars PROVE OwnersInv'
  BY <1>4, StutteringKeepsOwners
<1>5. ASSUME OwnersInv, NEW t \in Tasks, MergeElement(t) PROVE OwnersInv'
  <2>1. UNCHANGED <<poolSize, refused, task, input, storage, batch>>
    BY <1>5, Zenon DEF MergeElement
  <2> QED
    BY <1>5, <2>1
       DEF OwnersInv, BatchTypes, BatchTypeOK, BatchesAreOfCallers,
           BatchesAreExclusive, NoIslands, IsExecuting, IsSmall, Allocated, Owns
<1>6. ASSUME OwnersInv, FailToFinish, NEW i \in DOMAIN batch[Main], IsAlive(batch[Main][i])
      PROVE  CallIsLost'
  <2>1. batch[Main] \in Seq(Tasks) /\ DOMAIN task = Threads
    BY <1>1, <1>6 DEF OwnersInv, BatchTypes, BatchTypeOK
  <2>2. PICK u \in Tasks : u = batch[Main][i]
    BY <1>6, <2>1, ElementOfSeq, LenProperties
  <2>3. task'[Main] = "Failed" /\ task'[u] = "Abandoned" /\ refused'
    BY <1>1, <1>6, <2>2
       DEF FailToFinish, Return, ReturnAndRelease, Released, Outcome
  <2> QED
    BY <2>3 DEF CallIsLost, IsAbandoned
<1>7. ASSUME OwnersInv, SortNext PROVE OwnersInv' \/ (FailToFinish /\ CallIsLost')
  BY <1>2, <1>3, <1>5, <1>6, <1>7, SubmitHalvesKeepsOwners, ReturningStepKeepsOwners
     DEF SortNext, SortStep, TaskStep
<1> QED
  BY <1>4, <1>7

\* A call that has returned takes no step, and neither does any task of it.
LEMMA LostIsTheEnd == CallIsLost /\ [SortNext]_sortVars => UNCHANGED sortVars /\ CallIsLost'
<1>1. CallIsLost => ~SortNext
  BY DEF CallIsLost, SortNext, SortStep, TaskStep, FailToStart, StartSorting, FinishSorting,
         FailToFinish, IsExecuting
<1>2. CallIsLost /\ UNCHANGED sortVars => CallIsLost'
  BY DEF CallIsLost, IsAbandoned, sortVars
<1> QED
  BY <1>1, <1>2

\* Before the call nobody has a task.
LEMMA SortInitOwners == SortInit => OwnersInv
<1> SUFFICES ASSUME SortInit PROVE OwnersInv
  OBVIOUS
<1>1. Main \notin Tasks /\ Main \in Threads /\ Threads = Tasks \cup {Main}
  BY DEF Main, Threads, Tasks
<1>2. \A t \in Threads : batch[t] = <<>>
  BY DEF SortInit
<1>3. BatchTypes
  BY EmptySeq DEF SortInit, BatchInit, BatchTypes, BatchTypeOK, Statuses
<1>4. BatchesAreOfCallers /\ BatchesAreExclusive
  BY <1>1, <1>2 DEF BatchesAreOfCallers, BatchesAreExclusive
<1>5. Allocated = {}
  BY <1>1 DEF Allocated, SortInit, BatchInit
<1> QED
  BY <1>3, <1>4, <1>5 DEF OwnersInv, NoIslands

\* Every task that is not free goes back, over those that have created it, to a call
\* that has still to return (TaskBatchRaw); only a call that is refused to wait can leave
\* tasks without such an owner.
THEOREM OwnersInvCorrect == SortSpec => [](OwnersInv \/ CallIsLost)
<1>1. (OwnersInv \/ CallIsLost) /\ [SortNext]_sortVars => (OwnersInv \/ CallIsLost)'
  BY SortNextKeepsOwners, LostIsTheEnd
<1> QED
  BY <1>1, SortInitOwners, PTL DEF SortSpec

\* With such owners the pool is complete when the call has returned.
LEMMA OwnersReleaseAll == OwnersInv \/ CallIsLost => AllTasksAreReleased
<1> SUFFICES ASSUME OwnersInv, IsFinished(Main) PROVE FreeTasks = 1 .. poolSize
  BY DEF AllTasksAreReleased, CallIsLost
<1>1. batch[Main] = <<>>
  BY DEF OwnersInv, BatchesAreOfCallers, IsFinished, IsExecuting, Threads
<1>2. Allocated = {}
  <2> SUFFICES ASSUME Allocated # {} PROVE FALSE
    OBVIOUS
  <2>1. PICK u \in Allocated : \E t \in Threads \ Allocated : Owns(t, u)
    BY DEF OwnersInv, NoIslands
  <2>2. PICK t \in Threads \ Allocated : Owns(t, u)
    BY <2>1
  <2>3. batch[t] # <<>> /\ t # Main
    BY <1>1, <2>2 DEF Owns
  <2>4. t \in Allocated
    BY <2>2, <2>3 DEF OwnersInv, BatchesAreOfCallers, IsExecuting, Allocated, Threads
  <2> QED
    BY <2>2, <2>4
<1>3. 1 .. poolSize \subseteq Tasks
  BY PoolAssumption DEF OwnersInv, BatchTypes, BatchTypeOK, Tasks
<1> QED
  BY <1>2, <1>3 DEF Allocated, FreeTasks

\* Whatever could not be created: when ParallelMergeSort returns, every task is back in
\* the pool, for every container, every pool and every number of workers, unless WaitUntil
\* was refused and the call released a task that was not done.
THEOREM AllTasksAreReleasedCorrect == SortSpec => []AllTasksAreReleased
BY OwnersInvCorrect, OwnersReleaseAll, PTL

-----------------------------------------------------------------------------
(***************************************************************************)
(* ParallelMergeSort: what is in order, and how often it occurs.           *)
(***************************************************************************)

\* The places where a key occurs are finitely many.
LEMMA PlacesAreFinite ==
    ASSUME NEW s, NEW first \in Int, NEW last \in Int, NEW key
    PROVE  IsFiniteSet(PlacesOf(s, first, last, key))
<1>1. PlacesOf(s, first, last, key) \in SUBSET (first .. last)
  BY DEF PlacesOf
<1> QED
  BY <1>1, FS_Interval, FS_Subset

\* So a key occurs a natural number of times.
LEMMA OccurrencesType ==
    ASSUME NEW s, NEW first \in Int, NEW last \in Int, NEW key
    PROVE  Occurrences(s, first, last, key) \in Nat
<1>1. Occurrences(s, first, last, key) = Cardinality(PlacesOf(s, first, last, key))
  BY DEF Occurrences, PlacesOf
<1> QED
  BY <1>1, PlacesAreFinite, FS_CardinalityType

\* In no place it does not occur.
LEMMA NoOccurrences ==
    ASSUME NEW s, NEW first \in Int, NEW last \in Int, NEW key, last < first
    PROVE  Occurrences(s, first, last, key) = 0
<1>1. {i \in first .. last : s[i] = key} = {}
  OBVIOUS
<1> QED
  BY <1>1, FS_EmptySet DEF Occurrences

\* Sequences that agree in some places have the same elements there.
LEMMA SameOccurrences ==
    ASSUME NEW s, NEW u, NEW first \in Int, NEW last \in Int, NEW key,
           \A i \in first .. last : u[i] = s[i]
    PROVE  Occurrences(u, first, last, key) = Occurrences(s, first, last, key)
<1>1. {i \in first .. last : u[i] = key} = {i \in first .. last : s[i] = key}
  OBVIOUS
<1> QED
  BY <1>1 DEF Occurrences

\* One place more at the end.
LEMMA OccurrencesAddLast ==
    ASSUME NEW s, NEW first \in Int, NEW last \in Int, NEW key, first <= last + 1
    PROVE  Occurrences(s, first, last + 1, key) =
            IF s[last + 1] = key THEN Occurrences(s, first, last, key) + 1
            ELSE Occurrences(s, first, last, key)
<1> DEFINE S == PlacesOf(s, first, last, key)
<1>1. last + 1 \notin S
  BY DEF PlacesOf
<1>2. {i \in first .. last + 1 : s[i] = key} = IF s[last + 1] = key THEN S \cup {last + 1} ELSE S
  BY DEF PlacesOf
<1>3. IsFiniteSet(S)
  BY PlacesAreFinite
<1>4. Cardinality(S \cup {last + 1}) = Cardinality(S) + 1
  BY <1>1, <1>3, FS_AddElement
<1> QED
  BY <1>2, <1>4 DEF Occurrences, PlacesOf

\* One place less at the beginning.
LEMMA OccurrencesDropFirst ==
    ASSUME NEW s, NEW first \in Int, NEW last \in Int, NEW key, first <= last
    PROVE  Occurrences(s, first, last, key) =
            IF s[first] = key THEN Occurrences(s, first + 1, last, key) + 1
            ELSE Occurrences(s, first + 1, last, key)
<1> DEFINE S == PlacesOf(s, first + 1, last, key)
<1>1. first \notin S
  BY DEF PlacesOf
<1>2. {i \in first .. last : s[i] = key} = IF s[first] = key THEN S \cup {first} ELSE S
  BY DEF PlacesOf
<1>3. IsFiniteSet(S)
  BY PlacesAreFinite
<1>4. Cardinality(S \cup {first}) = Cardinality(S) + 1
  BY <1>1, <1>3, FS_AddElement
<1> QED
  BY <1>2, <1>4 DEF Occurrences, PlacesOf

\* Two halves have together what the whole has.
LEMMA OccurrencesSplit ==
    ASSUME NEW s, NEW first \in Int, NEW mid \in Int, NEW last \in Int, NEW key,
           first <= mid + 1, mid <= last
    PROVE  Occurrences(s, first, last, key) =
            Occurrences(s, first, mid, key) + Occurrences(s, mid + 1, last, key)
<1> DEFINE S == PlacesOf(s, first, mid, key)
           T == PlacesOf(s, mid + 1, last, key)
<1>1. {i \in first .. last : s[i] = key} = S \cup T
  BY DEF PlacesOf
<1>2. S \cap T = {}
  BY DEF PlacesOf
<1>3. IsFiniteSet(S) /\ IsFiniteSet(T)
  BY PlacesAreFinite
<1>4. Cardinality(S \cup T) = Cardinality(S) + Cardinality(T)
  <2>1. Cardinality(S \cap T) = 0
    BY <1>2, FS_EmptySet
  <2>2. Cardinality(S \cup T) = Cardinality(S) + Cardinality(T) - Cardinality(S \cap T)
    BY <1>3, FS_Union
  <2>3. Cardinality(S) \in Nat /\ Cardinality(T) \in Nat
    BY <1>3, FS_CardinalityType
  <2> QED
    BY <2>1, <2>2, <2>3
<1> QED
  BY <1>1, <1>4 DEF Occurrences, PlacesOf

\* What has been sorted stays so as long as nobody writes there.
LEMMA SortedIsKept ==
    ASSUME NEW s, NEW u, NEW old, NEW first \in Int, NEW last \in Int,
           \A i \in first .. last : u[i] = s[i], IsSorted(s, old, first, last)
    PROVE  IsSorted(u, old, first, last)
<1>1. IsOrdered(u, first, last)
  BY DEF IsSorted, IsOrdered
<1>2. \A key \in Keys : Occurrences(u, first, last, key) = Occurrences(s, first, last, key)
  BY SameOccurrences
<1> QED
  BY <1>1, <1>2 DEF IsSorted

\* It depends only on what was there whether it has the same elements, too.
LEMMA SortedOfTheSame ==
    ASSUME NEW s, NEW old, NEW u, NEW first \in Int, NEW last \in Int,
           \A i \in first .. last : u[i] = old[i], IsSorted(s, u, first, last)
    PROVE  IsSorted(s, old, first, last)
<1>1. \A key \in Keys : Occurrences(u, first, last, key) = Occurrences(old, first, last, key)
  BY SameOccurrences
<1> QED
  BY <1>1 DEF IsSorted

-----------------------------------------------------------------------------
(***************************************************************************)
(* ParallelMergeSort: std::merge.  AreMerged(out, k, left, i, m, right, j, *)
(* ...) says how far it has come: all before k has been written, and what  *)
(* is left of the halves begins at i and at j.                             *)
(***************************************************************************)

\* Two sorted halves, of which nothing has been merged.
LEMMA MergeBegins ==
    ASSUME NEW out, NEW left, NEW right,
           NEW first \in Int, NEW mid \in Int, NEW last \in Int, first <= mid + 1, mid <= last,
           IsSorted(left, input, first, mid), IsSorted(right, input, mid + 1, last)
    PROVE  AreMerged(out, first, first, left, first, mid, right, mid + 1, last)
<1>1. IsOrdered(out, first, first - 1) /\ \A x \in first .. first - 1 : FALSE
  BY DEF IsOrdered
<1>2. ASSUME NEW key \in Keys
      PROVE  Occurrences(out, first, first - 1, key) + Occurrences(left, first, mid, key)
                + Occurrences(right, mid + 1, last, key) = Occurrences(input, first, last, key)
  <2>1. Occurrences(out, first, first - 1, key) = 0
    BY NoOccurrences
  <2>2. /\ Occurrences(left, first, mid, key) \in Nat
        /\ Occurrences(right, mid + 1, last, key) \in Nat
    BY OccurrencesType
  <2>3. Occurrences(input, first, last, key) =
            Occurrences(input, first, mid, key) + Occurrences(input, mid + 1, last, key)
    BY OccurrencesSplit
  <2> QED
    BY <1>2, <2>1, <2>2, <2>3 DEF IsSorted
<1> QED
  BY <1>1, <1>2 DEF AreMerged, IsSorted

\* The places that an unfinished merge depends on.
LEMMA MergeIsKept ==
    ASSUME NEW out, NEW left, NEW right, NEW out2, NEW left2, NEW right2,
           NEW first \in Int, NEW k \in Int, NEW i \in Int, NEW mid \in Int,
           NEW j \in Int, NEW last \in Int,
           AreMerged(out, first, k, left, i, mid, right, j, last),
           \A x \in first .. k - 1 : out2[x] = out[x],
           \A x \in i .. mid : left2[x] = left[x],
           \A x \in j .. last : right2[x] = right[x]
    PROVE  AreMerged(out2, first, k, left2, i, mid, right2, j, last)
<1>1. /\ IsOrdered(out2, first, k - 1) /\ IsOrdered(left2, i, mid) /\ IsOrdered(right2, j, last)
      /\ \A x \in first .. k - 1 : /\ \A y \in i .. mid : out2[x] <= left2[y]
                                   /\ \A y \in j .. last : out2[x] <= right2[y]
  BY DEF AreMerged, IsOrdered
<1>2. ASSUME NEW key \in Keys
      PROVE  /\ Occurrences(out2, first, k - 1, key) = Occurrences(out, first, k - 1, key)
             /\ Occurrences(left2, i, mid, key) = Occurrences(left, i, mid, key)
             /\ Occurrences(right2, j, last, key) = Occurrences(right, j, last, key)
  BY SameOccurrences
<1> QED
  BY <1>1, <1>2 DEF AreMerged

\* The next element comes from the left half.
LEMMA TakeLeftMerges ==
    ASSUME NEW out, NEW left, NEW right, NEW out2, NEW left2, NEW right2,
           NEW first \in Int, NEW k \in Int, NEW i \in Int, NEW mid \in Int,
           NEW j \in Int, NEW last \in Int,
           TakesLeft(out, left, right, out2, left2, right2, first, k, i, mid, j, last)
    PROVE  AreMerged(out2, first, k + 1, left2, i + 1, mid, right2, j, last)
<1> USE DEF TakesLeft
<1>1. \A y \in j .. last : left[i] <= right[y]
  BY DEF AreMerged, IsOrdered
<1>2. \A y \in i + 1 .. mid : left[i] <= left[y]
  BY DEF AreMerged, IsOrdered
<1>3. \A x \in first .. k - 1 : out[x] <= left[i]
  BY DEF AreMerged
<1>4. IsOrdered(out2, first, k)
  BY <1>3 DEF AreMerged, IsOrdered
<1>5. IsOrdered(left2, i + 1, mid) /\ IsOrdered(right2, j, last)
  BY DEF AreMerged, IsOrdered
<1>6. ASSUME NEW x \in first .. k
      PROVE  /\ \A y \in i + 1 .. mid : out2[x] <= left2[y]
             /\ \A y \in j .. last : out2[x] <= right2[y]
  <2>1. CASE x = k
    BY <1>1, <1>2, <2>1
  <2>2. CASE x \in first .. k - 1
    BY <2>2 DEF AreMerged
  <2> QED
    BY <2>1, <2>2
<1>7. ASSUME NEW key \in Keys
      PROVE  Occurrences(out2, first, k, key) + Occurrences(left2, i + 1, mid, key)
                + Occurrences(right2, j, last, key) = Occurrences(input, first, last, key)
  <2>1. Occurrences(out2, first, (k - 1) + 1, key) =
            IF out2[(k - 1) + 1] = key THEN Occurrences(out2, first, k - 1, key) + 1
            ELSE Occurrences(out2, first, k - 1, key)
    BY OccurrencesAddLast
  <2>2. Occurrences(left, i, mid, key) =
            IF left[i] = key THEN Occurrences(left, i + 1, mid, key) + 1
            ELSE Occurrences(left, i + 1, mid, key)
    BY OccurrencesDropFirst
  <2>3. /\ Occurrences(out2, first, k - 1, key) = Occurrences(out, first, k - 1, key)
        /\ Occurrences(left2, i + 1, mid, key) = Occurrences(left, i + 1, mid, key)
        /\ Occurrences(right2, j, last, key) = Occurrences(right, j, last, key)
    BY SameOccurrences
  <2>4. /\ Occurrences(out, first, k - 1, key) \in Nat
        /\ Occurrences(left, i + 1, mid, key) \in Nat
        /\ Occurrences(right, j, last, key) \in Nat
    BY OccurrencesType
  <2>5. (k - 1) + 1 = k
    OBVIOUS
  <2>6. Occurrences(out, first, k - 1, key) + Occurrences(left, i, mid, key)
            + Occurrences(right, j, last, key) = Occurrences(input, first, last, key)
    BY <1>7 DEF AreMerged
  <2> QED
    BY <2>1, <2>2, <2>3, <2>4, <2>5, <2>6
<1>8. (k + 1) - 1 = k
  OBVIOUS
<1> QED
  BY <1>4, <1>5, <1>6, <1>7, <1>8 DEF AreMerged

\* The next element comes from the right half.
LEMMA TakeRightMerges ==
    ASSUME NEW out, NEW left, NEW right, NEW out2, NEW left2, NEW right2,
           NEW first \in Int, NEW k \in Int, NEW i \in Int, NEW mid \in Int,
           NEW j \in Int, NEW last \in Int,
           TakesRight(out, left, right, out2, left2, right2, first, k, i, mid, j, last)
    PROVE  AreMerged(out2, first, k + 1, left2, i, mid, right2, j + 1, last)
<1> USE DEF TakesRight
<1>1. \A y \in j + 1 .. last : right[j] <= right[y]
  BY DEF AreMerged, IsOrdered
<1>2. \A y \in i .. mid : right[j] <= left[y]
  BY DEF AreMerged, IsOrdered
<1>3. \A x \in first .. k - 1 : out[x] <= right[j]
  BY DEF AreMerged
<1>4. IsOrdered(out2, first, k)
  BY <1>3 DEF AreMerged, IsOrdered
<1>5. IsOrdered(left2, i, mid) /\ IsOrdered(right2, j + 1, last)
  BY DEF AreMerged, IsOrdered
<1>6. ASSUME NEW x \in first .. k
      PROVE  /\ \A y \in i .. mid : out2[x] <= left2[y]
             /\ \A y \in j + 1 .. last : out2[x] <= right2[y]
  <2>1. CASE x = k
    BY <1>1, <1>2, <2>1
  <2>2. CASE x \in first .. k - 1
    BY <2>2 DEF AreMerged
  <2> QED
    BY <2>1, <2>2
<1>7. ASSUME NEW key \in Keys
      PROVE  Occurrences(out2, first, k, key) + Occurrences(left2, i, mid, key)
                + Occurrences(right2, j + 1, last, key) = Occurrences(input, first, last, key)
  <2>1. Occurrences(out2, first, (k - 1) + 1, key) =
            IF out2[(k - 1) + 1] = key THEN Occurrences(out2, first, k - 1, key) + 1
            ELSE Occurrences(out2, first, k - 1, key)
    BY OccurrencesAddLast
  <2>2. Occurrences(right, j, last, key) =
            IF right[j] = key THEN Occurrences(right, j + 1, last, key) + 1
            ELSE Occurrences(right, j + 1, last, key)
    BY OccurrencesDropFirst
  <2>3. /\ Occurrences(out2, first, k - 1, key) = Occurrences(out, first, k - 1, key)
        /\ Occurrences(left2, i, mid, key) = Occurrences(left, i, mid, key)
        /\ Occurrences(right2, j + 1, last, key) = Occurrences(right, j + 1, last, key)
    BY SameOccurrences
  <2>4. /\ Occurrences(out, first, k - 1, key) \in Nat
        /\ Occurrences(left, i, mid, key) \in Nat
        /\ Occurrences(right, j + 1, last, key) \in Nat
    BY OccurrencesType
  <2>5. (k - 1) + 1 = k
    OBVIOUS
  <2>6. Occurrences(out, first, k - 1, key) + Occurrences(left, i, mid, key)
            + Occurrences(right, j, last, key) = Occurrences(input, first, last, key)
    BY <1>7 DEF AreMerged
  <2> QED
    BY <2>1, <2>2, <2>3, <2>4, <2>5, <2>6
<1>8. (k + 1) - 1 = k
  OBVIOUS
<1> QED
  BY <1>4, <1>5, <1>6, <1>7, <1>8 DEF AreMerged

-----------------------------------------------------------------------------
(***************************************************************************)
(* ParallelMergeSort: tasks and the elements they hold.                    *)
(***************************************************************************)

\* As long as the call has no task, nobody has.
LEMMA NobodyWithoutRoot ==
    ASSUME OwnersInv, batch[Main] = <<>>
    PROVE  \A t \in Tasks : task[t] = "Free" /\ batch[t] = <<>>
<1>1. Allocated = {}
  <2> SUFFICES ASSUME Allocated # {} PROVE FALSE
    OBVIOUS
  <2>1. PICK u \in Allocated : \E t \in Threads \ Allocated : Owns(t, u)
    BY DEF OwnersInv, NoIslands
  <2>2. PICK t \in Threads \ Allocated : Owns(t, u)
    BY <2>1
  <2>3. batch[t] # <<>> /\ t # Main
    BY <2>2 DEF Owns
  <2>4. t \in Allocated
    BY <2>2, <2>3 DEF OwnersInv, BatchesAreOfCallers, IsExecuting, Allocated, Threads
  <2> QED
    BY <2>2, <2>4
<1> QED
  BY <1>1 DEF Allocated, OwnersInv, BatchesAreOfCallers, IsExecuting, Threads

\* A batch of two.
LEMMA PairOfTasks ==
    ASSUME OwnersInv, NEW t \in Threads, Len(batch[t]) = 2
    PROVE  /\ batch[t] # <<>> /\ IsExecuting(t)
           /\ DOMAIN batch[t] = {1, 2}
           /\ batch[t][1] \in Tasks /\ batch[t][2] \in Tasks
           /\ \A u : Owns(t, u) <=> u = batch[t][1] \/ u = batch[t][2]
<1>1. batch[t] \in Seq(Tasks)
  BY DEF OwnersInv, BatchTypes
<1>2. DOMAIN batch[t] = 1 .. 2
  BY <1>1, LenProperties
<1>3. batch[t] # <<>>
  BY EmptySeq
<1>4. 1 .. 2 = {1, 2}
  OBVIOUS
<1>5. batch[t][1] \in Tasks /\ batch[t][2] \in Tasks
  BY <1>1, <1>2, <1>4, ElementOfSeq
<1> QED
  BY <1>2, <1>3, <1>4, <1>5 DEF Owns, OwnersInv, BatchesAreOfCallers

\* What one task owns no other one does.
LEMMA OneOwner ==
    ASSUME OwnersInv, NEW t \in Threads, NEW u \in Threads, NEW v, Owns(t, v), Owns(u, v)
    PROVE  t = u
BY DEF OwnersInv, BatchesAreExclusive, Owns

\* A task that has returned holds its range.
LEMMA FinishedHolds ==
    ASSUME OwnersInv, NEW t \in Tasks, IsFinished(t)
    PROVE  batch[t] = <<>> /\ Holds(t) /\ ~Delegates(t)
<1>1. batch[t] = <<>>
  BY DEF OwnersInv, BatchesAreOfCallers, IsFinished, IsExecuting, Threads
<1> QED
  BY <1>1, EmptySeq DEF Holds, Delegates, IsActive, IsFinished

\* A range lies in the container.
LEMMA RangeType ==
    ASSUME SortTypes, NEW t \in Tasks
    PROVE  /\ Len(input) \in Nat /\ DOMAIN input = 1 .. Len(input)
           /\ storage[t].start \in Nat \ {0} /\ storage[t].range \in Nat
           /\ storage[t].maxRangeOrLevels \in Nat
           /\ storage[t].container \in Containers
           /\ storage[t].start + storage[t].range <= Len(input) + 1
           /\ LastIndex(storage[t]) = storage[t].start + storage[t].range - 1
           /\ PlacesIn(storage[t]) = storage[t].start .. LastIndex(storage[t])
           /\ PlacesIn(storage[t]) \subseteq DOMAIN input
<1>1. Len(input) \in Nat /\ DOMAIN input = 1 .. Len(input)
  BY LenProperties DEF SortTypes, SortTypeOK
<1>2. storage[t] \in [container : Containers, start : 1 .. Len(input) + 1,
                      range : 0 .. Len(input), maxRangeOrLevels : Nat]
  BY DEF SortTypes, SortTypeOK
<1> QED
  BY <1>1, <1>2 DEF SortTypes, LastIndex, PlacesIn

\* The elements are keys, in both containers.
LEMMA DataType ==
    ASSUME SortTypes, NEW c \in Containers, NEW i \in DOMAIN input
    PROVE  data[c][i] \in Keys /\ data[c][i] \in Int
BY SortAssumption DEF SortTypes, SortTypeOK

\* Between them the halves have the places of the whole.
LEMMA PlacesOfHalves ==
    ASSUME SortInv, NEW t \in Tasks, Delegates(t)
    PROVE  /\ LastIndex(Left(t)) + 1 = Right(t).start
           /\ LastIndex(Right(t)) = LastIndex(storage[t])
           /\ Left(t).start = storage[t].start
           /\ Left(t).start <= Right(t).start /\ Right(t).start <= LastIndex(Right(t)) + 1
           /\ storage[t].range = Left(t).range + Right(t).range
           /\ \A i : i \in PlacesIn(storage[t])
                        <=> i \in PlacesIn(Left(t)) \/ i \in PlacesIn(Right(t))
<1>1. Len(batch[t]) = 2 /\ batch[t][1] \in Tasks /\ batch[t][2] \in Tasks
  BY PairOfTasks DEF Delegates, SortInv, Threads
<1>2. /\ Left(t).start = storage[t].start
      /\ Left(t).range = storage[t].range \div 2
      /\ Right(t).start = Left(t).start + Left(t).range
      /\ Right(t).range = storage[t].range - Left(t).range
  BY <1>1 DEF SortInv, HalvesAreHalves
<1>3. /\ storage[t].start \in Nat /\ storage[t].range \in Nat
      /\ Left(t).start \in Nat /\ Left(t).range \in Nat
      /\ Right(t).start \in Nat /\ Right(t).range \in Nat
  BY <1>1, RangeType DEF SortInv, Left, Right
<1> HIDE DEF Left, Right
<1> QED
  BY <1>2, <1>3 DEF PlacesIn, LastIndex

\* A function returns: its task holds its range again, and the halves nothing any more.
LEMMA ReturnShape ==
    ASSUME SortInv, NEW t \in Tasks, NEW success \in BOOLEAN, Return(t, success),
           IsExecuting(t), \A i \in DOMAIN batch[t] : ~IsAlive(batch[t][i]),
           DOMAIN storage' = Tasks, \A u \in Tasks : u # t => storage'[u] = storage[u],
           storage'[t].start = storage[t].start, storage'[t].range = storage[t].range,
           input' = input
    PROVE  /\ task'[t] = Outcome(success) /\ batch'[t] = <<>>
           /\ task'[Main] = task[Main] /\ batch'[Main] = batch[Main]
           /\ batch[Main] # <<>>
           /\ \A u \in Tasks : u # t =>
                /\ batch'[u] = batch[u]
                /\ task'[u] = IF Owns(t, u) THEN "Free" ELSE task[u]
                /\ Delegates(u)' <=> Delegates(u)
                /\ Holds(u)' <=> Holds(u) /\ ~Owns(t, u)
           /\ Holds(t)' /\ ~Delegates(t)'
           /\ HalvesAreHalves' /\ RootIsWhole' /\ StartsWithInput' /\ HoldersAreDisjoint'
<1> USE DEF IsExecuting
<1>1. /\ Main \notin Tasks /\ Tasks \subseteq Threads /\ Main \in Threads
      /\ OwnersInv /\ SortTypes /\ DOMAIN batch = Threads /\ DOMAIN task = Threads
      /\ \A u \in Threads : batch[u] \in Seq(Tasks)
  BY DEF Main, Threads, Tasks, SortInv, OwnersInv, BatchTypes, BatchTypeOK
<1>2. /\ task'[t] = Outcome(success) /\ batch'[t] = <<>>
      /\ Outcome(success) \in {"Succeeded", "Failed"}
      /\ \A u \in Threads : u # t =>
            /\ batch'[u] = batch[u]
            /\ task'[u] = IF Owns(t, u) THEN "Free" ELSE task[u]
  BY <1>1 DEF Return, ReturnAndRelease, Released, Owns, Outcome
<1>3. ~Owns(t, Main)
  BY <1>1, ElementOfSeq, LenProperties DEF Owns
<1>4. batch[Main] # <<>>
  BY <1>1, NobodyWithoutRoot
<1>5. ASSUME NEW u \in Threads, u # t, NEW i \in DOMAIN batch[u]
      PROVE  /\ batch[u][i] \in Tasks /\ ~Owns(t, batch[u][i])
             /\ IsActive(batch[u][i])' <=> IsActive(batch[u][i])
             /\ task'[batch[u][i]] = "Created" <=> task[batch[u][i]] = "Created"
  <2>1. batch[u][i] \in Tasks /\ Owns(u, batch[u][i])
    BY <1>1, <1>5, ElementOfSeq, LenProperties DEF Owns
  <2>2. ~Owns(t, batch[u][i])
    BY <1>1, <1>5, <2>1, OneOwner
  <2> QED
    BY <1>1, <1>2, <2>1, <2>2 DEF IsActive
<1>6. ASSUME NEW u \in Tasks, u # t
      PROVE  /\ Delegates(u)' <=> Delegates(u)
             /\ Holds(u)' <=> Holds(u) /\ ~Owns(t, u)
  <2>1. Delegates(u)' <=> Delegates(u)
    <3>1. CASE Len(batch[u]) = 2
      <4>1. 1 \in DOMAIN batch[u]
        BY <1>1, <3>1, PairOfTasks
      <4>2. batch'[u] = batch[u] /\ (IsActive(batch[u][1])' <=> IsActive(batch[u][1]))
        BY <1>1, <1>2, <1>5, <1>6, <4>1
      <4> QED
        BY <4>2 DEF Delegates, IsActive
    <3>2. CASE Len(batch[u]) # 2
      BY <1>1, <1>2, <1>6, <3>2 DEF Delegates
    <3> QED
      BY <3>1, <3>2
  <2> QED
    BY <1>1, <1>2, <1>6, <2>1 DEF Holds, IsActive
<1>7. Holds(t)' /\ ~Delegates(t)'
  BY <1>2, EmptySeq DEF Holds, Delegates, IsActive
<1>8. HalvesAreHalves'
  <2> SUFFICES ASSUME NEW u \in Tasks, Len(batch'[u]) = 2
               PROVE  /\ batch'[u][1] # batch'[u][2]
                      /\ \A i \in 1 .. 2 : task'[batch'[u][i]] = "Created" <=> ~Delegates(u)'
                      /\ Delegates(u)' =>
                            /\ Left(u)'.start = storage'[u].start
                            /\ Left(u)'.range = storage'[u].range \div 2
                            /\ Right(u)'.start = Left(u)'.start + Left(u)'.range
                            /\ Right(u)'.range = storage'[u].range - Left(u)'.range
    BY DEF HalvesAreHalves
  <2>1. u # t /\ batch'[u] = batch[u] /\ Len(batch[u]) = 2
    <3>1. Len(batch'[t]) # 2
      BY <1>2
    <3>2. u # t
      BY <3>1
    <3> QED
      BY <1>1, <1>2, <3>2
  <2>2. /\ DOMAIN batch[u] = {1, 2} /\ batch[u][1] \in Tasks /\ batch[u][2] \in Tasks
        /\ 1 .. 2 = {1, 2}
    BY <1>1, <2>1, PairOfTasks
  <2>3. \A v \in Tasks : /\ storage'[v].start = storage[v].start
                         /\ storage'[v].range = storage[v].range
    OBVIOUS
  <2>4. /\ Left(u)'.start = Left(u).start /\ Left(u)'.range = Left(u).range
        /\ Right(u)'.start = Right(u).start /\ Right(u)'.range = Right(u).range
    BY <2>1, <2>2, <2>3 DEF Left, Right
  <2>5. /\ batch[u][1] # batch[u][2]
        /\ \A i \in 1 .. 2 : task[batch[u][i]] = "Created" <=> ~Delegates(u)
        /\ Delegates(u) =>
                /\ Left(u).start = storage[u].start
                /\ Left(u).range = storage[u].range \div 2
                /\ Right(u).start = Left(u).start + Left(u).range
                /\ Right(u).range = storage[u].range - Left(u).range
    BY <2>1 DEF SortInv, HalvesAreHalves
  <2>6. \A i \in 1 .. 2 : task'[batch[u][i]] = "Created" <=> task[batch[u][i]] = "Created"
    BY <1>1, <1>5, <2>1, <2>2
  <2> QED
    BY <1>6, <2>1, <2>3, <2>4, <2>5, <2>6
<1>9. RootIsWhole' /\ StartsWithInput'
  <2>1. /\ Len(batch[Main]) = 1 /\ IsActive(batch[Main][1])
        /\ Left(Main).start = 1 /\ Left(Main).range = Len(input)
    BY <1>4 DEF SortInv, RootIsWhole
  <2>2. 1 \in DOMAIN batch[Main]
    BY <1>1, <2>1, LenProperties
  <2>3. batch[Main][1] \in Tasks /\ IsActive(batch[Main][1])'
    BY <1>1, <1>5, <2>1, <2>2
  <2>4. batch'[Main] = batch[Main]
    BY <1>1, <1>2
  <2>5. \A v \in Tasks : /\ storage'[v].start = storage[v].start
                         /\ storage'[v].range = storage[v].range
    OBVIOUS
  <2>6. Left(Main)'.start = Left(Main).start /\ Left(Main)'.range = Left(Main).range
    BY <2>3, <2>4, <2>5 DEF Left
  <2> QED
    BY <1>4, <2>1, <2>3, <2>4, <2>6 DEF RootIsWhole, StartsWithInput, IsActive
<1>10. \A u \in Tasks : PlacesIn(storage[u])' = PlacesIn(storage[u])
  BY DEF PlacesIn, LastIndex
<1>11. ASSUME NEW u \in Tasks, u # t, Holds(u)', NEW i \in PlacesIn(storage[t])
       PROVE  i \notin PlacesIn(storage[u])
  <2>1. Holds(u) /\ ~Owns(t, u)
    BY <1>6, <1>11
  <2>2. CASE ~Delegates(t)
    <3>1. Holds(t)
      BY <2>2 DEF Holds, IsActive
    <3> QED
      BY <1>11, <2>1, <3>1 DEF SortInv, HoldersAreDisjoint
  <2>3. CASE Delegates(t)
    <3>1. /\ batch[t][1] \in Tasks /\ batch[t][2] \in Tasks
          /\ 1 \in DOMAIN batch[t] /\ 2 \in DOMAIN batch[t]
          /\ u # batch[t][1] /\ u # batch[t][2]
      BY <1>1, <2>1, <2>3, PairOfTasks DEF Delegates
    <3>2. Holds(batch[t][1]) /\ Holds(batch[t][2])
      <4>1. /\ task[batch[t][1]] # "Created" /\ task[batch[t][2]] # "Created"
            /\ task[batch[t][1]] # "Free" /\ task[batch[t][2]] # "Free"
            /\ task[batch[t][1]] # "Submitted" /\ task[batch[t][2]] # "Submitted"
        BY <1>1, <2>3, <3>1
           DEF SortInv, HalvesAreHalves, Delegates, OwnersInv, BatchesAreExclusive, IsAlive
      <4>2. IsFinished(batch[t][1]) /\ IsFinished(batch[t][2])
        BY <1>1, <3>1, <4>1
           DEF IsFinished, IsAlive, OwnersInv, BatchTypes, BatchTypeOK, Statuses
      <4> QED
        BY <1>1, <3>1, <4>2, FinishedHolds
    <3>3. i \in PlacesIn(Left(t)) \/ i \in PlacesIn(Right(t))
      BY <1>11, <2>3, PlacesOfHalves
    <3> QED
      BY <2>1, <3>1, <3>2, <3>3 DEF SortInv, HoldersAreDisjoint, Left, Right
  <2> QED
    BY <2>2, <2>3
<1>12. HoldersAreDisjoint'
  <2> SUFFICES ASSUME NEW u \in Tasks, NEW v \in Tasks, u # v, Holds(u)', Holds(v)',
                      NEW i \in PlacesIn(storage[u])
               PROVE  i \notin PlacesIn(storage[v])
    BY <1>10 DEF HoldersAreDisjoint
  <2>1. CASE u = t
    BY <1>11, <2>1
  <2>2. CASE v = t
    BY <1>11, <2>2
  <2>3. CASE u # t /\ v # t
    <3>1. Holds(u) /\ Holds(v)
      BY <1>6, <2>3
    <3> QED
      BY <3>1 DEF SortInv, HoldersAreDisjoint
  <2> QED
    BY <2>1, <2>2, <2>3
<1> QED
  BY <1>1, <1>2, <1>3, <1>4, <1>6, <1>7, <1>8, <1>9, <1>12

-----------------------------------------------------------------------------
(***************************************************************************)
(* ParallelMergeSort: a step leaves what it does not write.                *)
(***************************************************************************)

\* Both halves of a task that merges are sorted and hold their ranges.
LEMMA SortedHalvesHold ==
    ASSUME OwnersInv, NEW t \in Tasks, HasSortedHalves(t)
    PROVE  /\ batch[t][1] \in Tasks /\ batch[t][2] \in Tasks
           /\ task[batch[t][1]] = "Succeeded" /\ task[batch[t][2]] = "Succeeded"
           /\ Holds(batch[t][1]) /\ Holds(batch[t][2])
           /\ Owns(t, batch[t][1]) /\ Owns(t, batch[t][2])
           /\ IsExecuting(t) /\ Delegates(t)
<1>1. /\ batch[t][1] \in Tasks /\ batch[t][2] \in Tasks
      /\ 1 \in DOMAIN batch[t] /\ 2 \in DOMAIN batch[t]
      /\ Owns(t, batch[t][1]) /\ Owns(t, batch[t][2])
      /\ IsExecuting(t) /\ Len(batch[t]) = 2
  BY PairOfTasks DEF HasSortedHalves, Threads
<1>2. /\ IsFinished(batch[t][1]) /\ task[batch[t][1]] = "Succeeded"
      /\ IsFinished(batch[t][2]) /\ task[batch[t][2]] = "Succeeded"
  BY <1>1
     DEF HasSortedHalves, AreAllTaskFinished, HasExecutionError, HasFailed, IsFinished
<1> QED
  BY <1>1, <1>2, FinishedHolds DEF Delegates, IsActive

\* A sorted range in which nobody writes.
LEMMA SortedRangeIsKept ==
    ASSUME SortTypes, NEW u \in Tasks, storage'[u] = storage[u], input' = input,
           \A c \in Containers : \A i \in PlacesIn(storage[u]) : data'[c][i] = data[c][i],
           IsSorted(data[storage[u].container], input, storage[u].start, LastIndex(storage[u]))
    PROVE  IsSorted(data[storage[u].container], input,
                    storage[u].start, LastIndex(storage[u]))'
<1>1. /\ storage[u].container \in Containers
      /\ storage[u].start \in Int /\ LastIndex(storage[u]) \in Int
      /\ PlacesIn(storage[u]) = storage[u].start .. LastIndex(storage[u])
  BY RangeType
<1>2. IsSorted(data'[storage[u].container], input, storage[u].start, LastIndex(storage[u]))
  BY <1>1, SortedIsKept
<1> QED
  BY <1>2 DEF LastIndex

\* The numbers of a merge.
LEMMA MergeNumbers ==
    ASSUME SortInv, NEW t \in Tasks, Delegates(t)
    PROVE  /\ batch[t][1] \in Tasks /\ batch[t][2] \in Tasks
           /\ Left(t).container \in Containers /\ Right(t).container \in Containers
           /\ MergeContainer(Left(t)) \in Containers
           /\ MergeContainer(Left(t)) # Left(t).container
           /\ Left(t).start \in Nat /\ Left(t).range \in Nat
           /\ Right(t).start = Left(t).start + Left(t).range /\ Right(t).range \in Nat
           /\ LastIndex(Left(t)) = Left(t).start + Left(t).range - 1
           /\ LastIndex(Right(t)) = Right(t).start + Right(t).range - 1
           /\ merged[t].left \in Nat /\ merged[t].right \in Nat
           /\ ReadsLeft(t) \in Int /\ ReadsRight(t) \in Int /\ Writes(t) \in Int
           /\ LastIndex(Left(t)) \in Int /\ LastIndex(Right(t)) \in Int
           /\ PlacesIn(storage[t]) = Left(t).start .. LastIndex(Right(t))
           /\ PlacesIn(storage[t]) \subseteq DOMAIN input
<1>1. batch[t][1] \in Tasks /\ batch[t][2] \in Tasks /\ SortTypes
  BY PairOfTasks DEF Delegates, SortInv, Threads
<1>2. /\ Left(t).container \in Containers /\ Right(t).container \in Containers
      /\ Left(t).start \in Nat /\ Left(t).range \in Nat
      /\ Right(t).start \in Nat /\ Right(t).range \in Nat
      /\ LastIndex(Left(t)) = Left(t).start + Left(t).range - 1
      /\ LastIndex(Right(t)) = Right(t).start + Right(t).range - 1
  BY <1>1, RangeType DEF Left, Right
<1>3. /\ MergeContainer(Left(t)) \in Containers
      /\ MergeContainer(Left(t)) # Left(t).container
  BY <1>2 DEF MergeContainer, Other, Containers
<1>4. merged[t].left \in Nat /\ merged[t].right \in Nat
  <2>1. merged[t] \in [left : 0 .. Len(input), right : 0 .. Len(input)] /\ Len(input) \in Nat
    BY <1>1, RangeType DEF SortTypes, SortTypeOK
  <2> QED
    BY <2>1
<1>5. /\ LastIndex(Left(t)) + 1 = Right(t).start
      /\ LastIndex(Right(t)) = LastIndex(storage[t])
      /\ Left(t).start = storage[t].start
  BY PlacesOfHalves
<1>6. /\ PlacesIn(storage[t]) = storage[t].start .. LastIndex(storage[t])
      /\ PlacesIn(storage[t]) \subseteq DOMAIN input
  BY <1>1, RangeType
<1>7. /\ ReadsLeft(t) \in Int /\ ReadsRight(t) \in Int /\ Writes(t) \in Int
      /\ LastIndex(Left(t)) \in Int /\ LastIndex(Right(t)) \in Int
  BY <1>2, <1>4 DEF ReadsLeft, ReadsRight, Writes
<1>8. Right(t).start = Left(t).start + Left(t).range
  BY <1>2, <1>5
<1>9. PlacesIn(storage[t]) = Left(t).start .. LastIndex(Right(t))
  BY <1>5, <1>6
<1> HIDE DEF Left, Right
<1> QED
  BY <1>1, <1>2, <1>3, <1>4, <1>6, <1>7, <1>8, <1>9

\* A merge stays in its range.
LEMMA MergeBounds ==
    ASSUME SortInv, NEW t \in Tasks, Delegates(t),
           merged[t].left <= Left(t).range, merged[t].right <= Right(t).range
    PROVE  /\ Left(t).start <= ReadsLeft(t) /\ ReadsLeft(t) <= LastIndex(Left(t)) + 1
           /\ Right(t).start <= ReadsRight(t) /\ ReadsRight(t) <= LastIndex(Right(t)) + 1
           /\ Left(t).start <= ReadsRight(t) /\ LastIndex(Left(t)) <= LastIndex(Right(t))
           /\ Left(t).start <= Writes(t) /\ Writes(t) - 1 <= LastIndex(Right(t))
           /\ Writes(t) <= ReadsRight(t)
           /\ ReadsLeft(t) <= LastIndex(Left(t)) => Writes(t) < ReadsRight(t)
<1>1. /\ Left(t).start \in Nat /\ Left(t).range \in Nat
      /\ Right(t).start = Left(t).start + Left(t).range /\ Right(t).range \in Nat
      /\ LastIndex(Left(t)) = Left(t).start + Left(t).range - 1
      /\ LastIndex(Right(t)) = Right(t).start + Right(t).range - 1
      /\ merged[t].left \in Nat /\ merged[t].right \in Nat
  BY MergeNumbers
<1> HIDE DEF Left, Right
<1> QED
  BY <1>1 DEF ReadsLeft, ReadsRight, Writes

\* A merge in whose range nobody writes.
LEMMA MergeAgreesIsKept ==
    ASSUME SortInv, NEW u \in Tasks, Delegates(u), MergeAgrees(u),
           batch'[u] = batch[u], merged'[u] = merged[u], input' = input,
           storage'[batch[u][1]] = storage[batch[u][1]],
           storage'[batch[u][2]] = storage[batch[u][2]],
           \A c \in Containers : \A i \in PlacesIn(storage[u]) : data'[c][i] = data[c][i]
    PROVE  MergeAgrees(u)'
<1> DEFINE out == MergeContainer(Left(u))
           first == Left(u).start
           k == Writes(u)
           i == ReadsLeft(u)
           mid == LastIndex(Left(u))
           j == ReadsRight(u)
           last == LastIndex(Right(u))
<1>1. /\ Left(u)' = Left(u) /\ Right(u)' = Right(u) /\ out' = out
      /\ k' = k /\ i' = i /\ j' = j /\ mid' = mid /\ last' = last
  BY DEF Left, Right, Writes, ReadsLeft, ReadsRight, LastIndex, MergeContainer
<1>2. /\ first \in Int /\ k \in Int /\ i \in Int /\ mid \in Int /\ j \in Int /\ last \in Int
      /\ PlacesIn(storage[u]) = first .. last
      /\ out \in Containers
      /\ Left(u).container \in Containers /\ Right(u).container \in Containers
      /\ first <= i /\ first <= j /\ mid <= last /\ k - 1 <= last
  BY MergeNumbers, MergeBounds DEF MergeAgrees
<1>4. AreMerged(data[out], first, k, data[Left(u).container], i, mid,
                data[Right(u).container], j, last)
  BY DEF MergeAgrees
<1> HIDE DEF out, first, k, i, mid, j, last
<1>5. /\ \A x \in first .. k - 1 : data'[out][x] = data[out][x]
      /\ \A x \in i .. mid : data'[Left(u).container][x] = data[Left(u).container][x]
      /\ \A x \in j .. last : data'[Right(u).container][x] = data[Right(u).container][x]
  BY <1>2
<1>6. AreMerged(data'[out], first, k, data'[Left(u).container], i, mid,
                data'[Right(u).container], j, last)
  BY <1>2, <1>4, <1>5, MergeIsKept
<1> QED
  BY <1>1, <1>6 DEF MergeAgrees, AreMerged, out, first, k, i, mid, j, last

-----------------------------------------------------------------------------
(***************************************************************************)
(* ParallelMergeSort: every step keeps what has been sorted.               *)
(***************************************************************************)

\* A function returns, and what it has written is in its own range.
LEMMA ReturnKeepsSorted ==
    ASSUME SortInv, OwnersInv', SortTypes', NEW t \in Tasks, NEW success \in BOOLEAN,
           Return(t, success),
           IsExecuting(t), \A i \in DOMAIN batch[t] : ~IsAlive(batch[t][i]),
           DOMAIN storage' = Tasks, \A u \in Tasks : u # t => storage'[u] = storage[u],
           storage'[t].start = storage[t].start, storage'[t].range = storage[t].range,
           \A u \in Tasks : u # t => merged'[u] = merged[u], merged'[t] = Nothing,
           input' = input,
           \A c \in Containers : \A i \in DOMAIN input :
                i \notin PlacesIn(storage[t]) => data'[c][i] = data[c][i],
           success => IsSorted(data[storage[t].container], input,
                               storage[t].start, LastIndex(storage[t]))'
    PROVE  SortInv'
<1>1. /\ task'[t] = Outcome(success) /\ batch'[t] = <<>>
      /\ \A u \in Tasks : u # t =>
            /\ batch'[u] = batch[u]
            /\ task'[u] = IF Owns(t, u) THEN "Free" ELSE task[u]
            /\ Delegates(u)' <=> Delegates(u)
            /\ Holds(u)' <=> Holds(u) /\ ~Owns(t, u)
      /\ Holds(t)' /\ ~Delegates(t)'
      /\ HalvesAreHalves' /\ RootIsWhole' /\ StartsWithInput' /\ HoldersAreDisjoint'
  BY ReturnShape
<1>2. /\ Tasks \subseteq Threads /\ OwnersInv /\ SortTypes
      /\ task'[t] = "Succeeded" => success
      /\ task'[t] # "Submitted"
  BY <1>1 DEF Threads, SortInv, Outcome
<1>3. \A u \in Tasks : PlacesIn(storage[u])' = PlacesIn(storage[u])
  BY DEF PlacesIn, LastIndex
<1>4. ASSUME NEW u \in Tasks, u # t, Holds(u), ~Owns(t, u)
      PROVE  /\ \A i \in PlacesIn(storage[u]) : i \notin PlacesIn(storage[t])
             /\ \A c \in Containers : \A i \in PlacesIn(storage[u]) : data'[c][i] = data[c][i]
  <2>1. \A i \in PlacesIn(storage[u]) : i \notin PlacesIn(storage[t])
    BY <1>1, <1>3, <1>4 DEF HoldersAreDisjoint
  <2> QED
    BY <1>2, <2>1, RangeType
<1>5. UnsortedIsInput'
  <2> SUFFICES ASSUME NEW u \in Tasks, Holds(u)', task'[u] = "Submitted"
               PROVE  /\ storage'[u].container = "container"
                      /\ storage'[u].maxRangeOrLevels = Len(input) \div Workers
                      /\ \A i \in PlacesIn(storage[u]) : data'["container"][i] = input[i]
    BY <1>3 DEF UnsortedIsInput
  <2>1. u # t /\ Holds(u) /\ ~Owns(t, u) /\ task[u] = "Submitted" /\ storage'[u] = storage[u]
    BY <1>1, <1>2
  <2>2. "container" \in Containers
    BY DEF Containers
  <2> QED
    BY <1>4, <2>1, <2>2 DEF SortInv, UnsortedIsInput
<1>6. MergesAgree'
  <2> SUFFICES ASSUME NEW u \in Tasks, merged'[u] # Nothing
               PROVE  Delegates(u)' /\ HasSortedHalves(u)' /\ MergeAgrees(u)'
    BY DEF MergesAgree, Nothing
  <2>1. u # t /\ merged'[u] = merged[u] /\ batch'[u] = batch[u]
    BY <1>1
  <2>2. Delegates(u) /\ HasSortedHalves(u) /\ MergeAgrees(u)
    BY <2>1 DEF SortInv, MergesAgree
  <2>3. /\ batch[u][1] \in Tasks /\ batch[u][2] \in Tasks
        /\ task[batch[u][1]] = "Succeeded" /\ task[batch[u][2]] = "Succeeded"
        /\ Holds(batch[u][1]) /\ Holds(batch[u][2])
        /\ Owns(u, batch[u][1]) /\ Owns(u, batch[u][2])
    BY <1>2, <2>2, SortedHalvesHold
  <2>4. ~Owns(t, batch[u][1]) /\ ~Owns(t, batch[u][2])
    BY <1>2, <2>1, <2>3, OneOwner
  <2>5. batch[u][1] # t /\ batch[u][2] # t
    BY <2>3 DEF IsExecuting
  <2>6. /\ task'[batch[u][1]] = "Succeeded" /\ task'[batch[u][2]] = "Succeeded"
        /\ storage'[batch[u][1]] = storage[batch[u][1]]
        /\ storage'[batch[u][2]] = storage[batch[u][2]]
    BY <1>1, <2>3, <2>4, <2>5
  <2>7. \A c \in Containers : \A i \in PlacesIn(storage[u]) : data'[c][i] = data[c][i]
    <3>1. /\ \A c \in Containers : \A i \in PlacesIn(Left(u)) : data'[c][i] = data[c][i]
          /\ \A c \in Containers : \A i \in PlacesIn(Right(u)) : data'[c][i] = data[c][i]
      BY <1>4, <2>3, <2>4, <2>5 DEF Left, Right
    <3> QED
      BY <2>2, <3>1, PlacesOfHalves
  <2>8. MergeAgrees(u)'
    BY <2>1, <2>2, <2>6, <2>7, MergeAgreesIsKept
  <2>9. HasSortedHalves(u)'
    <3>1. DOMAIN batch[u] = {1, 2} /\ Len(batch[u]) = 2
      BY <1>2, <2>2, PairOfTasks DEF Delegates
    <3> QED
      BY <2>1, <2>6, <3>1
         DEF HasSortedHalves, AreAllTaskFinished, HasExecutionError, IsFinished, HasFailed
  <2> QED
    BY <1>1, <2>1, <2>2, <2>8, <2>9
<1>7. RangesAreSorted'
  <2> SUFFICES ASSUME NEW u \in Tasks, task'[u] = "Succeeded", ~IsMerged(u)'
               PROVE  IsSorted(data[storage[u].container], input,
                               storage[u].start, LastIndex(storage[u]))'
    BY DEF RangesAreSorted
  <2>1. CASE u = t
    BY <1>2, <2>1
  <2>2. CASE u # t
    <3>1. task[u] = "Succeeded" /\ ~Owns(t, u) /\ storage'[u] = storage[u]
      BY <1>1, <2>2
    <3>2. Holds(u)
      BY <1>2, <3>1, FinishedHolds DEF IsFinished
    <3>3. ~IsMerged(u)
      <4> SUFFICES ASSUME NEW w \in Tasks, merged[w] # Nothing,
                          NEW i \in DOMAIN batch[w], batch[w][i] = u
                   PROVE  FALSE
        BY DEF IsMerged
      <4>1. w # t
        BY <3>1 DEF Owns
      <4>2. merged'[w] = merged[w] /\ batch'[w] = batch[w]
        BY <1>1, <4>1
      <4> QED
        BY <4>2 DEF IsMerged, Nothing
    <3>4. IsSorted(data[storage[u].container], input,
                   storage[u].start, LastIndex(storage[u]))
      BY <3>1, <3>3 DEF SortInv, RangesAreSorted
    <3> QED
      BY <1>2, <1>4, <2>2, <3>1, <3>2, <3>4, SortedRangeIsKept
  <2> QED
    BY <2>1, <2>2
<1> QED
  BY <1>1, <1>5, <1>6, <1>7 DEF SortInv

\* Nobody has begun to merge who has not handed out both halves.
LEMMA NothingMerged ==
    ASSUME SortInv, NEW t \in Tasks, ~HasSortedHalves(t) \/ ~Delegates(t)
    PROVE  merged[t] = Nothing
BY DEF SortInv, MergesAgree

\* The types of a step of a function that returns.
LEMMA ReturnTypes ==
    ASSUME SortInv, OwnersInv', NEW t \in Tasks, NEW success, Return(t, success),
           input' = input, data' \in [Containers -> [DOMAIN input -> Keys]],
           merged' = [merged EXCEPT ![t] = Nothing],
           NEW c \in Containers, NEW n \in Nat,
           storage' \in {storage, [storage EXCEPT ![t].maxRangeOrLevels = n],
                         [storage EXCEPT ![t].container = c, ![t].maxRangeOrLevels = n]}
    PROVE  /\ SortTypes'
           /\ DOMAIN storage' = Tasks /\ \A u \in Tasks : u # t => storage'[u] = storage[u]
           /\ storage'[t].start = storage[t].start /\ storage'[t].range = storage[t].range
           /\ merged'[t] = Nothing /\ \A u \in Tasks : u # t => merged'[u] = merged[u]
<1>1. /\ SortTypeOK /\ Tasks \subseteq Threads /\ Len(input) \in Nat
      /\ \A u \in Tasks : storage[u].start + storage[u].range <= Len(input) + 1
  BY RangeType DEF SortInv, SortTypes, Threads
<1>2. BatchTypeOK' /\ batch' \in [Threads -> Seq(Tasks)]
  BY DEF OwnersInv, BatchTypes
<1>3. \A u \in Threads : Len(batch'[u]) <= 2
  <2>1. batch' = [batch EXCEPT ![t] = <<>>]
    BY DEF Return
  <2>2. Len(<<>>) <= 2
    BY EmptySeq
  <2> QED
    BY <1>1, <2>1, <2>2 DEF SortTypeOK
<1>4. /\ merged' \in [Tasks -> [left : 0 .. Len(input), right : 0 .. Len(input)]]
      /\ merged'[t] = Nothing /\ \A u \in Tasks : u # t => merged'[u] = merged[u]
  <2>1. Nothing \in [left : 0 .. Len(input), right : 0 .. Len(input)]
    BY <1>1 DEF Nothing
  <2> QED
    BY <1>1, <2>1 DEF SortTypeOK
<1> DEFINE Ranges == [container : Containers, start : 1 .. Len(input) + 1,
                      range : 0 .. Len(input), maxRangeOrLevels : Nat]
<1>5. /\ storage' \in [Tasks -> Ranges]
      /\ \A u \in Tasks : u # t => storage'[u] = storage[u]
      /\ storage'[t].start = storage[t].start /\ storage'[t].range = storage[t].range
  <2>1. storage \in [Tasks -> Ranges] /\ storage[t] \in Ranges
    BY <1>1 DEF SortTypeOK
  <2>2. CASE storage' = storage
    BY <2>1, <2>2
  <2>3. CASE storage' = [storage EXCEPT ![t].maxRangeOrLevels = n]
    BY <2>1, <2>3
  <2>4. CASE storage' = [storage EXCEPT ![t].container = c, ![t].maxRangeOrLevels = n]
    <3>1. storage' = [storage EXCEPT ![t] = [storage[t] EXCEPT !.container = c,
                                                              !.maxRangeOrLevels = n]]
      BY <2>1, <2>4
    <3> QED
      BY <2>1, <3>1
  <2> QED
    BY <2>2, <2>3, <2>4
<1>6. SortTypes'
  <2>1. \A u \in Tasks : storage'[u].start + storage'[u].range <= Len(input) + 1
    BY <1>1, <1>5
  <2> QED
    BY <1>1, <1>2, <1>3, <1>4, <1>5, <2>1 DEF SortTypes, SortTypeOK
<1> QED
  BY <1>4, <1>5, <1>6

\* A leaf: its range is in the container as it was, and is sorted there.
LEMMA SortSequentiallyKeepsSorted ==
    ASSUME SortInv, OwnersInv', NEW t \in Tasks, SortSequentially(t)
    PROVE  SortInv'
<1>1. /\ t \in Threads /\ IsExecuting(t) /\ IsSmall(t) /\ Return(t, TRUE)
      /\ input' = input /\ merged' = merged
      /\ storage' = [storage EXCEPT ![t].maxRangeOrLevels = @ + 1]
  BY DEF SortSequentially, Threads
<1>2. batch[t] = <<>>
  BY <1>1 DEF SortInv, OwnersInv, BatchesAreOfCallers
<1>3. ~Delegates(t) /\ Holds(t) /\ task[t] = "Submitted"
  BY <1>1, <1>2, EmptySeq DEF Delegates, Holds, IsActive, IsExecuting
<1>4. merged[t] = Nothing /\ merged' = [merged EXCEPT ![t] = Nothing]
  <2>1. merged[t] = Nothing
    BY <1>3, NothingMerged
  <2> QED
    BY <1>1, <2>1 DEF SortInv, SortTypes, SortTypeOK
<1>5. /\ storage[t].container = "container" /\ "container" \in Containers
      /\ \A i \in PlacesIn(storage[t]) : data["container"][i] = input[i]
  BY <1>3 DEF SortInv, UnsortedIsInput, Containers
<1>6. /\ storage[t].start \in Int /\ LastIndex(storage[t]) \in Int
      /\ PlacesIn(storage[t]) = storage[t].start .. LastIndex(storage[t])
      /\ PlacesIn(storage[t]) \subseteq DOMAIN input
      /\ storage[t].maxRangeOrLevels \in Nat
  BY RangeType DEF SortInv
<1>7. data \in [Containers -> [DOMAIN input -> Keys]]
  BY DEF SortInv, SortTypes, SortTypeOK
<1>8. PICK u \in SortRange(data["container"], storage[t]) :
            data' = [data EXCEPT !["container"] = u]
  BY <1>5 DEF SortSequentially
<1>9. /\ u \in [DOMAIN input -> Keys]
      /\ IsSorted(u, data["container"], storage[t].start, LastIndex(storage[t]))
      /\ \A i \in DOMAIN input : i \notin PlacesIn(storage[t]) => u[i] = data["container"][i]
  <2>1. DOMAIN data["container"] = DOMAIN input
    BY <1>5, <1>7
  <2> QED
    BY <1>6, <1>8, <2>1 DEF SortRange
<1>10. IsSorted(u, input, storage[t].start, LastIndex(storage[t]))
  BY <1>5, <1>6, <1>9, SortedOfTheSame
<1>11. /\ data' \in [Containers -> [DOMAIN input -> Keys]]
       /\ data'["container"] = u
       /\ \A c \in Containers : \A i \in DOMAIN input :
            i \notin PlacesIn(storage[t]) => data'[c][i] = data[c][i]
  BY <1>5, <1>7, <1>8, <1>9
<1>12. /\ storage' = [storage EXCEPT ![t].maxRangeOrLevels = storage[t].maxRangeOrLevels + 1]
       /\ storage[t].maxRangeOrLevels + 1 \in Nat
  BY <1>1, <1>6
<1>13. /\ SortTypes'
       /\ DOMAIN storage' = Tasks /\ \A v \in Tasks : v # t => storage'[v] = storage[v]
       /\ storage'[t].start = storage[t].start /\ storage'[t].range = storage[t].range
       /\ merged'[t] = Nothing /\ \A v \in Tasks : v # t => merged'[v] = merged[v]
  BY <1>1, <1>4, <1>5, <1>11, <1>12, ReturnTypes
<1>14. storage'[t].container = "container"
  BY <1>5, <1>12 DEF SortInv, OwnersInv, BatchTypes
<1>15. IsSorted(data[storage[t].container], input, storage[t].start, LastIndex(storage[t]))'
  BY <1>1, <1>10, <1>11, <1>13, <1>14 DEF LastIndex
<1>16. \A i \in DOMAIN batch[t] : ~IsAlive(batch[t][i])
  <2>1. DOMAIN batch[t] = {}
    BY <1>2
  <2> QED
    BY <2>1
<1> QED
  BY <1>1, <1>11, <1>13, <1>15, <1>16, ReturnKeepsSorted

\* A failure, before or after the halves.
LEMMA FailureKeepsSorted ==
    ASSUME SortInv, OwnersInv', NEW t \in Tasks, FailToCreateHalf(t) \/ FailAfterHalves(t)
    PROVE  SortInv'
<1>1. /\ t \in Threads /\ Return(t, FALSE) /\ UNCHANGED <<poolSize, input, data, storage, merged>>
      /\ "container" \in Containers /\ 0 \in Nat
  BY DEF FailToCreateHalf, FailAfterHalves, Threads, Containers
<1>2. IsExecuting(t) /\ \A i \in DOMAIN batch[t] : ~IsAlive(batch[t][i])
  <2>1. CASE FailToCreateHalf(t)
    BY <2>1 DEF FailToCreateHalf, SortInv, OwnersInv, BatchesAreOfCallers, IsExecuting, IsAlive
  <2>2. CASE FailAfterHalves(t)
    BY <1>1, <2>2, PairOfTasks
       DEF FailAfterHalves, SortInv, AreAllTaskFinished, IsFinished, IsExecuting, IsAlive
  <2> QED
    BY <2>1, <2>2
<1>3. ~HasSortedHalves(t) \/ ~Delegates(t)
  <2>1. CASE FailToCreateHalf(t)
    <3>1. ~(2 < 2)
      OBVIOUS
    <3> QED
      BY <2>1, <3>1 DEF FailToCreateHalf, Delegates
  <2>2. CASE FailAfterHalves(t)
    BY <2>2 DEF FailAfterHalves, HasSortedHalves
  <2> QED
    BY <2>1, <2>2
<1>4. merged' = [merged EXCEPT ![t] = Nothing]
  <2>1. merged[t] = Nothing
    BY <1>3, NothingMerged
  <2> QED
    BY <1>1, <2>1 DEF SortInv, SortTypes, SortTypeOK
<1>5. data' \in [Containers -> [DOMAIN input -> Keys]]
  BY <1>1 DEF SortInv, SortTypes, SortTypeOK
<1>6. /\ SortTypes'
      /\ DOMAIN storage' = Tasks /\ \A v \in Tasks : v # t => storage'[v] = storage[v]
      /\ storage'[t].start = storage[t].start /\ storage'[t].range = storage[t].range
      /\ merged'[t] = Nothing /\ \A v \in Tasks : v # t => merged'[v] = merged[v]
  BY <1>1, <1>4, <1>5, ReturnTypes
<1> QED
  BY <1>1, <1>2, <1>6, ReturnKeepsSorted

\* When everything has been merged, the whole range is sorted in the other container.
LEMMA MergeHalvesKeepsSorted ==
    ASSUME SortInv, OwnersInv', NEW t \in Tasks, MergeHalves(t)
    PROVE  SortInv'
<1>1. /\ t \in Threads /\ HasSortedHalves(t) /\ Return(t, TRUE)
      /\ input' = input /\ data' = data
      /\ merged' = [merged EXCEPT ![t] = Nothing]
      /\ merged[t] = [left |-> Left(t).range, right |-> Right(t).range]
      /\ storage' = [storage EXCEPT ![t].container = MergeContainer(Left(t)),
                                    ![t].maxRangeOrLevels = Left(t).maxRangeOrLevels + 1]
  BY DEF MergeHalves, Left, Right, MergeContainer, Threads
<1>2. /\ batch[t][1] \in Tasks /\ batch[t][2] \in Tasks
      /\ task[batch[t][1]] = "Succeeded" /\ task[batch[t][2]] = "Succeeded"
      /\ IsExecuting(t) /\ Delegates(t)
  BY <1>1, SortedHalvesHold DEF SortInv
<1>3. \A i \in DOMAIN batch[t] : ~IsAlive(batch[t][i])
  BY <1>1 DEF HasSortedHalves, AreAllTaskFinished, IsFinished, IsExecuting, IsAlive
<1>4. /\ Left(t).container \in Containers /\ MergeContainer(Left(t)) \in Containers
      /\ Left(t).start \in Nat /\ Left(t).range \in Nat /\ Right(t).range \in Nat
      /\ Right(t).start = Left(t).start + Left(t).range
      /\ LastIndex(Left(t)) = Left(t).start + Left(t).range - 1
      /\ LastIndex(Right(t)) = Right(t).start + Right(t).range - 1
      /\ LastIndex(Right(t)) \in Int
  BY <1>2, MergeNumbers
<1>5. /\ LastIndex(Right(t)) = LastIndex(storage[t])
      /\ Left(t).start = storage[t].start
      /\ storage[t].range = Left(t).range + Right(t).range
  BY <1>2, PlacesOfHalves
<1>6. Left(t).maxRangeOrLevels + 1 \in Nat
  BY <1>2, RangeType DEF SortInv, Left
<1>7. /\ SortTypes'
      /\ DOMAIN storage' = Tasks /\ \A v \in Tasks : v # t => storage'[v] = storage[v]
      /\ storage'[t].start = storage[t].start /\ storage'[t].range = storage[t].range
      /\ merged'[t] = Nothing /\ \A v \in Tasks : v # t => merged'[v] = merged[v]
  <2>1. data' \in [Containers -> [DOMAIN input -> Keys]]
    BY <1>1 DEF SortInv, SortTypes, SortTypeOK
  <2> QED
    BY <1>1, <1>4, <1>6, <2>1, ReturnTypes
<1>8. Right(t).range > 0
  <2>1. ~IsSmall(t)
    BY <1>1, <1>2, PairOfTasks DEF Delegates, SortInv, OwnersInv, BatchesAreOfCallers
  <2>2. storage[t].range \in Nat /\ storage[t].maxRangeOrLevels \in Nat
    BY RangeType DEF SortInv
  <2>3. storage[t].range > 0
    BY <2>1, <2>2 DEF IsSmall
  <2>4. Left(t).range = storage[t].range \div 2
    BY <1>2 DEF Delegates, SortInv, HalvesAreHalves
  <2> HIDE DEF Left, Right
  <2> QED
    BY <1>4, <1>5, <2>2, <2>3, <2>4
<1>9. MergeAgrees(t)
  <2>1. merged[t] # Nothing
    BY <1>1, <1>8 DEF Nothing
  <2> QED
    BY <2>1 DEF SortInv, MergesAgree
<1>10. /\ Writes(t) = LastIndex(Right(t)) + 1
       /\ ReadsLeft(t) = LastIndex(Left(t)) + 1
       /\ ReadsRight(t) = LastIndex(Right(t)) + 1
  <2>1. merged[t].left = Left(t).range /\ merged[t].right = Right(t).range
    BY <1>1
  <2> HIDE DEF Left, Right
  <2> QED
    BY <1>4, <2>1 DEF Writes, ReadsLeft, ReadsRight
<1> DEFINE out == data[MergeContainer(Left(t))]
<1>11. IsSorted(out, input, Left(t).start, LastIndex(Right(t)))
  <2>1. AreMerged(out, Left(t).start, Writes(t),
                  data[Left(t).container], ReadsLeft(t), LastIndex(Left(t)),
                  data[Right(t).container], ReadsRight(t), LastIndex(Right(t)))
    BY <1>9 DEF MergeAgrees
  <2>2. Writes(t) - 1 = LastIndex(Right(t))
    BY <1>4, <1>10
  <2>3. ASSUME NEW key \in Keys
        PROVE  Occurrences(out, Left(t).start, LastIndex(Right(t)), key)
                = Occurrences(input, Left(t).start, LastIndex(Right(t)), key)
    <3>1. /\ Occurrences(data[Left(t).container], ReadsLeft(t), LastIndex(Left(t)), key) = 0
          /\ Occurrences(data[Right(t).container], ReadsRight(t), LastIndex(Right(t)), key) = 0
      <4>1. /\ ReadsLeft(t) \in Int /\ LastIndex(Left(t)) \in Int
            /\ ReadsRight(t) \in Int /\ LastIndex(Right(t)) \in Int
            /\ LastIndex(Left(t)) < ReadsLeft(t) /\ LastIndex(Right(t)) < ReadsRight(t)
        BY <1>4, <1>10
      <4> QED
        BY <4>1, NoOccurrences
    <3>2. Occurrences(out, Left(t).start, LastIndex(Right(t)), key) \in Nat
      BY <1>4, OccurrencesType
    <3> QED
      BY <2>1, <2>2, <2>3, <3>1, <3>2 DEF AreMerged
  <2> QED
    BY <2>1, <2>2, <2>3 DEF AreMerged, IsSorted
<1>12. storage'[t].container = MergeContainer(Left(t))
  BY <1>1 DEF SortInv, OwnersInv, BatchTypes
<1>13. IsSorted(data[storage[t].container], input, storage[t].start, LastIndex(storage[t]))'
  BY <1>1, <1>5, <1>7, <1>11, <1>12 DEF LastIndex
<1> QED
  BY <1>1, <1>2, <1>3, <1>7, <1>13, ReturnKeepsSorted

\* A merge goes on as long as its halves, and what is in its range, stay.
LEMMA MergesAreKept ==
    ASSUME SortInv, NEW u \in Tasks, merged[u] # Nothing,
           batch'[u] = batch[u], merged'[u] = merged[u], input' = input,
           storage'[batch[u][1]] = storage[batch[u][1]],
           storage'[batch[u][2]] = storage[batch[u][2]],
           task'[batch[u][1]] = task[batch[u][1]], task'[batch[u][2]] = task[batch[u][2]],
           \A c \in Containers : \A i \in PlacesIn(storage[u]) : data'[c][i] = data[c][i]
    PROVE  (Delegates(u) /\ HasSortedHalves(u) /\ MergeAgrees(u))'
<1>1. Delegates(u) /\ HasSortedHalves(u) /\ MergeAgrees(u)
  BY DEF SortInv, MergesAgree
<1>2. MergeAgrees(u)'
  BY <1>1, MergeAgreesIsKept
<1>3. /\ DOMAIN batch[u] = {1, 2} /\ Len(batch[u]) = 2
  BY <1>1, PairOfTasks DEF Delegates, SortInv, Threads
<1>4. Delegates(u)' /\ HasSortedHalves(u)'
  BY <1>1, <1>3
     DEF Delegates, IsActive, HasSortedHalves, AreAllTaskFinished, HasExecutionError,
         IsFinished, HasFailed
<1> QED
  BY <1>2, <1>4

\* A half is created, and holds nothing yet.
LEMMA CreateHalfKeepsSorted ==
    ASSUME SortInv, OwnersInv', NEW t \in Tasks, CreateHalf(t)
    PROVE  SortInv'
<1> DEFINE new == NewTask
<1>1. /\ OwnersInv /\ SortTypes /\ Tasks \subseteq Threads
      /\ Main \in Threads /\ Main \notin Tasks
      /\ \A u \in Threads : batch[u] \in Seq(Tasks)
  <2>1. Tasks \subseteq Threads /\ Main \in Threads /\ Main \notin Tasks
    BY DEF Threads, Main, Tasks
  <2> QED
    BY <2>1 DEF SortInv, OwnersInv, BatchTypes
<1>2. /\ new \in Tasks /\ task[new] = "Free"
  BY NewTaskIsFree DEF CreateHalf, SortInv, OwnersInv, BatchTypes, BatchTypeOK
<1>3. /\ IsExecuting(t) /\ Len(batch[t]) < 2 /\ t # new
      /\ UNCHANGED <<poolSize, input, data, storage, merged>>
  BY <1>2 DEF CreateHalf, IsExecuting
<1> HIDE DEF new
<1>4. /\ task'[new] = "Created" /\ \A u \in Threads : u # new => task'[u] = task[u]
      /\ batch'[t] = Append(batch[t], new) /\ \A u \in Threads : u # t => batch'[u] = batch[u]
  BY <1>1, <1>2 DEF CreateHalf, new, OwnersInv, BatchTypes, BatchTypeOK, Statuses
<1> PICK n \in Nat : n = Len(batch[t])
  BY <1>1, LenProperties
<1>5. /\ n < 2 /\ Len(batch'[t]) = n + 1
      /\ batch'[t][n + 1] = new
      /\ \A i \in 1 .. n : batch'[t][i] = batch[t][i]
      /\ DOMAIN batch[t] = 1 .. n
  BY <1>1, <1>2, <1>3, <1>4, AppendProperties, LenProperties
<1>6. batch[new] = <<>>
  BY <1>1, <1>2 DEF OwnersInv, BatchesAreOfCallers, IsExecuting, IsAlive
<1>7. \A u \in Threads : \A i \in DOMAIN batch[u] : batch[u][i] \in Tasks /\ batch[u][i] # new
  <2> SUFFICES ASSUME NEW u \in Threads, NEW i \in DOMAIN batch[u]
               PROVE  batch[u][i] \in Tasks /\ batch[u][i] # new
    OBVIOUS
  <2>1. batch[u][i] \in Tasks
    BY <1>1, ElementOfSeq, LenProperties
  <2> QED
    BY <1>1, <1>2, <2>1 DEF OwnersInv, BatchesAreExclusive
<1>8. ~Delegates(t) /\ ~Delegates(t)' /\ merged[t] = Nothing
  <2>1. ~Delegates(t)
    <3>1. ~(2 < 2)
      OBVIOUS
    <3> QED
      BY <1>3, <3>1 DEF Delegates
  <2>2. ASSUME Delegates(t)' PROVE FALSE
    <3>4. n + 1 = 2
      BY <1>5, <2>2 DEF Delegates
    <3>5. ASSUME NEW m \in Nat, m + 1 = 2 PROVE m = 1
      BY <3>5
    <3>6. n = 1
      BY <3>4, <3>5
    <3>1. batch'[t][1] = batch[t][1] /\ 1 \in DOMAIN batch[t]
      BY <1>5, <3>6
    <3>2. task[batch[t][1]] = "Created"
      BY <1>3, <3>1 DEF SortInv, OwnersInv, BatchesAreOfCallers
    <3>3. task'[batch[t][1]] = "Created"
      BY <1>1, <1>4, <1>7, <3>1, <3>2
    <3> QED
      BY <2>2, <3>1, <3>3 DEF Delegates, IsActive
  <2> QED
    BY <2>1, <2>2, NothingMerged
<1>9. \A u \in Tasks : /\ Delegates(u)' <=> Delegates(u)
                       /\ Holds(u)' <=> Holds(u)
  <2> SUFFICES ASSUME NEW u \in Tasks
               PROVE  (Delegates(u)' <=> Delegates(u)) /\ (Holds(u)' <=> Holds(u))
    OBVIOUS
  <2>1. Delegates(u)' <=> Delegates(u)
    <3>1. CASE u # t /\ Len(batch[u]) = 2
      <4>1. 1 \in DOMAIN batch[u]
        BY <1>1, <3>1, PairOfTasks
      <4>2. batch'[u] = batch[u] /\ task'[batch[u][1]] = task[batch[u][1]]
        BY <1>1, <1>4, <1>7, <3>1, <4>1
      <4> QED
        BY <4>2 DEF Delegates, IsActive
    <3>2. CASE u # t /\ Len(batch[u]) # 2
      BY <1>1, <1>4, <3>2 DEF Delegates
    <3> QED
      BY <1>8, <3>1, <3>2
  <2>2. IsActive(u)' <=> IsActive(u)
    BY <1>1, <1>2, <1>4 DEF IsActive
  <2> QED
    BY <2>1, <2>2 DEF Holds
<1>10. SortTypes'
  <2>1. \A u \in Threads : Len(batch'[u]) <= 2
    <3>1. \A u \in Threads : u # t => Len(batch'[u]) <= 2
      BY <1>1, <1>4 DEF SortTypes, SortTypeOK
    <3>2. Len(batch'[t]) <= 2
      BY <1>5
    <3> QED
      BY <3>1, <3>2
  <2> QED
    BY <1>3, <2>1 DEF SortInv, SortTypes, SortTypeOK, OwnersInv, BatchTypes
<1>11. HalvesAreHalves'
  <2> SUFFICES ASSUME NEW u \in Tasks, Len(batch'[u]) = 2
               PROVE  /\ batch'[u][1] # batch'[u][2]
                      /\ \A i \in 1 .. 2 : task'[batch'[u][i]] = "Created" <=> ~Delegates(u)'
                      /\ Delegates(u)' =>
                            /\ Left(u)'.start = storage'[u].start
                            /\ Left(u)'.range = storage'[u].range \div 2
                            /\ Right(u)'.start = Left(u)'.start + Left(u)'.range
                            /\ Right(u)'.range = storage'[u].range - Left(u)'.range
    BY DEF HalvesAreHalves
  <2>1. CASE u = t
    <3>1. 1 \in DOMAIN batch[t] /\ batch'[t][1] = batch[t][1] /\ batch'[t][2] = new
      BY <1>5, <2>1
    <3>2. task[batch[t][1]] = "Created"
      BY <1>3, <3>1 DEF SortInv, OwnersInv, BatchesAreOfCallers
    <3>3. task'[batch[t][1]] = "Created" /\ batch[t][1] # new
      BY <1>1, <1>4, <1>7, <3>1, <3>2
    <3>4. \A i \in 1 .. 2 : i = 1 \/ i = 2
      OBVIOUS
    <3> QED
      BY <1>4, <1>8, <2>1, <3>1, <3>3, <3>4
  <2>2. CASE u # t
    <3>1. batch'[u] = batch[u] /\ Len(batch[u]) = 2
      BY <1>1, <1>4, <2>2
    <3>2. DOMAIN batch[u] = {1, 2} /\ 1 .. 2 = {1, 2}
      BY <1>1, <3>1, PairOfTasks
    <3>3. \A i \in 1 .. 2 : task'[batch[u][i]] = task[batch[u][i]]
      BY <1>1, <1>4, <1>7, <3>2
    <3>4. Left(u)' = Left(u) /\ Right(u)' = Right(u)
      BY <1>3, <3>1 DEF Left, Right
    <3>5. /\ batch[u][1] # batch[u][2]
          /\ \A i \in 1 .. 2 : task[batch[u][i]] = "Created" <=> ~Delegates(u)
          /\ Delegates(u) =>
                /\ Left(u).start = storage[u].start
                /\ Left(u).range = storage[u].range \div 2
                /\ Right(u).start = Left(u).start + Left(u).range
                /\ Right(u).range = storage[u].range - Left(u).range
      BY <3>1 DEF SortInv, HalvesAreHalves
    <3> QED
      BY <1>3, <1>9, <3>1, <3>3, <3>4, <3>5
  <2> QED
    BY <2>1, <2>2
<1>12. batch[Main] # <<>> /\ batch'[Main] = batch[Main]
  <2>1. batch[Main] # <<>>
    BY <1>1, <1>3, NobodyWithoutRoot DEF IsExecuting
  <2> QED
    BY <1>1, <1>4, <2>1
<1>13. RootIsWhole' /\ StartsWithInput'
  <2>1. /\ Len(batch[Main]) = 1 /\ IsActive(batch[Main][1])
        /\ Left(Main).start = 1 /\ Left(Main).range = Len(input)
    BY <1>12 DEF SortInv, RootIsWhole
  <2>2. 1 \in DOMAIN batch[Main]
    BY <1>1, <2>1, LenProperties
  <2>3. task'[batch[Main][1]] = task[batch[Main][1]]
    BY <1>1, <1>4, <1>7, <2>2
  <2>4. Left(Main)' = Left(Main)
    BY <1>3, <1>12 DEF Left
  <2> QED
    BY <1>3, <1>12, <2>1, <2>3, <2>4 DEF RootIsWhole, StartsWithInput, IsActive
<1>14. HoldersAreDisjoint' /\ UnsortedIsInput'
  <2>1. \A u \in Tasks : PlacesIn(storage[u])' = PlacesIn(storage[u])
    BY <1>3 DEF PlacesIn, LastIndex
  <2>2. \A u \in Tasks : Holds(u)' /\ task'[u] = "Submitted" => Holds(u) /\ task[u] = "Submitted"
    BY <1>1, <1>4, <1>9
  <2> QED
    BY <1>3, <1>9, <2>1, <2>2 DEF SortInv, HoldersAreDisjoint, UnsortedIsInput
<1>15. MergesAgree'
  <2> SUFFICES ASSUME NEW u \in Tasks, merged'[u] # Nothing
               PROVE  (Delegates(u) /\ HasSortedHalves(u) /\ MergeAgrees(u))'
    BY DEF MergesAgree, Nothing
  <2>1. u # t /\ merged[u] # Nothing /\ batch'[u] = batch[u]
    BY <1>1, <1>3, <1>4, <1>8
  <2>2. Len(batch[u]) = 2
    BY <2>1 DEF SortInv, MergesAgree, HasSortedHalves
  <2>3. DOMAIN batch[u] = {1, 2}
    BY <1>1, <2>2, PairOfTasks
  <2>4. task'[batch[u][1]] = task[batch[u][1]] /\ task'[batch[u][2]] = task[batch[u][2]]
    BY <1>1, <1>4, <1>7, <2>3
  <2> QED
    BY <1>3, <2>1, <2>4, MergesAreKept
<1>16. RangesAreSorted'
  <2> SUFFICES ASSUME NEW u \in Tasks, task'[u] = "Succeeded", ~IsMerged(u)'
               PROVE  IsSorted(data[storage[u].container], input,
                               storage[u].start, LastIndex(storage[u]))'
    BY DEF RangesAreSorted
  <2>1. task[u] = "Succeeded"
    BY <1>1, <1>4
  <2>2. ~IsMerged(u)
    <3> SUFFICES ASSUME NEW w \in Tasks, merged[w] # Nothing,
                        NEW i \in DOMAIN batch[w], batch[w][i] = u
                 PROVE  FALSE
      BY DEF IsMerged
    <3>1. w # t
      BY <1>8
    <3>2. batch'[w] = batch[w]
      BY <1>1, <1>4, <3>1
    <3> QED
      BY <1>3, <3>2 DEF IsMerged, Nothing
  <2>3. IsSorted(data[storage[u].container], input, storage[u].start, LastIndex(storage[u]))
    BY <2>1, <2>2 DEF SortInv, RangesAreSorted
  <2> QED
    BY <1>1, <1>3, <2>3, SortedRangeIsKept
<1> QED
  BY <1>10, <1>11, <1>13, <1>14, <1>15, <1>16 DEF SortInv

\* What one step of a merge does: it takes the smaller one of the two first elements.
LEMMA MergeElementEffect ==
    ASSUME SortInv, NEW t \in Tasks, MergeElement(t), Delegates(t), MergeAgrees(t)
    PROVE  \/ /\ ReadsRight(t) <= LastIndex(Right(t))
              /\ ReadsLeft(t) <= LastIndex(Left(t)) =>
                    data[Right(t).container][ReadsRight(t)]
                        <= data[Left(t).container][ReadsLeft(t)]
              /\ data' = [data EXCEPT ![MergeContainer(Left(t))][Writes(t)] =
                                data[Right(t).container][ReadsRight(t)]]
              /\ merged' = [merged EXCEPT ![t]["right"] = @ + 1]
           \/ /\ ReadsLeft(t) <= LastIndex(Left(t))
              /\ ReadsRight(t) <= LastIndex(Right(t)) =>
                    data[Left(t).container][ReadsLeft(t)]
                        <= data[Right(t).container][ReadsRight(t)]
              /\ data' = [data EXCEPT ![MergeContainer(Left(t))][Writes(t)] =
                                data[Left(t).container][ReadsLeft(t)]]
              /\ merged' = [merged EXCEPT ![t]["left"] = @ + 1]
<1> DEFINE i == ReadsLeft(t)
           j == ReadsRight(t)
           mid == LastIndex(Left(t))
           last == LastIndex(Right(t))
           x == data[Left(t).container][i]
           y == data[Right(t).container][j]
           takeRight == i > mid \/ (j <= last /\ y < x)
<1>1. /\ i \in Int /\ j \in Int /\ mid \in Int /\ last \in Int
      /\ Left(t).container \in Containers /\ Right(t).container \in Containers
      /\ Left(t).start \in Nat /\ Left(t).start <= i /\ Left(t).start <= j /\ mid <= last
      /\ Left(t).start .. last \subseteq DOMAIN input
  BY MergeNumbers, MergeBounds DEF MergeAgrees
<1>2. i <= mid \/ j <= last
  BY DEF MergeElement, Left, Right, ReadsLeft, ReadsRight
<1>3. \/ /\ takeRight
         /\ data' = [data EXCEPT ![MergeContainer(Left(t))][Writes(t)] = y]
         /\ merged' = [merged EXCEPT ![t]["right"] = @ + 1]
      \/ /\ ~takeRight
         /\ data' = [data EXCEPT ![MergeContainer(Left(t))][Writes(t)] = x]
         /\ merged' = [merged EXCEPT ![t]["left"] = @ + 1]
  BY DEF MergeElement, Left, Right, ReadsLeft, ReadsRight, Writes
<1>4. i <= mid => x \in Int
  <2> SUFFICES ASSUME i <= mid PROVE x \in Int
    OBVIOUS
  <2> HIDE DEF i, mid, last, j
  <2>1. i \in Left(t).start .. last
    BY <1>1
  <2>2. i \in DOMAIN input
    BY <1>1, <2>1
  <2> QED
    BY <1>1, <2>2, DataType DEF SortInv
<1>5. j <= last => y \in Int
  <2> SUFFICES ASSUME j <= last PROVE y \in Int
    OBVIOUS
  <2> HIDE DEF i, mid, last, j
  <2>1. j \in Left(t).start .. last
    BY <1>1
  <2>2. j \in DOMAIN input
    BY <1>1, <2>1
  <2> QED
    BY <1>1, <2>2, DataType DEF SortInv
<1> HIDE DEF i, j, mid, last, x, y
<1>6. CASE takeRight
  <2>1. j <= last /\ (i <= mid => y <= x)
    BY <1>1, <1>2, <1>4, <1>5, <1>6
  <2> QED
    BY <1>3, <1>6, <2>1 DEF i, j, mid, last, x, y
<1>7. CASE ~takeRight
  <2>1. i <= mid /\ (j <= last => x <= y)
    BY <1>1, <1>4, <1>5, <1>7
  <2> QED
    BY <1>3, <1>7, <2>1 DEF i, j, mid, last, x, y
<1> QED
  BY <1>6, <1>7

\* Before anything has been merged, the halves are as they were sorted.
LEMMA MergeCanBegin ==
    ASSUME SortInv, NEW t \in Tasks, HasSortedHalves(t)
    PROVE  Delegates(t) /\ MergeAgrees(t)
<1>1. /\ batch[t][1] \in Tasks /\ batch[t][2] \in Tasks
      /\ task[batch[t][1]] = "Succeeded" /\ task[batch[t][2]] = "Succeeded"
      /\ Owns(t, batch[t][1]) /\ Owns(t, batch[t][2])
      /\ Delegates(t) /\ OwnersInv /\ Tasks \subseteq Threads
  BY SortedHalvesHold DEF SortInv, Threads
<1>2. CASE merged[t] # Nothing
  BY <1>1, <1>2 DEF SortInv, MergesAgree
<1>3. CASE merged[t] = Nothing
  <2>1. ASSUME NEW b \in Tasks, Owns(t, b) PROVE ~IsMerged(b)
    BY <1>1, <1>3, <2>1, OneOwner DEF IsMerged, Owns
  <2>2. /\ IsSorted(data[Left(t).container], input, Left(t).start, LastIndex(Left(t)))
        /\ IsSorted(data[Right(t).container], input, Right(t).start, LastIndex(Right(t)))
    BY <1>1, <2>1 DEF SortInv, RangesAreSorted, Left, Right
  <2>3. /\ Left(t).start \in Nat /\ Left(t).range \in Nat /\ Right(t).range \in Nat
        /\ Right(t).start = Left(t).start + Left(t).range
        /\ LastIndex(Left(t)) = Left(t).start + Left(t).range - 1
        /\ LastIndex(Right(t)) = Right(t).start + Right(t).range - 1
        /\ LastIndex(Left(t)) \in Int /\ LastIndex(Right(t)) \in Int
    BY <1>1, MergeNumbers
  <2>4. merged[t].left = 0 /\ merged[t].right = 0
    BY <1>3 DEF Nothing
  <2> HIDE DEF Left, Right
  <2>5. /\ ReadsLeft(t) = Left(t).start /\ Writes(t) = Left(t).start
        /\ ReadsRight(t) = LastIndex(Left(t)) + 1 /\ Right(t).start = LastIndex(Left(t)) + 1
        /\ Left(t).start <= LastIndex(Left(t)) + 1 /\ LastIndex(Left(t)) <= LastIndex(Right(t))
        /\ merged[t].left <= Left(t).range /\ merged[t].right <= Right(t).range
    BY <2>3, <2>4 DEF ReadsLeft, ReadsRight, Writes
  <2>6. Left(t).start \in Int
    BY <2>3
  <2>7. AreMerged(data[MergeContainer(Left(t))], Left(t).start, Left(t).start,
                  data[Left(t).container], Left(t).start, LastIndex(Left(t)),
                  data[Right(t).container], LastIndex(Left(t)) + 1, LastIndex(Right(t)))
    BY <2>2, <2>3, <2>5, <2>6, MergeBegins
  <2> QED
    BY <1>1, <2>5, <2>7 DEF MergeAgrees
<1> QED
  BY <1>2, <1>3

\* The numbers of a merge, one element further.
LEMMA MergeProceeds ==
    ASSUME SortInv, NEW t \in Tasks, Delegates(t), MergeAgrees(t)
    PROVE  /\ merged[t].left \in Nat /\ merged[t].right \in Nat
           /\ merged[t].left <= Left(t).range /\ merged[t].right <= Right(t).range
           /\ ReadsLeft(t) <= LastIndex(Left(t)) =>
                /\ merged[t].left + 1 <= Left(t).range
                /\ merged[t].left + 1 \in 0 .. Len(input)
           /\ ReadsRight(t) <= LastIndex(Right(t)) =>
                /\ merged[t].right + 1 <= Right(t).range
                /\ merged[t].right + 1 \in 0 .. Len(input)
           /\ Left(t).start + (merged[t].left + 1) = ReadsLeft(t) + 1
           /\ Right(t).start + (merged[t].right + 1) = ReadsRight(t) + 1
           /\ Left(t).start + (merged[t].left + 1) + merged[t].right = Writes(t) + 1
           /\ Left(t).start + merged[t].left + (merged[t].right + 1) = Writes(t) + 1
<1>1. /\ Left(t).start \in Nat /\ Left(t).range \in Nat
      /\ Right(t).start = Left(t).start + Left(t).range /\ Right(t).range \in Nat
      /\ LastIndex(Left(t)) = Left(t).start + Left(t).range - 1
      /\ LastIndex(Right(t)) = Right(t).start + Right(t).range - 1
      /\ merged[t].left \in Nat /\ merged[t].right \in Nat
      /\ batch[t][1] \in Tasks /\ batch[t][2] \in Tasks
  BY MergeNumbers
<1>2. \A u \in Tasks : storage[u].range <= Len(input)
  <2> SUFFICES ASSUME NEW u \in Tasks PROVE storage[u].range <= Len(input)
    OBVIOUS
  <2>1. /\ storage[u].start \in Nat \ {0} /\ storage[u].range \in Nat
        /\ storage[u].start + storage[u].range <= Len(input) + 1 /\ Len(input) \in Nat
    BY RangeType DEF SortInv
  <2> QED
    BY <2>1
<1>3. Len(input) \in Nat /\ Left(t).range <= Len(input) /\ Right(t).range <= Len(input)
  BY <1>1, <1>2, RangeType DEF SortInv, Left, Right
<1>4. merged[t].left <= Left(t).range /\ merged[t].right <= Right(t).range
  BY DEF MergeAgrees
<1>5. ReadsLeft(t) <= LastIndex(Left(t)) => merged[t].left + 1 <= Left(t).range
  BY <1>1, <1>4 DEF ReadsLeft
<1>6. ReadsRight(t) <= LastIndex(Right(t)) => merged[t].right + 1 <= Right(t).range
  BY <1>1, <1>4 DEF ReadsRight
<1>7. /\ merged[t].left + 1 <= Left(t).range => merged[t].left + 1 \in 0 .. Len(input)
      /\ merged[t].right + 1 <= Right(t).range => merged[t].right + 1 \in 0 .. Len(input)
  <2>1. \A m, r, n \in Nat : m + 1 <= r /\ r <= n => m + 1 \in 0 .. n
    OBVIOUS
  <2> QED
    BY <1>1, <1>3, <2>1
<1>8. /\ Left(t).start + (merged[t].left + 1) = ReadsLeft(t) + 1
      /\ Right(t).start + (merged[t].right + 1) = ReadsRight(t) + 1
      /\ Left(t).start + (merged[t].left + 1) + merged[t].right = Writes(t) + 1
      /\ Left(t).start + merged[t].left + (merged[t].right + 1) = Writes(t) + 1
  BY <1>1 DEF ReadsLeft, ReadsRight, Writes
<1> QED
  BY <1>1, <1>4, <1>5, <1>6, <1>7, <1>8

\* One element is merged: the merge goes on, and nothing else has changed.
LEMMA MergeElementMerges ==
    ASSUME SortInv, NEW t \in Tasks, MergeElement(t)
    PROVE  /\ Writes(t) \in PlacesIn(storage[t])
           /\ \A c \in Containers : \A x \in DOMAIN input :
                x # Writes(t) => data'[c][x] = data[c][x]
           /\ data' \in [Containers -> [DOMAIN input -> Keys]]
           /\ merged' \in [Tasks -> [left : 0 .. Len(input), right : 0 .. Len(input)]]
           /\ merged'[t] # Nothing
           /\ \A u \in Tasks : u # t => merged'[u] = merged[u]
           /\ MergeAgrees(t)'
<1> DEFINE out == MergeContainer(Left(t))
           lc == Left(t).container
           rc == Right(t).container
           first == Left(t).start
           k == Writes(t)
           i == ReadsLeft(t)
           mid == LastIndex(Left(t))
           j == ReadsRight(t)
           last == LastIndex(Right(t))
<1>1. /\ HasSortedHalves(t) /\ UNCHANGED <<poolSize, task, input, storage, batch>>
      /\ Delegates(t) /\ MergeAgrees(t)
  BY MergeCanBegin DEF MergeElement
<1>2. /\ first \in Int /\ k \in Int /\ i \in Int /\ mid \in Int /\ j \in Int /\ last \in Int
      /\ out \in Containers /\ lc \in Containers /\ rc \in Containers /\ out # lc
      /\ PlacesIn(storage[t]) = first .. last
      /\ first .. last \subseteq DOMAIN input
  BY <1>1, MergeNumbers
<1>3. /\ first <= i /\ first <= j /\ mid <= last /\ first <= k /\ k - 1 <= last
      /\ k <= j /\ (i <= mid => k < j) /\ j <= last + 1
  BY <1>1, MergeBounds DEF MergeAgrees
<1>4. /\ data \in [Containers -> [DOMAIN input -> Keys]]
      /\ merged \in [Tasks -> [left : 0 .. Len(input), right : 0 .. Len(input)]]
  BY DEF SortInv, SortTypes, SortTypeOK
<1>5. /\ \/ /\ j <= last /\ (i <= mid => data[rc][j] <= data[lc][i])
            /\ data' = [data EXCEPT ![out][k] = data[rc][j]]
            /\ merged' = [merged EXCEPT ![t]["right"] = @ + 1]
         \/ /\ i <= mid /\ (j <= last => data[lc][i] <= data[rc][j])
            /\ data' = [data EXCEPT ![out][k] = data[lc][i]]
            /\ merged' = [merged EXCEPT ![t]["left"] = @ + 1]
  BY <1>1, MergeElementEffect
<1>6. AreMerged(data[out], first, k, data[lc], i, mid, data[rc], j, last)
  BY <1>1 DEF MergeAgrees
<1>7. /\ Left(t)' = Left(t) /\ Right(t)' = Right(t)
      /\ first' = first /\ mid' = mid /\ last' = last /\ out' = out /\ lc' = lc /\ rc' = rc
  BY <1>1 DEF Left, Right, LastIndex, MergeContainer
<1>8. /\ merged[t].left \in Nat /\ merged[t].right \in Nat
      /\ merged[t].left <= Left(t).range /\ merged[t].right <= Right(t).range
      /\ i <= mid =>
            /\ merged[t].left + 1 <= Left(t).range
            /\ merged[t].left + 1 \in 0 .. Len(input)
      /\ j <= last =>
            /\ merged[t].right + 1 <= Right(t).range
            /\ merged[t].right + 1 \in 0 .. Len(input)
      /\ Left(t).start + (merged[t].left + 1) = i + 1
      /\ Right(t).start + (merged[t].right + 1) = j + 1
      /\ Left(t).start + (merged[t].left + 1) + merged[t].right = k + 1
      /\ Left(t).start + merged[t].left + (merged[t].right + 1) = k + 1
  BY <1>1, MergeProceeds
<1> HIDE DEF out, lc, rc, first, k, i, mid, j, last
<1>9. /\ \A x \in first .. last : data[lc][x] \in Keys /\ data[rc][x] \in Keys
                                  /\ data[lc][x] \in Int /\ data[rc][x] \in Int
                                  /\ data[out][x] \in Int
  BY <1>2, DataType DEF SortInv
<1>10. k \in first .. last
  <2>1. k <= last
    BY <1>2, <1>3, <1>5
  <2> QED
    BY <1>2, <1>3, <2>1
<1>11. /\ \A x \in first .. k - 1 : data[out][x] \in Int
       /\ \A x \in i .. mid : data[lc][x] \in Int
       /\ \A x \in j .. last : data[rc][x] \in Int
  BY <1>2, <1>3, <1>9
<1>12. CASE /\ j <= last /\ (i <= mid => data[rc][j] <= data[lc][i])
            /\ data' = [data EXCEPT ![out][k] = data[rc][j]]
            /\ merged' = [merged EXCEPT ![t]["right"] = @ + 1]
  <2>1. /\ merged[t].right + 1 <= Right(t).range /\ merged[t].right + 1 \in 0 .. Len(input)
        /\ merged[t].right + 1 # 0
    <3>1. j <= last
      BY <1>12
    <3>2. \A m \in Nat : m + 1 # 0
      OBVIOUS
    <3> QED
      BY <1>8, <3>1, <3>2
  <2>2. /\ merged' \in [Tasks -> [left : 0 .. Len(input), right : 0 .. Len(input)]]
        /\ merged'[t].left = merged[t].left /\ merged'[t].right = merged[t].right + 1
        /\ \A u \in Tasks : u # t => merged'[u] = merged[u]
    <3>1. merged[t] \in [left : 0 .. Len(input), right : 0 .. Len(input)]
      BY <1>4
    <3>2. /\ [merged[t] EXCEPT !["right"] = @ + 1] \in
                [left : 0 .. Len(input), right : 0 .. Len(input)]
          /\ [merged[t] EXCEPT !["right"] = @ + 1].left = merged[t].left
          /\ [merged[t] EXCEPT !["right"] = @ + 1].right = merged[t].right + 1
      BY <2>1, <3>1
    <3>3. merged' = [merged EXCEPT ![t] = [merged[t] EXCEPT !["right"] = @ + 1]]
      BY <1>4, <1>12
    <3> QED
      BY <1>4, <3>2, <3>3
  <2>3. data[rc][j] \in Keys
    BY <1>2, <1>3, <1>9, <1>12
  <2>4. /\ data' \in [Containers -> [DOMAIN input -> Keys]]
        /\ data'[out][k] = data[rc][j]
        /\ \A c \in Containers : \A x \in DOMAIN input :
                x # k \/ c # out => data'[c][x] = data[c][x]
    BY <1>2, <1>4, <1>10, <1>12, <2>3
  <2>5. /\ \A x \in first .. k - 1 : data'[out][x] = data[out][x]
        /\ \A x \in i .. mid : data'[lc][x] = data[lc][x]
        /\ \A x \in j + 1 .. last : data'[rc][x] = data[rc][x]
    BY <1>2, <1>3, <1>10, <2>4
  <2>6. AreMerged(data'[out], first, k + 1, data'[lc], i, mid, data'[rc], j + 1, last)
    <3>1. j <= last /\ (i <= mid => data[rc][j] <= data[lc][i])
      BY <1>12
    <3>2. data'[out][k] = data[rc][j]
      BY <2>4
    <3>3. TakesRight(data[out], data[lc], data[rc], data'[out], data'[lc], data'[rc],
                     first, k, i, mid, j, last)
      BY <1>3, <1>6, <1>11, <2>5, <3>1, <3>2 DEF TakesRight
    <3> QED
      BY <1>2, <3>3, TakeRightMerges
  <2>7. k' = k + 1 /\ i' = i /\ j' = j + 1
    <3>1. /\ k' = Left(t).start + merged[t].left + (merged[t].right + 1)
          /\ i' = Left(t).start + merged[t].left
          /\ j' = Right(t).start + (merged[t].right + 1)
      BY <1>7, <2>2 DEF k, i, j, Writes, ReadsLeft, ReadsRight
    <3>2. i' = i
      BY <3>1 DEF i, ReadsLeft
    <3> QED
      BY <1>8, <3>1, <3>2, Zenon
  <2>8. MergeAgrees(t)'
    <3>1. merged'[t].left <= Left(t)'.range /\ merged'[t].right <= Right(t)'.range
      BY <1>7, <1>8, <2>1, <2>2
    <3>2. AreMerged(data[out], first, k, data[lc], i, mid, data[rc], j, last)'
      BY <1>1, <1>7, <2>6, <2>7 DEF AreMerged
    <3> QED
      BY <3>1, <3>2 DEF MergeAgrees, out, lc, rc, first, k, i, mid, j, last
  <2>9. merged'[t] # Nothing
    BY <2>1, <2>2 DEF Nothing
  <2> QED
    BY <1>2, <1>10, <2>2, <2>4, <2>8, <2>9 DEF k
<1>13. CASE /\ i <= mid /\ (j <= last => data[lc][i] <= data[rc][j])
            /\ data' = [data EXCEPT ![out][k] = data[lc][i]]
            /\ merged' = [merged EXCEPT ![t]["left"] = @ + 1]
  <2>1. /\ merged[t].left + 1 <= Left(t).range /\ merged[t].left + 1 \in 0 .. Len(input)
        /\ merged[t].left + 1 # 0
    <3>1. i <= mid
      BY <1>13
    <3>2. \A m \in Nat : m + 1 # 0
      OBVIOUS
    <3> QED
      BY <1>8, <3>1, <3>2
  <2>2. /\ merged' \in [Tasks -> [left : 0 .. Len(input), right : 0 .. Len(input)]]
        /\ merged'[t].left = merged[t].left + 1 /\ merged'[t].right = merged[t].right
        /\ \A u \in Tasks : u # t => merged'[u] = merged[u]
    <3>1. merged[t] \in [left : 0 .. Len(input), right : 0 .. Len(input)]
      BY <1>4
    <3>2. /\ [merged[t] EXCEPT !["left"] = @ + 1] \in
                [left : 0 .. Len(input), right : 0 .. Len(input)]
          /\ [merged[t] EXCEPT !["left"] = @ + 1].left = merged[t].left + 1
          /\ [merged[t] EXCEPT !["left"] = @ + 1].right = merged[t].right
      BY <2>1, <3>1
    <3>3. merged' = [merged EXCEPT ![t] = [merged[t] EXCEPT !["left"] = @ + 1]]
      BY <1>4, <1>13
    <3> QED
      BY <1>4, <3>2, <3>3
  <2>3. data[lc][i] \in Keys
    BY <1>2, <1>3, <1>9, <1>13
  <2>4. /\ data' \in [Containers -> [DOMAIN input -> Keys]]
        /\ data'[out][k] = data[lc][i]
        /\ \A c \in Containers : \A x \in DOMAIN input :
                x # k \/ c # out => data'[c][x] = data[c][x]
    BY <1>2, <1>4, <1>10, <1>13, <2>3
  <2>5. /\ \A x \in first .. k - 1 : data'[out][x] = data[out][x]
        /\ \A x \in i + 1 .. mid : data'[lc][x] = data[lc][x]
        /\ \A x \in j .. last : data'[rc][x] = data[rc][x]
    BY <1>2, <1>3, <1>10, <1>13, <2>4
  <2>6. AreMerged(data'[out], first, k + 1, data'[lc], i + 1, mid, data'[rc], j, last)
    <3>1. i <= mid /\ (j <= last => data[lc][i] <= data[rc][j])
      BY <1>13
    <3>2. data'[out][k] = data[lc][i]
      BY <2>4
    <3>3. TakesLeft(data[out], data[lc], data[rc], data'[out], data'[lc], data'[rc],
                     first, k, i, mid, j, last)
      BY <1>3, <1>6, <1>11, <2>5, <3>1, <3>2 DEF TakesLeft
    <3> QED
      BY <1>2, <3>3, TakeLeftMerges
  <2>7. k' = k + 1 /\ i' = i + 1 /\ j' = j
    <3>1. /\ k' = Left(t).start + (merged[t].left + 1) + merged[t].right
          /\ i' = Left(t).start + (merged[t].left + 1)
          /\ j' = Right(t).start + merged[t].right
      BY <1>7, <2>2 DEF k, i, j, Writes, ReadsLeft, ReadsRight
    <3>2. j' = j
      BY <3>1 DEF j, ReadsRight
    <3> QED
      BY <1>8, <3>1, <3>2, Zenon
  <2>8. MergeAgrees(t)'
    <3>1. merged'[t].left <= Left(t)'.range /\ merged'[t].right <= Right(t)'.range
      BY <1>7, <1>8, <2>1, <2>2
    <3>2. AreMerged(data[out], first, k, data[lc], i, mid, data[rc], j, last)'
      BY <1>1, <1>7, <2>6, <2>7 DEF AreMerged
    <3> QED
      BY <3>1, <3>2 DEF MergeAgrees, out, lc, rc, first, k, i, mid, j, last
  <2>9. merged'[t] # Nothing
    BY <2>1, <2>2 DEF Nothing
  <2> QED
    BY <1>2, <1>10, <2>2, <2>4, <2>8, <2>9 DEF k
<1> QED
  BY <1>5, <1>12, <1>13

\* A task that holds its range, and is not one of the halves, holds nothing that the
\* merge writes.
LEMMA MergeWritesInItsHalves ==
    ASSUME SortInv, NEW t \in Tasks, HasSortedHalves(t), Delegates(t),
           NEW k \in PlacesIn(storage[t]),
           NEW u \in Tasks, Holds(u), u # batch[t][1], u # batch[t][2]
    PROVE  k \notin PlacesIn(storage[u])
<1>1. /\ batch[t][1] \in Tasks /\ batch[t][2] \in Tasks
      /\ Holds(batch[t][1]) /\ Holds(batch[t][2])
  BY SortedHalvesHold DEF SortInv
<1>2. k \in PlacesIn(Left(t)) \/ k \in PlacesIn(Right(t))
  BY PlacesOfHalves
<1> QED
  BY <1>1, <1>2 DEF SortInv, HoldersAreDisjoint, Left, Right

\* One element is merged.
LEMMA MergeElementKeepsSorted ==
    ASSUME SortInv, OwnersInv', NEW t \in Tasks, MergeElement(t)
    PROVE  SortInv'
<1>1. /\ HasSortedHalves(t) /\ UNCHANGED <<poolSize, task, input, storage, batch>>
      /\ Delegates(t) /\ Tasks \subseteq Threads /\ OwnersInv
  BY MergeCanBegin DEF MergeElement, SortInv, Threads
<1>2. /\ batch[t][1] \in Tasks /\ batch[t][2] \in Tasks
      /\ Owns(t, batch[t][1]) /\ Owns(t, batch[t][2])
      /\ IsExecuting(t) /\ Len(batch[t]) = 2 /\ DOMAIN batch[t] = {1, 2}
  BY <1>1, SortedHalvesHold, PairOfTasks DEF HasSortedHalves
<1> PICK k \in PlacesIn(storage[t]) : k = Writes(t)
  BY MergeElementMerges
<1>3. /\ \A c \in Containers : \A x \in DOMAIN input : x # k => data'[c][x] = data[c][x]
      /\ data' \in [Containers -> [DOMAIN input -> Keys]]
      /\ merged' \in [Tasks -> [left : 0 .. Len(input), right : 0 .. Len(input)]]
      /\ merged'[t] # Nothing
      /\ \A u \in Tasks : u # t => merged'[u] = merged[u]
      /\ MergeAgrees(t)'
  BY MergeElementMerges
<1>4. ASSUME NEW u \in Tasks, Holds(u), u # batch[t][1], u # batch[t][2]
      PROVE  \A c \in Containers : \A x \in PlacesIn(storage[u]) : data'[c][x] = data[c][x]
  <2>1. k \notin PlacesIn(storage[u])
    BY <1>1, <1>4, MergeWritesInItsHalves
  <2>2. PlacesIn(storage[u]) \subseteq DOMAIN input
    BY RangeType DEF SortInv
  <2> QED
    BY <1>3, <2>1, <2>2
<1>5. SortTypes'
  <2>1. BatchTypeOK'
    BY DEF OwnersInv, BatchTypes
  <2> QED
    BY <1>1, <1>3, <2>1 DEF SortInv, SortTypes, SortTypeOK
<1>6. HalvesAreHalves' /\ RootIsWhole' /\ HoldersAreDisjoint'
  BY <1>1
     DEF SortInv, HalvesAreHalves, RootIsWhole, HoldersAreDisjoint, Holds, Delegates,
         IsActive, Left, Right, PlacesIn, LastIndex
<1>7. StartsWithInput'
  <2>1. batch[t] # <<>>
    BY <1>1, <1>2, PairOfTasks
  <2>2. batch[Main] # <<>>
    BY <1>1, <2>1, NobodyWithoutRoot
  <2> QED
    BY <1>1, <2>2 DEF StartsWithInput
<1>8. UnsortedIsInput'
  <2> SUFFICES ASSUME NEW u \in Tasks, Holds(u)', task'[u] = "Submitted"
               PROVE  /\ storage'[u].container = "container"
                      /\ storage'[u].maxRangeOrLevels = Len(input') \div Workers
                      /\ \A i \in PlacesIn(storage[u])' : data'["container"][i] = input'[i]
    BY DEF UnsortedIsInput
  <2>1. /\ Holds(u) /\ task[u] = "Submitted" /\ PlacesIn(storage[u])' = PlacesIn(storage[u])
    BY <1>1 DEF Holds, Delegates, IsActive, PlacesIn, LastIndex
  <2>2. u # batch[t][1] /\ u # batch[t][2]
    BY <1>1, <2>1, SortedHalvesHold
  <2>3. "container" \in Containers
    BY DEF Containers
  <2> QED
    BY <1>1, <1>4, <2>1, <2>2, <2>3 DEF SortInv, UnsortedIsInput
<1>9. MergesAgree'
  <2> SUFFICES ASSUME NEW u \in Tasks, merged'[u] # Nothing
               PROVE  (Delegates(u) /\ HasSortedHalves(u) /\ MergeAgrees(u))'
    BY DEF MergesAgree, Nothing
  <2>1. CASE u = t
    <3>1. Delegates(t)' /\ HasSortedHalves(t)'
      BY <1>1
         DEF Delegates, IsActive, HasSortedHalves, AreAllTaskFinished, HasExecutionError,
             IsFinished, HasFailed
    <3> QED
      BY <1>3, <2>1, <3>1
  <2>2. CASE u # t
    <3>1. /\ merged[u] # Nothing /\ merged'[u] = merged[u]
          /\ Delegates(u) /\ HasSortedHalves(u)
      BY <1>3, <2>2 DEF SortInv, MergesAgree
    <3>2. /\ batch[u][1] \in Tasks /\ batch[u][2] \in Tasks
          /\ Holds(batch[u][1]) /\ Holds(batch[u][2])
          /\ Owns(u, batch[u][1]) /\ Owns(u, batch[u][2])
      BY <1>1, <3>1, SortedHalvesHold
    <3>3. \A h \in {batch[u][1], batch[u][2]} : h # batch[t][1] /\ h # batch[t][2]
      BY <1>1, <1>2, <2>2, <3>2, OneOwner
    <3>4. \A c \in Containers : \A i \in PlacesIn(storage[u]) : data'[c][i] = data[c][i]
      <4>1. /\ \A c \in Containers : \A i \in PlacesIn(Left(u)) : data'[c][i] = data[c][i]
            /\ \A c \in Containers : \A i \in PlacesIn(Right(u)) : data'[c][i] = data[c][i]
        BY <1>4, <3>2, <3>3 DEF Left, Right
      <4> QED
        BY <3>1, <4>1, PlacesOfHalves
    <3> QED
      BY <1>1, <3>1, <3>4, MergesAreKept
  <2> QED
    BY <2>1, <2>2
<1>10. RangesAreSorted'
  <2> SUFFICES ASSUME NEW u \in Tasks, task'[u] = "Succeeded", ~IsMerged(u)'
               PROVE  IsSorted(data[storage[u].container], input,
                               storage[u].start, LastIndex(storage[u]))'
    BY DEF RangesAreSorted
  <2>1. u # batch[t][1] /\ u # batch[t][2]
    BY <1>1, <1>2, <1>3 DEF IsMerged, Nothing
  <2>2. ~IsMerged(u)
    <3> SUFFICES ASSUME NEW w \in Tasks, merged[w] # Nothing,
                        NEW i \in DOMAIN batch[w], batch[w][i] = u
                 PROVE  FALSE
      BY DEF IsMerged
    <3>1. merged'[w] # Nothing
      BY <1>3
    <3> QED
      BY <1>1, <3>1 DEF IsMerged, Nothing
  <2>3. task[u] = "Succeeded"
    BY <1>1
  <2>4. Holds(u)
    BY <1>1, <2>3, FinishedHolds DEF IsFinished
  <2>5. IsSorted(data[storage[u].container], input, storage[u].start, LastIndex(storage[u]))
    BY <2>2, <2>3 DEF SortInv, RangesAreSorted
  <2>6. \A c \in Containers : \A i \in PlacesIn(storage[u]) : data'[c][i] = data[c][i]
    BY <1>4, <2>1, <2>4
  <2> QED
    BY <1>1, <2>5, <2>6, SortedRangeIsKept DEF SortInv
<1> QED
  BY <1>5, <1>6, <1>7, <1>8, <1>9, <1>10 DEF SortInv

\* The halves are given their ranges: what the whole held, they hold.
LEMMA SubmitHalvesKeepsSorted ==
    ASSUME SortInv, OwnersInv', NEW t \in Tasks, SubmitHalves(t)
    PROVE  SortInv'
<1> DEFINE a == batch[t][1]
           b == batch[t][2]
<1>1. /\ Len(batch[t]) = 2 /\ task[a] = "Created" /\ task[b] = "Created"
      /\ UNCHANGED <<poolSize, input, data, batch, merged>>
      /\ Tasks \subseteq Threads /\ OwnersInv /\ t \in Threads
      /\ Main \in Threads /\ Main \notin Tasks
  <2>1. 1 \in 1 .. 2 /\ 2 \in 1 .. 2
    OBVIOUS
  <2>2. Main \in Threads /\ Main \notin Tasks
    BY DEF Threads, Tasks, Main
  <2> QED
    BY <2>1, <2>2 DEF SubmitHalves, SortInv, Threads
<1>2. /\ a \in Tasks /\ b \in Tasks /\ DOMAIN batch[t] = {1, 2} /\ IsExecuting(t)
      /\ a # b /\ batch[t] # <<>>
      /\ \A u : Owns(t, u) <=> u = a \/ u = b
  BY <1>1, PairOfTasks DEF SortInv, HalvesAreHalves
<1>3. /\ storage' = [storage EXCEPT ![a] = LeftHalf(storage[t]), ![b] = RightHalf(storage[t])]
      /\ task' = SubmitAll(batch[t])
  BY DEF SubmitHalves
<1> HIDE DEF a, b
<1>4. \A u \in Threads : task'[u] = IF u = a \/ u = b THEN "Submitted" ELSE task[u]
  BY <1>2, <1>3 DEF SubmitAll, Owns
<1>5. t # a /\ t # b /\ ~Delegates(t) /\ Holds(t)
  <2>1. t # a /\ t # b
    BY <1>1, <1>2 DEF IsExecuting
  <2>2. ~Delegates(t)
    BY <1>1 DEF Delegates, IsActive, a
  <2> QED
    BY <1>2, <2>1, <2>2 DEF Holds, IsActive, IsExecuting
<1>6. batch[a] = <<>> /\ batch[b] = <<>>
  BY <1>1, <1>2 DEF OwnersInv, BatchesAreOfCallers, IsExecuting, IsAlive
<1>7. /\ storage'[a] = LeftHalf(storage[t]) /\ storage'[b] = RightHalf(storage[t])
      /\ \A u \in Tasks : u # a /\ u # b => storage'[u] = storage[u]
      /\ DOMAIN storage' = Tasks
  BY <1>1, <1>2, <1>3 DEF OwnersInv, BatchTypes
<1> PICK s \in Nat \ {0} : s = storage[t].start
  BY RangeType DEF SortInv
<1> PICK n \in Nat : n = storage[t].range
  BY RangeType DEF SortInv
<1> PICK h \in Nat : h = n \div 2 /\ h <= n
  <2>1. n \div 2 \in Nat /\ n \div 2 <= n
    OBVIOUS
  <2> QED
    BY <2>1
<1>8. /\ storage[t].container = "container"
      /\ storage[t].maxRangeOrLevels = Len(input) \div Workers
      /\ \A i \in PlacesIn(storage[t]) : data["container"][i] = input[i]
  BY <1>2, <1>5 DEF SortInv, UnsortedIsInput, IsExecuting
<1>9. /\ storage'[a].container = "container" /\ storage'[b].container = "container"
      /\ storage'[a].maxRangeOrLevels = storage[t].maxRangeOrLevels
      /\ storage'[b].maxRangeOrLevels = storage[t].maxRangeOrLevels
      /\ storage'[a].start = s /\ storage'[a].range = h
      /\ storage'[b].start = s + h /\ storage'[b].range = n - h
  <2>1. storage[t] \in [container : Containers, start : 1 .. Len(input) + 1,
                        range : 0 .. Len(input), maxRangeOrLevels : Nat]
    BY DEF SortInv, SortTypes, SortTypeOK
  <2> QED
    BY <1>7, <1>8, <2>1 DEF LeftHalf, RightHalf
<1>10. /\ PlacesIn(storage[t]) = s .. s + n - 1
       /\ PlacesIn(storage'[a]) = s .. s + h - 1
       /\ PlacesIn(storage'[b]) = s + h .. s + h + (n - h) - 1
  BY <1>9 DEF PlacesIn, LastIndex
<1>11. /\ PlacesIn(storage'[a]) \subseteq PlacesIn(storage[t])
       /\ PlacesIn(storage'[b]) \subseteq PlacesIn(storage[t])
       /\ \A i \in PlacesIn(storage'[a]) : i \notin PlacesIn(storage'[b])
  <2>1. \A x, y, z \in Nat : z <= y =>
            /\ x .. x + z - 1 \subseteq x .. x + y - 1
            /\ x + z .. x + z + (y - z) - 1 \subseteq x .. x + y - 1
            /\ \A i \in x .. x + z - 1 : i \notin x + z .. x + z + (y - z) - 1
    OBVIOUS
  <2>2. /\ s .. s + h - 1 \subseteq s .. s + n - 1
        /\ s + h .. s + h + (n - h) - 1 \subseteq s .. s + n - 1
        /\ \A i \in s .. s + h - 1 : i \notin s + h .. s + h + (n - h) - 1
    BY <2>1
  <2> QED
    BY <1>10, <2>2, Zenon
<1>12. \A u \in Tasks : Delegates(u)' <=> Delegates(u) \/ u = t
  <2> SUFFICES ASSUME NEW u \in Tasks PROVE Delegates(u)' <=> Delegates(u) \/ u = t
    OBVIOUS
  <2>1. CASE u = t
    BY <1>1, <1>2, <1>4, <2>1 DEF Delegates, IsActive, a
  <2>2. CASE u # t /\ Len(batch[u]) = 2
    <3>1. batch[u][1] \in Tasks /\ Owns(u, batch[u][1])
      BY <1>1, <2>2, PairOfTasks
    <3>2. batch[u][1] # a /\ batch[u][1] # b
      BY <1>1, <1>2, <2>2, <3>1, OneOwner
    <3> QED
      BY <1>1, <1>4, <2>2, <3>1, <3>2 DEF Delegates, IsActive
  <2>3. CASE u # t /\ Len(batch[u]) # 2
    BY <1>1, <2>3 DEF Delegates
  <2> QED
    BY <2>1, <2>2, <2>3
<1>13. \A u \in Tasks : Holds(u)' => u = a \/ u = b \/ (Holds(u) /\ u # t)
  BY <1>1, <1>4, <1>12 DEF Holds, IsActive
<1>14. ~Holds(a) /\ ~Holds(b)
  BY <1>1 DEF Holds, IsActive
<1>15. SortTypes'
  <2>1. storage[t] \in [container : Containers, start : 1 .. Len(input) + 1,
                        range : 0 .. Len(input), maxRangeOrLevels : Nat]
    BY DEF SortInv, SortTypes, SortTypeOK
  <2>2. s + n <= Len(input) + 1 /\ Len(input) \in Nat
    BY RangeType DEF SortInv
  <2>3. /\ s \in 1 .. Len(input) + 1 /\ h \in 0 .. Len(input) /\ s + h <= Len(input) + 1
        /\ s + h \in 1 .. Len(input) + 1 /\ n - h \in 0 .. Len(input)
        /\ s + h + (n - h) <= Len(input) + 1
    <3>1. \A x, y, z, m \in Nat : x # 0 /\ z <= y /\ x + y <= m + 1 =>
            /\ x \in 1 .. m + 1 /\ z \in 0 .. m /\ x + z <= m + 1
            /\ x + z \in 1 .. m + 1 /\ y - z \in 0 .. m
            /\ x + z + (y - z) <= m + 1
      OBVIOUS
    <3> QED
      BY <2>2, <3>1
  <2>4. /\ storage'[a] \in [container : Containers, start : 1 .. Len(input) + 1,
                            range : 0 .. Len(input), maxRangeOrLevels : Nat]
        /\ storage'[b] \in [container : Containers, start : 1 .. Len(input) + 1,
                            range : 0 .. Len(input), maxRangeOrLevels : Nat]
    BY <1>7, <1>9, <2>1, <2>3 DEF LeftHalf, RightHalf
  <2>5. storage' \in [Tasks -> [container : Containers, start : 1 .. Len(input) + 1,
                                range : 0 .. Len(input), maxRangeOrLevels : Nat]]
    BY <1>3, <1>7, <2>4 DEF SortInv, SortTypes, SortTypeOK
  <2>6. \A u \in Tasks : storage'[u].start + storage'[u].range <= Len(input) + 1
    BY <1>7, <1>9, <2>3 DEF SortInv, SortTypes
  <2>7. BatchTypeOK'
    BY DEF OwnersInv, BatchTypes
  <2> QED
    BY <1>1, <2>5, <2>6, <2>7 DEF SortInv, SortTypes, SortTypeOK
<1>16. HalvesAreHalves'
  <2> SUFFICES ASSUME NEW u \in Tasks, Len(batch[u]) = 2
               PROVE  /\ batch[u][1] # batch[u][2]
                      /\ \A i \in 1 .. 2 : task'[batch[u][i]] = "Created" <=> ~Delegates(u)'
                      /\ Delegates(u)' =>
                            /\ Left(u)'.start = storage'[u].start
                            /\ Left(u)'.range = storage'[u].range \div 2
                            /\ Right(u)'.start = Left(u)'.start + Left(u)'.range
                            /\ Right(u)'.range = storage'[u].range - Left(u)'.range
    BY <1>1 DEF HalvesAreHalves
  <2>0. \A i \in 1 .. 2 : i = 1 \/ i = 2
    OBVIOUS
  <2>1. CASE u = t
    <3>1. Left(t)' = storage'[a] /\ Right(t)' = storage'[b] /\ storage'[t] = storage[t]
      BY <1>1, <1>5, <1>7 DEF Left, Right, a, b
    <3>2. task'[batch[t][1]] # "Created" /\ task'[batch[t][2]] # "Created"
      BY <1>1, <1>2, <1>4 DEF a, b
    <3> QED
      BY <1>2, <1>9, <1>12, <2>0, <2>1, <3>1, <3>2 DEF a, b
  <2>2. CASE u # t
    <3>1. /\ batch[u][1] \in Tasks /\ Owns(u, batch[u][1])
          /\ batch[u][2] \in Tasks /\ Owns(u, batch[u][2])
      BY <1>1, PairOfTasks
    <3>2. /\ batch[u][1] # a /\ batch[u][1] # b
          /\ batch[u][2] # a /\ batch[u][2] # b
      BY <1>1, <1>2, <2>2, <3>1, OneOwner
    <3>3. /\ task'[batch[u][1]] = task[batch[u][1]] /\ task'[batch[u][2]] = task[batch[u][2]]
          /\ Left(u)' = Left(u) /\ Right(u)' = Right(u)
      BY <1>1, <1>4, <1>7, <3>1, <3>2 DEF Left, Right
    <3>4. u # a /\ u # b
      BY <1>1, <1>6, PairOfTasks
    <3>5. storage'[u] = storage[u]
      BY <1>7, <3>4
    <3>6. /\ batch[u][1] # batch[u][2]
          /\ \A i \in 1 .. 2 : task[batch[u][i]] = "Created" <=> ~Delegates(u)
          /\ Delegates(u) =>
                /\ Left(u).start = storage[u].start
                /\ Left(u).range = storage[u].range \div 2
                /\ Right(u).start = Left(u).start + Left(u).range
                /\ Right(u).range = storage[u].range - Left(u).range
      BY DEF SortInv, HalvesAreHalves
    <3>7. Delegates(u)' <=> Delegates(u)
      BY <1>12, <2>2
    <3>8. \A i \in 1 .. 2 : task'[batch[u][i]] = task[batch[u][i]]
      BY <2>0, <3>3
    <3> QED
      BY <3>3, <3>5, <3>6, <3>7, <3>8
  <2> QED
    BY <2>1, <2>2
<1>17. RootIsWhole' /\ StartsWithInput'
  <2>1. batch[Main] # <<>>
    BY <1>1, <1>2, NobodyWithoutRoot
  <2>2. /\ Len(batch[Main]) = 1 /\ IsActive(batch[Main][1])
        /\ Left(Main).start = 1 /\ Left(Main).range = Len(input)
    BY <2>1 DEF SortInv, RootIsWhole
  <2>3. batch[Main] \in Seq(Tasks) /\ 1 \in DOMAIN batch[Main]
    BY <1>1, <2>2, LenProperties DEF OwnersInv, BatchTypes
  <2>4. batch[Main][1] \in Tasks
    BY <2>3, ElementOfSeq, LenProperties
  <2>5. batch[Main][1] # a /\ batch[Main][1] # b
    BY <1>1, <2>2 DEF IsActive
  <2>6. Left(Main)' = Left(Main) /\ task'[batch[Main][1]] = task[batch[Main][1]]
    BY <1>1, <1>4, <1>7, <2>4, <2>5 DEF Left
  <2> QED
    BY <1>1, <2>1, <2>2, <2>6 DEF RootIsWhole, StartsWithInput, IsActive
<1>18. \A u \in Tasks : u # a /\ u # b => PlacesIn(storage[u])' = PlacesIn(storage[u])
  BY <1>7 DEF PlacesIn, LastIndex
<1>19. PlacesIn(storage[a])' = PlacesIn(storage'[a]) /\ PlacesIn(storage[b])' = PlacesIn(storage'[b])
  BY <1>1 DEF PlacesIn, LastIndex, a, b
<1>20. HoldersAreDisjoint'
  <2> SUFFICES ASSUME NEW u \in Tasks, NEW v \in Tasks, u # v, Holds(u)', Holds(v)',
                      NEW i \in PlacesIn(storage[u])', i \in PlacesIn(storage[v])'
               PROVE  FALSE
    BY DEF HoldersAreDisjoint
  <2>1. ASSUME NEW w \in Tasks, NEW x \in Tasks, w # a, w # b, Holds(w), w # t,
               x = a \/ x = b, i \in PlacesIn(storage[w])', i \in PlacesIn(storage[x])'
        PROVE  FALSE
    <3>1. i \in PlacesIn(storage[w])
      BY <1>18, <2>1
    <3>2. i \in PlacesIn(storage[t])
      BY <1>11, <1>19, <2>1
    <3> QED
      BY <1>5, <2>1, <3>1, <3>2 DEF SortInv, HoldersAreDisjoint
  <2>2. CASE (u = a \/ u = b) /\ (v = a \/ v = b)
    BY <1>11, <1>19, <2>2
  <2>3. CASE (u = a \/ u = b) /\ v # a /\ v # b
    BY <1>13, <2>1, <2>3
  <2>4. CASE (v = a \/ v = b) /\ u # a /\ u # b
    BY <1>13, <2>1, <2>4
  <2>5. CASE u # a /\ u # b /\ v # a /\ v # b
    BY <1>13, <1>18, <2>5 DEF SortInv, HoldersAreDisjoint
  <2> QED
    BY <2>2, <2>3, <2>4, <2>5
<1>21. UnsortedIsInput'
  <2> SUFFICES ASSUME NEW u \in Tasks, Holds(u)', task'[u] = "Submitted"
               PROVE  /\ storage'[u].container = "container"
                      /\ storage'[u].maxRangeOrLevels = Len(input) \div Workers
                      /\ \A i \in PlacesIn(storage[u])' : data["container"][i] = input[i]
    BY <1>1 DEF UnsortedIsInput
  <2>1. CASE u = a \/ u = b
    BY <1>8, <1>9, <1>11, <1>19, <2>1
  <2>2. CASE u # a /\ u # b
    BY <1>1, <1>4, <1>7, <1>13, <1>18, <2>2 DEF SortInv, UnsortedIsInput
  <2> QED
    BY <2>1, <2>2
<1>22. MergesAgree'
  <2> SUFFICES ASSUME NEW u \in Tasks, merged'[u] # Nothing
               PROVE  (Delegates(u) /\ HasSortedHalves(u) /\ MergeAgrees(u))'
    BY DEF MergesAgree, Nothing
  <2>1. merged[u] # Nothing /\ Delegates(u) /\ HasSortedHalves(u)
    BY <1>1 DEF SortInv, MergesAgree
  <2>2. /\ batch[u][1] \in Tasks /\ batch[u][2] \in Tasks
        /\ task[batch[u][1]] = "Succeeded" /\ task[batch[u][2]] = "Succeeded"
    BY <1>1, <2>1, SortedHalvesHold
  <2>3. /\ batch[u][1] # a /\ batch[u][1] # b /\ batch[u][2] # a /\ batch[u][2] # b
    BY <1>1, <2>2
  <2> QED
    BY <1>1, <1>4, <1>7, <2>1, <2>2, <2>3, MergesAreKept
<1>23. RangesAreSorted'
  <2> SUFFICES ASSUME NEW u \in Tasks, task'[u] = "Succeeded", ~IsMerged(u)'
               PROVE  IsSorted(data[storage[u].container], input,
                               storage[u].start, LastIndex(storage[u]))'
    BY DEF RangesAreSorted
  <2>1. task[u] = "Succeeded" /\ u # a /\ u # b
    BY <1>1, <1>4
  <2>2. ~IsMerged(u)
    BY <1>1 DEF IsMerged, Nothing
  <2>3. IsSorted(data[storage[u].container], input, storage[u].start, LastIndex(storage[u]))
    BY <2>1, <2>2 DEF SortInv, RangesAreSorted
  <2> QED
    BY <1>1, <1>7, <2>1, <2>3, SortedRangeIsKept DEF SortInv
<1> QED
  BY <1>15, <1>16, <1>17, <1>20, <1>21, <1>22, <1>23 DEF SortInv

\* The same as one formula.
LEMMA RootIsLast ==
    OwnersInv /\ batch[Main] = <<>> => (\A t \in Tasks : task[t] = "Free" /\ batch[t] = <<>>)
BY NobodyWithoutRoot

\* Before the first task and after the last one there is nothing to keep.
LEMMA SortedWithoutRoot ==
    /\ OwnersInv /\ SortTypes /\ StartsWithInput
    /\ batch[Main] = <<>> /\ (\A t \in Tasks : merged[t] = Nothing)
    => SortInv /\ \A t \in Tasks : task[t] = "Free"
<1> SUFFICES ASSUME OwnersInv, SortTypes, StartsWithInput, batch[Main] = <<>>,
                    \A t \in Tasks : merged[t] = Nothing
             PROVE  SortInv /\ \A t \in Tasks : task[t] = "Free"
  OBVIOUS
<1>1. \A t \in Tasks : task[t] = "Free" /\ batch[t] = <<>>
  BY NobodyWithoutRoot
<1>2. \A t \in Tasks : ~Holds(t)
  BY <1>1 DEF Holds, IsActive
<1>3. HalvesAreHalves
  BY <1>1, EmptySeq DEF HalvesAreHalves
<1> QED
  BY <1>1, <1>2, <1>3
     DEF SortInv, RootIsWhole, HoldersAreDisjoint, UnsortedIsInput, MergesAgree, RangesAreSorted

\* Without a task the call returns as it began.
LEMMA FailToStartKeepsSorted ==
    ASSUME SortInv, OwnersInv', FailToStart
    PROVE  SortInv'
<1>1. /\ batch[Main] = <<>> /\ Return(Main, FALSE)
      /\ UNCHANGED <<poolSize, input, data, storage, merged>>
      /\ OwnersInv /\ SortTypes /\ Main \in Threads
  BY DEF FailToStart, SortInv, Threads
<1>2. batch' = batch
  BY <1>1 DEF Return, OwnersInv, BatchTypes
<1>3. \A t \in Tasks : merged[t] = Nothing
  <2>1. \A t \in Tasks : ~Delegates(t)
    BY <1>1, NobodyWithoutRoot, EmptySeq DEF Delegates
  <2> QED
    BY <2>1, NothingMerged
<1>4. SortTypes'
  BY <1>1, <1>2 DEF SortTypes, SortTypeOK, OwnersInv, BatchTypes
<1>5. task'[Main] = "Failed"
  BY <1>1 DEF Return, ReturnAndRelease, Outcome
<1>6. StartsWithInput'
  BY <1>5 DEF StartsWithInput, IsExecuting
<1>7. (/\ OwnersInv /\ SortTypes /\ StartsWithInput
       /\ batch[Main] = <<>> /\ (\A t \in Tasks : merged[t] = Nothing))'
      => SortInv'
  BY SortedWithoutRoot, PTL
<1> QED
  BY <1>1, <1>2, <1>3, <1>4, <1>6, <1>7 DEF Nothing

\* When the call returns and its task was done, all its tasks are gone.
LEMMA FinishSortingKeepsSorted ==
    ASSUME SortInv, OwnersInv', FinishSorting \/ FailToFinish
    PROVE  SortInv' /\ \A t \in Tasks : task'[t] = "Free"
<1>1. /\ batch[Main] # <<>> /\ UNCHANGED <<poolSize, input, storage, merged>>
      /\ OwnersInv /\ SortTypes /\ Main \in Threads /\ Main \notin Tasks /\ Tasks \subseteq Threads
      /\ \E success : Return(Main, success)
      /\ \/ data' = [data EXCEPT !["container"] = data["working_container"]]
         \/ data' = [data EXCEPT !["container"] = data["container"]]
  <2>1. OwnersInv /\ SortTypes /\ Main \in Threads /\ Main \notin Tasks /\ Tasks \subseteq Threads
    BY DEF SortInv, Threads, Tasks, Main
  <2>2. /\ batch[Main] # <<>> /\ UNCHANGED <<poolSize, input, storage, merged>>
        /\ \E success : Return(Main, success)
    BY DEF FinishSorting, FailToFinish
  <2>3. PICK copied : data' = [data EXCEPT
                        !["container"] = IF copied THEN data["working_container"] ELSE @]
    <3>1. CASE FinishSorting
      BY <3>1 DEF FinishSorting
    <3>2. CASE FailToFinish
      <4>1. data' = [data EXCEPT !["container"] = @]
        BY <2>1, <3>2 DEF FailToFinish, SortTypes, SortTypeOK
      <4> QED
        BY <4>1
    <3> QED
      BY <3>1, <3>2
  <2>4. \/ data' = [data EXCEPT !["container"] = data["working_container"]]
        \/ data' = [data EXCEPT !["container"] = data["container"]]
    BY <2>3
  <2> QED
    BY <2>1, <2>2, <2>4
<1>2. batch'[Main] = <<>> /\ \A t \in Tasks : batch'[t] = batch[t]
  BY <1>1 DEF Return, OwnersInv, BatchTypes
<1>3. \A t \in Tasks : task'[t] = "Free" /\ batch'[t] = <<>>
  <2>1. (OwnersInv /\ batch[Main] = <<>>)'
            => (\A t \in Tasks : task[t] = "Free" /\ batch[t] = <<>>)'
    BY RootIsLast, PTL
  <2> QED
    BY <1>2, <2>1
<1>4. \A t \in Tasks : merged[t] = Nothing
  <2>1. \A t \in Tasks : ~Delegates(t)
    BY <1>2, <1>3, EmptySeq DEF Delegates
  <2> QED
    BY <2>1, NothingMerged
<1>5. SortTypes'
  <2>1. "container" \in Containers /\ "working_container" \in Containers
    BY DEF Containers
  <2>2. data' \in [Containers -> [DOMAIN input -> Keys]]
    BY <1>1, <2>1 DEF SortTypes, SortTypeOK
  <2>3. \A t \in Threads : Len(batch'[t]) <= 2
    <3>1. Len(<<>>) <= 2
      BY EmptySeq
    <3>2. \A t \in Tasks : Len(batch[t]) <= 2
      BY <1>1 DEF SortTypes, SortTypeOK
    <3>3. \A t \in Threads : t = Main \/ t \in Tasks
      BY DEF Threads
    <3> QED
      BY <1>2, <3>1, <3>2, <3>3
  <2> QED
    BY <1>1, <2>2, <2>3 DEF SortTypes, SortTypeOK, OwnersInv, BatchTypes
<1>6. StartsWithInput'
  <2>1. ~IsExecuting(Main)'
    BY <1>1 DEF Return, ReturnAndRelease, Outcome, IsExecuting
  <2> QED
    BY <2>1 DEF StartsWithInput
<1>7. (/\ OwnersInv /\ SortTypes /\ StartsWithInput
       /\ batch[Main] = <<>> /\ (\A t \in Tasks : merged[t] = Nothing))'
      => SortInv'
  BY SortedWithoutRoot, PTL
<1> QED
  BY <1>1, <1>2, <1>3, <1>4, <1>5, <1>6, <1>7 DEF Nothing

\* The first task is given the whole container.
LEMMA StartSortingKeepsSorted ==
    ASSUME SortInv, OwnersInv', StartSorting
    PROVE  SortInv'
<1> DEFINE new == NewTask
<1>1. /\ IsExecuting(Main) /\ batch[Main] = <<>>
      /\ UNCHANGED <<poolSize, input, data, merged>>
      /\ OwnersInv /\ SortTypes /\ Main \in Threads /\ Main \notin Tasks /\ Tasks \subseteq Threads
      /\ batch' = [batch EXCEPT ![Main] = <<new>>]
      /\ storage' = [storage EXCEPT ![new] = Range0(Len(input) \div Workers)]
      /\ task' = SubmitAll(<<new>>)
  BY DEF StartSorting, SortInv, Threads, Tasks, Main
<1>2. new \in Tasks /\ task[new] = "Free"
  BY NewTaskIsFree DEF StartSorting, SortInv, OwnersInv, BatchTypes, BatchTypeOK
<1> HIDE DEF new
<1>3. \A t \in Tasks : task[t] = "Free" /\ batch[t] = <<>>
  BY <1>1, NobodyWithoutRoot
<1>4. \A t \in Tasks : merged[t] = Nothing
  <2>1. \A t \in Tasks : ~Delegates(t)
    BY <1>3, EmptySeq DEF Delegates
  <2> QED
    BY <2>1, NothingMerged
<1>5. /\ batch'[Main] = <<new>> /\ \A t \in Tasks : batch'[t] = <<>>
      /\ task'[new] = "Submitted"
      /\ \A t \in Tasks : t # new => task'[t] = "Free"
      /\ storage'[new] = Range0(Len(input) \div Workers)
      /\ \A t \in Tasks : t # new => storage'[t] = storage[t]
      /\ DOMAIN storage' = Tasks
  <2>1. \A t \in Threads : task'[t] = IF t = new THEN "Submitted" ELSE task[t]
    BY <1>1 DEF SubmitAll
  <2> QED
    BY <1>1, <1>2, <1>3, <2>1 DEF OwnersInv, BatchTypes
<1>6. /\ Len(input) \in Nat /\ Len(input) \div Workers \in Nat
  <2>1. \A x \in Nat, y \in Nat \ {0} : x \div y \in Nat
    OBVIOUS
  <2>2. Len(input) \in Nat
    BY <1>1, LenProperties DEF SortTypes, SortTypeOK
  <2> QED
    BY <2>1, <2>2, SortAssumption
<1>7. /\ storage'[new].container = "container" /\ storage'[new].start = 1
      /\ storage'[new].range = Len(input)
      /\ storage'[new].maxRangeOrLevels = Len(input) \div Workers
      /\ storage'[new] \in [container : Containers, start : 1 .. Len(input) + 1,
                            range : 0 .. Len(input), maxRangeOrLevels : Nat]
  BY <1>5, <1>6 DEF Range0, Containers
<1>8. SortTypes'
  <2>1. storage' \in [Tasks -> [container : Containers, start : 1 .. Len(input) + 1,
                                range : 0 .. Len(input), maxRangeOrLevels : Nat]]
    BY <1>1, <1>2, <1>5, <1>7 DEF SortTypes, SortTypeOK
  <2>2. \A t \in Tasks : storage'[t].start + storage'[t].range <= Len(input) + 1
    <3>1. 1 + Len(input) <= Len(input) + 1
      BY <1>6
    <3> QED
      BY <1>1, <1>5, <1>7, <3>1 DEF SortTypes
  <2>3. \A t \in Threads : Len(batch'[t]) <= 2
    <3>1. Len(<<new>>) <= 2 /\ Len(<<>>) <= 2
      <4>1. Len(<<new>>) = 1 /\ Len(<<>>) = 0
        OBVIOUS
      <4> QED
        BY <4>1
    <3>2. \A t \in Threads : t = Main \/ t \in Tasks
      BY DEF Threads
    <3> QED
      BY <1>5, <3>1, <3>2
  <2> QED
    BY <1>1, <2>1, <2>2, <2>3 DEF SortTypes, SortTypeOK, OwnersInv, BatchTypes
<1>9. \A t \in Tasks : ~Delegates(t)' /\ (Holds(t)' => t = new)
  <2>1. \A t \in Tasks : ~Delegates(t)'
    BY <1>5, EmptySeq DEF Delegates
  <2> QED
    BY <1>5, <2>1 DEF Holds, IsActive
<1>10. HalvesAreHalves' /\ MergesAgree' /\ RangesAreSorted' /\ HoldersAreDisjoint'
  <2>1. HalvesAreHalves'
    BY <1>5, EmptySeq DEF HalvesAreHalves
  <2>2. MergesAgree'
    BY <1>1, <1>4 DEF MergesAgree, Nothing
  <2>3. RangesAreSorted'
    BY <1>5 DEF RangesAreSorted
  <2>4. HoldersAreDisjoint'
    BY <1>9 DEF HoldersAreDisjoint
  <2> QED
    BY <2>1, <2>2, <2>3, <2>4
<1>11. RootIsWhole' /\ StartsWithInput'
  <2>1. batch'[Main] # <<>> /\ Len(batch'[Main]) = 1 /\ batch'[Main][1] = new
    BY <1>5
  <2>2. Left(Main)' = storage'[new]
    BY <2>1 DEF Left
  <2> QED
    BY <1>1, <1>5, <1>7, <2>1, <2>2 DEF RootIsWhole, StartsWithInput, IsActive
<1>12. UnsortedIsInput'
  <2>1. data["container"] = input
    BY <1>1 DEF SortInv, StartsWithInput
  <2> QED
    BY <1>1, <1>7, <1>9, <2>1 DEF UnsortedIsInput
<1> QED
  BY <1>8, <1>10, <1>11, <1>12 DEF SortInv

\* The invariant holds before the call.
LEMMA SortInitSorted == SortInit => SortInv
<1> SUFFICES ASSUME SortInit PROVE SortInv
  OBVIOUS
<1>1. OwnersInv
  BY SortInitOwners
<1>2. input \in Seq(Keys) /\ Len(input) \in Nat /\ DOMAIN input = 1 .. Len(input)
  <2>1. PICK n \in 0 .. MaxLength : input \in [1 .. n -> Keys]
    BY DEF SortInit
  <2>2. n \in Nat
    BY SortAssumption
  <2>3. input \in Seq(Keys)
    BY <2>1, <2>2, SeqDef
  <2> QED
    BY <2>3, LenProperties
<1>3. batch[Main] = <<>> /\ \A t \in Tasks : merged[t] = Nothing
  BY DEF SortInit, Threads
<1>4. StartsWithInput
  BY DEF SortInit, StartsWithInput, Containers
<1>5. SortTypes
  <2>1. data \in [Containers -> [DOMAIN input -> Keys]]
    <3>1. input \in [DOMAIN input -> Keys]
      BY <1>2, SeqDef, LenProperties
    <3> QED
      BY <3>1 DEF SortInit
  <2>2. Range0(0) \in [container : Containers, start : 1 .. Len(input) + 1,
                       range : 0 .. Len(input), maxRangeOrLevels : Nat]
    BY <1>2 DEF Range0, Containers
  <2>3. storage \in [Tasks -> [container : Containers, start : 1 .. Len(input) + 1,
                               range : 0 .. Len(input), maxRangeOrLevels : Nat]]
    BY <2>2 DEF SortInit
  <2>4. \A t \in Tasks : storage[t].start + storage[t].range <= Len(input) + 1
    BY <1>2 DEF SortInit, Range0
  <2>5. \A t \in Threads : Len(batch[t]) <= 2
    BY EmptySeq DEF SortInit
  <2>6. merged \in [Tasks -> [left : 0 .. Len(input), right : 0 .. Len(input)]]
    BY <1>2 DEF SortInit, Nothing
  <2> QED
    BY <1>1, <1>2, <2>1, <2>3, <2>4, <2>5, <2>6
       DEF SortTypes, SortTypeOK, OwnersInv, BatchTypes
<1> QED
  BY <1>1, <1>3, <1>4, <1>5, SortedWithoutRoot

\* A step that changes nothing keeps what it needs.
LEMMA StutteringKeepsSorted == SortInv /\ UNCHANGED sortVars => SortInv'
<1> SUFFICES ASSUME SortInv, UNCHANGED sortVars PROVE SortInv'
  OBVIOUS
<1>1. UNCHANGED <<poolSize, refused, task, input, data, storage, batch, merged>>
  BY DEF sortVars
<1>2. OwnersInv'
  BY StutteringKeepsOwners DEF SortInv
<1>3. SortTypes'
  BY <1>1 DEF SortInv, SortTypes, SortTypeOK, BatchTypeOK
<1>4. HalvesAreHalves' /\ RootIsWhole' /\ HoldersAreDisjoint'
  BY <1>1
     DEF SortInv, HalvesAreHalves, RootIsWhole, HoldersAreDisjoint, Holds, Delegates,
         IsActive, Left, Right, PlacesIn, LastIndex
<1>5. StartsWithInput' /\ UnsortedIsInput'
  BY <1>1
     DEF SortInv, StartsWithInput, UnsortedIsInput, IsExecuting, Holds, Delegates, IsActive,
         PlacesIn, LastIndex
<1>6. MergesAgree'
  <2> SUFFICES ASSUME NEW u \in Tasks, merged'[u] # Nothing
               PROVE  (Delegates(u) /\ HasSortedHalves(u) /\ MergeAgrees(u))'
    BY DEF MergesAgree, Nothing
  <2> QED
    BY <1>1, MergesAreKept
<1>7. RangesAreSorted'
  <2> SUFFICES ASSUME NEW u \in Tasks, task'[u] = "Succeeded", ~IsMerged(u)'
               PROVE  IsSorted(data[storage[u].container], input,
                               storage[u].start, LastIndex(storage[u]))'
    BY DEF RangesAreSorted
  <2>1. task[u] = "Succeeded" /\ ~IsMerged(u)
    BY <1>1 DEF IsMerged, Nothing
  <2>2. IsSorted(data[storage[u].container], input, storage[u].start, LastIndex(storage[u]))
    BY <2>1 DEF SortInv, RangesAreSorted
  <2> QED
    BY <1>1, <2>2, SortedRangeIsKept DEF SortInv
<1> QED
  BY <1>2, <1>3, <1>4, <1>5, <1>6, <1>7 DEF SortInv

\* Nobody but the one that returns has succeeded in a return.
LEMMA OthersReturnNothing ==
    ASSUME OwnersInv, NEW t \in Threads, NEW success, Return(t, success)
    PROVE  /\ task'[t] = Outcome(success)
           /\ \A u \in Tasks : u # t /\ task'[u] = "Succeeded" => task[u] = "Succeeded"
BY DEF Return, ReturnAndRelease, Released, Threads

\* Where no element is written and no task succeeds, the ranges stay sorted.
LEMMA RangesStaySorted ==
    ASSUME RangesAreSorted, UNCHANGED <<input, data, storage>>,
           \A u \in Tasks : task'[u] = "Succeeded" => task[u] = "Succeeded",
           \A u \in Tasks : IsMerged(u)' <=> IsMerged(u)
    PROVE  RangesAreSorted'
<1> SUFFICES ASSUME NEW u \in Tasks, task'[u] = "Succeeded", ~IsMerged(u)'
             PROVE  IsSorted(data[storage[u].container], input,
                             storage[u].start, LastIndex(storage[u]))'
  BY DEF RangesAreSorted
<1>1. IsSorted(data[storage[u].container], input, storage[u].start, LastIndex(storage[u]))
  BY DEF RangesAreSorted
<1> QED
  BY <1>1 DEF IsSorted, IsOrdered, Occurrences, LastIndex

\* A call that is refused to wait returns without having touched an element: the
\* invariant holds on if its task was done, and otherwise the ranges are as they were.
LEMMA FailToFinishKeepsSorted ==
    ASSUME SortInv, FailToFinish, OwnersInv' \/ CallIsLost'
    PROVE  SortInv' \/ LostInv'
<1>1. CASE OwnersInv'
  BY <1>1, FinishSortingKeepsSorted
<1>2. CASE CallIsLost'
  <2>1. /\ UNCHANGED <<poolSize, input, data, storage, merged>> /\ refused' = TRUE
        /\ Return(Main, FALSE) /\ OwnersInv /\ SortTypes /\ Main \in Threads /\ Main \notin Tasks
    <3>1. /\ UNCHANGED <<poolSize, input, data, storage, merged>> /\ refused' = TRUE
          /\ Return(Main, FALSE)
      BY DEF FailToFinish
    <3>2. OwnersInv /\ SortTypes
      BY DEF SortInv
    <3>3. Main \in Threads /\ Main \notin Tasks
      BY DEF Threads, Tasks, Main
    <3> QED
      BY <3>1, <3>2, <3>3
  <2>2. /\ batch' = [batch EXCEPT ![Main] = <<>>]
        /\ \A u \in Tasks : batch'[u] = batch[u]
    BY <2>1 DEF Return, OwnersInv, BatchTypes, Threads
  <2>3. SortTypes'
    <3>1. task' \in [Threads -> Statuses]
      BY <2>1
         DEF Return, ReturnAndRelease, Released, Outcome, Statuses, OwnersInv, BatchTypes,
             BatchTypeOK
    <3>2. /\ batch' \in [Threads -> Seq(Tasks)]
          /\ \A t \in Threads : Len(batch'[t]) <= 2
      <4>1. <<>> \in Seq(Tasks) /\ Len(<<>>) <= 2
        BY EmptySeq
      <4>2. \A t \in Threads : t # Main => batch'[t] = batch[t]
        BY <2>1, <2>2 DEF OwnersInv, BatchTypes
      <4>3. batch \in [Threads -> Seq(Tasks)] /\ \A t \in Threads : Len(batch[t]) <= 2
        BY <2>1 DEF SortTypes, SortTypeOK
      <4> QED
        BY <2>1, <2>2, <4>1, <4>2, <4>3
    <3> QED
      BY <2>1, <3>1, <3>2 DEF SortTypes, SortTypeOK, BatchTypeOK
  <2>4. RangesAreSorted'
    <3>1. \A u \in Tasks : task'[u] = "Succeeded" => task[u] = "Succeeded"
      BY <2>1, OthersReturnNothing
    <3>2. \A u \in Tasks : IsMerged(u)' <=> IsMerged(u)
      BY <2>1, <2>2 DEF IsMerged, Nothing
    <3>3. RangesAreSorted
      BY DEF SortInv
    <3> QED
      BY <2>1, <3>1, <3>2, <3>3, RangesStaySorted
  <2> QED
    BY <1>2, <2>3, <2>4 DEF LostInv
<1> QED
  BY <1>1, <1>2

\* Every step of the sort keeps the invariant, unless the call returns without its task.
LEMMA SortNextKeepsSorted == SortInv /\ [SortNext]_sortVars => SortInv' \/ (FailToFinish /\ LostInv')
<1>1. ASSUME SortInv, SortNext PROVE SortInv' \/ (FailToFinish /\ LostInv')
  <2>1. OwnersInv' \/ (FailToFinish /\ CallIsLost')
    BY <1>1, SortNextKeepsOwners DEF SortInv
  <2>2. ASSUME NEW t \in Tasks, OwnersInv',
               \/ SortSequentially(t)
               \/ CreateHalf(t) \/ FailToCreateHalf(t) \/ SubmitHalves(t)
               \/ MergeElement(t) \/ MergeHalves(t) \/ FailAfterHalves(t)
        PROVE  SortInv'
    BY <1>1, <2>2, SortSequentiallyKeepsSorted, CreateHalfKeepsSorted,
       FailureKeepsSorted, SubmitHalvesKeepsSorted, MergeElementKeepsSorted,
       MergeHalvesKeepsSorted
  <2>3. CASE FailToFinish
    BY <1>1, <2>1, <2>3, FailToFinishKeepsSorted
  <2>4. CASE OwnersInv' /\ SortStep
    BY <1>1, <2>2, <2>4, FailToStartKeepsSorted, StartSortingKeepsSorted,
       FinishSortingKeepsSorted DEF SortStep, TaskStep
  <2> QED
    BY <1>1, <2>1, <2>3, <2>4 DEF SortNext
<1> QED
  BY <1>1, StutteringKeepsSorted

\* After such a return nothing happens any more.
LEMMA LostStaysSorted == LostInv /\ [SortNext]_sortVars => LostInv'
<1> SUFFICES ASSUME LostInv, [SortNext]_sortVars PROVE LostInv'
  OBVIOUS
<1>1. UNCHANGED sortVars /\ CallIsLost'
  BY LostIsTheEnd DEF LostInv
<1>2. UNCHANGED <<poolSize, refused, task, input, data, storage, batch, merged>>
  BY <1>1 DEF sortVars
<1>3. SortTypes'
  BY <1>2 DEF LostInv, SortTypes, SortTypeOK, BatchTypeOK
<1>4. RangesAreSorted'
  <2>1. \A u \in Tasks : IsMerged(u)' <=> IsMerged(u)
    BY <1>2 DEF IsMerged, Nothing
  <2> QED
    BY <1>2, <2>1, RangesStaySorted DEF LostInv
<1> QED
  BY <1>1, <1>3, <1>4 DEF LostInv

-----------------------------------------------------------------------------
(***************************************************************************)
(* ParallelMergeSort: the container of the result.                         *)
(***************************************************************************)

\* A step of a task: where the leaves are of even length, the number of a leaf is odd and
\* its result is in the container, and every merge changes both.
LEMMA TaskStepKeepsLevels ==
    ASSUME LevelsInv, \A m \in MaxRanges : m % 2 = 0, NEW t \in Tasks,
           \/ SortSequentially(t)
           \/ CreateHalf(t) \/ FailToCreateHalf(t) \/ SubmitHalves(t)
           \/ MergeElement(t) \/ MergeHalves(t) \/ FailAfterHalves(t)
    PROVE  LevelsAgree'
<1>1. /\ SortInv /\ OwnersInv /\ LevelsAgree /\ SortTypes /\ t \in Threads
      /\ Tasks \subseteq Threads /\ {t} \subseteq Tasks /\ DOMAIN storage = Tasks
  BY DEF LevelsInv, SortInv, OwnersInv, BatchTypes, Threads
<1>2. CASE SortSequentially(t)
  <2>1. /\ Return(t, TRUE) /\ IsExecuting(t)
        /\ storage' = [storage EXCEPT ![t].maxRangeOrLevels = @ + 1]
    BY <1>2 DEF SortSequentially
  <2>2. batch[t] = <<>>
    BY <1>1, <1>2 DEF SortSequentially, OwnersInv, BatchesAreOfCallers
  <2>3. Holds(t) /\ task[t] = "Submitted"
    BY <2>1, <2>2, EmptySeq DEF Delegates, Holds, IsActive, IsExecuting
  <2>4. /\ storage[t].container = "container"
        /\ storage[t].maxRangeOrLevels = Len(input) \div Workers
    BY <1>1, <2>3 DEF SortInv, UnsortedIsInput
  <2>5. storage[t].maxRangeOrLevels \in Nat /\ storage[t].maxRangeOrLevels % 2 = 0
    BY <1>1, <2>4, RangeType DEF LevelsInv
  <2>6. (storage[t].maxRangeOrLevels + 1) % 2 # 0
    BY <2>5
  <2>7. /\ storage'[t].container = "container"
        /\ storage'[t].maxRangeOrLevels = storage[t].maxRangeOrLevels + 1
        /\ \A u \in Tasks : u # t => storage'[u] = storage[u]
    BY <1>1, <2>1, <2>4
  <2>8. storage'[t].container = "working_container" <=> storage'[t].maxRangeOrLevels % 2 = 0
    BY <2>6, <2>7
  <2>9. \A u \in Tasks : u # t /\ task'[u] = "Succeeded" => task[u] = "Succeeded"
    BY <1>1, <2>1, OthersReturnNothing
  <2> QED
    BY <1>1, <2>7, <2>8, <2>9 DEF LevelsAgree
<1>3. CASE MergeHalves(t)
  <2>1. /\ HasSortedHalves(t) /\ Return(t, TRUE)
        /\ storage' = [storage EXCEPT ![t].container = Other(Left(t).container),
                                      ![t].maxRangeOrLevels = Left(t).maxRangeOrLevels + 1]
    BY <1>3 DEF MergeHalves, Left
  <2>2. batch[t][1] \in Tasks /\ task[batch[t][1]] = "Succeeded"
    BY <1>1, <2>1, SortedHalvesHold
  <2>3. /\ Left(t).container \in Containers /\ Left(t).maxRangeOrLevels \in Nat
        /\ Left(t).container = "working_container" <=> Left(t).maxRangeOrLevels % 2 = 0
    BY <1>1, <2>2, RangeType DEF LevelsAgree, Left
  <2>4. Left(t).maxRangeOrLevels % 2 = 0 <=> (Left(t).maxRangeOrLevels + 1) % 2 # 0
    <3>1. \A n \in Nat : n % 2 = 0 <=> (n + 1) % 2 # 0
      OBVIOUS
    <3> QED
      BY <2>3, <3>1
  <2>5. Other(Left(t).container) = "working_container"
            <=> Left(t).container # "working_container"
    BY <2>3 DEF Other, Containers
  <2>6. /\ storage'[t].container = Other(Left(t).container)
        /\ storage'[t].maxRangeOrLevels = Left(t).maxRangeOrLevels + 1
        /\ \A u \in Tasks : u # t => storage'[u] = storage[u]
    BY <1>1, <2>1
  <2>7. storage'[t].container = "working_container" <=> storage'[t].maxRangeOrLevels % 2 = 0
    BY <2>3, <2>4, <2>5, <2>6
  <2>9. \A u \in Tasks : u # t /\ task'[u] = "Succeeded" => task[u] = "Succeeded"
    BY <1>1, <2>1, OthersReturnNothing
  <2> QED
    BY <1>1, <2>6, <2>7, <2>9 DEF LevelsAgree
<1>4. CASE FailToCreateHalf(t) \/ FailAfterHalves(t)
  <2>1. Return(t, FALSE) /\ storage' = storage
    BY <1>4 DEF FailToCreateHalf, FailAfterHalves
  <2>2. \A u \in Tasks : task'[u] = "Succeeded" => task[u] = "Succeeded"
    BY <1>1, <2>1, OthersReturnNothing DEF Outcome
  <2> QED
    BY <1>1, <2>1, <2>2 DEF LevelsAgree
<1>5. CASE CreateHalf(t)
  <2>1. storage' = storage /\ task' = [task EXCEPT ![NewTask] = "Created"]
    BY <1>5 DEF CreateHalf
  <2>2. \A u \in Tasks : task'[u] = "Succeeded" => task[u] = "Succeeded"
    BY <1>1, <2>1 DEF OwnersInv, BatchTypes, BatchTypeOK
  <2> QED
    BY <1>1, <2>1, <2>2 DEF LevelsAgree
<1>6. CASE SubmitHalves(t)
  <2>1. /\ storage' = [storage EXCEPT ![batch[t][1]] = LeftHalf(storage[t]),
                                      ![batch[t][2]] = RightHalf(storage[t])]
        /\ task' = SubmitAll(batch[t]) /\ Len(batch[t]) = 2
    BY <1>6 DEF SubmitHalves
  <2>2. 1 \in DOMAIN batch[t] /\ 2 \in DOMAIN batch[t]
    BY <1>1, <2>1, PairOfTasks
  <2>3. ASSUME NEW u \in Tasks, task'[u] = "Succeeded"
        PROVE  task[u] = "Succeeded" /\ storage'[u] = storage[u]
    <3>1. task[u] = "Succeeded" /\ \A i \in DOMAIN batch[t] : batch[t][i] # u
      BY <1>1, <2>1, <2>3 DEF SubmitAll
    <3> QED
      BY <1>1, <2>1, <2>2, <3>1
  <2> QED
    BY <1>1, <2>3 DEF LevelsAgree
<1>7. CASE MergeElement(t)
  BY <1>1, <1>7 DEF MergeElement, LevelsAgree
<1> QED
  BY <1>2, <1>3, <1>4, <1>5, <1>6, <1>7

\* Nothing happens to the elements after the call has returned.
LEMMA NothingAfterTheCall ==
    ASSUME IsFinished(Main), SortNext
    PROVE  FALSE
BY DEF SortNext, SortStep, TaskStep, FailToStart, StartSorting, FinishSorting, FailToFinish,
       IsFinished, IsExecuting

\* The call copies the result if it is not in the container.
LEMMA FinishSortingSorts ==
    ASSUME LevelsInv, FinishSorting
    PROVE  TrueMeansSorted'
<1> SUFFICES ASSUME task'[Main] = "Succeeded"
             PROVE  IsSorted(data'["container"], input, 1, Len(input))
  BY DEF FinishSorting, TrueMeansSorted
<1>1. /\ SortInv /\ OwnersInv /\ LevelsAgree /\ SortTypes
      /\ Main \in Threads /\ Main \notin Tasks /\ Tasks \subseteq Threads
  BY DEF LevelsInv, SortInv, Threads, Tasks, Main
<1> DEFINE root == batch[Main][1]
<1>2. /\ batch[Main] # <<>> /\ AreAllTaskFinished(batch[Main])
      /\ ~HasExecutionError(batch[Main])
      /\ data' = [data EXCEPT !["container"] =
                    IF IsResultCopied(storage[root]) THEN data["working_container"] ELSE @]
  <2>1. PICK success \in BOOLEAN :
            /\ success = ~HasExecutionError(batch[Main])
            /\ Return(Main, success)
    BY DEF FinishSorting
  <2>2. success
    BY <1>1, <2>1, OthersReturnNothing DEF Outcome
  <2> QED
    BY <2>1, <2>2 DEF FinishSorting
<1>3. /\ Len(batch[Main]) = 1
      /\ Left(Main).start = 1 /\ Left(Main).range = Len(input)
  BY <1>1, <1>2 DEF SortInv, RootIsWhole
<1>4. batch[Main] \in Seq(Tasks) /\ 1 \in DOMAIN batch[Main]
  BY <1>1, <1>3, LenProperties DEF OwnersInv, BatchTypes
<1>5. root \in Tasks /\ Owns(Main, root)
  BY <1>4, ElementOfSeq, LenProperties DEF Owns
<1>6. task[root] = "Succeeded"
  BY <1>2, <1>4 DEF AreAllTaskFinished, HasExecutionError, IsFinished, HasFailed
<1>7. ~IsMerged(root)
  BY <1>1, <1>5, OneOwner DEF IsMerged, Owns
<1> HIDE DEF root
<1>8. /\ storage[root].start = 1 /\ storage[root].range = Len(input)
      /\ Len(input) \in Nat
  BY <1>1, <1>3, <1>5, RangeType DEF Left, root
<1>9. LastIndex(storage[root]) = Len(input)
  BY <1>8 DEF LastIndex
<1>10. IsSorted(data[storage[root].container], input, 1, Len(input))
  BY <1>1, <1>5, <1>6, <1>7, <1>8, <1>9 DEF SortInv, RangesAreSorted
<1>11. /\ storage[root].container \in Containers
       /\ storage[root].container = "working_container"
            <=> storage[root].maxRangeOrLevels % 2 = 0
  BY <1>1, <1>5, <1>6, RangeType DEF LevelsAgree
<1>12. data'["container"] = data[storage[root].container]
  <2>1. "container" \in DOMAIN data
    BY <1>1 DEF SortTypes, SortTypeOK, Containers
  <2>2. storage[root].container = "container" \/ storage[root].container = "working_container"
    BY <1>11 DEF Containers
  <2>3. IsResultCopied(storage[root]) <=> storage[root].container = "working_container"
    BY <1>11 DEF IsResultCopied
  <2> QED
    BY <1>2, <2>1, <2>2, <2>3
<1> QED
  BY <1>10, <1>12

\* Where MAX_RANGE is even, every step keeps the parity and the result, unless the call
\* returns false without its task.
LEMMA SortNextKeepsLevels ==
    ASSUME \A m \in MaxRanges : m % 2 = 0
    PROVE  LevelsInv /\ [SortNext]_sortVars => LevelsInv' \/ CallIsLost'
<1> SUFFICES ASSUME LevelsInv, [SortNext]_sortVars, ~CallIsLost'
             PROVE  LevelsInv'
  OBVIOUS
<1>1. SortInv' /\ SortInv /\ OwnersInv /\ LevelsAgree /\ Main \in Threads /\ Main \notin Tasks
  BY SortNextKeepsSorted DEF LevelsInv, SortInv, LostInv, Threads, Tasks, Main
<1>2. input' = input
  BY DEF SortNext, SortStep, TaskStep, sortVars, FailToStart, StartSorting, FinishSorting,
         FailToFinish, SortSequentially, CreateHalf, FailToCreateHalf, SubmitHalves,
         MergeElement, MergeHalves, FailAfterHalves
<1>3. CASE UNCHANGED sortVars
  <2>1. LevelsAgree' /\ TrueMeansSorted'
    BY <1>3 DEF LevelsInv, sortVars, LevelsAgree, TrueMeansSorted
  <2> QED
    BY <1>1, <1>2, <2>1 DEF LevelsInv
<1>4. CASE SortNext
  <2>1. task[Main] # "Succeeded"
    BY <1>1, <1>4, NothingAfterTheCall DEF IsFinished
  <2>2. CASE FinishSorting
    <3>1. LevelsAgree'
      BY <1>1, <2>2, FinishSortingKeepsSorted DEF LevelsAgree, SortInv
    <3> QED
      BY <1>1, <1>2, <2>2, <3>1, FinishSortingSorts DEF LevelsInv
  <2>3. CASE FailToStart \/ FailToFinish
    <3>1. Return(Main, FALSE) /\ storage' = storage
      BY <2>3 DEF FailToStart, FailToFinish
    <3>2. /\ task'[Main] # "Succeeded"
          /\ \A u \in Tasks : task'[u] = "Succeeded" => task[u] = "Succeeded"
      BY <1>1, <3>1, OthersReturnNothing DEF Outcome
    <3> QED
      BY <1>1, <1>2, <3>1, <3>2 DEF LevelsInv, LevelsAgree, TrueMeansSorted
  <2>4. CASE StartSorting
    <3>1. /\ task' = SubmitAll(<<NewTask>>)
          /\ storage' = [storage EXCEPT ![NewTask] = Range0(Len(input) \div Workers)]
      BY <2>4 DEF StartSorting
    <3>2. \A u \in Threads : task'[u] = IF u = NewTask THEN "Submitted" ELSE task[u]
      BY <3>1 DEF SubmitAll
    <3>3. task'[Main] # "Succeeded"
      BY <1>1, <2>1, <3>2
    <3>4. \A u \in Tasks : task'[u] = "Succeeded" =>
                task[u] = "Succeeded" /\ storage'[u] = storage[u]
      BY <1>1, <3>1, <3>2 DEF OwnersInv, BatchTypes, Threads
    <3> QED
      BY <1>1, <1>2, <3>3, <3>4 DEF LevelsInv, LevelsAgree, TrueMeansSorted
  <2>5. ASSUME NEW t \in Tasks,
               \/ SortSequentially(t)
               \/ CreateHalf(t) \/ FailToCreateHalf(t) \/ SubmitHalves(t)
               \/ MergeElement(t) \/ MergeHalves(t) \/ FailAfterHalves(t)
        PROVE  LevelsInv'
    <3>1. LevelsAgree'
      BY <2>5, TaskStepKeepsLevels
    <3>2. task'[Main] # "Succeeded"
      <4>1. CASE CreateHalf(t)
        <5>1. task' = [task EXCEPT ![NewTask] = "Created"]
          BY <4>1 DEF CreateHalf
        <5> QED
          BY <1>1, <2>1, <5>1 DEF OwnersInv, BatchTypes, BatchTypeOK
      <4>2. CASE SubmitHalves(t)
        BY <1>1, <2>1, <4>2 DEF SubmitHalves, SubmitAll
      <4>3. CASE MergeElement(t)
        BY <2>1, <4>3 DEF MergeElement
      <4>4. ASSUME NEW success, Return(t, success) PROVE task'[Main] # "Succeeded"
        BY <1>1, <2>1, <4>4 DEF Return, ReturnAndRelease, Released
      <4> QED
        BY <2>5, <4>1, <4>2, <4>3, <4>4
           DEF SortSequentially, FailToCreateHalf, MergeHalves, FailAfterHalves
    <3> QED
      BY <1>1, <1>2, <3>1, <3>2 DEF LevelsInv, TrueMeansSorted
  <2> QED
    BY <1>4, <2>2, <2>3, <2>4, <2>5 DEF SortNext, SortStep, TaskStep
<1> QED
  BY <1>3, <1>4

\* What a sort does to the elements, whatever they are and wherever they lie, until the
\* call returns without its task because it was refused to wait.
THEOREM SortInvCorrect == SortSpec => [](SortInv \/ LostInv)
<1>1. (SortInv \/ LostInv) /\ [SortNext]_sortVars => (SortInv \/ LostInv)'
  BY SortNextKeepsSorted, LostStaysSorted
<1> QED
  BY <1>1, SortInitSorted, PTL DEF SortSpec

\* A task that returns true leaves its range sorted, in the container it names, until it
\* is merged (MergeSortTaskFunction).
THEOREM RangesAreSortedCorrect == SortSpec => []RangesAreSorted
<1>1. SortInv \/ LostInv => RangesAreSorted
  BY DEF SortInv, LostInv
<1> QED
  BY <1>1, SortInvCorrect, PTL

\* Where MAX_RANGE is even, a call that returns true has sorted the container
\* (ParallelMergeSort).
THEOREM TrueMeansSortedCorrect ==
    ASSUME \A m \in MaxRanges : m % 2 = 0
    PROVE  SortSpec => []TrueMeansSorted
<1>1. SortInit => LevelsInv
  BY SortInitSorted
     DEF SortInit, LevelsInv, LevelsAgree, TrueMeansSorted, BatchInit, Threads, Tasks, Main
<1>2. LevelsInv \/ CallIsLost => TrueMeansSorted
  BY DEF LevelsInv, CallIsLost, TrueMeansSorted
<1>3. (LevelsInv \/ CallIsLost) /\ [SortNext]_sortVars => (LevelsInv \/ CallIsLost)'
  BY SortNextKeepsLevels, LostIsTheEnd
<1> QED
  BY <1>1, <1>2, <1>3, PTL DEF SortSpec

-----------------------------------------------------------------------------
(***************************************************************************)
(* The storage of a task: proofs.                                          *)
(***************************************************************************)

\* An object is a sequence of as many words as its size.
LEMMA ObjectLength ==
    ASSUME NEW object \in Objects
    PROVE  Len(object) \in ObjectSizes /\ DOMAIN object = 1 .. Len(object)
<1>1. PICK n \in ObjectSizes : object \in [1 .. n -> Words]
  BY DEF Objects
<1>2. n \in Nat /\ n >= 1 /\ DOMAIN object = 1 .. n
  BY <1>1, StorageAssumption DEF ObjectSizes
<1>3. object \in Seq(Words)
  BY <1>1, <1>2, SeqDef
<1>4. Len(object) \in Nat /\ DOMAIN object = 1 .. Len(object)
  BY <1>3, LenProperties
<1> QED
  BY <1>2, <1>4

\* So it is not the empty value of a variable.
LEMMA ObjectIsSet == Unset \notin Objects
<1> SUFFICES ASSUME Unset \in Objects PROVE FALSE
  OBVIOUS
<1>1. Len(Unset) \in ObjectSizes /\ Len(Unset) = 0
  BY ObjectLength, EmptySeq DEF Unset
<1> QED
  BY <1>1 DEF ObjectSizes

\* What a phase writes are objects.
LEMMA NewObject ==
    ASSUME NEW u \in 0 .. MaxUses, NEW p \in Phases, NEW k \in Nat, NEW n \in ObjectSizes,
           NEW object, object = [i \in 1 .. n |-> <<u, p, k, i>>]
    PROVE  object \in Objects /\ Len(object) = n
<1>1. n \in Nat /\ n >= 1 /\ n <= MaxObjectSize /\ MaxObjectSize \in Nat
  BY StorageAssumption DEF ObjectSizes
<1>2. object \in [1 .. n -> Words]
  BY <1>1 DEF Words
<1>3. object \in Objects
  BY <1>2 DEF Objects
<1>4. DOMAIN object = 1 .. n /\ DOMAIN object = 1 .. Len(object) /\ Len(object) \in ObjectSizes
  BY <1>2, <1>3, ObjectLength
<1>5. Len(object) \in Nat /\ Len(object) >= 1
  BY <1>4, StorageAssumption DEF ObjectSizes
<1> QED
  BY <1>1, <1>3, <1>4, <1>5

\* What WriteToBuffer does to the storage: the object lies at the offset if it fits, and
\* nothing else changes.
LEMMA WriteToBufferEffect ==
    ASSUME StorageTypes, NEW object \in Objects, NEW offset \in 0 .. StorageSize,
           WriteToBuffer(object, offset)
    PROVE  /\ DOMAIN m_storage' = 0 .. StorageSize - 1
           /\ m_storage' = [i \in DOMAIN m_storage' |-> m_storage'[i]]
           /\ Fits(offset, Len(object)) =>
                /\ \A i \in 1 .. Len(object) : m_storage'[offset + i - 1] = object[i]
                /\ writerOffset' = offset + Len(object)
           /\ ~Fits(offset, Len(object)) => m_storage' = m_storage /\ writerOffset' = offset
           /\ \A j \in 0 .. offset - 1 : m_storage'[j] = m_storage[j]
           /\ writerOffset' \in offset .. StorageSize
<1>1. DOMAIN m_storage = 0 .. StorageSize - 1 /\ StorageSize \in Nat
  BY StorageAssumption DEF StorageTypes, StorageTypeOK
<1> PICK n \in Nat \ {0} : n = Len(object)
  BY ObjectLength, StorageAssumption DEF ObjectSizes
<1>2. CASE Fits(offset, n)
  <2>1. /\ m_storage' = [i \in 0 .. StorageSize - 1 |->
                IF i \in offset .. offset + n - 1 THEN object[i - offset + 1] ELSE m_storage[i]]
        /\ writerOffset' = offset + n
    BY <1>1, <1>2 DEF WriteToBuffer, Stored
  <2>2. offset + n <= StorageSize
    BY <1>2 DEF Fits
  <2>3. ASSUME NEW i \in 1 .. n PROVE m_storage'[offset + i - 1] = object[i]
    <3>1. /\ offset + i - 1 \in 0 .. StorageSize - 1
          /\ offset + i - 1 \in offset .. offset + n - 1
          /\ offset + i - 1 - offset + 1 = i
      BY <1>1, <2>2
    <3> QED
      BY <2>1, <3>1
  <2>4. ASSUME NEW j \in 0 .. offset - 1 PROVE m_storage'[j] = m_storage[j]
    BY <1>1, <2>1, <2>2
  <2> QED
    BY <1>1, <1>2, <2>1, <2>2, <2>3, <2>4
<1>3. CASE ~Fits(offset, n)
  BY <1>1, <1>3 DEF WriteToBuffer, StorageTypes
<1> QED
  BY <1>2, <1>3

\* A new writer is at the beginning and has written nothing.
LEMMA NewWriterAgrees ==
    ASSUME written' = <<>>, IsWriting' => writerOffset' = 0, ~IsReading'
    PROVE  OffsetsAgree'
<1> DEFINE off == [k \in 1 .. 1 |-> 0]
<1>1. Len(written') = 0 /\ DOMAIN written' = {}
  BY EmptySeq
<1>2. off \in OffsetFunctions'
  BY <1>1, StorageAssumption DEF OffsetFunctions
<1>3. off[1] = 0
  OBVIOUS
<1> HIDE DEF off
<1>4. \A f : f[1] = 0 => AreOffsets(f)'
  BY <1>1 DEF AreOffsets
<1> QED
  BY <1>1, <1>2, <1>3, <1>4 DEF OffsetsAgree

\* A new reader is where the first object was to go.
LEMMA NewReaderAgrees ==
    ASSUME StorageInv, UNCHANGED <<m_storage, written>>, readerOffset' = 0, received' = <<>>,
           ~IsWriting'
    PROVE  OffsetsAgree'
<1>1. PICK off \in OffsetFunctions : AreOffsets(off)
  BY DEF StorageInv, OffsetsAgree
<1>2. off \in OffsetFunctions' /\ AreOffsets(off)' /\ off[1] = 0
  BY <1>1 DEF OffsetFunctions, AreOffsets, LiesIn
<1>3. Len(received') = 0 /\ Len(written') \in Nat
  BY EmptySeq, LenProperties DEF StorageInv, StorageTypes
<1> QED
  BY <1>2, <1>3 DEF OffsetsAgree

\* What is written at an offset leaves alone what lies before it.
LEMMA LiesOn ==
    ASSUME NEW object \in Objects, NEW at \in 0 .. StorageSize, NEW offset \in 0 .. StorageSize,
           at + Len(object) <= offset, LiesIn(m_storage, object, at),
           \A j \in 0 .. offset - 1 : m_storage'[j] = m_storage[j]
    PROVE  LiesIn(m_storage', object, at)
<1> PICK n \in Nat \ {0} : n = Len(object)
  BY ObjectLength, StorageAssumption DEF ObjectSizes
<1>1. StorageSize \in Nat /\ at + n <= offset
  BY StorageAssumption
<1>2. ASSUME NEW i \in 1 .. n PROVE m_storage'[at + i - 1] = object[i]
  <2>1. at + i - 1 \in 0 .. offset - 1
    BY <1>1
  <2>2. m_storage[at + i - 1] = object[i]
    BY DEF LiesIn
  <2> QED
    BY <2>1, <2>2
<1> QED
  BY <1>2 DEF LiesIn, Fits

\* WriteChain puts its object after those that are stored, or notes that it has not.
LEMMA WriteChainAgrees ==
    ASSUME StorageInv, NEW n \in ObjectSizes, WriteChain(n)
    PROVE  /\ OffsetsAgree'
           /\ (written \in Seq([object : Objects, stored : BOOLEAN]))' /\ Len(written') <= MaxObjects
           /\ writerOffset' \in 0 .. StorageSize
           /\ DOMAIN m_storage' = 0 .. StorageSize - 1
           /\ m_storage' = [i \in DOMAIN m_storage' |-> m_storage'[i]]
<1>1. /\ written \in Seq([object : Objects, stored : BOOLEAN])
      /\ IsWriting /\ Len(written) < MaxObjects
      /\ UNCHANGED <<phase, use, readerOffset, received, lambda>>
      /\ StorageTypes
  BY DEF WriteChain, StorageInv, StorageTypes
<1> PICK N \in Nat : N = Len(written)
  BY <1>1, LenProperties
<1> PICK object : object = Object(N + 1, n)
  OBVIOUS
<1>0. Fits(writerOffset, n) \in BOOLEAN
  BY DEF Fits
<1> PICK stored \in BOOLEAN : stored = Fits(writerOffset, n)
  BY <1>0
<1>2. object \in Objects /\ Len(object) = n /\ n \in Nat
  <2>1. use \in 0 .. MaxUses /\ phase \in Phases /\ N + 1 \in Nat /\ n \in Nat
    BY <1>1, StorageAssumption DEF StorageTypes, StorageTypeOK, Phases, ObjectSizes
  <2> QED
    BY <2>1, NewObject DEF Object
<1> DEFINE entry == [object |-> object, stored |-> stored]
<1>3. WriteToBuffer(object, writerOffset) /\ written' = Append(written, entry)
  BY DEF WriteChain
<1>4. PICK off \in OffsetFunctions : AreOffsets(off) /\ writerOffset = off[N + 1]
  BY <1>1 DEF StorageInv, OffsetsAgree
<1>5. off \in [1 .. N + 1 -> 0 .. StorageSize] /\ writerOffset \in 0 .. StorageSize
  BY <1>1, <1>4 DEF OffsetFunctions, StorageTypes, StorageTypeOK
<1>6. /\ DOMAIN m_storage' = 0 .. StorageSize - 1
      /\ m_storage' = [i \in DOMAIN m_storage' |-> m_storage'[i]]
      /\ stored =>
            /\ \A i \in 1 .. Len(object) : m_storage'[writerOffset + i - 1] = object[i]
            /\ writerOffset' = writerOffset + n
      /\ ~stored => m_storage' = m_storage /\ writerOffset' = writerOffset
      /\ \A j \in 0 .. writerOffset - 1 : m_storage'[j] = m_storage[j]
      /\ writerOffset' \in writerOffset .. StorageSize
  BY <1>1, <1>2, <1>3, <1>5, WriteToBufferEffect
<1>7. /\ written' \in Seq([object : Objects, stored : BOOLEAN])
      /\ Len(written') = N + 1 /\ written'[N + 1] = entry
      /\ \A k \in 1 .. N : written'[k] = written[k]
  <2>1. entry \in [object : Objects, stored : BOOLEAN]
    BY <1>2
  <2> HIDE DEF entry
  <2> QED
    BY <1>1, <1>3, <2>1, AppendProperties
<1>8. DOMAIN written' = 1 .. N + 1 /\ DOMAIN written = 1 .. N
  BY <1>1, <1>7, LenProperties
<1>9. Len(written') <= MaxObjects /\ writerOffset' \in 0 .. StorageSize /\ StorageSize \in Nat
  BY <1>1, <1>5, <1>6, <1>7, StorageAssumption
<1> PICK next : next = writerOffset'
  OBVIOUS
<1> DEFINE new == [k \in 1 .. N + 2 |-> IF k = N + 2 THEN next ELSE off[k]]
<1>10. /\ new \in [1 .. N + 2 -> 0 .. StorageSize]
       /\ new[N + 2] = next /\ \A k \in 1 .. N + 1 : new[k] = off[k]
  BY <1>5, <1>9
<1> HIDE DEF new
<1>11. ASSUME NEW k \in DOMAIN written'
       PROVE  LET o == written'[k].object
              IN  /\ written'[k].stored = Fits(new[k], Len(o))
                  /\ new[k + 1] = IF written'[k].stored THEN new[k] + Len(o) ELSE new[k]
                  /\ new[k + 1] <= new[N + 2]
                  /\ written'[k].stored => LiesIn(m_storage', o, new[k])
  <2>1. CASE k = N + 1
    <3>1. /\ written'[k].object = object /\ written'[k].stored = stored
          /\ new[k] = writerOffset /\ new[k + 1] = next /\ k + 1 = N + 2 /\ next \in Int
      BY <2>1, <1>4, <1>5, <1>7, <1>9, <1>10
    <3>2. stored => LiesIn(m_storage', object, writerOffset)
      BY <1>2, <1>6 DEF LiesIn
    <3>3. stored = Fits(new[k], Len(object))
      BY <1>2, <3>1
    <3>4. new[k + 1] = IF stored THEN new[k] + Len(object) ELSE new[k]
      BY <1>2, <1>6, <3>1
    <3>5. new[k + 1] <= new[N + 2]
      BY <3>1
    <3> QED
      BY <3>1, <3>2, <3>3, <3>4, <3>5
  <2>2. CASE k # N + 1
    <3>1. /\ k \in 1 .. N /\ written'[k] = written[k]
          /\ k \in 1 .. N + 1 /\ k + 1 \in 1 .. N + 1
      BY <2>2, <1>7, <1>8
    <3> PICK o : o = written[k].object
      OBVIOUS
    <3>2. /\ new[k] = off[k] /\ new[k + 1] = off[k + 1] /\ new[N + 2] = next
          /\ written'[k].object = o /\ written'[k].stored = written[k].stored
      BY <3>1, <1>10
    <3>3. /\ written[k].stored = Fits(off[k], Len(o))
          /\ off[k + 1] = IF written[k].stored THEN off[k] + Len(o) ELSE off[k]
          /\ off[k + 1] <= off[N + 1]
          /\ written[k].stored => LiesIn(m_storage, o, off[k])
      BY <3>1, <1>4, <1>8 DEF AreOffsets
    <3>4. /\ off[k] \in 0 .. StorageSize /\ off[k + 1] \in 0 .. StorageSize
          /\ off[k + 1] <= writerOffset /\ writerOffset <= next /\ next \in Int
      BY <3>1, <3>3, <1>4, <1>5, <1>6, <1>9
    <3>5. o \in Objects
      <4>1. written[k] \in [object : Objects, stored : BOOLEAN]
        BY <3>1, <1>1, ElementOfSeq
      <4> QED
        BY <4>1
    <3>6. written[k].stored => LiesIn(m_storage', o, off[k])
      <4> SUFFICES ASSUME written[k].stored PROVE LiesIn(m_storage', o, off[k])
        OBVIOUS
      <4>1. off[k] + Len(o) <= writerOffset /\ LiesIn(m_storage, o, off[k])
        BY <3>3, <3>4
      <4> QED
        BY <4>1, <3>4, <3>5, <1>5, <1>6, LiesOn
    <3>7. off[k + 1] <= next
      BY <3>4, <1>5, <1>9
    <3> QED
      BY <3>2, <3>3, <3>6, <3>7
  <2> QED
    BY <2>1, <2>2
<1>12. new \in OffsetFunctions' /\ AreOffsets(new)' /\ writerOffset' = new[Len(written') + 1]
  <2>1. Len(written') + 1 = N + 2 /\ new[1] = 0
    BY <1>4, <1>7, <1>10 DEF AreOffsets
  <2> QED
    BY <2>1, <1>10, <1>11 DEF OffsetFunctions, AreOffsets
<1>13. ~IsReading'
  BY <1>1 DEF IsReading, IsWriting
<1> QED
  BY <1>6, <1>7, <1>9, <1>12, <1>13 DEF OffsetsAgree

\* The type invariant of the storage, of which a step changes a part.
LEMMA SameStorage ==
    ASSUME StorageTypes, UNCHANGED m_storage
    PROVE  /\ DOMAIN m_storage' = 0 .. StorageSize - 1
           /\ m_storage' = [i \in DOMAIN m_storage' |-> m_storage'[i]]
BY DEF StorageTypes, StorageTypeOK

\* Nothing has been written or read.
LEMMA EmptyTypes ==
    /\ <<>> \in Seq([object : Objects, stored : BOOLEAN]) /\ <<>> \in Seq(Objects \cup {Unset})
    /\ Len(<<>>) = 0 /\ DOMAIN <<>> = {}
    /\ 0 <= MaxObjects /\ 1 <= MaxObjects /\ 0 \in 0 .. StorageSize /\ 0 <= MaxObjectSize
BY EmptySeq, StorageAssumption

\* A new task, and a new writer.
LEMMA BeginKeepsStorage ==
    ASSUME StorageInv, CreateNewTask \/ BeginResults
    PROVE  StorageInv'
<1>1. /\ phase' \in {"Arguments", "Results"} /\ use' \in 0 .. MaxUses
      /\ written' = <<>> /\ received' = <<>> /\ writerOffset' = 0
      /\ lambda' \in Objects \cup {Unset} /\ Len(lambda') <= MaxObjectSize
      /\ UNCHANGED <<m_storage, readerOffset>>
  <2>1. StorageTypes
    BY DEF StorageInv
  <2> QED
    BY <2>1, EmptyTypes, StorageAssumption
       DEF CreateNewTask, BeginResults, StorageTypes, StorageTypeOK, Unset
<1>2. StorageTypes'
  BY <1>1, EmptyTypes DEF StorageTypes, StorageTypeOK, StorageInv
<1>3. OffsetsAgree'
  BY <1>1, NewWriterAgrees DEF IsReading
<1>4. LambdaIsKept' /\ RoundTrip'
  BY <1>1 DEF LambdaIsKept, RoundTrip, IsReading
<1> QED
  BY <1>2, <1>3, <1>4 DEF StorageInv

\* An object more.
LEMMA WriteChainKeepsStorage ==
    ASSUME StorageInv, NEW n \in ObjectSizes, WriteChain(n)
    PROVE  StorageInv'
<1>1. UNCHANGED <<phase, use, readerOffset, received, lambda>> /\ IsWriting
  BY DEF WriteChain
<1>2. StorageTypes'
  BY <1>1, WriteChainAgrees DEF StorageInv, StorageTypes, StorageTypeOK
<1>3. LambdaIsKept' /\ RoundTrip'
  BY <1>1 DEF LambdaIsKept, RoundTrip, IsReading, IsWriting
<1> QED
  BY <1>2, <1>3, WriteChainAgrees DEF StorageInv

\* A new reader.
LEMMA HandOverKeepsStorage ==
    ASSUME StorageInv, HandOver \/ ReturnFromLambda
    PROVE  StorageInv'
<1>1. /\ phase' \in {"ReadArguments", "ReadResults"} /\ readerOffset' = 0 /\ received' = <<>>
      /\ UNCHANGED <<use, m_storage, writerOffset, written, lambda>>
  BY DEF HandOver, ReturnFromLambda
<1>2. StorageTypes'
  BY <1>1, EmptyTypes DEF StorageTypes, StorageTypeOK, StorageInv
<1>3. OffsetsAgree'
  BY <1>1, NewReaderAgrees DEF IsWriting
<1>4. LambdaIsKept' /\ RoundTrip'
  BY <1>1, EmptyTypes DEF LambdaIsKept, RoundTrip
<1> QED
  BY <1>2, <1>3, <1>4 DEF StorageInv

\* The reader is where the writer was: what fitted then fits now, and is there.
LEMMA ReadChainKeepsStorage ==
    ASSUME StorageInv, ReadChain
    PROVE  StorageInv'
<1>1. /\ UNCHANGED <<phase, use, m_storage, writerOffset, written, lambda>>
      /\ IsReading /\ Len(received) < Len(written)
      /\ received \in Seq(Objects \cup {Unset})
      /\ written \in Seq([object : Objects, stored : BOOLEAN])
  BY DEF ReadChain, StorageInv, StorageTypes
<1> PICK R \in Nat : R = Len(received)
  BY <1>1, LenProperties
<1> PICK N \in Nat : N = Len(written)
  BY <1>1, LenProperties
<1>2. R + 1 \in 1 .. N /\ DOMAIN written = 1 .. N /\ DOMAIN received = 1 .. R
  BY <1>1, LenProperties
<1>3. PICK off \in OffsetFunctions : AreOffsets(off) /\ readerOffset = off[R + 1]
  BY <1>1 DEF StorageInv, OffsetsAgree
<1> PICK object : object = written[R + 1].object
  OBVIOUS
<1> PICK stored : stored = written[R + 1].stored
  OBVIOUS
<1>4. /\ stored = Fits(readerOffset, Len(object))
      /\ off[R + 2] = IF stored THEN readerOffset + Len(object) ELSE readerOffset
      /\ stored => LiesIn(m_storage, object, readerOffset)
  <2>1. R + 1 + 1 = R + 2
    OBVIOUS
  <2> QED
    BY <1>2, <1>3, <2>1 DEF AreOffsets
<1>5. object \in Objects /\ stored \in BOOLEAN
  <2>1. written[R + 1] \in [object : Objects, stored : BOOLEAN]
    BY <1>1, <1>2, ElementOfSeq
  <2> QED
    BY <2>1
<1> PICK n \in Nat \ {0} : n = Len(object)
  BY <1>5, ObjectLength, StorageAssumption DEF ObjectSizes
<1>6. ReadFromBuffer(n)
  BY DEF ReadChain
<1> DEFINE value == IF stored THEN object ELSE Unset
<1>7. received' = Append(received, value) /\ readerOffset' = off[R + 2]
  <2>1. CASE stored
    <3>1. Loaded(readerOffset, n) = [i \in 1 .. n |-> object[i]]
      BY <1>4, <2>1 DEF Loaded, LiesIn
    <3>2. object = [i \in 1 .. n |-> object[i]]
      <4>1. DOMAIN object = 1 .. n
        BY <1>5, ObjectLength
      <4>2. \E k \in ObjectSizes : object \in [1 .. k -> Words]
        BY <1>5 DEF Objects
      <4> QED
        BY <4>1, <4>2
    <3> QED
      BY <1>4, <1>6, <2>1, <3>1, <3>2 DEF ReadFromBuffer
  <2>2. CASE ~stored
    BY <1>4, <1>6, <2>2 DEF ReadFromBuffer
  <2> QED
    BY <1>5, <2>1, <2>2
<1>8. value \in Objects \cup {Unset}
  BY <1>5
<1> HIDE DEF value
<1>9. /\ received' \in Seq(Objects \cup {Unset}) /\ Len(received') = R + 1
      /\ received'[R + 1] = value /\ \A k \in 1 .. R : received'[k] = received[k]
  BY <1>1, <1>7, <1>8, AppendProperties
<1>10. DOMAIN received' = 1 .. R + 1
  BY <1>9, LenProperties
<1>11. OffsetsAgree'
  <2>1. off \in OffsetFunctions' /\ AreOffsets(off)'
    BY <1>1, <1>3 DEF OffsetFunctions, AreOffsets
  <2>2. /\ Len(received') <= Len(written') /\ Len(received') + 1 = R + 2
        /\ ~IsWriting'
    BY <1>1, <1>2, <1>9 DEF IsReading, IsWriting
  <2> QED
    BY <2>1, <2>2, <1>7 DEF OffsetsAgree
<1>12. readerOffset' \in 0 .. StorageSize /\ Len(received') <= MaxObjects
  <2>1. off \in [1 .. N + 1 -> 0 .. StorageSize] /\ R + 2 \in 1 .. N + 1
    BY <1>2, <1>3 DEF OffsetFunctions
  <2>2. N <= MaxObjects /\ MaxObjects \in Nat
    BY StorageAssumption DEF StorageInv, StorageTypes, StorageTypeOK
  <2> QED
    BY <2>1, <2>2, <1>2, <1>7, <1>9
<1>13. StorageTypes'
  BY <1>1, <1>9, <1>12 DEF StorageInv, StorageTypes, StorageTypeOK
<1>14. RoundTrip'
  <2>1. ASSUME NEW k \in 1 .. R + 1
        PROVE  received'[k] = IF written[k].stored THEN written[k].object ELSE Unset
    <3>1. CASE k = R + 1
      BY <3>1, <1>9 DEF value
    <3>2. CASE k # R + 1
      <4>1. k \in 1 .. R
        BY <3>2
      <4> QED
        BY <4>1, <1>1, <1>2, <1>9 DEF StorageInv, RoundTrip
    <3> QED
      BY <3>1, <3>2
  <2> QED
    BY <2>1, <1>1, <1>10 DEF RoundTrip
<1>15. LambdaIsKept'
  BY <1>1 DEF LambdaIsKept, IsReading
<1> QED
  BY <1>11, <1>13, <1>14, <1>15 DEF StorageInv

\* A lambda is put at the beginning of the storage, or the task is released.
LEMMA LambdaTaskMakerKeepsStorage ==
    ASSUME StorageInv, NEW n \in ObjectSizes, LambdaTaskMaker(n)
    PROVE  StorageInv'
<1>1. /\ use' \in 0 .. MaxUses /\ written' = <<>> /\ received' = <<>>
      /\ UNCHANGED readerOffset /\ phase' \in {"Lambda", "Released"} /\ n \in Nat
  BY StorageAssumption
     DEF LambdaTaskMaker, StorageInv, StorageTypes, StorageTypeOK, ObjectSizes
<1>2. CASE n <= StorageSize
  <2> PICK object : object = lambda'
    OBVIOUS
  <2>1. object = [i \in 1 .. n |-> <<use', "Lambda", 1, i>>] /\ phase' = "Lambda"
    BY <1>1, <1>2, StorageAssumption DEF LambdaTaskMaker
  <2>2. object \in Objects /\ Len(object) = n
    <3> PICK u \in 0 .. MaxUses : u = use'
      BY <1>1
    <3> PICK p \in Phases : p = "Lambda"
      BY DEF Phases
    <3> PICK k \in Nat : k = 1
      OBVIOUS
    <3>1. object = [i \in 1 .. n |-> <<u, p, k, i>>]
      BY <2>1
    <3> QED
      BY <3>1, NewObject
  <2>3. WriteToBuffer(object, 0)
    BY <1>1, <1>2, <2>1 DEF LambdaTaskMaker
  <2>4. Fits(0, Len(object))
    BY <1>1, <1>2, <2>2 DEF Fits
  <2>5. /\ DOMAIN m_storage' = 0 .. StorageSize - 1
        /\ m_storage' = [i \in DOMAIN m_storage' |-> m_storage'[i]]
        /\ \A i \in 1 .. Len(object) : m_storage'[0 + i - 1] = object[i]
        /\ writerOffset' \in 0 .. StorageSize
    BY <2>2, <2>3, <2>4, EmptyTypes, WriteToBufferEffect DEF StorageInv
  <2>6. LiesIn(m_storage', object, 0) /\ object # Unset
    BY <2>2, <2>4, <2>5, ObjectIsSet DEF LiesIn
  <2>7. StorageTypes'
    BY <1>1, <2>1, <2>2, <2>5, EmptyTypes
       DEF StorageInv, StorageTypes, StorageTypeOK, ObjectSizes
  <2> QED
    BY <1>1, <2>1, <2>6, <2>7, NewWriterAgrees
       DEF StorageInv, LambdaIsKept, RoundTrip, IsReading, IsWriting
<1>3. CASE n > StorageSize
  <2>1. /\ phase' = "Released" /\ lambda' = Unset /\ UNCHANGED <<m_storage, writerOffset>>
    BY <1>1, <1>3, StorageAssumption DEF LambdaTaskMaker
  <2>2. StorageTypes'
    BY <1>1, <2>1, EmptyTypes DEF StorageInv, StorageTypes, StorageTypeOK, Unset
  <2> QED
    BY <1>1, <2>1, <2>2, NewWriterAgrees
       DEF StorageInv, LambdaIsKept, RoundTrip, IsReading, IsWriting
<1> QED
  BY <1>1, <1>2, <1>3, StorageAssumption

\* What the function copies to its own variable is the lambda.
LEMMA LambdaTaskFunctionKeepsStorage ==
    ASSUME StorageInv, LambdaTaskFunction
    PROVE  StorageInv'
<1>1. /\ phase = "Lambda" /\ phase' = "InLambda"
      /\ UNCHANGED <<use, m_storage, writerOffset, written, lambda>>
  BY DEF LambdaTaskFunction
<1>2. lambda \in Objects /\ LiesIn(m_storage, lambda, 0)
  BY <1>1 DEF StorageInv, StorageTypes, LambdaIsKept
<1> PICK n \in Nat \ {0} : n = Len(lambda)
  BY <1>2, ObjectLength, StorageAssumption DEF ObjectSizes
<1>3. Fits(0, n) /\ n <= StorageSize
  BY <1>2, StorageAssumption DEF LiesIn, Fits
<1>4. Loaded(0, n) = lambda
  <2>1. lambda = [i \in 1 .. n |-> lambda[i]]
    <3>1. DOMAIN lambda = 1 .. n
      BY <1>2, ObjectLength
    <3>2. \E k \in ObjectSizes : lambda \in [1 .. k -> Words]
      BY <1>2 DEF Objects
    <3> QED
      BY <3>1, <3>2
  <2>2. \A i \in 1 .. n : m_storage[0 + i - 1] = lambda[i]
    BY <1>2 DEF LiesIn
  <2>3. Loaded(0, n) = [i \in 1 .. n |-> lambda[i]]
    BY <2>2 DEF Loaded
  <2> QED
    BY <2>1, <2>3
<1>5. received' = <<lambda>> /\ readerOffset' = n
  BY <1>3, <1>4 DEF LambdaTaskFunction
<1>6. <<lambda>> \in Seq(Objects \cup {Unset}) /\ Len(<<lambda>>) = 1
  BY <1>2
<1>7. StorageTypes'
  BY <1>1, <1>3, <1>5, <1>6, EmptyTypes, StorageAssumption
     DEF StorageInv, StorageTypes, StorageTypeOK
<1>8. OffsetsAgree'
  <2>1. PICK off \in OffsetFunctions : AreOffsets(off)
    BY DEF StorageInv, OffsetsAgree
  <2>2. off \in OffsetFunctions' /\ AreOffsets(off)' /\ ~IsWriting' /\ ~IsReading'
    BY <1>1, <2>1 DEF OffsetFunctions, AreOffsets, IsWriting, IsReading
  <2> QED
    BY <2>2 DEF OffsetsAgree
<1>9. LambdaIsKept' /\ RoundTrip'
  BY <1>1, <1>5 DEF LambdaIsKept, RoundTrip, IsReading
<1> QED
  BY <1>7, <1>8, <1>9 DEF StorageInv

\* The result of a lambda, which takes the place of the lambda itself.
LEMMA WriteFromLambdaKeepsStorage ==
    ASSUME StorageInv, NEW n \in ObjectSizes, WriteFromLambda(n)
    PROVE  StorageInv'
<1>1. /\ phase = "InLambda" /\ UNCHANGED <<phase, use, readerOffset, received, lambda>>
      /\ StorageTypes
  BY DEF WriteFromLambda, StorageInv
<1> PICK object : object = Object(1, n)
  OBVIOUS
<1>0. Fits(0, n) \in BOOLEAN
  BY DEF Fits
<1> PICK stored \in BOOLEAN : stored = Fits(0, n)
  BY <1>0
<1>2. object \in Objects /\ Len(object) = n /\ n \in Nat
  <2>1. use \in 0 .. MaxUses /\ phase \in Phases /\ n \in Nat
    BY <1>1, StorageAssumption DEF StorageTypes, StorageTypeOK, Phases, ObjectSizes
  <2> QED
    BY <2>1, NewObject DEF Object
<1> DEFINE entry == [object |-> object, stored |-> stored]
<1>3. WriteToBuffer(object, 0) /\ written' = <<entry>>
  BY DEF WriteFromLambda
<1>4. /\ DOMAIN m_storage' = 0 .. StorageSize - 1
      /\ m_storage' = [i \in DOMAIN m_storage' |-> m_storage'[i]]
      /\ stored =>
            /\ \A i \in 1 .. Len(object) : m_storage'[0 + i - 1] = object[i]
            /\ writerOffset' = 0 + n
      /\ ~stored => writerOffset' = 0
      /\ writerOffset' \in 0 .. StorageSize
  BY <1>1, <1>2, <1>3, EmptyTypes, WriteToBufferEffect
<1>5. entry \in [object : Objects, stored : BOOLEAN]
  BY <1>2
<1>6. /\ written' \in Seq([object : Objects, stored : BOOLEAN])
      /\ Len(written') = 1 /\ DOMAIN written' = 1 .. 1
      /\ written'[1].object = object /\ written'[1].stored = stored
  <2> HIDE DEF entry
  <2>1. /\ written' \in Seq([object : Objects, stored : BOOLEAN])
        /\ Len(written') = 1 /\ DOMAIN written' = 1 .. 1 /\ written'[1] = entry
    BY <1>3, <1>5
  <2>2. entry.object = object /\ entry.stored = stored
    BY DEF entry
  <2> QED
    BY <2>1, <2>2
<1>7. StorageTypes'
  BY <1>1, <1>4, <1>6, EmptyTypes DEF StorageTypes, StorageTypeOK
<1> PICK next : next = writerOffset'
  OBVIOUS
<1> DEFINE off == [k \in 1 .. 2 |-> IF k = 1 THEN 0 ELSE next]
<1>8. off \in [1 .. 2 -> 0 .. StorageSize] /\ off[1] = 0 /\ off[2] = next
  BY <1>4, EmptyTypes
<1> HIDE DEF off
<1>9. next \in Int
  BY <1>4, StorageAssumption
<1>10. AreOffsets(off)'
  <2>1. stored => LiesIn(m_storage', object, 0)
    BY <1>2, <1>4 DEF LiesIn
  <2>2. /\ stored = Fits(off[1], Len(object))
        /\ off[1 + 1] = IF stored THEN off[1] + Len(object) ELSE off[1]
        /\ off[1 + 1] <= off[Len(written') + 1]
        /\ stored => LiesIn(m_storage', object, off[1])
    BY <1>2, <1>4, <1>6, <1>8, <1>9, <2>1
  <2>3. \A k \in DOMAIN written' : k = 1
    BY <1>6
  <2> QED
    BY <1>6, <1>8, <2>2, <2>3 DEF AreOffsets
<1>11. OffsetsAgree'
  <2>1. off \in OffsetFunctions' /\ ~IsWriting' /\ ~IsReading'
    BY <1>1, <1>6, <1>8 DEF OffsetFunctions, IsWriting, IsReading
  <2> QED
    BY <1>10, <2>1 DEF OffsetsAgree
<1>12. LambdaIsKept' /\ RoundTrip'
  BY <1>1 DEF StorageInv, LambdaIsKept, RoundTrip, IsReading
<1> QED
  BY <1>7, <1>11, <1>12 DEF StorageInv

\* A step that leaves storage, writer and reader as they are, and goes to no other phase
\* of writing, reading or running a lambda.
LEMMA OtherStepsKeepStorage ==
    ASSUME StorageInv, ReleaseTask \/ UNCHANGED storageVars
    PROVE  StorageInv'
<1>1. /\ UNCHANGED <<use, m_storage, writerOffset, readerOffset, written, received, lambda>>
      /\ phase' = phase \/ phase' = "Released"
  BY DEF ReleaseTask, storageVars
<1>2. StorageTypes'
  BY <1>1 DEF StorageInv, StorageTypes, StorageTypeOK
<1>3. OffsetsAgree'
  <2>1. PICK off \in OffsetFunctions :
            /\ AreOffsets(off)
            /\ IsWriting => writerOffset = off[Len(written) + 1]
            /\ IsReading => /\ Len(received) <= Len(written)
                            /\ readerOffset = off[Len(received) + 1]
    BY DEF StorageInv, OffsetsAgree
  <2>2. off \in OffsetFunctions' /\ AreOffsets(off)'
    BY <1>1, <2>1 DEF OffsetFunctions, AreOffsets
  <2> QED
    BY <1>1, <2>1, <2>2 DEF OffsetsAgree, IsReading, IsWriting
<1>4. LambdaIsKept' /\ RoundTrip'
  BY <1>1 DEF StorageInv, LambdaIsKept, RoundTrip, IsReading
<1> QED
  BY <1>2, <1>3, <1>4 DEF StorageInv

\* The invariant of the storage holds before it is used, ...
LEMMA StorageInitInv == StorageInit => StorageInv
<1> SUFFICES ASSUME StorageInit PROVE StorageInv
  OBVIOUS
<1>1. StorageTypes
  BY EmptyTypes, StorageAssumption DEF StorageInit, StorageTypes, StorageTypeOK, Unset
<1>2. OffsetsAgree
  <2> DEFINE off == [k \in 1 .. 1 |-> 0]
  <2>1. off \in OffsetFunctions /\ off[1] = 0
    BY EmptyTypes DEF StorageInit, OffsetFunctions
  <2> HIDE DEF off
  <2>2. AreOffsets(off)
    BY <2>1, EmptyTypes DEF StorageInit, AreOffsets
  <2> QED
    BY <2>1, <2>2 DEF StorageInit, OffsetsAgree, IsWriting, IsReading
<1>3. LambdaIsKept /\ RoundTrip
  BY DEF StorageInit, LambdaIsKept, RoundTrip, IsReading
<1> QED
  BY <1>1, <1>2, <1>3 DEF StorageInv

\* ... and after every step.
LEMMA StorageNextInv == StorageInv /\ [StorageNext]_storageVars => StorageInv'
BY BeginKeepsStorage, WriteChainKeepsStorage, HandOverKeepsStorage, ReadChainKeepsStorage,
   LambdaTaskMakerKeepsStorage, LambdaTaskFunctionKeepsStorage, WriteFromLambdaKeepsStorage,
   OtherStepsKeepStorage
   DEF StorageNext

\* Reader and writer of a task's storage agree on where each object is, for every size of
\* the storage and of the objects.
THEOREM StorageInvCorrect == StorageSpec => []StorageInv
BY StorageInitInv, StorageNextInv, PTL DEF StorageSpec

\* Every object that was stored is read as it was written, and no other is assigned
\* (TaskStorageWriter, TaskStorageReader).
THEOREM RoundTripCorrect == StorageSpec => []RoundTrip
<1>1. StorageInv => RoundTrip
  BY DEF StorageInv
<1> QED
  BY <1>1, StorageInvCorrect, PTL

\* A lambda runs with the captures it was made with, whatever it writes to the storage
\* (LambdaTaskFunction).
THEOREM LambdaIsIntactCorrect == StorageSpec => []LambdaIsIntact
<1>1. StorageInv => LambdaIsIntact
  BY DEF StorageInv, LambdaIsKept, LambdaIsIntact, Captures
<1> QED
  BY <1>1, StorageInvCorrect, PTL

-----------------------------------------------------------------------------
(***************************************************************************)
(* The tools side by side, as TLC checks them.                             *)
(***************************************************************************)

\* The part that a behaviour is about keeps its invariant.
LEMMA ToolsInvInductive ==
    /\ ToolsInit => ToolsInv
    /\ ToolsInv /\ [ToolsNext]_toolsVars => ToolsInv'
<1>1. ToolsInit => ToolsInv
  BY ForInitInv, SortInitSorted, StorageInitInv
     DEF ToolsInit, ToolsInv, IsForEach, IsSort, IsStorage
<1>2. ASSUME ToolsInv, ToolsNext PROVE ToolsInv'
  <2>1. /\ IsSort => SortNext
        /\ IsForEach => ForNext
        /\ IsStorage => StorageNext
        /\ kind' = kind
    BY <1>2
       DEF ToolsNext, ToolsStep, InSort, InForEach, InStorage, SortNext, ForNext, IsForEach,
           IsSort, IsStorage
  <2> QED
    BY <1>2, <2>1, ForNextInv, SortNextKeepsSorted, LostStaysSorted, StorageNextInv
       DEF ToolsInv, IsForEach, IsSort, IsStorage
<1>3. ASSUME ToolsInv, UNCHANGED toolsVars PROVE ToolsInv'
  <2>1. kind' = kind /\ UNCHANGED forVars /\ UNCHANGED sortVars /\ UNCHANGED storageVars
    BY <1>3 DEF toolsVars, ownForVars, ownSortVars, batchVars, forVars, sortVars, storageVars
  <2> QED
    BY <1>3, <2>1, ForNextInv, StutteringKeepsSorted, LostStaysSorted, StorageNextInv
       DEF ToolsInv, IsForEach, IsSort, IsStorage
<1> QED
  BY <1>1, <1>2, <1>3

\* In every behaviour that is about ParallelForEach, the calls outlive the tasks they have
\* made, but for the tasks of a call that was refused to wait for them.
THEOREM ForEachFramesOutliveTheirTasksCorrect == ToolsSpec => []ForEachFramesOutliveTheirTasks
<1>1. ToolsInv => ForEachFramesOutliveTheirTasks
  BY DEF ToolsInv, ForInv, ForEachFramesOutliveTheirTasks
<1> QED
  BY <1>1, ToolsInvInductive, PTL DEF ToolsSpec

\* The types of what the behaviour is about.
THEOREM ToolsTypeOKCorrect == ToolsSpec => []ToolsTypeOK
<1>1. SortInv \/ LostInv => SortTypeOK
  BY DEF SortInv, LostInv, SortTypes
<1>2. ForInv => ForTypeOK
  <2> SUFFICES ASSUME ForInv PROVE ForTypeOK
    OBVIOUS
  <2>1. ASSUME NEW t \in Threads, NEW k \in DOMAIN stack[t]
        PROVE  stack[t][k] \in Frames
    <3>1. stack[t] \in Seq(Frames)
      BY DEF ForInv, ForTypes
    <3> QED
      BY <3>1, ElementOfSeq, LenProperties
  <2> QED
    BY <2>1 DEF ForInv, ForTypes, ForTypeOK, Frames
<1>3. StorageInv => StorageTypeOK
  BY DEF StorageInv, StorageTypes
<1>4. ToolsInv => ToolsTypeOK
  BY <1>1, <1>2, <1>3 DEF ToolsInv, ToolsTypeOK
<1> QED
  BY <1>4, ToolsInvInductive, PTL DEF ToolsSpec
=============================================================================
