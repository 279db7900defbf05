----------------------------- MODULE TaskStorage -----------------------------
(***************************************************************************)
(* The storage of a task, through which arguments go to its function and   *)
(* results come back.  Whoever creates the task writes arguments with a    *)
(* TaskStorageWriter, or has LambdaTaskMaker copy a lambda there; the      *)
(* function reads them and may write results over them; whoever waits for  *)
(* the task reads the results.  Reader and writer check that an object     *)
(* ends inside the storage, and their chained operations do not tell.      *)
(*                                                                         *)
(* Nothing clears the storage when the task is released, so the next user  *)
(* finds the words of the last one.  A word of an object says which object *)
(* it belongs to and where in it it is.                                    *)
(***************************************************************************)
EXTENDS Integers, Sequences

CONSTANTS
    StorageSize,    \* m_bufferSize.
    MaxObjectSize,  \* Bound: the size of an object, which may exceed the storage.
    MaxObjects,     \* Bound: how many objects are written one after the other.
    MaxUses         \* Bound: how often the task is created.

ASSUME StorageAssumption ==
    /\ StorageSize \in Nat /\ MaxObjectSize \in Nat /\ MaxUses \in Nat
    /\ MaxObjects \in Nat \ {0}

VARIABLES
    phase,
    use,                    \* How often the task has been created.
    m_storage,
    writerOffset,           \* m_currentOffset of the writer of this phase.
    readerOffset,
    written,                \* The objects passed to the writer, with what it returned.
    received,               \* What the variables to read into hold, in the same order.
    lambda                  \* The lambda that LambdaTaskMaker was given, or none.

storageVars == <<phase, use, m_storage, writerOffset, readerOffset, written, received, lambda>>

ObjectSizes == 1 .. MaxObjectSize

\* A word that no writer wrote, and a variable that no reader assigned.
Junk == <<0>>
Unset == <<>>

\* The words of the n-th object that is written in a phase.
Object(n, size) == [i \in 1 .. size |-> <<use, phase, n, i>>]

StorageInit ==
    /\ phase = "Released" /\ use = 0
    /\ m_storage = [i \in 0 .. StorageSize - 1 |-> Junk]
    /\ writerOffset = 0 /\ readerOffset = 0
    /\ written = <<>> /\ received = <<>>
    /\ lambda = Unset

-----------------------------------------------------------------------------
(***************************************************************************)
(* The buffer.                                                             *)
(***************************************************************************)

Fits(offset, size) == offset + size <= StorageSize

\* The buffer after an object was copied to an offset where it fits.
Stored(object, offset) ==
    [i \in DOMAIN m_storage |->
        IF i \in offset .. offset + Len(object) - 1 THEN object[i - offset + 1] ELSE m_storage[i]]

Loaded(offset, size) == [i \in 1 .. size |-> m_storage[offset + i - 1]]

\* WriteToBuffer: the object is copied and the offset moves on, or nothing happens.
WriteToBuffer(object, offset) ==
    IF Fits(offset, Len(object))
    THEN m_storage' = Stored(object, offset) /\ writerOffset' = offset + Len(object)
    ELSE UNCHANGED m_storage /\ writerOffset' = offset

\* Mutant: the offset moves on though nothing was read.
SkipUnread(size) ==
    /\ readerOffset' = readerOffset + size
    /\ received' = Append(received, IF Fits(readerOffset, size)
                                    THEN Loaded(readerOffset, size) ELSE Unset)

\* ReadFromBuffer, into a variable that holds nothing.
ReadFromBuffer(size) ==
    \/ /\ Fits(readerOffset, size)
       /\ received' = Append(received, Loaded(readerOffset, size))
       /\ readerOffset' = readerOffset + size
    \/ /\ ~Fits(readerOffset, size)
       /\ received' = Append(received, Unset)
       /\ UNCHANGED readerOffset

-----------------------------------------------------------------------------
(***************************************************************************)
(* The life of a task, as far as its storage is concerned.                 *)
(***************************************************************************)

IsWriting == phase \in {"Arguments", "Results"}
IsReading == phase \in {"ReadArguments", "ReadResults"}

\* CreateNewTask, and a writer for the handle.
CreateNewTask ==
    /\ phase = "Released" /\ use < MaxUses
    /\ phase' = "Arguments" /\ use' = use + 1
    /\ writerOffset' = 0 /\ written' = <<>> /\ received' = <<>> /\ lambda' = Unset
    /\ UNCHANGED <<m_storage, readerOffset>>

\* WriteChain passes an object to the writer and says nothing.
WriteChain(size) ==
    LET object == Object(Len(written) + 1, size)
    IN  /\ IsWriting /\ lambda = Unset /\ Len(written) < MaxObjects
        /\ WriteToBuffer(object, writerOffset)
        /\ written' = Append(written, [object |-> object, stored |-> Fits(writerOffset, size)])
        /\ UNCHANGED <<phase, use, readerOffset, received, lambda>>

\* The task is submitted, or is finished: the other side makes a reader of its own.
HandOver ==
    /\ IsWriting /\ lambda = Unset
    /\ phase' = IF phase = "Arguments" THEN "ReadArguments" ELSE "ReadResults"
    /\ readerOffset' = 0 /\ received' = <<>>
    /\ UNCHANGED <<use, m_storage, writerOffset, written, lambda>>

\* ReadChain, for the type of the next object that was written.
ReadChain ==
    /\ IsReading /\ Len(received) < Len(written)
    /\ ReadFromBuffer(Len(written[Len(received) + 1].object))
    /\ UNCHANGED <<phase, use, m_storage, writerOffset, written, lambda>>

\* The function has read its arguments, and makes a writer for its results.
BeginResults ==
    /\ phase = "ReadArguments" /\ Len(received) = Len(written)
    /\ phase' = "Results"
    /\ writerOffset' = 0 /\ written' = <<>> /\ received' = <<>>
    /\ UNCHANGED <<use, m_storage, readerOffset, lambda>>

\* LambdaTaskMaker creates a task, copies the lambda to its storage, or releases the task
\* if the lambda is too large for it.
LambdaTaskMaker(size) ==
    /\ phase = "Released" /\ use < MaxUses
    /\ use' = use + 1
    /\ \/ /\ size <= StorageSize
          /\ lambda' = [i \in 1 .. size |-> <<use', "Lambda", 1, i>>]
          /\ phase' = "Lambda" /\ WriteToBuffer(lambda', 0)
       \/ /\ size > StorageSize
          /\ lambda' = Unset
          /\ UNCHANGED <<phase, m_storage, writerOffset>>
    /\ written' = <<>> /\ received' = <<>>
    /\ UNCHANGED readerOffset

\* LambdaTaskFunction reads the lambda into a variable of its own.
LambdaTaskFunction ==
    /\ phase = "Lambda"
    /\ phase' = "InLambda"
    /\ received' = <<IF Fits(0, Len(lambda)) THEN Loaded(0, Len(lambda)) ELSE Unset>>
    /\ readerOffset' = IF Fits(0, Len(lambda)) THEN Len(lambda) ELSE 0
    /\ UNCHANGED <<use, m_storage, writerOffset, written, lambda>>

\* Mutant: the lambda is called where it is stored.
CapturesInPlace == Loaded(0, Len(lambda))

\* What the body of the lambda finds in its captures.
Captures == received[1]

\* The lambda writes a result over itself and goes on.
WriteFromLambda(size) ==
    LET object == Object(1, size)
    IN  /\ phase = "InLambda"
        /\ WriteToBuffer(object, 0)
        /\ written' = <<[object |-> object, stored |-> Fits(0, size)]>>
        /\ UNCHANGED <<phase, use, readerOffset, received, lambda>>

\* The lambda returns, and the result, if there is one, is read.
ReturnFromLambda ==
    /\ phase = "InLambda"
    /\ phase' = "ReadResults"
    /\ readerOffset' = 0 /\ received' = <<>>
    /\ UNCHANGED <<use, m_storage, writerOffset, written, lambda>>

\* ReleaseTask, which leaves the storage as it is.
ReleaseTask ==
    /\ phase = "ReadResults" /\ Len(received) = Len(written)
    /\ phase' = "Released"
    /\ UNCHANGED <<use, m_storage, writerOffset, readerOffset, written, received, lambda>>

StorageNext ==
    \/ CreateNewTask
    \/ \E size \in ObjectSizes : WriteChain(size) \/ LambdaTaskMaker(size) \/ WriteFromLambda(size)
    \/ HandOver \/ ReadChain \/ BeginResults
    \/ LambdaTaskFunction \/ ReturnFromLambda
    \/ ReleaseTask

StorageSpec == StorageInit /\ [][StorageNext]_storageVars

-----------------------------------------------------------------------------
(***************************************************************************)
(* Properties.                                                             *)
(***************************************************************************)

StorageTypeOK ==
    /\ phase \in {"Released", "Arguments", "ReadArguments", "Results", "ReadResults",
                  "Lambda", "InLambda"}
    /\ use \in 0 .. MaxUses
    /\ DOMAIN m_storage = 0 .. StorageSize - 1
    /\ writerOffset \in 0 .. StorageSize
    /\ readerOffset \in 0 .. StorageSize
    /\ Len(written) <= MaxObjects /\ Len(received) <= MaxObjects
    /\ Len(lambda) <= MaxObjectSize

\* Whatever is written and does not fit, in arguments, in results and whatever an
\* earlier task left in the storage: read with the same types, each object that was
\* stored comes back as it was, and no variable is assigned for one that was not.
RoundTrip ==
    IsReading =>
        \A n \in DOMAIN received :
            received[n] = IF written[n].stored THEN written[n].object ELSE Unset

\* A lambda is called with the captures that it was made with, also after it has written
\* its result to the storage where it was.
LambdaIsIntact == phase = "InLambda" => Captures = lambda
=============================================================================
