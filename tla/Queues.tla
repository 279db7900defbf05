-------------------------------- MODULE Queues --------------------------------
(***************************************************************************)
(* The two ring buffers together: a behaviour uses one or the other, and   *)
(* both have to do what PtrQueue promises.  They have variables of the     *)
(* same names; those that one of them lacks keep their initial values.     *)
(***************************************************************************)
EXTENDS LockFreePtrQueue

VARIABLES
    kind,   \* Which queue it is.
    m_lock, operation, currentSize

Locked == INSTANCE LockBasedPtrQueue

lockVars == <<m_lock, operation, currentSize>>
queuesVars == <<kind, vars, lockVars>>

IsLockFree == kind = "LockFreePtrQueue"

QueuesInit ==
    /\ kind \in {"LockFreePtrQueue", "LockBasedPtrQueue"}
    /\ Init
    /\ Locked!Init

QueuesNext ==
    /\ UNCHANGED kind
    /\ \/ IsLockFree /\ Next /\ UNCHANGED lockVars
       \/ ~IsLockFree /\ Locked!Next /\ UNCHANGED <<m_committedWriteCounter, counter>>

QueuesSpec == QueuesInit /\ [][QueuesNext]_queuesVars

\* The type invariant of the queue in use.
QueuesTypeOK == IF IsLockFree THEN TypeOK ELSE Locked!TypeOK

\* GetCurrentSize of the lock-based queue is exact for as long as the lock is held.
SizeIsExact == ~IsLockFree => Locked!SizeIsExact

Queue == INSTANCE PtrQueue WITH
    items <- IF IsLockFree THEN Contents ELSE Locked!Contents,
    call <- IF IsLockFree THEN Calls ELSE Locked!Calls,
    argument <- IF IsLockFree THEN Arguments ELSE Locked!Arguments

\* Both ring buffers are bounded queues: each operation takes effect at one of its
\* own steps, an item is popped once and never before it is stored, from the front
\* in push order, and a push is refused only when the queue is full.
ImplementsPtrQueue == Queue!QueueSpec
=============================================================================
