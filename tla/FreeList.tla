------------------------------- MODULE FreeList -------------------------------
(***************************************************************************)
(* A pool of preallocated objects behind a LockFreePtrQueue that starts    *)
(* full: TaskAllocator (2048 tasks) and TaskFiberAllocator (128 fibers).   *)
(* To allocate is to pop, to release is to push, and an object may be      *)
(* released by another thread than the one that allocated it.              *)
(***************************************************************************)
EXTENDS LockFreePtrQueue, SequencesExt

ASSUME PoolAssumption == IsFiniteSet(Items) /\ Cardinality(Items) = Size

\* The counters tell a full queue from an empty one: SIZE is 2048 or 128.
ASSUME WidthAssumption == Size < CounterModulus

VARIABLE
    allocated   \* The objects that have been handed out and not been released.

poolVars == <<vars, allocated>>

\* The constructor pushes every object of the pool.
PoolInit ==
    /\ m_readCounter = 0
    /\ m_writeCounter = Size
    /\ m_committedWriteCounter = Size
    /\ m_queue = [i \in Indices |-> SetToSeq(Items)[i + 1]]
    /\ pc = [t \in Threads |-> "Idle"]
    /\ counter = [t \in Threads |-> 0]
    /\ item = [t \in Threads |-> NoItem]
    /\ result = [t \in Threads |-> NoItem]
    /\ writes = Size
    /\ allocated = {}

AllocateNewTask(t) == CallPopFront(t) /\ UNCHANGED allocated

\* What a thread gets from PopFront is its own from the successful Claim on.
Allocated(t) ==
    IF pc[t] = "Claim" /\ pc'[t] = "Idle" THEN {item[t]} ELSE {}

\* Mutant: the object is pushed and stays with the client that released it.
ReleaseAndKeep(t, x) ==
    /\ x \in allocated
    /\ CallPushBack(t, x)
    /\ UNCHANGED allocated

\* The caller gives up the object before the push.
ReleaseTask(t, x) ==
    /\ x \in allocated
    /\ CallPushBack(t, x)
    /\ allocated' = allocated \ {x}

ContinueCall(t) ==
    /\ Continue(t)
    /\ allocated' = allocated \cup Allocated(t)

PoolNext ==
    \E t \in Threads :
        \/ AllocateNewTask(t)
        \/ \E x \in Items : ReleaseTask(t, x)
        \/ ContinueCall(t)

PoolSpec == PoolInit /\ [][PoolNext]_poolVars

\* A thread inside an operation keeps running.
FairPoolSpec == PoolSpec /\ \A t \in Threads : WF_poolVars(ContinueCall(t))

-----------------------------------------------------------------------------
(***************************************************************************)
(* Properties.                                                             *)
(***************************************************************************)

PoolTypeOK == TypeOK /\ allocated \in SUBSET Items

\* The threads that are releasing x.
Releasing(x) == {t \in Threads : pc[t] \in PushSteps /\ item[t] = x}

\* Every object is at exactly one place: in the free list, with a client, or with
\* a thread that is releasing it.  So no two clients ever get the same task or
\* fiber, and none is lost, however pops and pushes interleave.
NothingLostOrShared ==
    \A x \in Items :
        Cardinality({k \in DOMAIN Contents : Contents[k] = x})
          + Cardinality(Releasing(x))
          + (IF x \in allocated THEN 1 ELSE 0) = 1

\* VERIFY_SUCCESS( m_freelist.PushBack( handle ) ): a release is never refused, not
\* even on a write counter that is out of date when the read counter is loaded.  And
\* AreAllTasksReleased() tells the truth: the free list counts as full exactly when no
\* object is with a client or with a thread that has no slot for it yet.
ReleasesAreComplete ==
    /\ \A t \in Threads : pc[t] = "CheckFull" => ~LooksFull(t)
    /\ GetCurrentSize = Size <=>
          /\ allocated = {}
          /\ \A t \in Threads : pc[t] \notin {"LoadWrite", "CheckFull", "Reserve"}

\* An allocation fails only when every object is out of the free list at that
\* moment: with a client, or with a thread that has not committed its release.
FailsOnlyWhenExhausted ==
    [][\A t \in Threads : ReturnEmpty(t) => Contents = <<>>]_poolVars
=============================================================================
