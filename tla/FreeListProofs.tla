---------------------------- MODULE FreeListProofs ----------------------------
(***************************************************************************)
(* Theorems about FreeList, for any number of threads and objects, up to   *)
(* the first wrap of a counter (LockFreePtrQueueProofs).                   *)
(*                                                                         *)
(* The argument: no object is twice among the committed slots, the threads *)
(* that release and the objects handed out, and none is missing.  So the   *)
(* slots in use, committed or reserved, are as many as the objects that    *)
(* are neither handed out nor on their way to a slot, which leaves a slot  *)
(* for every release.                                                      *)
(***************************************************************************)
EXTENDS FreeList, LockFreePtrQueueProofs, FiniteSetTheorems, FunctionTheorems

\* The slots of the pool never hold anything else than its objects.
PoolTypes ==
    /\ TypeOK
    /\ m_queue \in [Indices -> Items]
    /\ \A t \in Threads : pc[t] = "Claim" => item[t] \in Items
    /\ allocated \in SUBSET Items

Committed == m_readCounter .. m_committedWriteCounter - 1
InUse     == m_readCounter .. m_writeCounter - 1

\* The object in slot number p.
Slot(p) == m_queue[CounterToIndex(p)]

IsReleasing(t) == pc[t] \in PushSteps

\* No object is at two places.
NothingIsShared ==
    /\ \A p, q \in Committed : Slot(p) = Slot(q) => p = q
    /\ \A t, u \in Threads :
          IsReleasing(t) /\ IsReleasing(u) /\ item[t] = item[u] => t = u
    /\ \A p \in Committed : \A t \in Threads : IsReleasing(t) => Slot(p) # item[t]
    /\ \A p \in Committed : Slot(p) \notin allocated
    /\ \A t \in Threads : IsReleasing(t) => item[t] \notin allocated

\* Every object is at some place.
NothingIsLost ==
    \A x \in Items :
        \/ x \in allocated
        \/ \E t \in Threads : IsReleasing(t) /\ item[t] = x
        \/ \E p \in Committed : Slot(p) = x

PoolInv == NothingIsShared /\ NothingIsLost

FreeListInv == PoolTypes /\ (NoWrap => RingInv /\ PoolInv)

-----------------------------------------------------------------------------
(***************************************************************************)
(* The steps of the pool are steps of its queue, and keep the types.       *)
(***************************************************************************)

\* A step of the pool is a step of the queue.
LEMMA QueueStep == [PoolNext]_poolVars => [Next]_vars
BY DEF PoolNext, poolVars, AllocateNewTask, ReleaseTask, ContinueCall, Next

\* What the variables of the pool hold: the queue's types, and items in every slot.
LEMMA PoolTypesInductive == PoolTypes /\ [PoolNext]_poolVars => PoolTypes'
<1> SUFFICES ASSUME PoolTypes, [PoolNext]_poolVars PROVE PoolTypes'
  OBVIOUS
<1>1. TypeOK'
  BY QueueStep, TypeInductive DEF PoolTypes
<1>2. ASSUME NEW t \in Threads, AllocateNewTask(t) PROVE PoolTypes'
  BY <1>1, <1>2 DEF PoolTypes, TypeOK, AllocateNewTask, CallPopFront, Go, sharedVars
<1>3. ASSUME NEW t \in Threads, NEW x \in Items, ReleaseTask(t, x) PROVE PoolTypes'
  BY <1>1, <1>3 DEF PoolTypes, TypeOK, ReleaseTask, CallPushBack, Go, sharedVars
<1>4. ASSUME NEW t \in Threads, ContinueCall(t) PROVE PoolTypes'
  <2>1. allocated' \in SUBSET Items
    BY <1>4 DEF PoolTypes, ContinueCall, Allocated
  <2>2. CASE LoadWrite(t) \/ RefusePush(t) \/ CheckFull(t) \/ Reserve(t) \/ Commit(t)
    BY <1>1, <2>1, <2>2
       DEF PoolTypes, TypeOK, LoadWrite, RefusePush, CheckFull, Reserve, Commit, Return, Go,
           sharedVars
  <2>3. CASE LoadRead(t) \/ ReturnEmpty(t) \/ CheckEmpty(t) \/ Claim(t)
    BY <1>1, <2>1, <2>3
       DEF PoolTypes, TypeOK, LoadRead, ReturnEmpty, CheckEmpty, Claim, Return, Go, sharedVars
  <2>4. CASE Store(t)
    BY <1>1, <2>1, <2>4 DEF PoolTypes, TypeOK, Store, Go, PushSteps
  <2>5. CASE ReadSlot(t)
    BY <1>1, <2>1, <2>5, IndexInRange, CountersAreNumbers
       DEF PoolTypes, TypeOK, ReadSlot, Go, sharedVars
  <2> QED
    BY <1>4, <2>2, <2>3, <2>4, <2>5 DEF ContinueCall, Continue
<1>5. CASE UNCHANGED poolVars
  BY <1>5 DEF PoolTypes, TypeOK, poolVars, vars, sharedVars, localVars
<1> QED
  BY <1>2, <1>3, <1>4, <1>5 DEF PoolNext

-----------------------------------------------------------------------------
(***************************************************************************)
(* Counting.                                                               *)
(***************************************************************************)

\* The push that has reserved slot number p.
Owner(p) == CHOOSE t \in Threads : pc[t] \in Holding /\ counter[t] = p

\* The object that is in slot number p or that will be stored there.
Placed == [p \in InUse |-> IF p \in Committed THEN Slot(p) ELSE item[Owner(p)]]

\* The objects that have no slot: handed out, or on their way to one.
Unreserved(t) == pc[t] \in {"LoadWrite", "CheckFull", "Reserve"}
Outside(x) == x \in allocated \/ \E t \in Threads : Unreserved(t) /\ item[t] = x

\* A slot in use that is not published belongs to a thread that pushes into it.
LEMMA OwnerHolds ==
    ASSUME TypeOK, RingInv, NEW p \in InUse, p \notin Committed
    PROVE  Owner(p) \in Threads /\ pc[Owner(p)] \in Holding /\ counter[Owner(p)] = p
<1>1. p \in m_committedWriteCounter .. m_writeCounter - 1
  BY CountersAreNumbers DEF InUse, Committed
<1>2. \E t \in Threads : pc[t] \in Holding /\ counter[t] = p
  BY <1>1 DEF RingInv, EverySlotHasOnePush
<1> QED
  BY <1>2 DEF Owner

\* Every slot in use has an object of its own, none that is outside.
LEMMA PlacedIsInjective ==
    ASSUME PoolTypes, RingInv, PoolInv
    PROVE  /\ Placed \in Injection(InUse, Items)
           /\ \A p \in InUse : ~Outside(Placed[p])
<1> USE CountersAreNumbers DEF PoolTypes
<1>1. ASSUME NEW p \in InUse, p \in Committed
      PROVE  Placed[p] = Slot(p) /\ Slot(p) \in Items
  BY <1>1, IndexInRange DEF Placed, Slot, Committed
<1>2. ASSUME NEW p \in InUse, p \notin Committed
      PROVE  /\ Placed[p] = item[Owner(p)] /\ Owner(p) \in Threads
             /\ pc[Owner(p)] \in Holding /\ IsReleasing(Owner(p)) /\ counter[Owner(p)] = p
             /\ item[Owner(p)] \in Items
  BY <1>2, OwnerHolds DEF Placed, IsReleasing, PushSteps, Holding, TypeOK
<1>3. Placed \in [InUse -> Items]
  BY <1>1, <1>2 DEF Placed
<1>4. ASSUME NEW p \in InUse, NEW q \in InUse, Placed[p] = Placed[q] PROVE p = q
  BY <1>1, <1>2, <1>4 DEF PoolInv, NothingIsShared
<1>5. ASSUME NEW p \in InUse PROVE ~Outside(Placed[p])
  <2>1. Placed[p] \notin allocated
    BY <1>1, <1>2 DEF PoolInv, NothingIsShared
  <2>2. ASSUME NEW t \in Threads, Unreserved(t) PROVE item[t] # Placed[p]
    <3>1. IsReleasing(t) /\ pc[t] \notin Holding
      BY <2>2 DEF Unreserved, IsReleasing, PushSteps, Holding
    <3> QED
      BY <1>1, <1>2, <3>1 DEF PoolInv, NothingIsShared
  <2> QED
    BY <2>1, <2>2 DEF Outside
<1> QED
  BY <1>3, <1>4, <1>5, Fun_IsInj

\* As many slots are in use as the counters are apart.
LEMMA SlotsInUse ==
    ASSUME TypeOK, RingInv
    PROVE  IsFiniteSet(InUse) /\ Cardinality(InUse) = m_writeCounter - m_readCounter
<1>1. m_readCounter \in Int /\ m_writeCounter - 1 \in Int /\ m_readCounter <= m_writeCounter
  BY CountersAreNumbers DEF RingInv, CountersInOrder
<1>2. /\ IsFiniteSet(InUse)
      /\ Cardinality(InUse) = IF m_readCounter > m_writeCounter - 1 THEN 0
                              ELSE m_writeCounter - 1 - m_readCounter + 1
  BY <1>1, FS_Interval DEF InUse
<1> QED
  BY <1>1, <1>2, CountersAreNumbers

\* While an object is outside, there is a slot for it.
LEMMA RoomForOutside ==
    ASSUME PoolTypes, RingInv, PoolInv, NEW x \in Items, Outside(x)
    PROVE  m_writeCounter < m_readCounter + Size
<1> USE CountersAreNumbers DEF PoolTypes
<1>1. Placed \in [InUse -> Items \ {x}]
  BY PlacedIsInjective, Fun_InjectionProperties
<1>2. Placed \in Injection(InUse, Items \ {x})
  BY <1>1, PlacedIsInjective, Fun_InjectionProperties, Fun_IsInj
<1>3. IsFiniteSet(Items \ {x}) /\ Cardinality(Items \ {x}) = Size - 1
  BY PoolAssumption, FS_RemoveElement
<1>4. Cardinality(InUse) <= Size - 1
  BY <1>2, <1>3, FS_Injection
<1> QED
  BY <1>4, SlotsInUse

\* When no object is outside, every slot is in use.
LEMMA FullIfNothingOutside ==
    ASSUME PoolTypes, RingInv, PoolInv, \A x \in Items : ~Outside(x)
    PROVE  m_writeCounter = m_readCounter + Size
<1> USE CountersAreNumbers DEF PoolTypes
<1>1. ASSUME NEW x \in Items PROVE \E p \in InUse : Placed[p] = x
  <2>1. CASE \E p \in Committed : Slot(p) = x
    <3>1. Committed \subseteq InUse
      BY DEF Committed, InUse, RingInv, CountersInOrder
    <3> QED
      BY <2>1, <3>1 DEF Placed
  <2>2. CASE \E t \in Threads : IsReleasing(t) /\ item[t] = x
    <3>1. PICK t \in Threads : IsReleasing(t) /\ item[t] = x
      BY <2>2
    <3>2. pc[t] \in Holding
      BY <3>1 DEF Outside, Unreserved, IsReleasing, PushSteps, Holding
    <3>3. counter[t] \in InUse /\ counter[t] \notin Committed
      BY <3>2 DEF RingInv, CountersInOrder, EverySlotHasOnePush, InUse, Committed
    <3>4. Owner(counter[t]) = t
      BY <3>2, <3>3, OwnerHolds DEF RingInv, EverySlotHasOnePush
    <3> QED
      BY <3>1, <3>3, <3>4 DEF Placed
  <2> QED
    BY <2>1, <2>2 DEF PoolInv, NothingIsLost, Outside
<1>2. Placed \in Surjection(InUse, Items)
  BY <1>1, PlacedIsInjective, Fun_InjectionProperties, Fun_IsSurj
<1>3. Cardinality(Items) <= Cardinality(InUse)
  BY <1>2, SlotsInUse, FS_Surjection
<1> QED
  BY <1>3, SlotsInUse, PoolAssumption DEF RingInv, CountersInOrder

\* A push never finds the queue full, even if the read counter that it loads is newer
\* than the write counter that it has.
LEMMA NeverFull ==
    ASSUME PoolTypes, RingInv, PoolInv, NoWrap, NEW t \in Threads, pc[t] = "CheckFull"
    PROVE  ~LooksFull(t)
<1> USE CountersAreNumbers DEF PoolTypes
<1>1. item[t] \in Items /\ Outside(item[t])
  BY DEF TypeOK, PushSteps, Outside, Unreserved
<1>2. m_writeCounter < m_readCounter + Size
  BY <1>1, RoomForOutside
<1>3. counter[t] <= m_writeCounter
  BY DEF RingInv, EverySlotHasOnePush
<1>4. Add(m_readCounter, Size) = m_readCounter + Size
  BY AddIsPlus DEF NoWrap, RingInv, CountersInOrder
<1> QED
  BY <1>2, <1>3, <1>4 DEF LooksFull

-----------------------------------------------------------------------------
(***************************************************************************)
(* Every object stays at one place.                                        *)
(***************************************************************************)

\* A step that moves no object: the committed slots and the releases stay.
LEMMA NothingMoves ==
    ASSUME PoolInv, UNCHANGED <<m_readCounter, m_committedWriteCounter, allocated>>,
           \A p \in Committed : Slot(p)' = Slot(p),
           \A t \in Threads : IsReleasing(t)' <=> IsReleasing(t),
           \A t \in Threads : IsReleasing(t) => item'[t] = item[t]
    PROVE  PoolInv'
<1>1. Committed' = Committed
  BY DEF Committed
<1>2. NothingIsShared'
  BY <1>1 DEF PoolInv, NothingIsShared
<1>3. NothingIsLost'
  BY <1>1 DEF PoolInv, NothingIsLost
<1> QED
  BY <1>2, <1>3 DEF PoolInv

\* An object that is given up is on its way to a slot.
LEMMA ReleaseStep ==
    ASSUME PoolTypes, PoolInv, NEW t \in Threads, NEW x \in Items, ReleaseTask(t, x)
    PROVE  PoolInv'
<1>1. /\ Committed' = Committed /\ \A p \in Committed : Slot(p)' = Slot(p)
      /\ \A u \in Threads \ {t} :
            (IsReleasing(u)' <=> IsReleasing(u)) /\ item'[u] = item[u]
      /\ ~IsReleasing(t) /\ IsReleasing(t)' /\ item'[t] = x
      /\ x \in allocated /\ allocated' = allocated \ {x}
  BY DEF PoolTypes, TypeOK, ReleaseTask, CallPushBack, Go, sharedVars, Committed, Slot,
         IsReleasing, PushSteps
<1>2. NothingIsShared'
  BY <1>1 DEF PoolInv, NothingIsShared
<1>3. NothingIsLost'
  BY <1>1 DEF PoolInv, NothingIsLost
<1> QED
  BY <1>2, <1>3 DEF PoolInv

\* The slot that a push fills is none of the committed ones.
LEMMA StoreMovesNothing ==
    ASSUME PoolTypes, RingInv, PoolInv, NEW t \in Threads, Store(t), UNCHANGED allocated
    PROVE  PoolInv'
<1> USE CountersAreNumbers DEF PoolTypes
<1>1. ASSUME NEW p \in Committed PROVE Slot(p)' = Slot(p)
  <2>1. /\ p \in Nat /\ m_readCounter <= p /\ p < m_committedWriteCounter
        /\ m_committedWriteCounter <= counter[t] /\ counter[t] < m_readCounter + Size
    BY DEF Store, Go, RingInv, CountersInOrder, EverySlotHasOnePush, Holding, Committed
  <2>2. CounterToIndex(p) # CounterToIndex(counter[t])
    BY <2>1, NearCountersDiffer
  <2> QED
    BY <2>1, <2>2, IndexInRange DEF Slot, Store, TypeOK
<1>2. /\ \A u \in Threads : IsReleasing(u)' <=> IsReleasing(u)
      /\ UNCHANGED <<m_readCounter, m_committedWriteCounter, item>>
  BY DEF Store, Go, TypeOK, IsReleasing, PushSteps
<1> QED
  BY <1>1, <1>2, NothingMoves

\* An object that is committed goes from its release to the slots.
LEMMA CommitMovesOne ==
    ASSUME PoolTypes, RingInv, PoolInv, NoWrap, NEW t \in Threads, Commit(t),
           UNCHANGED allocated
    PROVE  PoolInv'
<1> USE CountersAreNumbers DEF PoolTypes
<1>1. /\ pc[t] = "Commit" /\ m_committedWriteCounter = counter[t]
      /\ m_committedWriteCounter < m_writeCounter
      /\ m_readCounter <= m_committedWriteCounter
      /\ Slot(m_committedWriteCounter) = item[t]
  BY DEF Commit, Return, Go, RingInv, CountersInOrder, EverySlotHasOnePush,
         SlotsKeepTheirItems, Holding, Slot
<1>2. m_committedWriteCounter' = m_committedWriteCounter + 1
  <2>1. m_committedWriteCounter + 1 < CounterModulus
    BY <1>1 DEF NoWrap, RingInv, CountersInOrder
  <2> QED
    BY <1>1, <2>1, AddIsPlus DEF Commit
<1>3. Committed' = Committed \cup {m_committedWriteCounter}
  BY <1>1, <1>2 DEF Committed, Commit
<1>4. /\ \A p : Slot(p)' = Slot(p)
      /\ IsReleasing(t) /\ ~IsReleasing(t)'
      /\ \A u \in Threads \ {t} :
            (IsReleasing(u)' <=> IsReleasing(u)) /\ item'[u] = item[u]
  BY DEF Commit, Return, Go, TypeOK, Slot, IsReleasing, PushSteps
<1>5. m_committedWriteCounter \notin Committed
  BY DEF Committed
<1>6. NothingIsShared'
  BY <1>1, <1>3, <1>4, <1>5 DEF PoolInv, NothingIsShared
<1>7. NothingIsLost'
  BY <1>1, <1>3, <1>4 DEF PoolInv, NothingIsLost
<1> QED
  BY <1>6, <1>7 DEF PoolInv

\* An object that is claimed goes from the slots to its client.
LEMMA ClaimMovesOne ==
    ASSUME PoolTypes, RingInv, PoolInv, NoWrap, NEW t \in Threads, Claim(t),
           m_readCounter = counter[t], allocated' = allocated \cup Allocated(t)
    PROVE  PoolInv'
<1> USE CountersAreNumbers DEF PoolTypes
<1>1. /\ pc[t] = "Claim" /\ pc'[t] = "Idle" /\ m_readCounter < m_committedWriteCounter
      /\ Slot(m_readCounter) = item[t]
  BY DEF Claim, Return, Go, TypeOK, RingInv, PopsAreBehind, SlotsKeepTheirItems, Slot
<1>2. m_readCounter' = m_readCounter + 1
  <2>1. m_readCounter + 1 < CounterModulus
    BY <1>1 DEF NoWrap, RingInv, CountersInOrder
  <2> QED
    BY <2>1, AddIsPlus DEF Claim
<1>3. /\ m_readCounter \in Committed /\ Committed' = Committed \ {m_readCounter}
  BY <1>1, <1>2 DEF Committed, Claim
<1>4. /\ \A p : Slot(p)' = Slot(p)
      /\ \A u \in Threads : IsReleasing(u)' <=> IsReleasing(u)
      /\ ~IsReleasing(t) /\ \A u \in Threads \ {t} : item'[u] = item[u]
  BY DEF Claim, Return, Go, TypeOK, Slot, IsReleasing, PushSteps
<1>5. allocated' = allocated \cup {Slot(m_readCounter)}
  BY <1>1 DEF Allocated
<1>6. NothingIsShared'
  BY <1>3, <1>4, <1>5 DEF PoolInv, NothingIsShared
<1>7. NothingIsLost'
  BY <1>3, <1>4, <1>5 DEF PoolInv, NothingIsLost
<1> QED
  BY <1>6, <1>7 DEF PoolInv

\* Every item keeps its one place in every step of the pool.
LEMMA PoolInvInductive ==
    ASSUME PoolTypes, RingInv, PoolInv, NoWrap, [PoolNext]_poolVars PROVE PoolInv'
<1>1. ASSUME NEW t \in Threads, AllocateNewTask(t) PROVE PoolInv'
  BY <1>1, NothingMoves
     DEF PoolTypes, TypeOK, AllocateNewTask, CallPopFront, Go, sharedVars, Slot, IsReleasing,
         PushSteps
<1>2. ASSUME NEW t \in Threads, ContinueCall(t) PROVE PoolInv'
  <2>1. CASE LoadWrite(t) \/ CheckFull(t) \/ Reserve(t)
    <3>1. UNCHANGED allocated
      BY <1>2, <2>1 DEF ContinueCall, Allocated, LoadWrite, CheckFull, Reserve, Go
    <3> QED
      BY <2>1, <3>1, NothingMoves
         DEF PoolTypes, TypeOK, LoadWrite, CheckFull, Reserve, Go, sharedVars, Slot,
             IsReleasing, PushSteps
  <2>2. CASE RefusePush(t)
    BY <2>2, NeverFull DEF RefusePush, Return, Go
  <2>3. CASE Store(t)
    <3>1. UNCHANGED allocated
      BY <1>2, <2>3 DEF ContinueCall, Allocated, Store, Go
    <3> QED
      BY <2>3, <3>1, StoreMovesNothing
  <2>4. CASE Commit(t)
    <3>1. UNCHANGED allocated
      BY <1>2, <2>4 DEF ContinueCall, Allocated, Commit, Return, Go
    <3> QED
      BY <2>4, <3>1, CommitMovesOne
  <2>5. CASE LoadRead(t) \/ ReturnEmpty(t) \/ CheckEmpty(t) \/ ReadSlot(t)
    <3>1. UNCHANGED allocated
      BY <1>2, <2>5
         DEF ContinueCall, Allocated, LoadRead, ReturnEmpty, CheckEmpty, ReadSlot, Return, Go
    <3> QED
      BY <2>5, <3>1, NothingMoves
         DEF PoolTypes, TypeOK, LoadRead, ReturnEmpty, CheckEmpty, ReadSlot, Return, Go,
             sharedVars, Slot, IsReleasing, PushSteps
  <2>6. CASE Claim(t) /\ m_readCounter = counter[t]
    BY <1>2, <2>6, ClaimMovesOne DEF ContinueCall
  <2>7. CASE Claim(t) /\ m_readCounter # counter[t]
    <3>1. UNCHANGED allocated
      BY <1>2, <2>7 DEF ContinueCall, Allocated, Claim, Go, PoolTypes, TypeOK
    <3> QED
      BY <2>7, <3>1, NothingMoves
         DEF PoolTypes, TypeOK, Claim, Go, sharedVars, Slot, IsReleasing, PushSteps
  <2> QED
    BY <1>2, <2>1, <2>2, <2>3, <2>4, <2>5, <2>6, <2>7 DEF ContinueCall, Continue
<1>3. CASE UNCHANGED poolVars
  BY <1>3, NothingMoves
     DEF poolVars, vars, sharedVars, localVars, Slot, IsReleasing
<1> QED
  BY <1>1, <1>2, <1>3, ReleaseStep DEF PoolNext

\* The whole invariant of a pool is inductive.
LEMMA FreeListInvInductive == FreeListInv /\ [PoolNext]_poolVars => FreeListInv'
<1> SUFFICES ASSUME FreeListInv, [PoolNext]_poolVars PROVE FreeListInv'
  OBVIOUS
<1>1. PoolTypes /\ PoolTypes' /\ TypeOK
  BY PoolTypesInductive DEF FreeListInv, PoolTypes
<1>2. ASSUME NoWrap' PROVE RingInv' /\ PoolInv'
  <2>1. NoWrap
    BY <1>1, <1>2, NoWrapBefore, QueueStep
  <2> QED
    BY <1>1, <1>2, <2>1, QueueStep, RingInductive, PoolInvInductive DEF FreeListInv
<1> QED
  BY <1>1, <1>2 DEF FreeListInv

-----------------------------------------------------------------------------
(***************************************************************************)
(* The pool starts full.                                                   *)
(***************************************************************************)

\* SetToSeq lists every item once.
LEMMA AllItemsInSequence ==
    /\ SetToSeq(Items) \in [1 .. Size -> Items]
    /\ \A i, j \in 1 .. Size : SetToSeq(Items)[i] = SetToSeq(Items)[j] => i = j
    /\ \A x \in Items : \E i \in 1 .. Size : SetToSeq(Items)[i] = x
<1>1. PICK f : f \in Bijection(1 .. Size, Items)
  BY PoolAssumption, FS_CardinalityType DEF ExistsBijection
<1>2. f \in [1 .. Size -> Items] /\ IsInjective(f)
  BY <1>1 DEF Bijection, Injection
<1>3. SetToSeq(Items) \in [1 .. Size -> Items] /\ IsInjective(SetToSeq(Items))
  BY <1>2, PoolAssumption DEF SetToSeq
<1>4. SetToSeq(Items) \in Injection(1 .. Size, Items)
  BY <1>3 DEF Injection
<1>5. Cardinality(1 .. Size) = Cardinality(Items) /\ IsFiniteSet(Items)
  BY FS_Interval, SizeAssumption, PoolAssumption
<1>6. SetToSeq(Items) \in Surjection(1 .. Size, Items)
  BY <1>4, <1>5, FS_Injection
<1>7. \A i, j \in 1 .. Size : SetToSeq(Items)[i] = SetToSeq(Items)[j] => i = j
  BY <1>4, Fun_InjectionProperties
<1>8. \A x \in Items : \E i \in 1 .. Size : SetToSeq(Items)[i] = x
  BY <1>6 DEF Surjection
<1> QED
  BY <1>3, <1>7, <1>8

\* A pool that starts full satisfies the invariant.
LEMMA FreeListInvInitial ==
    ASSUME PoolInit PROVE FreeListInv
<1> DEFINE s == SetToSeq(Items)
<1>1. m_queue \in [Indices -> Items]
  <2>1. \A i \in Indices : s[i + 1] \in Items
    BY AllItemsInSequence, SizeAssumption DEF Indices
  <2> QED
    BY <2>1 DEF PoolInit
<1>2. PoolTypes
  BY <1>1, SizeAssumption, CounterModulusAssumption, WidthAssumption
     DEF PoolInit, PoolTypes, TypeOK, Counters, PushSteps, PopSteps
<1>3. RingInv
  BY SizeAssumption
     DEF PoolInit, RingInv, CountersInOrder, EverySlotHasOnePush, PopsAreBehind,
         SlotsKeepTheirItems, Holding
<1>4. Committed = 0 .. Size - 1 /\ \A p \in Committed : Slot(p) = s[p + 1]
  <2>1. \A p \in 0 .. Size - 1 : p % Size = p
    BY SizeAssumption
  <2> QED
    BY <2>1 DEF PoolInit, Committed, Slot, CounterToIndex, Indices
<1>5. PoolInv
  <2>1. \A t \in Threads : ~IsReleasing(t)
    BY DEF PoolInit, IsReleasing, PushSteps
  <2>2. NothingIsShared
    BY <1>4, <2>1, AllItemsInSequence, SizeAssumption DEF PoolInit, NothingIsShared
  <2>3. ASSUME NEW x \in Items PROVE \E p \in Committed : Slot(p) = x
    <3>1. PICK i \in 1 .. Size : s[i] = x
      BY AllItemsInSequence
    <3>2. i - 1 \in Committed /\ Slot(i - 1) = x
      BY <1>4, <3>1, SizeAssumption
    <3> QED
      BY <3>2
  <2> QED
    BY <2>2, <2>3 DEF PoolInv, NothingIsLost
<1> QED
  BY <1>2, <1>3, <1>5 DEF FreeListInv

-----------------------------------------------------------------------------
(***************************************************************************)
(* Theorems.                                                               *)
(***************************************************************************)

\* What the proofs keep of a run of the pool.
THEOREM FreeListInvCorrect == PoolSpec => []FreeListInv
BY FreeListInvInitial, FreeListInvInductive, PTL DEF PoolSpec

\* Every variable keeps its type, however often the counters wrap: what is allocated is
\* always an object of the pool, never an empty slot.
THEOREM PoolTypeCorrect == PoolSpec => []PoolTypeOK
<1>1. FreeListInv => PoolTypeOK
  BY DEF FreeListInv, PoolTypes, PoolTypeOK
<1> QED
  BY <1>1, FreeListInvCorrect, PTL

\* GetCurrentSize and Contents, as long as nothing wraps.
LEMMA SizeAndContents ==
    ASSUME TypeOK, RingInv, NoWrap
    PROVE  /\ GetCurrentSize = m_writeCounter - m_readCounter
           /\ DOMAIN Contents = 1 .. m_committedWriteCounter - m_readCounter
           /\ \A k \in DOMAIN Contents : Contents[k] = Slot(m_readCounter + k - 1)
<1> USE CountersAreNumbers
<1>1. ASSUME NEW b \in Nat, m_readCounter <= b, b <= m_writeCounter
      PROVE  Distance(m_readCounter, b) = b - m_readCounter
  <2>1. b - m_readCounter \in 0 .. CounterModulus - 1
    BY <1>1, SizeAssumption DEF NoWrap, RingInv, CountersInOrder
  <2> QED
    BY <2>1, CounterModulusAssumption DEF Distance
<1>2. /\ GetCurrentSize = m_writeCounter - m_readCounter
      /\ Distance(m_readCounter, m_committedWriteCounter)
           = m_committedWriteCounter - m_readCounter
  BY <1>1 DEF GetCurrentSize, RingInv, CountersInOrder
<1> QED
  BY <1>2 DEF Contents, Slot

\* The objects of the pool are each at exactly one place.
LEMMA NothingLostOrSharedInPool ==
    ASSUME PoolTypes, RingInv, PoolInv, NoWrap PROVE NothingLostOrShared
<1> USE CountersAreNumbers DEF PoolTypes
<1> SUFFICES ASSUME NEW x \in Items
             PROVE  Cardinality({k \in DOMAIN Contents : Contents[k] = x})
                      + Cardinality(Releasing(x))
                      + (IF x \in allocated THEN 1 ELSE 0) = 1
  BY DEF NothingLostOrShared
<1> DEFINE K == {k \in DOMAIN Contents : Contents[k] = x}
<1>1. ASSUME NEW k \in DOMAIN Contents
      PROVE  m_readCounter + k - 1 \in Committed /\ Contents[k] = Slot(m_readCounter + k - 1)
             /\ k \in Int
  BY SizeAndContents DEF Committed
<1>2. ASSUME NEW p \in Committed
      PROVE  /\ p - m_readCounter + 1 \in DOMAIN Contents
             /\ Contents[p - m_readCounter + 1] = Slot(p)
  <2>1. p - m_readCounter + 1 \in 1 .. m_committedWriteCounter - m_readCounter
    BY DEF Committed
  <2>2. m_readCounter + (p - m_readCounter + 1) - 1 = p
    BY DEF Committed
  <2> QED
    BY <2>1, <2>2, SizeAndContents
<1>3. Releasing(x) = {t \in Threads : IsReleasing(t) /\ item[t] = x}
  BY DEF Releasing, IsReleasing
<1>4. CASE x \in allocated
  <2>1. K = {} /\ Releasing(x) = {}
    BY <1>1, <1>3, <1>4 DEF PoolInv, NothingIsShared
  <2>2. Cardinality(K) = 0 /\ Cardinality(Releasing(x)) = 0
    BY <2>1, FS_EmptySet
  <2> QED
    BY <1>4, <2>2
<1>5. CASE \E t \in Threads : IsReleasing(t) /\ item[t] = x
  <2>1. PICK t \in Threads : IsReleasing(t) /\ item[t] = x
    BY <1>5
  <2>2. K = {} /\ Releasing(x) = {t} /\ x \notin allocated
    BY <1>1, <1>3, <2>1 DEF PoolInv, NothingIsShared
  <2>3. Cardinality(K) = 0 /\ Cardinality(Releasing(x)) = 1
    BY <2>2, FS_EmptySet, FS_Singleton
  <2> QED
    BY <2>2, <2>3
<1>6. CASE \E p \in Committed : Slot(p) = x
  <2>1. PICK p \in Committed : Slot(p) = x
    BY <1>6
  <2>2. Releasing(x) = {} /\ x \notin allocated
    BY <1>3, <2>1 DEF PoolInv, NothingIsShared
  <2>3. K = {p - m_readCounter + 1}
    <3>1. p - m_readCounter + 1 \in K
      BY <1>2, <2>1
    <3>2. ASSUME NEW k \in K PROVE k = p - m_readCounter + 1
      <4>1. m_readCounter + k - 1 = p
        BY <1>1, <2>1 DEF PoolInv, NothingIsShared
      <4> QED
        BY <1>1, <4>1
    <3> QED
      BY <3>1, <3>2
  <2>4. Cardinality(K) = 1 /\ Cardinality(Releasing(x)) = 0
    BY <2>2, <2>3, FS_EmptySet, FS_Singleton
  <2> QED
    BY <2>2, <2>4
<1> QED
  BY <1>4, <1>5, <1>6 DEF PoolInv, NothingIsLost

\* No two clients get the same task or fiber, and none is lost (TaskAllocator,
\* TaskFiberAllocator on LockFreePtrQueue), until a counter wraps.
THEOREM NothingLostOrSharedCorrect ==
    PoolSpec => [](NoWrap => NothingLostOrShared)
<1>1. FreeListInv => (NoWrap => NothingLostOrShared)
  BY NothingLostOrSharedInPool DEF FreeListInv
<1> QED
  BY <1>1, FreeListInvCorrect, PTL

\* A release is never refused, and the free list counts as full exactly when nothing is
\* out of it.
LEMMA ReleasesAreCompleteInPool ==
    ASSUME PoolTypes, RingInv, PoolInv, NoWrap PROVE ReleasesAreComplete
<1> USE CountersAreNumbers DEF PoolTypes
<1>1. GetCurrentSize = Size <=> m_writeCounter = m_readCounter + Size
  BY SizeAndContents
<1>2. m_writeCounter = m_readCounter + Size <=> \A x \in Items : ~Outside(x)
  BY RoomForOutside, FullIfNothingOutside
<1>3. (\A x \in Items : ~Outside(x))
        <=> allocated = {} /\ \A t \in Threads : ~Unreserved(t)
  <2>1. \A t \in Threads : Unreserved(t) => item[t] \in Items
    BY DEF Unreserved, TypeOK, PushSteps
  <2> QED
    BY <2>1 DEF Outside
<1> QED
  BY <1>1, <1>2, <1>3, NeverFull DEF ReleasesAreComplete, Unreserved

\* VERIFY_SUCCESS( m_freelist.PushBack( handle ) ) never fails, and
\* AreAllTasksReleased() tells the truth, until a counter wraps.
THEOREM ReleasesAreCompleteCorrect ==
    PoolSpec => [](NoWrap => ReleasesAreComplete)
<1>1. FreeListInv => (NoWrap => ReleasesAreComplete)
  BY ReleasesAreCompleteInPool DEF FreeListInv
<1> QED
  BY <1>1, FreeListInvCorrect, PTL

\* An allocation fails only while every object is out of the free list, in a run in which
\* no counter wraps (CreateNewTask, the new fiber of a suspended task).
THEOREM FailsOnlyWhenExhaustedCorrect ==
    PoolSpec /\ []NoWrap => FailsOnlyWhenExhausted
<1>1. ASSUME FreeListInv, NoWrap, [PoolNext]_poolVars
      PROVE  [\A t \in Threads : ReturnEmpty(t) => Contents = <<>>]_poolVars
  <2> SUFFICES ASSUME NEW t \in Threads, ReturnEmpty(t) PROVE Contents = <<>>
    OBVIOUS
  <2> USE <1>1, CountersAreNumbers DEF FreeListInv, PoolTypes
  <2>1. m_committedWriteCounter = m_readCounter
    BY DEF ReturnEmpty, LooksEmpty, Return, Go, RingInv, CountersInOrder, PopsAreBehind
  <2>2. Distance(m_readCounter, m_committedWriteCounter) = 0
    BY <2>1, CounterModulusAssumption DEF Distance
  <2> QED
    BY <2>2 DEF Contents
<1> QED
  BY <1>1, FreeListInvCorrect, PTL DEF PoolSpec, FailsOnlyWhenExhausted
=============================================================================
