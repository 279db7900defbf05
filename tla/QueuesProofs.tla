----------------------------- MODULE QueuesProofs -----------------------------
(***************************************************************************)
(* Theorems about Queues, for any number of threads and items, any size    *)
(* and any width of the counters: both ring buffers implement PtrQueue, up *)
(* to the first wrap of a counter or of a sum that the code compares.      *)
(*                                                                         *)
(* The lock-free queue: LockFreePtrQueueProofs has its invariant, and each *)
(* of its steps is a step of PtrQueue or a stutter.  The lock-based queue: *)
(* the spin lock excludes, so what a thread has found out under it (there  *)
(* is room, there is an item, this is the size) stays true until the       *)
(* thread gives it back.                                                   *)
(***************************************************************************)
EXTENDS Queues, LockFreePtrQueueProofs, SequenceTheorems, FiniteSetTheorems, FunctionTheorems

-----------------------------------------------------------------------------
(***************************************************************************)
(* The contents of a ring buffer.                                          *)
(***************************************************************************)

Entries == Items \cup {NoItem}
Buffers == [Indices -> Entries]

\* The n items from counter value r on.
Ring(q, r, n) == [k \in 1 .. n |-> q[CounterToIndex(r + k - 1)]]

\* They are a sequence.
LEMMA RingIsSequence ==
    ASSUME NEW q \in Buffers, NEW r \in Nat, NEW n \in Nat
    PROVE  /\ Ring(q, r, n) \in Seq(Entries)
           /\ Len(Ring(q, r, n)) = n
           /\ \A k \in 1 .. n : Ring(q, r, n)[k] = q[CounterToIndex(r + k - 1)]
<1>1. \A k \in 1 .. n : r + k - 1 \in Nat /\ q[CounterToIndex(r + k - 1)] \in Entries
  BY IndexInRange DEF Buffers
<1>2. Ring(q, r, n) \in [1 .. n -> Entries]
  BY <1>1 DEF Ring
<1>3. Ring(q, r, n) \in Seq(Entries)
  BY <1>2, SeqDef
<1>4. Len(Ring(q, r, n)) = n
  BY <1>3, LenProperties DEF Ring
<1> QED
  BY <1>3, <1>4 DEF Ring

\* The counter behind the last item is advanced.
LEMMA RingGrows ==
    ASSUME NEW q \in Buffers, NEW r \in Nat, NEW n \in Nat
    PROVE  Ring(q, r, n + 1) = Append(Ring(q, r, n), q[CounterToIndex(r + n)])
<1> DEFINE s == Ring(q, r, n)
           t == Ring(q, r, n + 1)
           x == q[CounterToIndex(r + n)]
<1>1. x \in Entries
  BY IndexInRange DEF Buffers
<1>2. /\ s \in Seq(Entries) /\ Len(s) = n
      /\ \A k \in 1 .. n : s[k] = q[CounterToIndex(r + k - 1)]
  BY RingIsSequence
<1>3. /\ t \in Seq(Entries) /\ Len(t) = n + 1
      /\ \A k \in 1 .. n + 1 : t[k] = q[CounterToIndex(r + k - 1)]
  <2>1. n + 1 \in Nat
    OBVIOUS
  <2> QED
    BY <2>1, RingIsSequence
<1>4. t[n + 1] = x
  <2>1. r + (n + 1) - 1 = r + n /\ n + 1 \in 1 .. n + 1
    OBVIOUS
  <2> QED
    BY <1>3, <2>1
<1> HIDE DEF s, t, x
<1>5. /\ Append(s, x) \in Seq(Entries) /\ Len(Append(s, x)) = n + 1
      /\ \A k \in 1 .. n : Append(s, x)[k] = s[k]
      /\ Append(s, x)[n + 1] = x
  BY <1>1, <1>2, AppendProperties
<1>6. \A k \in 1 .. Len(t) : t[k] = Append(s, x)[k]
  BY <1>2, <1>3, <1>4, <1>5
<1>7. t = Append(s, x)
  BY <1>3, <1>5, <1>6, SeqEqual
<1> QED
  BY <1>7 DEF s, t, x

\* The first item is popped.
LEMMA RingLosesHead ==
    ASSUME NEW q \in Buffers, NEW r \in Nat, NEW n \in Nat, n > 0
    PROVE  /\ Ring(q, r, n) # <<>>
           /\ Head(Ring(q, r, n)) = q[CounterToIndex(r)]
           /\ Tail(Ring(q, r, n)) = Ring(q, r + 1, n - 1)
<1> DEFINE s == Ring(q, r, n)
           t == Ring(q, r + 1, n - 1)
<1>1. /\ s \in Seq(Entries) /\ Len(s) = n
      /\ \A k \in 1 .. n : s[k] = q[CounterToIndex(r + k - 1)]
  BY RingIsSequence
<1>2. /\ t \in Seq(Entries) /\ Len(t) = n - 1
      /\ \A k \in 1 .. n - 1 : t[k] = q[CounterToIndex((r + 1) + k - 1)]
  <2>1. PICK r1 \in Nat, m \in Nat : r1 = r + 1 /\ m = n - 1
    OBVIOUS
  <2>2. Ring(q, r1, m) \in Seq(Entries)
    BY RingIsSequence
  <2>3. Len(Ring(q, r1, m)) = m
    BY RingIsSequence
  <2>4. \A k \in 1 .. m : Ring(q, r1, m)[k] = q[CounterToIndex(r1 + k - 1)]
    BY DEF Ring
  <2> QED
    BY <2>1, <2>2, <2>3, <2>4
<1>3. s[1] = q[CounterToIndex(r)]
  <2>1. r + 1 - 1 = r /\ 1 \in 1 .. n
    OBVIOUS
  <2> QED
    BY <1>1, <2>1
<1>4. \A k \in 1 .. n - 1 : t[k] = s[k + 1]
  <2> TAKE k \in 1 .. n - 1
  <2>1. (r + 1) + k - 1 = r + (k + 1) - 1 /\ k + 1 \in 1 .. n
    OBVIOUS
  <2> QED
    BY <1>1, <1>2, <2>1
<1> HIDE DEF s, t
<1>5. s # <<>>
  BY <1>1, EmptySeq
<1>6. /\ Head(s) = s[1] /\ Tail(s) \in Seq(Entries) /\ Len(Tail(s)) = n - 1
      /\ \A k \in 1 .. n - 1 : Tail(s)[k] = s[k + 1]
  BY <1>1, <1>5, HeadTailProperties
<1>7. \A k \in 1 .. Len(t) : t[k] = Tail(s)[k]
  BY <1>2, <1>4, <1>6
<1>8. t = Tail(s)
  BY <1>2, <1>6, <1>7, SeqEqual
<1> QED
  BY <1>3, <1>5, <1>6, <1>8 DEF s, t

\* The last item is popped.
LEMMA RingLosesLast ==
    ASSUME NEW q \in Buffers, NEW r \in Nat, NEW n \in Nat, n > 0
    PROVE  /\ Ring(q, r, n) # <<>> /\ Len(Ring(q, r, n)) = n
           /\ Ring(q, r, n)[n] = q[CounterToIndex(r + n - 1)]
           /\ SubSeq(Ring(q, r, n), 1, n - 1) = Ring(q, r, n - 1)
<1> DEFINE s == Ring(q, r, n)
           t == Ring(q, r, n - 1)
<1>1. /\ s \in Seq(Entries) /\ Len(s) = n
      /\ \A k \in 1 .. n : s[k] = q[CounterToIndex(r + k - 1)]
  BY RingIsSequence
<1>2. /\ t \in Seq(Entries) /\ Len(t) = n - 1
      /\ \A k \in 1 .. n - 1 : t[k] = q[CounterToIndex(r + k - 1)]
  <2>1. n - 1 \in Nat
    OBVIOUS
  <2> QED
    BY <2>1, RingIsSequence
<1>3. s[n] = q[CounterToIndex(r + n - 1)]
  BY <1>1
<1>4. \A k \in 1 .. n - 1 : t[k] = s[k]
  <2> TAKE k \in 1 .. n - 1
  <2>1. k \in 1 .. n
    OBVIOUS
  <2> QED
    BY <1>1, <1>2, <2>1
<1> HIDE DEF s, t
<1>5. s # <<>> /\ \A k \in 1 .. n : s[k] \in Entries
  BY <1>1, EmptySeq, LenProperties
<1>6. /\ SubSeq(s, 1, n - 1) \in Seq(Entries) /\ Len(SubSeq(s, 1, n - 1)) = n - 1
      /\ \A k \in 1 .. n - 1 : SubSeq(s, 1, n - 1)[k] = s[k]
  <2>1. /\ SubSeq(s, 1, n - 1) \in Seq(Entries)
        /\ Len(SubSeq(s, 1, n - 1)) = IF 1 <= n - 1 THEN n - 1 - 1 + 1 ELSE 0
        /\ \A k \in 1 .. n - 1 - 1 + 1 : SubSeq(s, 1, n - 1)[k] = s[1 + k - 1]
    BY <1>1, <1>5, SubSeqProperties
  <2> QED
    BY <2>1
<1>7. \A k \in 1 .. Len(t) : t[k] = SubSeq(s, 1, n - 1)[k]
  BY <1>2, <1>4, <1>6
<1>8. t = SubSeq(s, 1, n - 1)
  BY <1>2, <1>6, <1>7, SeqEqual
<1> QED
  BY <1>1, <1>3, <1>5, <1>8 DEF s, t

\* A push fills a slot behind the last item.
LEMMA RingKept ==
    ASSUME NEW q \in Buffers, NEW r \in Nat, NEW n \in Nat,
           NEW c \in Nat, r + n <= c, c < r + Size,
           NEW p, \A j \in Indices : j # CounterToIndex(c) => p[j] = q[j]
    PROVE  Ring(p, r, n) = Ring(q, r, n)
<1>1. ASSUME NEW k \in 1 .. n
      PROVE  CounterToIndex(r + k - 1) # CounterToIndex(c) /\ CounterToIndex(r + k - 1) \in Indices
  <2>1. r + k - 1 \in Nat /\ r + k - 1 # c /\ r <= r + k - 1 /\ r + k - 1 < r + Size /\ r <= c
    BY SizeAssumption
  <2> QED
    BY <2>1, SlotsDiffer, IndexInRange
<1> QED
  BY <1>1 DEF Ring, Buffers

\* It is empty when there is no item.
LEMMA RingIsEmpty == ASSUME NEW q, NEW r PROVE Ring(q, r, 0) = <<>>
BY DEF Ring

-----------------------------------------------------------------------------
(***************************************************************************)
(* The lock-free queue.                                                    *)
(***************************************************************************)

\* Before a wrap, the contents are the slots from the read counter up to the committed
\* counter.
ContentsAreARing ==
    /\ Contents = Ring(m_queue, m_readCounter, m_committedWriteCounter - m_readCounter)
    /\ m_committedWriteCounter - m_readCounter \in 0 .. Size
    /\ m_queue \in Buffers

\* What the lock-free queue holds is the ring from the read to the committed counter.
LEMMA RingOfContents == TypeOK /\ RingInv => ContentsAreARing
<1> SUFFICES ASSUME TypeOK, RingInv PROVE ContentsAreARing
  OBVIOUS
<1> USE CountersAreNumbers
<1>1. m_committedWriteCounter - m_readCounter \in 0 .. Size
  BY DEF RingInv, CountersInOrder
<1>2. m_committedWriteCounter < CounterModulus
  BY DEF TypeOK, Counters
<1>3. Distance(m_readCounter, m_committedWriteCounter) = m_committedWriteCounter - m_readCounter
  BY <1>1, <1>2, CounterModulusAssumption DEF Distance
<1> QED
  BY <1>1, <1>3 DEF ContentsAreARing, Contents, Ring, TypeOK, Buffers, Entries

\* The slots between the committed and the write counter are those of the pushes that
\* have reserved one.
LEMMA ReservedSlots ==
    ASSUME TypeOK, RingInv
    PROVE  Cardinality({t \in Threads : pc[t] \in Holding}) =
               m_writeCounter - m_committedWriteCounter
<1> DEFINE H == {t \in Threads : pc[t] \in Holding}
           slots == m_committedWriteCounter .. m_writeCounter - 1
           slotOf == [t \in H |-> counter[t]]
<1> USE CountersAreNumbers
<1>1. slotOf \in [H -> slots]
  BY DEF RingInv, EverySlotHasOnePush
<1>2. \A t, u \in H : slotOf[t] = slotOf[u] => t = u
  BY DEF RingInv, EverySlotHasOnePush
<1>3. \A p \in slots : \E t \in H : slotOf[t] = p
  BY DEF RingInv, EverySlotHasOnePush
<1>4. slotOf \in Bijection(H, slots)
  BY <1>1, <1>2, <1>3 DEF Bijection, Injection, Surjection, IsInjective
<1>5. IsFiniteSet(slots) /\ Cardinality(slots) = m_writeCounter - m_committedWriteCounter
  <2>0. m_committedWriteCounter \in Int /\ m_writeCounter - 1 \in Int
    OBVIOUS
  <2>1. IsFiniteSet(slots) /\ Cardinality(slots) = IF m_committedWriteCounter > m_writeCounter - 1 THEN 0
                                                ELSE m_writeCounter - 1 - m_committedWriteCounter + 1
    BY <2>0, FS_Interval
  <2>2. m_committedWriteCounter <= m_writeCounter
    BY DEF RingInv, CountersInOrder
  <2> QED
    BY <2>1, <2>2
<1> HIDE DEF H, slots, slotOf
<1>6. ExistsBijection(slots, H)
  BY <1>4, Fun_ExistsBijSymmetric DEF ExistsBijection
<1>7. Cardinality(H) = Cardinality(slots)
  BY <1>5, <1>6, FS_Bijection
<1> QED
  BY <1>5, <1>7 DEF H

\* A step of one thread, as a user of the queue sees it.
LEMMA OneThreadMoves ==
    ASSUME NEW t \in Threads,
           \A u \in Threads \ {t} : pc'[u] = pc[u] /\ item'[u] = item[u]
    PROVE  /\ Calls' = [Calls EXCEPT ![t] = CallOf(t)']
           /\ Arguments' = [Arguments EXCEPT ![t] = ArgumentOf(t)']
<1>1. \A u \in Threads \ {t} : CallOf(u)' = CallOf(u) /\ ArgumentOf(u)' = ArgumentOf(u)
  BY DEF CallOf, ArgumentOf
<1>2. Calls' = [u \in Threads |-> CallOf(u)'] /\ Arguments' = [u \in Threads |-> ArgumentOf(u)']
  BY DEF Calls, Arguments
<1> QED
  BY <1>1, <1>2 DEF Calls, Arguments

\* The Cardinality of PtrQueue is the one of FiniteSets.
LEMMA SameCardinality == ASSUME NEW S PROVE Queue!Cardinality(S) = Cardinality(S)
BY DEF Queue!Cardinality, Cardinality

\* The slots in use are those of the items and those of the reservations.
LEMMA LengthAndReserved ==
    ASSUME IsLockFree, TypeOK, RingInv
    PROVE  /\ Len(Contents) + Queue!Cardinality(Queue!Reserved) = m_writeCounter - m_readCounter
           /\ m_writeCounter - m_readCounter \in 0 .. Size
<1> USE CountersAreNumbers
<1>1. Len(Contents) = m_committedWriteCounter - m_readCounter
  <2>1. PICK n \in Nat : n = m_committedWriteCounter - m_readCounter
    BY RingOfContents DEF ContentsAreARing
  <2>2. Contents = Ring(m_queue, m_readCounter, n) /\ m_queue \in Buffers
    BY <2>1, RingOfContents DEF ContentsAreARing
  <2> QED
    BY <2>1, <2>2, RingIsSequence
<1>2. Queue!Reserved = {t \in Threads : pc[t] \in Holding}
  BY DEF Queue!Reserved, Calls, CallOf, Holding, PopSteps
<1> QED
  BY <1>1, <1>2, ReservedSlots, SameCardinality DEF RingInv, CountersInOrder

\* The items of the queue in use.
LEMMA MappedItems == IsLockFree => (IF IsLockFree THEN Contents ELSE Locked!Contents) = Contents
OBVIOUS

\* A step that changes nothing that a user of the queue sees.
LEMMA FreeStutter ==
    ASSUME IsLockFree, IsLockFree', NEW t \in Threads,
           \A u \in Threads \ {t} : pc'[u] = pc[u] /\ item'[u] = item[u],
           Contents' = Contents, CallOf(t)' = CallOf(t), ArgumentOf(t)' = ArgumentOf(t),
           result' = result
    PROVE  UNCHANGED Queue!queueVars
<1>1. Calls' = Calls /\ Arguments' = Arguments
  BY OneThreadMoves DEF Calls, Arguments
<1> QED
  BY <1>1 DEF Queue!queueVars

\* The read and the committed counter stay, and so do the slots.
LEMMA FreeContentsStay ==
    ASSUME UNCHANGED <<m_readCounter, m_committedWriteCounter, m_queue>>
    PROVE  Contents' = Contents
BY DEF Contents, Distance

\* The steps of a push before it stores: a call, a refusal, a reservation, or nothing.
LEMMA FreePushes ==
    ASSUME IsLockFree, IsLockFree', TypeOK, RingInv, TypeOK', RingInv', NoWrap, NoWrap',
           NEW t \in Threads,
           \/ \E x \in Items : CallPushBack(t, x)
           \/ LoadWrite(t) \/ RefusePush(t) \/ CheckFull(t) \/ Reserve(t)
    PROVE  Queue!QueueNext \/ UNCHANGED Queue!queueVars
<1> USE CountersAreNumbers
<1>0. /\ pc \in [Threads -> {"Idle"} \cup PushSteps \cup PopSteps]
      /\ item \in [Threads -> Items \cup {NoItem}]
      /\ counter \in [Threads -> Counters]
      /\ Calls[t] = CallOf(t) /\ Arguments[t] = ArgumentOf(t)
  BY DEF TypeOK, Calls, Arguments
<1>1. ASSUME NEW x \in Items, CallPushBack(t, x) PROVE Queue!QueueNext
  <2>1. /\ pc[t] = "Idle" /\ pc' = [pc EXCEPT ![t] = "LoadWrite"]
        /\ item' = [item EXCEPT ![t] = x]
        /\ result' = [result EXCEPT ![t] = NoItem]
        /\ UNCHANGED <<m_readCounter, m_committedWriteCounter, m_queue>>
    BY <1>1 DEF CallPushBack, Go, sharedVars
  <2>2. CallOf(t) = "None" /\ CallOf(t)' = "Push" /\ ArgumentOf(t)' = x
    BY <1>0, <2>1 DEF CallOf, ArgumentOf, PopSteps, PushSteps
  <2>3. /\ Calls' = [Calls EXCEPT ![t] = "Push"]
        /\ Arguments' = [Arguments EXCEPT ![t] = x]
        /\ Contents' = Contents
    BY <2>1, <2>2, OneThreadMoves, FreeContentsStay
  <2>4. Queue!CallPush(t, x)
    BY <1>0, <2>1, <2>2, <2>3 DEF Queue!CallPush
  <2> QED
    BY <2>4 DEF Queue!QueueNext
<1>2. ASSUME LoadWrite(t) \/ CheckFull(t) PROVE UNCHANGED Queue!queueVars
  <2>1. /\ pc[t] \in {"LoadWrite", "CheckFull"}
        /\ \E to \in {"CheckFull", "Reserve"} : pc' = [pc EXCEPT ![t] = to]
        /\ item' = item /\ result' = result
        /\ UNCHANGED <<m_readCounter, m_committedWriteCounter, m_queue>>
    BY <1>2 DEF LoadWrite, CheckFull, Go, sharedVars
  <2>2. CallOf(t)' = CallOf(t) /\ ArgumentOf(t)' = ArgumentOf(t)
    BY <1>0, <2>1 DEF CallOf, ArgumentOf, PopSteps, PushSteps
  <2> QED
    BY <2>1, <2>2, FreeStutter, FreeContentsStay
<1>3. ASSUME RefusePush(t) PROVE Queue!QueueNext
  <2>1. /\ pc[t] = "CheckFull" /\ pc' = [pc EXCEPT ![t] = "Idle"]
        /\ item' = [item EXCEPT ![t] = NoItem]
        /\ result' = [result EXCEPT ![t] = FALSE]
        /\ UNCHANGED <<m_readCounter, m_committedWriteCounter, m_queue>>
        /\ Add(m_readCounter, Size) <= counter[t]
    BY <1>3 DEF RefusePush, LooksFull, Return, Go, sharedVars
  <2>2. CallOf(t) = "Push" /\ CallOf(t)' = "None" /\ ArgumentOf(t)' = NoItem
    BY <1>0, <2>1 DEF CallOf, ArgumentOf, PopSteps, PushSteps
  <2>3. /\ Calls' = [Calls EXCEPT ![t] = "None"]
        /\ Arguments' = [Arguments EXCEPT ![t] = NoItem]
        /\ Contents' = Contents
    BY <2>1, <2>2, OneThreadMoves, FreeContentsStay
  <2>4. m_writeCounter = m_readCounter + Size
    <3>1. Add(m_readCounter, Size) = m_readCounter + Size
      BY AddIsPlus DEF RingInv, CountersInOrder, NoWrap
    <3> QED
      BY <2>1, <3>1 DEF RingInv, CountersInOrder, EverySlotHasOnePush
  <2>5. Len(Contents) + Queue!Cardinality(Queue!Reserved) = Size
    BY <2>4, LengthAndReserved
  <2>6. Queue!Refuse(t)
    BY <1>0, <2>1, <2>2, <2>3, <2>5, MappedItems DEF Queue!Refuse, Queue!Return
  <2> QED
    BY <2>6 DEF Queue!QueueNext
<1>4. ASSUME Reserve(t), m_writeCounter = counter[t] PROVE Queue!QueueNext
  <2>1. /\ pc[t] = "Reserve" /\ pc' = [pc EXCEPT ![t] = "Store"]
        /\ item' = item /\ result' = result
        /\ UNCHANGED <<m_readCounter, m_committedWriteCounter, m_queue>>
    BY <1>4 DEF Reserve, Go
  <2>2. CallOf(t) = "Push" /\ CallOf(t)' = "Reserved" /\ ArgumentOf(t)' = ArgumentOf(t)
    BY <1>0, <2>1 DEF CallOf, ArgumentOf, PopSteps, PushSteps
  <2>3. /\ Calls' = [Calls EXCEPT ![t] = "Reserved"]
        /\ Arguments' = Arguments
        /\ Contents' = Contents
    <3>1. Arguments' = [Arguments EXCEPT ![t] = Arguments[t]]
      BY <1>0, <2>1, <2>2, OneThreadMoves
    <3> QED
      BY <1>0, <2>1, <2>2, <3>1, OneThreadMoves, FreeContentsStay DEF Arguments
  <2>4. Len(Contents) + Queue!Cardinality(Queue!Reserved) < Size
    <3>1. m_writeCounter < m_readCounter + Size
      BY <1>4, <2>1 DEF RingInv, EverySlotHasOnePush
    <3> QED
      BY <3>1, LengthAndReserved
  <2>5. Queue!Reserve(t)
    BY <1>0, <2>1, <2>2, <2>3, <2>4, MappedItems DEF Queue!Reserve
  <2> QED
    BY <2>5 DEF Queue!QueueNext
<1>5. ASSUME Reserve(t), m_writeCounter # counter[t] PROVE UNCHANGED Queue!queueVars
  <2>1. /\ pc[t] = "Reserve" /\ pc' = [pc EXCEPT ![t] = "LoadWrite"]
        /\ item' = item /\ result' = result
        /\ UNCHANGED <<m_readCounter, m_committedWriteCounter, m_queue>>
    BY <1>5 DEF Reserve, Go, sharedVars
  <2>2. CallOf(t)' = CallOf(t) /\ ArgumentOf(t)' = ArgumentOf(t)
    BY <1>0, <2>1 DEF CallOf, ArgumentOf, PopSteps, PushSteps
  <2> QED
    BY <2>1, <2>2, FreeStutter, FreeContentsStay
<1> QED
  BY <1>1, <1>2, <1>3, <1>4, <1>5

\* Store fills a slot that no pop sees yet, and Commit appends it to the contents.
LEMMA FreeInserts ==
    ASSUME IsLockFree, IsLockFree', TypeOK, RingInv, TypeOK', RingInv', NoWrap, NoWrap',
           NEW t \in Threads, Store(t) \/ Commit(t)
    PROVE  Queue!QueueNext \/ UNCHANGED Queue!queueVars
<1> USE CountersAreNumbers
<1> DEFINE n == m_committedWriteCounter - m_readCounter
<1>0. /\ pc \in [Threads -> {"Idle"} \cup PushSteps \cup PopSteps]
      /\ item \in [Threads -> Items \cup {NoItem}]
      /\ counter \in [Threads -> Counters] /\ counter[t] \in Nat
      /\ Calls[t] = CallOf(t) /\ Arguments[t] = ArgumentOf(t)
  BY DEF TypeOK, Calls, Arguments
<1>1. /\ n \in Nat /\ m_queue \in Buffers
      /\ Contents = Ring(m_queue, m_readCounter, n)
  BY RingOfContents DEF ContentsAreARing
<1>2. Contents' = Ring(m_queue', m_readCounter', m_committedWriteCounter' - m_readCounter')
  <2>1. ContentsAreARing'
    BY RingOfContents, PTL
  <2> QED
    BY <2>1 DEF ContentsAreARing, Ring
<1>3. ASSUME Store(t) PROVE UNCHANGED Queue!queueVars
  <2>1. /\ pc[t] = "Store" /\ pc' = [pc EXCEPT ![t] = "Commit"]
        /\ item' = item /\ result' = result
        /\ m_queue' = [m_queue EXCEPT ![CounterToIndex(counter[t])] = item[t]]
        /\ UNCHANGED <<m_readCounter, m_committedWriteCounter>>
    BY <1>3 DEF Store, Go
  <2>2. CallOf(t)' = CallOf(t) /\ ArgumentOf(t)' = ArgumentOf(t)
    BY <1>0, <2>1 DEF CallOf, ArgumentOf, PopSteps, PushSteps
  <2>3. m_committedWriteCounter <= counter[t] /\ counter[t] < m_readCounter + Size
    BY <2>1 DEF RingInv, CountersInOrder, EverySlotHasOnePush, Holding
  <2>4. Contents' = Contents
    <3>1. m_readCounter + n <= counter[t]
      BY <1>0, <2>3
    <3> HIDE DEF n
    <3>2. /\ n \in Nat /\ m_readCounter \in Nat /\ counter[t] \in Nat
          /\ counter[t] < m_readCounter + Size /\ m_queue \in Buffers
      BY <1>0, <1>1, <2>3
    <3>3. \A j \in Indices : j # CounterToIndex(counter[t]) => m_queue'[j] = m_queue[j]
      BY <2>1, <3>2 DEF Buffers
    <3>4. Ring(m_queue', m_readCounter, n) = Ring(m_queue, m_readCounter, n)
      BY <3>1, <3>2, <3>3, RingKept
    <3> QED
      BY <1>1, <1>2, <2>1, <3>4 DEF n
  <2> QED
    BY <2>1, <2>2, <2>4, FreeStutter
<1>4. ASSUME Commit(t) PROVE Queue!QueueNext
  <2>1. /\ pc[t] = "Commit" /\ pc' = [pc EXCEPT ![t] = "Idle"]
        /\ item' = [item EXCEPT ![t] = NoItem]
        /\ result' = [result EXCEPT ![t] = TRUE]
        /\ m_committedWriteCounter = counter[t]
        /\ m_committedWriteCounter' = Add(counter[t], 1)
        /\ UNCHANGED <<m_readCounter, m_queue>>
    BY <1>4 DEF Commit, Return, Go
  <2>2. CallOf(t) = "Reserved" /\ CallOf(t)' = "None"
        /\ ArgumentOf(t) = item[t] /\ ArgumentOf(t)' = NoItem
    BY <1>0, <2>1 DEF CallOf, ArgumentOf, PopSteps, PushSteps
  <2>3. /\ Calls' = [Calls EXCEPT ![t] = "None"]
        /\ Arguments' = [Arguments EXCEPT ![t] = NoItem]
    BY <2>1, <2>2, OneThreadMoves
  <2>4. m_committedWriteCounter' = m_committedWriteCounter + 1
    <3>1. counter[t] + 1 < CounterModulus
      BY <2>1, SizeAssumption
         DEF RingInv, CountersInOrder, EverySlotHasOnePush, Holding, NoWrap
    <3> QED
      BY <1>0, <2>1, <3>1, AddIsPlus
  <2>5. m_queue[CounterToIndex(m_readCounter + n)] = item[t]
    BY <2>1 DEF RingInv, SlotsKeepTheirItems
  <2>6. Contents' = Append(Contents, item[t])
    <3>1. m_committedWriteCounter' - m_readCounter' = n + 1
      BY <2>1, <2>4
    <3> HIDE DEF n
    <3>2. Contents' = Ring(m_queue, m_readCounter, n + 1)
      BY <1>2, <2>1, <3>1
    <3>3. Ring(m_queue, m_readCounter, n + 1) =
              Append(Ring(m_queue, m_readCounter, n), m_queue[CounterToIndex(m_readCounter + n)])
      BY <1>1, RingGrows
    <3> QED
      BY <1>1, <2>5, <3>2, <3>3
  <2>7. Queue!Insert(t)
    BY <1>0, <2>1, <2>2, <2>3, <2>6, MappedItems DEF Queue!Insert, Queue!Return
  <2> QED
    BY <2>7 DEF Queue!QueueNext
<1> QED
  BY <1>3, <1>4

\* The steps of a pop: a call, a return with an entry or without, or nothing.
LEMMA FreePops ==
    ASSUME IsLockFree, IsLockFree', TypeOK, RingInv, TypeOK', RingInv', NoWrap, NoWrap',
           NEW t \in Threads,
           \/ CallPopFront(t) \/ LoadRead(t) \/ ReturnEmpty(t) \/ CheckEmpty(t)
           \/ ReadSlot(t) \/ Claim(t)
    PROVE  Queue!QueueNext \/ UNCHANGED Queue!queueVars
<1> USE CountersAreNumbers
<1> DEFINE n == m_committedWriteCounter - m_readCounter
<1>0. /\ pc \in [Threads -> {"Idle"} \cup PushSteps \cup PopSteps]
      /\ item \in [Threads -> Items \cup {NoItem}]
      /\ counter \in [Threads -> Counters]
      /\ Calls[t] = CallOf(t) /\ Arguments[t] = ArgumentOf(t)
  BY DEF TypeOK, Calls, Arguments
<1>a. /\ n \in Nat /\ m_queue \in Buffers
      /\ Contents = Ring(m_queue, m_readCounter, n)
  BY RingOfContents DEF ContentsAreARing
<1>b. Contents' = Ring(m_queue', m_readCounter', m_committedWriteCounter' - m_readCounter')
  <2>1. ContentsAreARing'
    BY RingOfContents, PTL
  <2> QED
    BY <2>1 DEF ContentsAreARing, Ring
<1>1. ASSUME CallPopFront(t) PROVE Queue!QueueNext
  <2>1. /\ pc[t] = "Idle" /\ pc' = [pc EXCEPT ![t] = "LoadRead"]
        /\ item' = item
        /\ result' = [result EXCEPT ![t] = NoItem]
        /\ UNCHANGED <<m_readCounter, m_committedWriteCounter, m_queue>>
    BY <1>1 DEF CallPopFront, Go, sharedVars
  <2>2. CallOf(t) = "None" /\ CallOf(t)' = "PopFront" /\ ArgumentOf(t)' = ArgumentOf(t)
    BY <1>0, <2>1 DEF CallOf, ArgumentOf, PopSteps, PushSteps
  <2>3. /\ Calls' = [Calls EXCEPT ![t] = "PopFront"]
        /\ Arguments' = Arguments
        /\ Contents' = Contents
    <3>1. Arguments' = [Arguments EXCEPT ![t] = Arguments[t]]
      BY <1>0, <2>1, <2>2, OneThreadMoves
    <3> QED
      BY <1>0, <2>1, <2>2, <3>1, OneThreadMoves, FreeContentsStay DEF Arguments
  <2>4. Queue!CallPop(t, "PopFront")
    BY <1>0, <2>1, <2>2, <2>3, MappedItems DEF Queue!CallPop
  <2> QED
    BY <2>4 DEF Queue!QueueNext
<1>2. ASSUME LoadRead(t) \/ CheckEmpty(t) \/ ReadSlot(t) \/ Claim(t), m_readCounter' = m_readCounter
             \/ ~Claim(t)
      PROVE  UNCHANGED Queue!queueVars
  <2>1. /\ pc[t] \in PopSteps
        /\ \E to \in {"LoadRead", "CheckEmpty", "ReadSlot", "Claim"} : pc' = [pc EXCEPT ![t] = to]
        /\ \A u \in Threads \ {t} : item'[u] = item[u]
        /\ result' = result
        /\ UNCHANGED <<m_readCounter, m_committedWriteCounter, m_queue>>
    <3>1. CASE LoadRead(t)
      BY <3>1 DEF LoadRead, Go, sharedVars, PopSteps
    <3>2. CASE CheckEmpty(t)
      BY <3>2 DEF CheckEmpty, Go, sharedVars, PopSteps
    <3>3. CASE ReadSlot(t)
      BY <1>0, <3>3 DEF ReadSlot, Go, sharedVars, PopSteps
    <3>4. CASE Claim(t)
      <4>1. m_readCounter # counter[t]
        <5> SUFFICES ASSUME m_readCounter = counter[t] PROVE FALSE
          OBVIOUS
        <5>1. m_readCounter' = Add(m_readCounter, 1)
          BY <3>4 DEF Claim
        <5>2. m_readCounter + 1 < CounterModulus
          BY SizeAssumption DEF RingInv, CountersInOrder, NoWrap
        <5> QED
          BY <1>2, <3>4, <5>1, <5>2, AddIsPlus
      <4> QED
        BY <3>4, <4>1 DEF Claim, Go, sharedVars, PopSteps
    <3> QED
      BY <1>2, <3>1, <3>2, <3>3, <3>4
  <2>2. CallOf(t)' = CallOf(t) /\ ArgumentOf(t)' = ArgumentOf(t)
    BY <1>0, <2>1 DEF CallOf, ArgumentOf, PopSteps, PushSteps
  <2>3. \A u \in Threads \ {t} : pc'[u] = pc[u]
    BY <1>0, <2>1
  <2> QED
    BY <2>1, <2>2, <2>3, FreeStutter, FreeContentsStay
<1>3. ASSUME ReturnEmpty(t) PROVE Queue!QueueNext
  <2>1. /\ pc[t] = "CheckEmpty" /\ pc' = [pc EXCEPT ![t] = "Idle"]
        /\ item' = [item EXCEPT ![t] = NoItem]
        /\ result' = [result EXCEPT ![t] = NoItem]
        /\ UNCHANGED <<m_readCounter, m_committedWriteCounter, m_queue>>
        /\ counter[t] >= m_committedWriteCounter
    BY <1>3 DEF ReturnEmpty, LooksEmpty, Return, Go, sharedVars
  <2>2. CallOf(t) = "PopFront" /\ CallOf(t)' = "None" /\ ArgumentOf(t)' = NoItem
    BY <1>0, <2>1 DEF CallOf, ArgumentOf, PopSteps, PushSteps
  <2>3. /\ Calls' = [Calls EXCEPT ![t] = "None"]
        /\ Arguments' = [Arguments EXCEPT ![t] = NoItem]
        /\ Contents' = Contents
    BY <2>1, <2>2, OneThreadMoves, FreeContentsStay
  <2>4. Contents = <<>>
    <3>1. n = 0
      BY <2>1 DEF RingInv, CountersInOrder, PopsAreBehind
    <3> QED
      BY <1>a, <3>1, RingIsEmpty
  <2>5. Queue!FindEmpty(t)
    BY <1>0, <2>1, <2>2, <2>3, <2>4, MappedItems DEF Queue!FindEmpty, Queue!Return
  <2> QED
    BY <2>5 DEF Queue!QueueNext
<1>4. ASSUME Claim(t), m_readCounter = counter[t] PROVE Queue!QueueNext
  <2>1. /\ pc[t] = "Claim" /\ pc' = [pc EXCEPT ![t] = "Idle"]
        /\ item' = [item EXCEPT ![t] = NoItem]
        /\ result' = [result EXCEPT ![t] = item[t]]
        /\ m_readCounter' = Add(m_readCounter, 1)
        /\ UNCHANGED <<m_committedWriteCounter, m_queue>>
    BY <1>4 DEF Claim, Return, Go
  <2>2. CallOf(t) = "PopFront" /\ CallOf(t)' = "None" /\ ArgumentOf(t)' = NoItem
    BY <1>0, <2>1 DEF CallOf, ArgumentOf, PopSteps, PushSteps
  <2>3. /\ Calls' = [Calls EXCEPT ![t] = "None"]
        /\ Arguments' = [Arguments EXCEPT ![t] = NoItem]
    BY <2>1, <2>2, OneThreadMoves
  <2>4. m_readCounter' = m_readCounter + 1
    <3>1. m_readCounter + 1 < CounterModulus
      BY SizeAssumption DEF RingInv, CountersInOrder, NoWrap
    <3> QED
      BY <2>1, <3>1, AddIsPlus
  <2>5. n > 0 /\ m_queue[CounterToIndex(m_readCounter)] = item[t]
    BY <1>4, <2>1 DEF RingInv, PopsAreBehind, SlotsKeepTheirItems
  <2>6. Contents # <<>> /\ Head(Contents) = item[t] /\ Contents' = Tail(Contents)
    <3>1. m_committedWriteCounter' - m_readCounter' = n - 1
      BY <2>1, <2>4
    <3> HIDE DEF n
    <3>2. Contents' = Ring(m_queue, m_readCounter + 1, n - 1)
      BY <1>b, <2>1, <2>4, <3>1
    <3> QED
      BY <1>a, <2>5, <3>2, RingLosesHead
  <2>7. Queue!TakeFront(t)
    BY <1>0, <2>1, <2>2, <2>3, <2>6, MappedItems DEF Queue!TakeFront, Queue!Return
  <2> QED
    BY <2>7 DEF Queue!QueueNext
<1>5. CASE Claim(t) /\ m_readCounter # counter[t]
  <2>1. m_readCounter' = m_readCounter
    BY <1>5 DEF Claim, sharedVars
  <2> QED
    BY <1>2, <1>5, <2>1
<1> QED
  BY <1>1, <1>2, <1>3, <1>4, <1>5 DEF Claim, LoadRead, CheckEmpty, ReadSlot, Go

-----------------------------------------------------------------------------
(***************************************************************************)
(* The lock-based queue: the invariant.                                    *)
(***************************************************************************)

\* At most one thread is between the Exchange that took the lock and the Store that
\* gives it back, and the flag is set while one is.
MutualExclusion ==
    \A t \in Threads :
        Locked!HasLock(t) => m_lock = 1 /\ \A u \in Threads : Locked!HasLock(u) => u = t

\* The counters are in order, and what a thread has checked under the lock is still so.
LockedRing ==
    /\ m_readCounter <= m_writeCounter
    /\ m_writeCounter <= m_readCounter + Size
    /\ m_writeCounter <= writes
    /\ \A t \in Threads :
          pc[t] = "Access" /\ operation[t] = "PushBack" => m_writeCounter < m_readCounter + Size
    /\ \A t \in Threads :
          pc[t] = "Access" /\ operation[t] \in Locked!Pops => m_readCounter < m_writeCounter

\* A pop has no result before it takes an item.
NoResultYet ==
    \A t \in Threads :
        pc[t] \in {"Lock", "Check"} /\ operation[t] \in Locked!Pops => result[t] = NoItem

LockInv == MutualExclusion /\ Locked!SizeIsExact
LockedInv == Locked!TypeOK /\ LockInv /\ NoResultYet /\ (NoWrap => LockedRing)

\* The operators that both modules define are the same.
LEMMA SameOperators ==
    /\ \A a, b : Locked!Add(a, b) = Add(a, b)
    /\ \A c : Locked!CounterToIndex(c) = CounterToIndex(c)
    /\ Locked!Indices = Indices
BY DEF Locked!Add, Locked!CounterToIndex, Locked!Indices, Add, CounterToIndex, Indices

\* An index and a size are in range, whatever the counters are.
LEMMA LockedRanges ==
    ASSUME Locked!TypeOK
    PROVE  /\ m_readCounter \in Nat /\ m_writeCounter \in Nat /\ writes \in Nat
           /\ Size \in Nat \ {0} /\ CounterModulus \in Nat \ {0}
           /\ \A k \in Nat : Locked!Add(m_readCounter, k) \in 0 .. CounterModulus - 1
           /\ \A k \in Nat : Locked!Add(m_writeCounter, k) \in 0 .. CounterModulus - 1
           /\ \A c \in Int : Locked!CounterToIndex(c) \in Locked!Indices
           /\ Locked!SizeNow \in 0 .. CounterModulus - 1
BY SizeAssumption, CounterModulusAssumption
   DEF Locked!TypeOK, Locked!Add, Locked!CounterToIndex, Locked!Indices, Locked!SizeNow

\* Every step of the lock-based queue keeps its types.
LEMMA LockedTypeInductive ==
    ASSUME Locked!TypeOK, Locked!Next PROVE Locked!TypeOK'
<1> USE DEF Locked!TypeOK, Locked!counterVars, Locked!GoTo, Locked!Result, Locked!Steps,
            Locked!Operations, Locked!Pops
<1>1. ASSUME NEW t \in Threads, NEW x \in Items, Locked!CallPushBack(t, x) PROVE Locked!TypeOK'
  BY <1>1 DEF Locked!CallPushBack
<1>2. ASSUME NEW t \in Threads, NEW end \in Locked!Pops, Locked!CallPop(t, end)
      PROVE  Locked!TypeOK'
  BY <1>2 DEF Locked!CallPop
<1>3. ASSUME NEW t \in Threads, Locked!CallGetCurrentSize(t) \/ Locked!Lock(t)
      PROVE  Locked!TypeOK'
  BY <1>3 DEF Locked!CallGetCurrentSize, Locked!Lock
<1>4. ASSUME NEW t \in Threads, Locked!CheckRoom(t) \/ Locked!CheckItems(t) PROVE Locked!TypeOK'
  BY <1>4 DEF Locked!CheckRoom, Locked!CheckItems
<1>5. ASSUME NEW t \in Threads, Locked!StoreItem(t) PROVE Locked!TypeOK'
  <2>1. /\ m_writeCounter' \in 0 .. CounterModulus - 1 /\ writes' \in Nat
        /\ Locked!CounterToIndex(m_writeCounter) \in Locked!Indices
    BY <1>5, LockedRanges DEF Locked!StoreItem
  <2> QED
    BY <1>5, <2>1 DEF Locked!StoreItem
<1>6. ASSUME NEW t \in Threads, Locked!TakeFront(t) PROVE Locked!TypeOK'
  <2>1. /\ m_readCounter' \in 0 .. CounterModulus - 1
        /\ Locked!CounterToIndex(m_readCounter) \in Locked!Indices
    BY <1>6, LockedRanges DEF Locked!TakeFront
  <2> QED
    BY <1>6, <2>1 DEF Locked!TakeFront
<1>7. ASSUME NEW t \in Threads, Locked!TakeBack(t) PROVE Locked!TypeOK'
  <2>1. CounterModulus - 1 \in Nat /\ m_writeCounter - 1 \in Int
    BY LockedRanges
  <2>2. /\ m_writeCounter' \in 0 .. CounterModulus - 1
        /\ Locked!CounterToIndex(m_writeCounter - 1) \in Locked!Indices
    BY <1>7, <2>1, LockedRanges DEF Locked!TakeBack
  <2> QED
    BY <1>7, <2>2 DEF Locked!TakeBack
<1>8. ASSUME NEW t \in Threads, Locked!ReadSize(t) PROVE Locked!TypeOK'
  BY <1>8, LockedRanges DEF Locked!ReadSize
<1>9. ASSUME NEW t \in Threads, Locked!Unlock(t) PROVE Locked!TypeOK'
  <2>1. 0 \in 0 .. CounterModulus - 1
    BY LockedRanges
  <2> QED
    BY <1>9, <2>1 DEF Locked!Unlock
<1> QED
  BY <1>1, <1>2, <1>3, <1>4, <1>5, <1>6, <1>7, <1>8, <1>9 DEF Locked!Next

\* A thread outside the lock changes neither the lock nor what it protects.
LEMMA CallKeepsLock ==
    ASSUME Locked!TypeOK, LockInv, NEW t \in Threads, pc[t] = "Idle", Locked!GoTo(t, "Lock"),
           \A u \in Threads \ {t} : operation'[u] = operation[u],
           UNCHANGED <<m_lock, m_readCounter, m_writeCounter, currentSize>>
    PROVE  LockInv'
BY DEF Locked!TypeOK, LockInv, MutualExclusion, Locked!SizeIsExact, Locked!SizeNow,
       Locked!HasLock, Locked!GoTo

\* Every step keeps the lock exclusive, and the size that was read under it right.
LEMMA LockInvInductive ==
    ASSUME Locked!TypeOK, LockInv, Locked!Next PROVE LockInv'
<1> USE DEF Locked!counterVars, Locked!GoTo, Locked!Pops
<1>0. /\ pc \in [Threads -> Locked!Steps] /\ operation \in [Threads -> Locked!Operations]
      /\ currentSize \in [Threads -> 0 .. CounterModulus - 1]
  BY DEF Locked!TypeOK
<1>1. ASSUME NEW t \in Threads,
             \/ \E x \in Items : Locked!CallPushBack(t, x)
             \/ \E end \in Locked!Pops : Locked!CallPop(t, end)
             \/ Locked!CallGetCurrentSize(t)
      PROVE  LockInv'
  <2>1. \A u \in Threads \ {t} : operation'[u] = operation[u]
    BY <1>0, <1>1 DEF Locked!CallPushBack, Locked!CallPop, Locked!CallGetCurrentSize
  <2> QED
    BY <1>1, <2>1, CallKeepsLock
       DEF Locked!CallPushBack, Locked!CallPop, Locked!CallGetCurrentSize
<1>2. ASSUME NEW t \in Threads, Locked!Lock(t) PROVE LockInv'
  \* Nobody has the lock, as the flag was 0.
  BY <1>0, <1>2 DEF Locked!Lock, Locked!IsFree, LockInv, MutualExclusion, Locked!SizeIsExact,
                    Locked!SizeNow, Locked!HasLock
<1>3. ASSUME NEW t \in Threads, Locked!CheckRoom(t) \/ Locked!CheckItems(t) PROVE LockInv'
  BY <1>0, <1>3 DEF Locked!CheckRoom, Locked!CheckItems, LockInv, MutualExclusion,
                    Locked!SizeIsExact, Locked!SizeNow, Locked!HasLock
<1>4. ASSUME NEW t \in Threads, Locked!StoreItem(t) \/ Locked!TakeFront(t) \/ Locked!TakeBack(t)
      PROVE  LockInv'
  \* The counters move, but nobody else has the lock.
  BY <1>0, <1>4 DEF Locked!StoreItem, Locked!TakeFront, Locked!TakeBack, LockInv,
                    MutualExclusion, Locked!SizeIsExact, Locked!HasLock
<1>5. ASSUME NEW t \in Threads, Locked!ReadSize(t) PROVE LockInv'
  BY <1>0, <1>5 DEF Locked!ReadSize, LockInv, MutualExclusion, Locked!SizeIsExact,
                    Locked!SizeNow, Locked!HasLock
<1>6. ASSUME NEW t \in Threads, Locked!Unlock(t) PROVE LockInv'
  BY <1>0, <1>6 DEF Locked!Unlock, LockInv, MutualExclusion, Locked!SizeIsExact,
                    Locked!SizeNow, Locked!HasLock
<1> QED
  BY <1>1, <1>2, <1>3, <1>4, <1>5, <1>6 DEF Locked!Next

\* The number of pushes that have succeeded only grows.
LEMMA LockedNoWrapBefore ==
    ASSUME Locked!TypeOK, NoWrap', Locked!Next PROVE NoWrap
<1>1. writes' = writes \/ writes' = writes + 1
  BY DEF Locked!Next, Locked!CallPushBack, Locked!CallPop, Locked!CallGetCurrentSize,
         Locked!Lock, Locked!CheckRoom, Locked!StoreItem, Locked!CheckItems, Locked!TakeFront,
         Locked!TakeBack, Locked!ReadSize, Locked!Unlock
<1> QED
  BY <1>1, LockedRanges DEF NoWrap

\* Before a wrap, the sums and differences that the code computes are those of the numbers.
LEMMA LockedSums ==
    ASSUME Locked!TypeOK, LockedRing, NoWrap
    PROVE  /\ Locked!Add(m_readCounter, Size) = m_readCounter + Size
           /\ Locked!SizeNow = m_writeCounter - m_readCounter
           /\ m_writeCounter + 1 < CounterModulus =>
                  Locked!Add(m_writeCounter, 1) = m_writeCounter + 1
           /\ m_readCounter < m_writeCounter =>
                  /\ Locked!Add(m_readCounter, 1) = m_readCounter + 1
                  /\ Locked!Add(m_writeCounter, CounterModulus - 1) = m_writeCounter - 1
<1>1. /\ m_readCounter \in Nat /\ m_writeCounter \in Nat /\ writes \in Nat
      /\ Size \in Nat \ {0} /\ CounterModulus \in Nat \ {0}
      /\ m_writeCounter < CounterModulus
  BY LockedRanges DEF Locked!TypeOK
<1>2. /\ m_readCounter <= m_writeCounter /\ m_writeCounter <= writes
      /\ writes + Size < CounterModulus
  BY DEF LockedRing, NoWrap
<1>3. Locked!Add(m_readCounter, Size) = m_readCounter + Size
  BY <1>1, <1>2 DEF Locked!Add
<1>4. Locked!SizeNow = m_writeCounter - m_readCounter
  BY <1>1, <1>2 DEF Locked!SizeNow
<1>5. m_writeCounter + 1 < CounterModulus => Locked!Add(m_writeCounter, 1) = m_writeCounter + 1
  BY <1>1 DEF Locked!Add
<1>6. ASSUME m_readCounter < m_writeCounter
      PROVE  /\ Locked!Add(m_readCounter, 1) = m_readCounter + 1
             /\ Locked!Add(m_writeCounter, CounterModulus - 1) = m_writeCounter - 1
  <2>1. (m_writeCounter + (CounterModulus - 1)) % CounterModulus = m_writeCounter - 1
    <3>1. PICK w \in Nat : w = m_writeCounter - 1
      BY <1>1, <1>6
    <3>2. m_writeCounter + (CounterModulus - 1) = w + CounterModulus /\ w < CounterModulus
      BY <1>1, <3>1
    <3>3. (w + CounterModulus) % CounterModulus = w
      BY <1>1, <3>2
    <3> QED
      BY <3>1, <3>2, <3>3
  <2> QED
    BY <1>1, <1>2, <1>6, <2>1 DEF Locked!Add
<1> QED
  BY <1>3, <1>4, <1>5, <1>6

\* Every step keeps the counters of the lock-based queue in order.
LEMMA LockedRingInductive ==
    ASSUME Locked!TypeOK, LockInv, LockedRing, NoWrap, NoWrap', Locked!Next
    PROVE  LockedRing'
<1> USE DEF Locked!counterVars, Locked!GoTo
<1>0. /\ pc \in [Threads -> Locked!Steps] /\ operation \in [Threads -> Locked!Operations]
      /\ m_readCounter \in Nat /\ m_writeCounter \in Nat /\ writes \in Nat /\ Size \in Nat \ {0}
      /\ CounterModulus \in Nat
  BY LockedRanges DEF Locked!TypeOK
<1>1. ASSUME NEW t \in Threads,
             \/ \E x \in Items : Locked!CallPushBack(t, x)
             \/ \E end \in Locked!Pops : Locked!CallPop(t, end)
             \/ Locked!CallGetCurrentSize(t)
      PROVE  LockedRing'
  <2>1. /\ pc' = [pc EXCEPT ![t] = "Lock"] /\ \A u \in Threads \ {t} : operation'[u] = operation[u]
        /\ UNCHANGED <<m_readCounter, m_writeCounter, writes>>
    BY <1>0, <1>1 DEF Locked!CallPushBack, Locked!CallPop, Locked!CallGetCurrentSize
  <2> QED
    BY <1>0, <2>1 DEF LockedRing
<1>2. ASSUME NEW t \in Threads, Locked!Lock(t) \/ Locked!ReadSize(t) \/ Locked!Unlock(t)
      PROVE  LockedRing'
  <2>1. /\ \E step \in {"Check", "Unlock", "Idle"} : pc' = [pc EXCEPT ![t] = step]
        /\ \A u \in Threads \ {t} : operation'[u] = operation[u]
        /\ UNCHANGED <<m_readCounter, m_writeCounter, writes>>
    BY <1>0, <1>2 DEF Locked!Lock, Locked!ReadSize, Locked!Unlock
  <2> QED
    BY <1>0, <2>1 DEF LockedRing
<1>3. ASSUME NEW t \in Threads, Locked!CheckRoom(t) \/ Locked!CheckItems(t) PROVE LockedRing'
  <2>1. /\ \E step \in {"Access", "Unlock"} :
              /\ pc' = [pc EXCEPT ![t] = step]
              /\ step = "Access" /\ operation[t] = "PushBack" => Locked!HasRoom
              /\ step = "Access" /\ operation[t] \in Locked!Pops => Locked!SizeNow > 0
        /\ UNCHANGED <<m_readCounter, m_writeCounter, writes, operation>>
    BY <1>3 DEF Locked!CheckRoom, Locked!CheckItems, Locked!Pops
  <2>2. /\ Locked!HasRoom <=> m_writeCounter < m_readCounter + Size
        /\ Locked!SizeNow > 0 <=> m_readCounter < m_writeCounter
    BY <1>0, LockedSums DEF Locked!HasRoom
  <2> QED
    BY <1>0, <2>1, <2>2 DEF LockedRing
<1>4. ASSUME NEW t \in Threads, pc[t] = "Access", pc' = [pc EXCEPT ![t] = "Unlock"]
      PROVE  \A u \in Threads : pc'[u] # "Access"
  BY <1>0, <1>4 DEF LockInv, MutualExclusion, Locked!HasLock
<1>5. ASSUME NEW t \in Threads, Locked!StoreItem(t) PROVE LockedRing'
  <2>1. /\ m_writeCounter' = m_writeCounter + 1 /\ writes' = writes + 1
        /\ m_readCounter' = m_readCounter /\ m_writeCounter < m_readCounter + Size
    <3>1. m_writeCounter + 1 < CounterModulus
      BY <1>0, <1>5 DEF Locked!StoreItem, LockedRing, NoWrap
    <3> QED
      BY <1>5, <3>1, LockedSums DEF Locked!StoreItem, LockedRing
  <2>2. \A u \in Threads : pc'[u] # "Access"
    BY <1>4, <1>5 DEF Locked!StoreItem
  <2> QED
    BY <1>0, <2>1, <2>2 DEF LockedRing
<1>6. ASSUME NEW t \in Threads, Locked!TakeFront(t) \/ Locked!TakeBack(t) PROVE LockedRing'
  <2>1. m_readCounter < m_writeCounter
    BY <1>6 DEF Locked!TakeFront, Locked!TakeBack, LockedRing, Locked!Pops
  <2>2. /\ \/ m_readCounter' = m_readCounter + 1 /\ m_writeCounter' = m_writeCounter
           \/ m_readCounter' = m_readCounter /\ m_writeCounter' = m_writeCounter - 1
        /\ writes' = writes
    BY <1>6, <2>1, LockedSums DEF Locked!TakeFront, Locked!TakeBack
  <2>3. \A u \in Threads : pc'[u] # "Access"
    BY <1>4, <1>6 DEF Locked!TakeFront, Locked!TakeBack
  <2> QED
    BY <1>0, <2>1, <2>2, <2>3 DEF LockedRing
<1> QED
  BY <1>1, <1>2, <1>3, <1>5, <1>6 DEF Locked!Next

\* A thread that has not reached its access has no result.
LEMMA NoResultYetInductive ==
    ASSUME Locked!TypeOK, NoResultYet, Locked!Next PROVE NoResultYet'
<1> USE DEF Locked!counterVars, Locked!GoTo, Locked!Result, Locked!Pops
<1>0. /\ pc \in [Threads -> Locked!Steps] /\ operation \in [Threads -> Locked!Operations]
      /\ result \in [Threads -> Items \cup {NoItem} \cup BOOLEAN]
  BY DEF Locked!TypeOK
<1>1. ASSUME NEW t \in Threads,
             \/ \E x \in Items : Locked!CallPushBack(t, x)
             \/ \E end \in Locked!Pops : Locked!CallPop(t, end)
             \/ Locked!CallGetCurrentSize(t)
      PROVE  NoResultYet'
  BY <1>0, <1>1 DEF Locked!CallPushBack, Locked!CallPop, Locked!CallGetCurrentSize, NoResultYet
<1>2. ASSUME NEW t \in Threads,
             \/ Locked!Lock(t) \/ Locked!CheckRoom(t) \/ Locked!StoreItem(t)
             \/ Locked!CheckItems(t) \/ Locked!TakeFront(t) \/ Locked!TakeBack(t)
             \/ Locked!ReadSize(t) \/ Locked!Unlock(t)
      PROVE  NoResultYet'
  BY <1>0, <1>2 DEF Locked!Lock, Locked!CheckRoom, Locked!StoreItem, Locked!CheckItems,
     Locked!TakeFront, Locked!TakeBack, Locked!ReadSize, Locked!Unlock, NoResultYet
<1> QED
  BY <1>1, <1>2 DEF Locked!Next

\* The invariant of the lock-based queue is inductive.
LEMMA LockedInvInductive ==
    ASSUME LockedInv, Locked!Next PROVE LockedInv'
BY LockedTypeInductive, LockInvInductive, NoResultYetInductive,
   LockedRingInductive, LockedNoWrapBefore DEF LockedInv

\* An empty lock-based queue satisfies the invariant.
LEMMA LockedInvInitial ==
    ASSUME Locked!Init PROVE LockedInv
<1>1. Locked!TypeOK
  BY SizeAssumption, CounterModulusAssumption
     DEF Locked!Init, Locked!TypeOK, Locked!Steps, Locked!Operations, Locked!Pops, Locked!Indices
<1>2. LockInv
  BY DEF Locked!Init, LockInv, MutualExclusion, Locked!SizeIsExact, Locked!HasLock
<1>3. LockedRing
  BY SizeAssumption DEF Locked!Init, LockedRing
<1>4. NoResultYet
  BY DEF Locked!Init, NoResultYet
<1> QED
  BY <1>1, <1>2, <1>3, <1>4 DEF LockedInv

-----------------------------------------------------------------------------
(***************************************************************************)
(* The lock-based queue: its steps.                                        *)
(***************************************************************************)

\* Before a wrap, the contents are the slots from the read counter up to the write
\* counter.
LockedContentsAreARing ==
    /\ Locked!Contents = Ring(m_queue, m_readCounter, m_writeCounter - m_readCounter)
    /\ m_writeCounter - m_readCounter \in 0 .. Size
    /\ m_queue \in Buffers

\* What the lock-based queue holds is the ring between its counters.
LEMMA RingOfLockedContents ==
    Locked!TypeOK /\ LockedRing /\ NoWrap => LockedContentsAreARing
<1> SUFFICES ASSUME Locked!TypeOK, LockedRing, NoWrap PROVE LockedContentsAreARing
  OBVIOUS
<1>1. m_writeCounter - m_readCounter \in 0 .. Size
  BY LockedRanges DEF LockedRing
<1>2. Locked!Contents = Ring(m_queue, m_readCounter, m_writeCounter - m_readCounter)
  BY LockedSums, SameOperators DEF Locked!Contents, Ring
<1>3. m_queue \in Buffers
  BY SameOperators DEF Locked!TypeOK, Buffers, Entries
<1> QED
  BY <1>1, <1>2, <1>3 DEF LockedContentsAreARing

\* The same, from the whole invariant.
LEMMA RingOfLockedInv == LockedInv /\ NoWrap => LockedContentsAreARing
BY RingOfLockedContents DEF LockedInv

\* The counters and the slots stay.
LEMMA LockedContentsStay ==
    ASSUME UNCHANGED <<m_readCounter, m_writeCounter, m_queue>>
    PROVE  Locked!Contents' = Locked!Contents
BY DEF Locked!Contents, Locked!SizeNow

\* The items of the queue in use.
LEMMA LockedItems ==
    ~IsLockFree => (IF IsLockFree THEN Contents ELSE Locked!Contents) = Locked!Contents
OBVIOUS

\* A step of one thread, as a user of the queue sees it.
LEMMA OneLockedThreadMoves ==
    ASSUME NEW t \in Threads,
           \A u \in Threads \ {t} :
               pc'[u] = pc[u] /\ operation'[u] = operation[u] /\ item'[u] = item[u],
           NEW c, Locked!CallOf(t)' = c, NEW a, Locked!ArgumentOf(t)' = a
    PROVE  /\ Locked!Calls' = [Locked!Calls EXCEPT ![t] = c]
           /\ Locked!Arguments' = [Locked!Arguments EXCEPT ![t] = a]
           /\ c = Locked!CallOf(t) => Locked!Calls' = Locked!Calls
           /\ a = Locked!ArgumentOf(t) => Locked!Arguments' = Locked!Arguments
<1>1. \A u \in Threads \ {t} :
          Locked!CallOf(u)' = Locked!CallOf(u) /\ Locked!ArgumentOf(u)' = Locked!ArgumentOf(u)
  BY DEF Locked!CallOf, Locked!ArgumentOf
<1>2. /\ Locked!Calls' = [u \in Threads |-> Locked!CallOf(u)']
      /\ Locked!Arguments' = [u \in Threads |-> Locked!ArgumentOf(u)']
  BY DEF Locked!Calls, Locked!Arguments
<1> QED
  BY <1>1, <1>2 DEF Locked!Calls, Locked!Arguments

\* A step that changes nothing that a user of the queue sees.
LEMMA LockedStutter ==
    ASSUME ~IsLockFree, ~IsLockFree', NEW t \in Threads,
           \A u \in Threads \ {t} :
               pc'[u] = pc[u] /\ operation'[u] = operation[u] /\ item'[u] = item[u],
           UNCHANGED <<m_readCounter, m_writeCounter, m_queue>>,
           Locked!CallOf(t)' = Locked!CallOf(t),
           Locked!ArgumentOf(t)' = Locked!ArgumentOf(t),
           result' = result
    PROVE  UNCHANGED Queue!queueVars
<1>1. Locked!Calls' = Locked!Calls /\ Locked!Arguments' = Locked!Arguments
  BY OneLockedThreadMoves
<1> QED
  BY <1>1, LockedContentsStay DEF Queue!queueVars

\* What a step of one thread does to the calls and arguments that a user sees.
LEMMA LockedCalls ==
    ASSUME ~IsLockFree, ~IsLockFree', LockedInv, NEW t \in Threads,
           \/ \E x \in Items : Locked!CallPushBack(t, x)
           \/ \E end \in Locked!Pops : Locked!CallPop(t, end)
           \/ Locked!CallGetCurrentSize(t) \/ Locked!Lock(t)
           \/ Locked!ReadSize(t) \/ Locked!Unlock(t)
    PROVE  Queue!QueueNext \/ UNCHANGED Queue!queueVars
<1> USE DEF Locked!counterVars, Locked!GoTo, Locked!Result
<1>0. /\ pc \in [Threads -> Locked!Steps] /\ operation \in [Threads -> Locked!Operations]
      /\ item \in [Threads -> Items \cup {NoItem}]
      /\ Locked!Calls[t] = Locked!CallOf(t) /\ Locked!Arguments[t] = Locked!ArgumentOf(t)
  BY DEF LockedInv, Locked!TypeOK, Locked!Calls, Locked!Arguments
<1>1. ASSUME NEW x \in Items, Locked!CallPushBack(t, x) PROVE Queue!QueueNext
  <2>1. /\ pc[t] = "Idle" /\ pc' = [pc EXCEPT ![t] = "Lock"]
        /\ operation' = [operation EXCEPT ![t] = "PushBack"]
        /\ item' = [item EXCEPT ![t] = x]
        /\ result' = [result EXCEPT ![t] = NoItem]
        /\ UNCHANGED <<m_readCounter, m_writeCounter, m_queue>>
    BY <1>1 DEF Locked!CallPushBack
  <2>2. Locked!CallOf(t) = "None" /\ Locked!CallOf(t)' = "Push" /\ Locked!ArgumentOf(t)' = x
    BY <1>0, <2>1 DEF Locked!CallOf, Locked!ArgumentOf, Locked!Pops
  <2>3. /\ Locked!Calls' = [Locked!Calls EXCEPT ![t] = "Push"]
        /\ Locked!Arguments' = [Locked!Arguments EXCEPT ![t] = x]
        /\ Locked!Contents' = Locked!Contents
    BY <2>1, <2>2, OneLockedThreadMoves, LockedContentsStay
  <2>4. Queue!CallPush(t, x)
    BY <1>0, <2>1, <2>2, <2>3, LockedItems DEF Queue!CallPush
  <2> QED
    BY <2>4 DEF Queue!QueueNext
<1>2. ASSUME NEW end \in Locked!Pops, Locked!CallPop(t, end) PROVE Queue!QueueNext
  <2>1. /\ pc[t] = "Idle" /\ pc' = [pc EXCEPT ![t] = "Lock"]
        /\ operation' = [operation EXCEPT ![t] = end]
        /\ item' = item
        /\ result' = [result EXCEPT ![t] = NoItem]
        /\ UNCHANGED <<m_readCounter, m_writeCounter, m_queue>>
        /\ end \in {"PopFront", "PopBack"}
    BY <1>2 DEF Locked!CallPop, Locked!Pops
  <2>2. Locked!CallOf(t) = "None" /\ Locked!CallOf(t)' = end
        /\ Locked!ArgumentOf(t) = NoItem /\ Locked!ArgumentOf(t)' = NoItem
    BY <1>0, <2>1 DEF Locked!CallOf, Locked!ArgumentOf, Locked!Pops
  <2>3. /\ Locked!Calls' = [Locked!Calls EXCEPT ![t] = end]
        /\ Locked!Arguments' = Locked!Arguments
        /\ Locked!Contents' = Locked!Contents
    BY <2>1, <2>2, OneLockedThreadMoves, LockedContentsStay
  <2>4. Queue!CallPop(t, end)
    BY <1>0, <2>1, <2>2, <2>3, LockedItems DEF Queue!CallPop
  <2> QED
    BY <2>1, <2>4 DEF Queue!QueueNext
<1>3. ASSUME \/ Locked!CallGetCurrentSize(t) \/ Locked!Lock(t)
             \/ Locked!ReadSize(t) \/ Locked!Unlock(t)
      PROVE  UNCHANGED Queue!queueVars
  <2>1. /\ \A u \in Threads \ {t} :
              pc'[u] = pc[u] /\ operation'[u] = operation[u] /\ item'[u] = item[u]
        /\ UNCHANGED <<m_readCounter, m_writeCounter, m_queue>>
        /\ result' = result
    BY <1>0, <1>3
       DEF Locked!CallGetCurrentSize, Locked!Lock, Locked!ReadSize, Locked!Unlock
  <2>2. Locked!CallOf(t)' = Locked!CallOf(t) /\ Locked!ArgumentOf(t)' = Locked!ArgumentOf(t)
    BY <1>0, <1>3
       DEF Locked!CallGetCurrentSize, Locked!Lock, Locked!ReadSize, Locked!Unlock,
           Locked!CallOf, Locked!ArgumentOf, Locked!Pops
  <2> QED
    BY <2>1, <2>2, LockedStutter
<1> QED
  BY <1>1, <1>2, <1>3

\* What a thread finds out under the lock: nobody else has a reservation.
LEMMA LockedChecks ==
    ASSUME ~IsLockFree, ~IsLockFree', LockedInv, NoWrap, NEW t \in Threads,
           Locked!CheckRoom(t) \/ Locked!CheckItems(t)
    PROVE  Queue!QueueNext \/ UNCHANGED Queue!queueVars
<1> USE DEF Locked!counterVars, Locked!GoTo, Locked!Result
<1>0. /\ pc \in [Threads -> Locked!Steps] /\ operation \in [Threads -> Locked!Operations]
      /\ item \in [Threads -> Items \cup {NoItem}]
      /\ result \in [Threads -> Items \cup {NoItem} \cup BOOLEAN]
      /\ Locked!Calls[t] = Locked!CallOf(t) /\ Locked!Arguments[t] = Locked!ArgumentOf(t)
      /\ m_readCounter \in Nat /\ m_writeCounter \in Nat /\ Size \in Nat
  BY LockedRanges DEF LockedInv, Locked!TypeOK, Locked!Calls, Locked!Arguments
<1>1. /\ UNCHANGED <<m_readCounter, m_writeCounter, m_queue, operation, item>>
      /\ Locked!Contents' = Locked!Contents
      /\ pc[t] = "Check" /\ \A u \in Threads \ {t} : pc'[u] = pc[u]
  <2>1. /\ UNCHANGED <<m_readCounter, m_writeCounter, m_queue, operation, item>>
        /\ pc[t] = "Check" /\ \A u \in Threads \ {t} : pc'[u] = pc[u]
    BY <1>0 DEF Locked!CheckRoom, Locked!CheckItems
  <2> QED
    BY <2>1, LockedContentsStay
<1>2. /\ Locked!SizeNow = m_writeCounter - m_readCounter
      /\ Len(Locked!Contents) = m_writeCounter - m_readCounter
      /\ Locked!SizeNow = 0 => Locked!Contents = <<>>
      /\ Locked!HasRoom <=> m_writeCounter < m_readCounter + Size
      /\ m_writeCounter - m_readCounter \in 0 .. Size
  <2>1. LockedContentsAreARing
    BY RingOfLockedContents DEF LockedInv
  <2>2. PICK n \in Nat : n = m_writeCounter - m_readCounter
    BY <2>1 DEF LockedContentsAreARing
  <2>3. Locked!Contents = Ring(m_queue, m_readCounter, n) /\ m_queue \in Buffers
    BY <2>1, <2>2 DEF LockedContentsAreARing
  <2>4. Len(Locked!Contents) = n
    BY <1>0, <2>3, RingIsSequence
  <2>5. n = 0 => Locked!Contents = <<>>
    BY <2>3, RingIsEmpty
  <2>6. Locked!SizeNow = n /\ (Locked!HasRoom <=> m_writeCounter < m_readCounter + Size)
    BY <2>2, LockedSums DEF LockedInv, Locked!HasRoom
  <2> QED
    BY <2>1, <2>2, <2>4, <2>5, <2>6 DEF LockedContentsAreARing
<1>3. Queue!Cardinality(Queue!Reserved) = 0
  <2>1. \A u \in Threads : Locked!CallOf(u) # "Reserved"
    BY <1>1 DEF LockedInv, LockInv, MutualExclusion, Locked!HasLock, Locked!CallOf, Locked!Pops
  <2>2. Queue!Reserved = {}
    BY <2>1 DEF Queue!Reserved, Locked!Calls
  <2> QED
    BY <2>2, SameCardinality, FS_EmptySet
<1>4. ASSUME Locked!CheckRoom(t), Locked!HasRoom, pc' = [pc EXCEPT ![t] = "Access"], result' = result
      PROVE  Queue!QueueNext
  <2>1. Locked!CallOf(t) = "Push" /\ Locked!CallOf(t)' = "Reserved"
        /\ Locked!ArgumentOf(t)' = Locked!ArgumentOf(t)
    BY <1>0, <1>1, <1>4 DEF Locked!CheckRoom, Locked!CallOf, Locked!ArgumentOf, Locked!Pops
  <2>2. /\ Locked!Calls' = [Locked!Calls EXCEPT ![t] = "Reserved"]
        /\ Locked!Arguments' = Locked!Arguments
    BY <1>1, <2>1, OneLockedThreadMoves
  <2>3. Len(Locked!Contents) + Queue!Cardinality(Queue!Reserved) < Size
    BY <1>0, <1>2, <1>3, <1>4
  <2>4. Queue!Reserve(t)
    BY <1>0, <1>1, <1>4, <2>1, <2>2, <2>3, LockedItems DEF Queue!Reserve
  <2> QED
    BY <2>4 DEF Queue!QueueNext
<1>5. ASSUME Locked!CheckRoom(t), ~Locked!HasRoom, pc' = [pc EXCEPT ![t] = "Unlock"],
             result' = [result EXCEPT ![t] = FALSE]
      PROVE  Queue!QueueNext
  <2>1. Locked!CallOf(t) = "Push" /\ Locked!CallOf(t)' = "None" /\ Locked!ArgumentOf(t)' = NoItem
    BY <1>0, <1>1, <1>5 DEF Locked!CheckRoom, Locked!CallOf, Locked!ArgumentOf, Locked!Pops
  <2>2. /\ Locked!Calls' = [Locked!Calls EXCEPT ![t] = "None"]
        /\ Locked!Arguments' = [Locked!Arguments EXCEPT ![t] = NoItem]
    BY <1>1, <2>1, OneLockedThreadMoves
  <2>3. Len(Locked!Contents) + Queue!Cardinality(Queue!Reserved) = Size
    BY <1>0, <1>2, <1>3, <1>5
  <2>4. Queue!Refuse(t)
    BY <1>0, <1>1, <1>5, <2>1, <2>2, <2>3, LockedItems DEF Queue!Refuse, Queue!Return
  <2> QED
    BY <2>4 DEF Queue!QueueNext
<1>6. ASSUME Locked!CheckItems(t), pc' = [pc EXCEPT ![t] = "Access"] PROVE UNCHANGED Queue!queueVars
  <2>1. Locked!CallOf(t)' = Locked!CallOf(t) /\ Locked!ArgumentOf(t)' = Locked!ArgumentOf(t)
    BY <1>0, <1>1, <1>6 DEF Locked!CheckItems, Locked!CallOf, Locked!ArgumentOf, Locked!Pops
  <2> QED
    BY <1>1, <1>6, <2>1, LockedStutter DEF Locked!CheckItems
<1>7. ASSUME Locked!CheckItems(t), Locked!SizeNow = 0, pc' = [pc EXCEPT ![t] = "Unlock"]
      PROVE  Queue!QueueNext
  <2>1. /\ Locked!CallOf(t) \in {"PopFront", "PopBack"} /\ Locked!CallOf(t)' = "None"
        /\ Locked!ArgumentOf(t)' = NoItem
    BY <1>0, <1>1, <1>7 DEF Locked!CheckItems, Locked!CallOf, Locked!ArgumentOf, Locked!Pops
  <2>2. /\ Locked!Calls' = [Locked!Calls EXCEPT ![t] = "None"]
        /\ Locked!Arguments' = [Locked!Arguments EXCEPT ![t] = NoItem]
    BY <1>1, <2>1, OneLockedThreadMoves
  <2>3. result' = [result EXCEPT ![t] = NoItem]
    <3>1. result[t] = NoItem /\ result' = result
      BY <1>1, <1>7 DEF Locked!CheckItems, LockedInv, NoResultYet
    <3> QED
      BY <1>0, <3>1
  <2>4. Queue!FindEmpty(t)
    BY <1>0, <1>1, <1>2, <1>7, <2>1, <2>2, <2>3, LockedItems DEF Queue!FindEmpty, Queue!Return
  <2> QED
    BY <2>4 DEF Queue!QueueNext
<1> QED
  BY <1>4, <1>5, <1>6, <1>7 DEF Locked!CheckRoom, Locked!CheckItems

\* What a thread does under the lock with what it has found out.
LEMMA LockedAccesses ==
    ASSUME ~IsLockFree, ~IsLockFree', LockedInv, LockedInv', NoWrap, NoWrap', NEW t \in Threads,
           Locked!StoreItem(t) \/ Locked!TakeFront(t) \/ Locked!TakeBack(t)
    PROVE  Queue!QueueNext
<1> USE DEF Locked!counterVars, Locked!GoTo, Locked!Result
<1> DEFINE n == m_writeCounter - m_readCounter
<1>0. /\ pc \in [Threads -> Locked!Steps] /\ operation \in [Threads -> Locked!Operations]
      /\ item \in [Threads -> Items \cup {NoItem}]
      /\ Locked!Calls[t] = Locked!CallOf(t) /\ Locked!Arguments[t] = Locked!ArgumentOf(t)
      /\ m_readCounter \in Nat /\ m_writeCounter \in Nat /\ Size \in Nat
      /\ writes \in Nat /\ CounterModulus \in Nat
  BY LockedRanges DEF LockedInv, Locked!TypeOK, Locked!Calls, Locked!Arguments
<1>1. /\ n \in Nat /\ m_queue \in Buffers
      /\ Locked!Contents = Ring(m_queue, m_readCounter, n)
  BY RingOfLockedContents DEF LockedInv, LockedContentsAreARing
<1>2. Locked!Contents' = Ring(m_queue', m_readCounter', m_writeCounter' - m_readCounter')
      /\ m_queue' \in Buffers
  <2>1. LockedContentsAreARing'
    BY RingOfLockedInv, PTL
  <2> QED
    BY <2>1 DEF LockedContentsAreARing, Ring, Buffers
<1>3. ASSUME Locked!StoreItem(t) PROVE Queue!QueueNext
  <2>1. /\ pc[t] = "Access" /\ operation[t] = "PushBack" /\ pc' = [pc EXCEPT ![t] = "Unlock"]
        /\ m_queue' = [m_queue EXCEPT ![CounterToIndex(m_writeCounter)] = item[t]]
        /\ result' = [result EXCEPT ![t] = TRUE]
        /\ UNCHANGED <<m_readCounter, operation, item>>
    BY <1>3, SameOperators DEF Locked!StoreItem
  <2>2. Locked!CallOf(t) = "Reserved" /\ Locked!CallOf(t)' = "None"
        /\ Locked!ArgumentOf(t) = item[t] /\ Locked!ArgumentOf(t)' = NoItem
    BY <1>0, <2>1 DEF Locked!CallOf, Locked!ArgumentOf, Locked!Pops
  <2>3. /\ Locked!Calls' = [Locked!Calls EXCEPT ![t] = "None"]
        /\ Locked!Arguments' = [Locked!Arguments EXCEPT ![t] = NoItem]
    BY <1>0, <2>1, <2>2, OneLockedThreadMoves
  <2>4. m_writeCounter < m_readCounter + Size /\ m_writeCounter' = m_writeCounter + 1
    <3>1. m_writeCounter < m_readCounter + Size /\ m_writeCounter + 1 < CounterModulus
      BY <1>0, <1>3, <2>1 DEF LockedInv, LockedRing, NoWrap, Locked!StoreItem
    <3> QED
      BY <1>3, <3>1, LockedSums DEF LockedInv, Locked!StoreItem
  <2>5. Locked!Contents' = Append(Locked!Contents, item[t])
    <3>1. m_writeCounter = m_readCounter + n /\ m_writeCounter' - m_readCounter' = n + 1
          /\ m_writeCounter < m_readCounter + Size /\ m_readCounter' = m_readCounter
      BY <1>0, <2>1, <2>4
    <3>2. CounterToIndex(m_writeCounter) \in Indices
      BY <1>0, IndexInRange
    <3>3. /\ \A j \in Indices : j # CounterToIndex(m_writeCounter) => m_queue'[j] = m_queue[j]
          /\ m_queue'[CounterToIndex(m_writeCounter)] = item[t]
      BY <1>1, <2>1, <3>2 DEF Buffers
    <3> HIDE DEF n
    <3>4. Ring(m_queue', m_readCounter, n) = Ring(m_queue, m_readCounter, n)
      <4>1. m_readCounter + n <= m_writeCounter
        BY <1>0, <1>1, <3>1
      <4> QED
        BY <1>0, <1>1, <3>1, <3>3, <4>1, RingKept
    <3>5. Ring(m_queue', m_readCounter, n + 1) =
              Append(Ring(m_queue', m_readCounter, n), m_queue'[CounterToIndex(m_readCounter + n)])
      BY <1>0, <1>1, <1>2, RingGrows
    <3> QED
      BY <1>1, <1>2, <3>1, <3>3, <3>4, <3>5
  <2>6. Queue!Insert(t)
    BY <1>0, <2>1, <2>2, <2>3, <2>5, LockedItems DEF Queue!Insert, Queue!Return
  <2> QED
    BY <2>6 DEF Queue!QueueNext
<1>4. ASSUME Locked!TakeFront(t) PROVE Queue!QueueNext
  <2>1. /\ pc[t] = "Access" /\ operation[t] = "PopFront" /\ pc' = [pc EXCEPT ![t] = "Unlock"]
        /\ result' = [result EXCEPT ![t] = m_queue[CounterToIndex(m_readCounter)]]
        /\ UNCHANGED <<m_writeCounter, m_queue, operation, item>>
    BY <1>4, SameOperators DEF Locked!TakeFront
  <2>2. Locked!CallOf(t) = "PopFront" /\ Locked!CallOf(t)' = "None"
        /\ Locked!ArgumentOf(t)' = NoItem
    BY <1>0, <2>1 DEF Locked!CallOf, Locked!ArgumentOf, Locked!Pops
  <2>3. /\ Locked!Calls' = [Locked!Calls EXCEPT ![t] = "None"]
        /\ Locked!Arguments' = [Locked!Arguments EXCEPT ![t] = NoItem]
    BY <1>0, <2>1, <2>2, OneLockedThreadMoves
  <2>4. n > 0 /\ m_readCounter' = m_readCounter + 1
    <3>1. m_readCounter < m_writeCounter
      BY <2>1 DEF LockedInv, LockedRing, Locked!Pops
    <3> QED
      BY <1>0, <1>4, <3>1, LockedSums DEF LockedInv, Locked!TakeFront
  <2>5. /\ Locked!Contents # <<>>
        /\ Head(Locked!Contents) = m_queue[CounterToIndex(m_readCounter)]
        /\ Locked!Contents' = Tail(Locked!Contents)
    <3>1. m_writeCounter' - m_readCounter' = n - 1
      BY <1>0, <2>1, <2>4
    <3> HIDE DEF n
    <3>2. Locked!Contents' = Ring(m_queue, m_readCounter + 1, n - 1)
      BY <1>2, <2>1, <2>4, <3>1
    <3> QED
      BY <1>0, <1>1, <2>4, <3>2, RingLosesHead
  <2>6. Queue!TakeFront(t)
    BY <1>0, <2>1, <2>2, <2>3, <2>5, LockedItems DEF Queue!TakeFront, Queue!Return
  <2> QED
    BY <2>6 DEF Queue!QueueNext
<1>5. ASSUME Locked!TakeBack(t) PROVE Queue!QueueNext
  <2>1. /\ pc[t] = "Access" /\ operation[t] = "PopBack" /\ pc' = [pc EXCEPT ![t] = "Unlock"]
        /\ result' = [result EXCEPT ![t] = m_queue[CounterToIndex(m_writeCounter - 1)]]
        /\ UNCHANGED <<m_readCounter, m_queue, operation, item>>
    BY <1>5, SameOperators DEF Locked!TakeBack
  <2>2. Locked!CallOf(t) = "PopBack" /\ Locked!CallOf(t)' = "None"
        /\ Locked!ArgumentOf(t)' = NoItem
    BY <1>0, <2>1 DEF Locked!CallOf, Locked!ArgumentOf, Locked!Pops
  <2>3. /\ Locked!Calls' = [Locked!Calls EXCEPT ![t] = "None"]
        /\ Locked!Arguments' = [Locked!Arguments EXCEPT ![t] = NoItem]
    BY <1>0, <2>1, <2>2, OneLockedThreadMoves
  <2>4. n > 0 /\ m_writeCounter' = m_writeCounter - 1
    <3>1. m_readCounter < m_writeCounter
      BY <2>1 DEF LockedInv, LockedRing, Locked!Pops
    <3> QED
      BY <1>0, <1>5, <3>1, LockedSums DEF LockedInv, Locked!TakeBack
  <2>5. /\ Locked!Contents # <<>>
        /\ Locked!Contents[Len(Locked!Contents)] = m_queue[CounterToIndex(m_writeCounter - 1)]
        /\ Locked!Contents' = SubSeq(Locked!Contents, 1, Len(Locked!Contents) - 1)
    <3>1. m_writeCounter' - m_readCounter' = n - 1 /\ m_writeCounter - 1 = m_readCounter + n - 1
      BY <1>0, <2>1, <2>4
    <3> HIDE DEF n
    <3>2. Locked!Contents' = Ring(m_queue, m_readCounter, n - 1)
      BY <1>2, <2>1, <3>1
    <3>3. /\ Ring(m_queue, m_readCounter, n) # <<>> /\ Len(Ring(m_queue, m_readCounter, n)) = n
          /\ Ring(m_queue, m_readCounter, n)[n] = m_queue[CounterToIndex(m_readCounter + n - 1)]
          /\ SubSeq(Ring(m_queue, m_readCounter, n), 1, n - 1) = Ring(m_queue, m_readCounter, n - 1)
      BY <1>0, <1>1, <2>4, RingLosesLast
    <3> QED
      BY <1>1, <3>1, <3>2, <3>3
  <2>6. Queue!TakeBack(t)
    BY <1>0, <2>1, <2>2, <2>3, <2>5, LockedItems DEF Queue!TakeBack, Queue!Return
  <2> QED
    BY <2>6 DEF Queue!QueueNext
<1> QED
  BY <1>3, <1>4, <1>5

-----------------------------------------------------------------------------
(***************************************************************************)
(* Both queues.                                                            *)
(***************************************************************************)

QueuesInv == IF IsLockFree THEN QueueInv ELSE LockedInv

\* Either queue starts in its invariant.
LEMMA QueuesInvInitial == QueuesInit => QueuesInv
BY QueueInvInitial, LockedInvInitial DEF QueuesInit, QueuesInv

\* Every step of either queue keeps its invariant.
LEMMA QueuesInvInductive == QueuesInv /\ [QueuesNext]_queuesVars => QueuesInv'
<1> SUFFICES ASSUME QueuesInv, [QueuesNext]_queuesVars PROVE QueuesInv'
  OBVIOUS
<1>1. kind' = kind /\ (IsLockFree' <=> IsLockFree)
  BY DEF QueuesNext, queuesVars, IsLockFree
<1>2. CASE IsLockFree
  <2>1. [Next]_vars
    BY <1>2 DEF QueuesNext, queuesVars
  <2> QED
    BY <1>1, <1>2, <2>1, QueueInvInductive DEF QueuesInv
<1>3. CASE ~IsLockFree
  <2>1. CASE Locked!Next
    BY <1>1, <1>3, <2>1, LockedInvInductive DEF QueuesInv
  <2>2. CASE UNCHANGED queuesVars
    BY <1>1, <1>3, <2>2
       DEF queuesVars, lockVars, vars, sharedVars, localVars, QueuesInv, LockedInv,
           Locked!TypeOK, LockInv, MutualExclusion, Locked!SizeIsExact, Locked!SizeNow,
           Locked!HasLock, NoResultYet, LockedRing, NoWrap
  <2> QED
    BY <1>3, <2>1, <2>2 DEF QueuesNext
<1> QED
  BY <1>2, <1>3

\* The invariant of the queue in use (LockFreePtrQueue, LockBasedPtrQueue).
THEOREM QueuesInvCorrect == QueuesSpec => []QueuesInv
BY QueuesInvInitial, QueuesInvInductive, PTL DEF QueuesSpec

\* Type correctness of both ring buffers, wrapped or not: every counter stays one, and
\* every index that is computed from a counter is one of the buffer.
THEOREM QueuesTypeCorrect == QueuesSpec => []QueuesTypeOK
<1>1. QueuesInv => QueuesTypeOK
  BY DEF QueuesInv, QueueInv, LockedInv, QueuesTypeOK
<1> QED
  BY <1>1, QueuesInvCorrect, PTL

\* What GetCurrentSize has read under the lock is still the size when the lock is given
\* back, wrapped or not (SpinLock, LockGuard, GetCurrentSize).
THEOREM SizeIsExactCorrect == QueuesSpec => []SizeIsExact
<1>1. QueuesInv => SizeIsExact
  BY DEF QueuesInv, LockedInv, LockInv, SizeIsExact
<1> QED
  BY <1>1, QueuesInvCorrect, PTL

\* An empty queue of either kind is an empty PtrQueue.
LEMMA QueuesStart == QueuesInit => Queue!QueueInit
<1> SUFFICES ASSUME QueuesInit PROVE Queue!QueueInit
  OBVIOUS
<1>1. CASE IsLockFree
  <2>1. Contents = <<>>
    <3>1. Distance(m_readCounter, m_committedWriteCounter) = 0
      BY CounterModulusAssumption DEF QueuesInit, Init, Distance
    <3> QED
      BY <3>1 DEF Contents
  <2>2. /\ Calls = [t \in Threads |-> "None"]
        /\ Arguments = [t \in Threads |-> NoItem]
        /\ result = [t \in Threads |-> NoItem]
    BY DEF QueuesInit, Init, Calls, Arguments, CallOf, ArgumentOf, PushSteps, PopSteps
  <2> QED
    BY <1>1, <2>1, <2>2 DEF Queue!QueueInit
<1>2. CASE ~IsLockFree
  <2>1. Locked!Contents = <<>>
    <3>1. Locked!SizeNow = 0
      BY CounterModulusAssumption DEF QueuesInit, Locked!Init, Locked!SizeNow
    <3> QED
      BY <3>1 DEF Locked!Contents
  <2>2. /\ Locked!Calls = [t \in Threads |-> "None"]
        /\ Locked!Arguments = [t \in Threads |-> NoItem]
        /\ result = [t \in Threads |-> NoItem]
    BY DEF QueuesInit, Locked!Init, Locked!Calls, Locked!Arguments, Locked!CallOf,
           Locked!ArgumentOf, Locked!Pops
  <2> QED
    BY <1>2, <2>1, <2>2 DEF Queue!QueueInit
<1> QED
  BY <1>1, <1>2

\* A step of either queue is a step of PtrQueue, or changes nothing that a user sees.
LEMMA QueuesStep ==
    QueuesInv /\ QueuesInv' /\ NoWrap /\ NoWrap' /\ [QueuesNext]_queuesVars
        => [Queue!QueueNext]_(Queue!queueVars)
<1> SUFFICES ASSUME QueuesInv, QueuesInv', NoWrap, NoWrap', [QueuesNext]_queuesVars
             PROVE  Queue!QueueNext \/ UNCHANGED Queue!queueVars
  OBVIOUS
<1>1. kind' = kind /\ (IsLockFree' <=> IsLockFree)
  BY DEF QueuesNext, queuesVars, IsLockFree
<1>2. CASE UNCHANGED queuesVars
  <2>1. /\ Contents' = Contents /\ Calls' = Calls /\ Arguments' = Arguments
    BY <1>2 DEF queuesVars, vars, sharedVars, localVars, Contents, Distance, Calls, Arguments,
                CallOf, ArgumentOf
  <2>2. /\ Locked!Contents' = Locked!Contents
        /\ Locked!Calls' = Locked!Calls /\ Locked!Arguments' = Locked!Arguments
    BY <1>2 DEF queuesVars, lockVars, vars, sharedVars, localVars, Locked!Contents,
                Locked!SizeNow, Locked!Calls, Locked!Arguments, Locked!CallOf,
                Locked!ArgumentOf
  <2>3. result' = result
    BY <1>2 DEF queuesVars, vars, localVars
  <2> QED
    BY <1>1, <2>1, <2>2, <2>3 DEF Queue!queueVars
<1>3. CASE IsLockFree /\ Next
  <2>1. TypeOK /\ RingInv /\ TypeOK' /\ RingInv'
    BY <1>1, <1>3 DEF QueuesInv, QueueInv
  <2> QED
    BY <1>1, <1>3, <2>1, FreePushes, FreeInserts, FreePops DEF Next, Continue
<1>4. CASE ~IsLockFree /\ Locked!Next
  <2>1. LockedInv /\ LockedInv'
    BY <1>1, <1>4 DEF QueuesInv
  <2> QED
    BY <1>1, <1>4, <2>1, LockedCalls, LockedChecks, LockedAccesses DEF Locked!Next
<1> QED
  BY <1>2, <1>3, <1>4 DEF QueuesNext

\* Both ring buffers are bounded queues, as long as no counter wraps: each operation takes
\* effect at one of its own steps, an item is popped once and never before it is stored,
\* from the front in push order, and a push is refused only when the queue is full.
THEOREM ImplementsPtrQueueCorrect == QueuesSpec /\ []NoWrap => ImplementsPtrQueue
<1>1. QueuesSpec => []QueuesInv
  BY QueuesInvCorrect
<1> QED
  BY <1>1, QueuesStart, QueuesStep, PTL DEF QueuesSpec, ImplementsPtrQueue, Queue!QueueSpec
=============================================================================
