------------------------ MODULE LockFreePtrQueueProofs ------------------------
(***************************************************************************)
(* Theorems about LockFreePtrQueue, for any number of threads and items,   *)
(* any size and any width of the counters, up to the first wrap of a       *)
(* counter or of a sum that the code compares.                             *)
(*                                                                         *)
(* The argument: the counters stay in order (read, committed, write, read  *)
(* + Size), every slot between the committed and the write counter belongs *)
(* to one push, and a value that a thread has loaded from a counter can    *)
(* only have become too small, which its CompareExchange finds out.        *)
(***************************************************************************)
EXTENDS LockFreePtrQueue, TLAPS

\* No counter and no sum of a counter and Size has wrapped.  In the code this holds for
\* the first 2^32 - SIZE pushes of a queue.
NoWrap == writes + Size < CounterModulus

\* The steps of a push that has reserved its slot.
Holding == {"Store", "Commit"}

CountersInOrder ==
    /\ m_writeCounter = writes
    /\ m_readCounter <= m_committedWriteCounter
    /\ m_committedWriteCounter <= m_writeCounter
    /\ m_writeCounter <= m_readCounter + Size

\* The slots from the committed counter on belong to one push each, up to the write
\* counter, and the next one is within Size of the read counter when it is reserved.
EverySlotHasOnePush ==
    /\ \A t \in Threads : pc[t] = "CheckFull" => counter[t] <= m_writeCounter
    /\ \A t \in Threads : pc[t] = "Reserve" => counter[t] < m_readCounter + Size
    /\ \A t \in Threads :
          pc[t] \in Holding =>
              m_committedWriteCounter <= counter[t] /\ counter[t] < m_writeCounter
    /\ \A t, u \in Threads :
          pc[t] \in Holding /\ pc[u] \in Holding /\ counter[t] = counter[u] => t = u
    /\ \A p \in m_committedWriteCounter .. m_writeCounter - 1 :
          \E t \in Threads : pc[t] \in Holding /\ counter[t] = p

\* What a pop has loaded is not ahead of the read counter, and it reads a committed slot.
PopsAreBehind ==
    /\ \A t \in Threads :
          pc[t] \in {"CheckEmpty", "ReadSlot", "Claim"} => counter[t] <= m_readCounter
    /\ \A t \in Threads :
          pc[t] \in {"ReadSlot", "Claim"} => counter[t] < m_committedWriteCounter

\* A slot holds what its push has stored until a pop claims it.
SlotsKeepTheirItems ==
    /\ \A t \in Threads :
          pc[t] = "Commit" => m_queue[CounterToIndex(counter[t])] = item[t]
    /\ \A t \in Threads :
          pc[t] = "Claim" /\ counter[t] = m_readCounter
              => m_queue[CounterToIndex(counter[t])] = item[t]

RingInv ==
    CountersInOrder /\ EverySlotHasOnePush /\ PopsAreBehind /\ SlotsKeepTheirItems

QueueInv == TypeOK /\ (NoWrap => RingInv)

-----------------------------------------------------------------------------
(***************************************************************************)
(* Arithmetic of the counters.                                             *)
(***************************************************************************)

\* A sum that does not reach the modulus is not wrapped.
LEMMA AddIsPlus ==
    ASSUME NEW a \in Nat, NEW b \in Nat, a + b < CounterModulus
    PROVE  Add(a, b) = a + b
BY CounterModulusAssumption DEF Add

\* Every sum is a counter value, and every counter value is the one of a slot.
LEMMA AddIsCounter ==
    ASSUME NEW a \in Nat, NEW b \in Nat PROVE Add(a, b) \in Counters
BY CounterModulusAssumption DEF Add, Counters

\* A counter has a slot.
LEMMA IndexInRange ==
    ASSUME NEW c \in Nat PROVE CounterToIndex(c) \in Indices
BY SizeAssumption DEF CounterToIndex, Indices

\* Counter values that differ by less than Size are of different slots.
LEMMA NearCountersDiffer ==
    ASSUME NEW a \in Nat, NEW b \in Nat, a < b, b < a + Size
    PROVE  CounterToIndex(a) # CounterToIndex(b)
<1> SUFFICES ASSUME a % Size = b % Size PROVE FALSE
  BY DEF CounterToIndex
<1> DEFINE p == a \div Size
           q == b \div Size
<1>1. a = Size * p + (a % Size) /\ b = Size * q + (b % Size) /\ p \in Int /\ q \in Int
  BY SizeAssumption
<1>2. b - a = Size * (q - p)
  BY <1>1, SizeAssumption
<1>3. CASE q - p <= 0
  BY <1>1, <1>2, <1>3, SizeAssumption
<1>4. CASE q - p >= 1
  BY <1>1, <1>2, <1>4, SizeAssumption
<1> QED
  BY <1>1, <1>3, <1>4

-----------------------------------------------------------------------------
(***************************************************************************)
(* Types.                                                                  *)
(***************************************************************************)

\* Every step keeps the types.
LEMMA TypeInductive == TypeOK /\ [Next]_vars => TypeOK'
<1> SUFFICES ASSUME TypeOK, [Next]_vars PROVE TypeOK'
  OBVIOUS
<1>0. Counters \subseteq Nat /\ 0 \in Counters
  BY CounterModulusAssumption DEF Counters
<1>1. ASSUME NEW t \in Threads, NEW x \in Items, CallPushBack(t, x) PROVE TypeOK'
  BY <1>1 DEF TypeOK, CallPushBack, Go, sharedVars, PushSteps, PopSteps
<1>2. ASSUME NEW t \in Threads, CallPopFront(t) \/ LoadWrite(t) \/ CheckFull(t) PROVE TypeOK'
  BY <1>2 DEF TypeOK, CallPopFront, LoadWrite, CheckFull, Go, sharedVars, PushSteps, PopSteps
<1>3. ASSUME NEW t \in Threads, RefusePush(t) \/ ReturnEmpty(t) PROVE TypeOK'
  BY <1>0, <1>3 DEF TypeOK, RefusePush, ReturnEmpty, Return, Go, sharedVars, PushSteps, PopSteps
<1>4. ASSUME NEW t \in Threads, Reserve(t) PROVE TypeOK'
  BY <1>0, <1>4, AddIsCounter DEF TypeOK, Reserve, Go, sharedVars, PushSteps, PopSteps
<1>5. ASSUME NEW t \in Threads, Store(t) PROVE TypeOK'
  BY <1>5 DEF TypeOK, Store, Go, PushSteps, PopSteps
<1>6. ASSUME NEW t \in Threads, Commit(t) PROVE TypeOK'
  BY <1>0, <1>6, AddIsCounter DEF TypeOK, Commit, Return, Go, PushSteps, PopSteps
<1>7. ASSUME NEW t \in Threads, LoadRead(t) \/ CheckEmpty(t) PROVE TypeOK'
  BY <1>7 DEF TypeOK, LoadRead, CheckEmpty, Go, sharedVars, PushSteps, PopSteps
<1>8. ASSUME NEW t \in Threads, ReadSlot(t) PROVE TypeOK'
  BY <1>0, <1>8, IndexInRange DEF TypeOK, ReadSlot, Go, sharedVars, PushSteps, PopSteps
<1>9. ASSUME NEW t \in Threads, Claim(t) PROVE TypeOK'
  BY <1>0, <1>9, AddIsCounter DEF TypeOK, Claim, Return, Go, sharedVars, PushSteps, PopSteps
<1>10. CASE UNCHANGED vars
  BY <1>10 DEF TypeOK, vars, sharedVars, localVars
<1> QED
  BY <1>1, <1>2, <1>3, <1>4, <1>5, <1>6, <1>7, <1>8, <1>9, <1>10 DEF Next, Continue

-----------------------------------------------------------------------------
(***************************************************************************)
(* The ring.                                                               *)
(***************************************************************************)

\* Different slots that are both less than Size from the read counter.
LEMMA SlotsDiffer ==
    ASSUME NEW r \in Nat, NEW a \in Nat, NEW b \in Nat, a # b,
           r <= a, a < r + Size, r <= b, b < r + Size
    PROVE  CounterToIndex(a) # CounterToIndex(b)
<1>1. CASE a < b
  BY <1>1, NearCountersDiffer, SizeAssumption
<1>2. CASE b < a
  BY <1>2, NearCountersDiffer, SizeAssumption
<1> QED
  BY <1>1, <1>2

\* Numbers that the counters are.
LEMMA CountersAreNumbers ==
    ASSUME TypeOK
    PROVE  /\ m_readCounter \in Nat /\ m_writeCounter \in Nat /\ m_committedWriteCounter \in Nat
           /\ writes \in Nat /\ Size \in Nat /\ CounterModulus \in Nat
           /\ \A t \in Threads : counter[t] \in Nat
BY SizeAssumption, CounterModulusAssumption DEF TypeOK, Counters

\* A step in which no counter and no slot changes, and no thread gets or loses a slot.
LEMMA LocalStep ==
    ASSUME TypeOK, RingInv, NEW t \in Threads, UNCHANGED <<sharedVars, writes>>,
           pc' \in [Threads -> {"Idle"} \cup PushSteps \cup PopSteps],
           \A u \in Threads \ {t} :
               pc'[u] = pc[u] /\ counter'[u] = counter[u] /\ item'[u] = item[u],
           pc[t] \notin Holding, pc'[t] \notin Holding,
           pc'[t] = "CheckFull" => counter'[t] <= m_writeCounter,
           pc'[t] = "Reserve" => counter'[t] < m_readCounter + Size,
           pc'[t] \in {"CheckEmpty", "ReadSlot", "Claim"} => counter'[t] <= m_readCounter,
           pc'[t] \in {"ReadSlot", "Claim"} => counter'[t] < m_committedWriteCounter,
           pc'[t] = "Claim" => item'[t] = m_queue[CounterToIndex(counter'[t])]
    PROVE  RingInv'
<1>1. CountersInOrder'
  BY DEF RingInv, CountersInOrder, sharedVars
<1>2. EverySlotHasOnePush'
  BY DEF RingInv, EverySlotHasOnePush, Holding, sharedVars
<1>3. PopsAreBehind'
  BY DEF RingInv, PopsAreBehind, sharedVars
<1>4. SlotsKeepTheirItems'
  BY DEF RingInv, SlotsKeepTheirItems, Holding, sharedVars
<1> QED
  BY <1>1, <1>2, <1>3, <1>4 DEF RingInv

\* A push that reserves gets the slot at the write counter, which nobody has.
LEMMA ReserveStep ==
    ASSUME TypeOK, RingInv, NoWrap', NEW t \in Threads, m_writeCounter = counter[t],
           Go(t, "Reserve", "Store"), m_writeCounter' = Add(m_writeCounter, 1),
           writes' = writes + 1,
           UNCHANGED <<m_readCounter, m_committedWriteCounter, m_queue, counter, item, result>>
    PROVE  RingInv'
<1> USE CountersAreNumbers
<1>1. m_writeCounter' = m_writeCounter + 1
  <2>1. m_writeCounter = writes /\ writes + 1 + Size < CounterModulus
    BY DEF NoWrap, RingInv, CountersInOrder
  <2>2. Add(m_writeCounter, 1) = m_writeCounter + 1
    BY <2>1, AddIsPlus
  <2> QED
    BY <2>2
<1>2. CountersInOrder'
  <2>1. pc[t] = "Reserve" /\ m_writeCounter < m_readCounter + Size
    BY DEF Go, RingInv, EverySlotHasOnePush
  <2>2. /\ m_writeCounter = writes /\ m_readCounter <= m_committedWriteCounter
        /\ m_committedWriteCounter <= m_writeCounter
    BY DEF RingInv, CountersInOrder
  <2>3. /\ m_writeCounter + 1 = writes' /\ m_committedWriteCounter <= m_writeCounter + 1
        /\ m_writeCounter + 1 <= m_readCounter + Size
    BY <2>1, <2>2
  <2> QED
    BY <1>1, <2>2, <2>3 DEF CountersInOrder
<1>3. \A u \in Threads \ {t} : pc'[u] = pc[u]
  BY DEF TypeOK, Go
<1>4. pc'[t] = "Store" /\ pc[t] = "Reserve"
  BY DEF TypeOK, Go
<1>5. EverySlotHasOnePush'
  <2>1. \A u \in Threads : pc'[u] = "CheckFull" => counter[u] <= m_writeCounter'
    BY <1>1, <1>3, <1>4 DEF RingInv, EverySlotHasOnePush
  <2>2. \A u \in Threads :
           pc'[u] \in Holding =>
               m_committedWriteCounter <= counter[u] /\ counter[u] < m_writeCounter'
    BY <1>1, <1>3, <1>4 DEF RingInv, CountersInOrder, EverySlotHasOnePush
  <2>3. \A u, v \in Threads :
           pc'[u] \in Holding /\ pc'[v] \in Holding /\ counter[u] = counter[v] => u = v
    BY <1>3, <1>4 DEF RingInv, EverySlotHasOnePush
  <2>4. ASSUME NEW p \in m_committedWriteCounter .. m_writeCounter' - 1
        PROVE  \E u \in Threads : pc'[u] \in Holding /\ counter[u] = p
    <3>1. CASE p = m_writeCounter
      BY <1>4, <3>1 DEF Holding
    <3>2. CASE p # m_writeCounter
      <4>1. p \in m_committedWriteCounter .. m_writeCounter - 1
        BY <1>1, <3>2
      <4>2. PICK u \in Threads : pc[u] \in Holding /\ counter[u] = p
        BY <4>1 DEF RingInv, EverySlotHasOnePush
      <4> QED
        BY <1>3, <1>4, <4>2 DEF Holding
    <3> QED
      BY <3>1, <3>2
  <2> QED
    BY <1>3, <1>4, <2>1, <2>2, <2>3, <2>4 DEF RingInv, EverySlotHasOnePush
<1>6. PopsAreBehind'
  BY <1>3, <1>4 DEF RingInv, PopsAreBehind
<1>7. SlotsKeepTheirItems'
  BY <1>3, <1>4 DEF RingInv, SlotsKeepTheirItems
<1> QED
  BY <1>2, <1>5, <1>6, <1>7 DEF RingInv

\* A push stores into its own slot, which is neither another push's nor one that a pop
\* may still claim.
LEMMA StoreStep ==
    ASSUME TypeOK, RingInv, NEW t \in Threads, Store(t) PROVE RingInv'
<1> USE CountersAreNumbers
<1>1. \A u \in Threads \ {t} : pc'[u] = pc[u]
  BY DEF TypeOK, Store, Go
<1>2. pc'[t] = "Commit" /\ pc[t] = "Store"
  BY DEF TypeOK, Store, Go
<1>3. CountersInOrder'
  BY DEF RingInv, CountersInOrder, Store
<1>4. EverySlotHasOnePush'
  BY <1>1, <1>2 DEF RingInv, EverySlotHasOnePush, Holding, Store
<1>5. PopsAreBehind'
  BY <1>1, <1>2 DEF RingInv, PopsAreBehind, Store
<1>6. SlotsKeepTheirItems'
  <2>1. /\ m_readCounter <= counter[t] /\ counter[t] < m_readCounter + Size
        /\ m_committedWriteCounter <= counter[t]
    BY <1>2 DEF RingInv, CountersInOrder, EverySlotHasOnePush, Holding
  <2>2. m_queue'[CounterToIndex(counter[t])] = item[t]
    BY IndexInRange DEF TypeOK, Store
  <2>3. \A i \in Indices : i # CounterToIndex(counter[t]) => m_queue'[i] = m_queue[i]
    BY DEF TypeOK, Store
  <2>4. ASSUME NEW u \in Threads \ {t}, pc[u] = "Commit"
        PROVE  m_queue'[CounterToIndex(counter[u])] = item[u]
    <3>1. /\ m_readCounter <= counter[u] /\ counter[u] < m_readCounter + Size
          /\ counter[u] # counter[t]
      BY <1>2, <2>4 DEF RingInv, CountersInOrder, EverySlotHasOnePush, Holding
    <3>2. CounterToIndex(counter[u]) # CounterToIndex(counter[t])
      BY <2>1, <3>1, SlotsDiffer
    <3> QED
      BY <2>3, <2>4, <3>2, IndexInRange DEF RingInv, SlotsKeepTheirItems
  <2>5. ASSUME NEW u \in Threads \ {t}, pc[u] = "Claim", counter[u] = m_readCounter
        PROVE  m_queue'[CounterToIndex(counter[u])] = item[u]
    <3>1. counter[u] < counter[t]
      BY <2>1, <2>5 DEF RingInv, PopsAreBehind
    <3>2. CounterToIndex(counter[u]) # CounterToIndex(counter[t])
      BY <2>1, <2>5, <3>1, NearCountersDiffer
    <3> QED
      BY <2>3, <2>5, <3>2, IndexInRange DEF RingInv, SlotsKeepTheirItems
  <2> QED
    BY <1>1, <1>2, <2>2, <2>4, <2>5 DEF SlotsKeepTheirItems, Store
<1> QED
  BY <1>3, <1>4, <1>5, <1>6 DEF RingInv

\* The slot of a push that commits is the first that is not committed.
LEMMA CommitStep ==
    ASSUME TypeOK, RingInv, NoWrap, NEW t \in Threads, Commit(t) PROVE RingInv'
<1> USE CountersAreNumbers
<1>1. \A u \in Threads \ {t} :
         pc'[u] = pc[u] /\ counter'[u] = counter[u] /\ item'[u] = item[u]
  BY DEF TypeOK, Commit, Return, Go
<1>2. pc'[t] = "Idle" /\ pc[t] = "Commit" /\ m_committedWriteCounter = counter[t]
  BY DEF TypeOK, Commit, Return, Go
<1>3. m_committedWriteCounter < m_writeCounter
  BY <1>2 DEF RingInv, EverySlotHasOnePush, Holding
<1>4. m_committedWriteCounter' = m_committedWriteCounter + 1
  BY <1>2, <1>3, AddIsPlus DEF Commit, NoWrap, RingInv, CountersInOrder
<1>5. CountersInOrder'
  BY <1>3, <1>4 DEF RingInv, CountersInOrder, Commit
<1>6. EverySlotHasOnePush'
  <2>1. \A u \in Threads : pc'[u] \in Holding => u # t /\ pc[u] \in Holding
    BY <1>1, <1>2 DEF Holding
  <2>2. \A u \in Threads :
           pc'[u] \in Holding =>
               m_committedWriteCounter' <= counter'[u] /\ counter'[u] < m_writeCounter'
    BY <1>1, <1>2, <1>4, <2>1 DEF RingInv, EverySlotHasOnePush, Commit, Holding
  <2>3. ASSUME NEW p \in m_committedWriteCounter' .. m_writeCounter' - 1
        PROVE  \E u \in Threads : pc'[u] \in Holding /\ counter'[u] = p
    <3>1. p \in m_committedWriteCounter .. m_writeCounter - 1 /\ p # counter[t]
      BY <1>2, <1>4 DEF Commit
    <3>2. PICK u \in Threads : pc[u] \in Holding /\ counter[u] = p
      BY <3>1 DEF RingInv, EverySlotHasOnePush
    <3> QED
      BY <1>1, <3>1, <3>2
  <2>4. /\ \A u \in Threads : pc'[u] = "CheckFull" => counter'[u] <= m_writeCounter'
        /\ \A u \in Threads : pc'[u] = "Reserve" => counter'[u] < m_readCounter' + Size
        /\ \A u, v \in Threads :
              pc'[u] \in Holding /\ pc'[v] \in Holding /\ counter'[u] = counter'[v] => u = v
    BY <1>1, <1>2, <2>1 DEF RingInv, EverySlotHasOnePush, Commit
  <2> QED
    BY <2>2, <2>3, <2>4 DEF EverySlotHasOnePush
<1>7. PopsAreBehind'
  BY <1>1, <1>2, <1>4 DEF RingInv, PopsAreBehind, Commit
<1>8. SlotsKeepTheirItems'
  BY <1>1, <1>2 DEF RingInv, SlotsKeepTheirItems, Commit
<1> QED
  BY <1>5, <1>6, <1>7, <1>8 DEF RingInv

\* A pop that claims the slot at the read counter makes room for one more push.
LEMMA ClaimStep ==
    ASSUME TypeOK, RingInv, NoWrap, NEW t \in Threads, m_readCounter = counter[t],
           Return(t, "Claim", item[t]), m_readCounter' = Add(m_readCounter, 1),
           UNCHANGED <<m_writeCounter, m_committedWriteCounter, m_queue, writes>>
    PROVE  RingInv'
<1> USE CountersAreNumbers
<1>1. \A u \in Threads \ {t} :
         pc'[u] = pc[u] /\ counter'[u] = counter[u] /\ item'[u] = item[u]
  BY DEF TypeOK, Return, Go
<1>2. pc'[t] = "Idle" /\ pc[t] = "Claim"
  BY DEF TypeOK, Return, Go
<1>3. m_readCounter < m_committedWriteCounter
  BY <1>2 DEF RingInv, PopsAreBehind
<1>4. m_readCounter' = m_readCounter + 1
  BY <1>3, AddIsPlus DEF NoWrap, RingInv, CountersInOrder
<1>5. CountersInOrder'
  BY <1>3, <1>4 DEF RingInv, CountersInOrder
<1>6. EverySlotHasOnePush'
  <2>1. ASSUME NEW p \in m_committedWriteCounter' .. m_writeCounter' - 1
        PROVE  \E u \in Threads : pc'[u] \in Holding /\ counter'[u] = p
    <3>1. PICK u \in Threads : pc[u] \in Holding /\ counter[u] = p
      BY DEF RingInv, EverySlotHasOnePush
    <3> QED
      BY <1>1, <1>2, <3>1 DEF Holding
  <2> QED
    BY <1>1, <1>2, <1>4, <2>1 DEF RingInv, EverySlotHasOnePush, Holding
<1>7. PopsAreBehind'
  BY <1>1, <1>2, <1>4 DEF RingInv, PopsAreBehind
<1>8. SlotsKeepTheirItems'
  \* No other pop has loaded the new value of the read counter yet.
  BY <1>1, <1>2, <1>4 DEF RingInv, PopsAreBehind, SlotsKeepTheirItems
<1> QED
  BY <1>5, <1>6, <1>7, <1>8 DEF RingInv

\* Every step keeps what ties the three counters and the reserved slots together.
LEMMA RingInductive ==
    ASSUME TypeOK, RingInv, NoWrap, NoWrap', [Next]_vars PROVE RingInv'
<1> USE CountersAreNumbers
<1>0. TypeOK'
  BY TypeInductive
<1>1. ASSUME NEW t \in Threads, NEW x \in Items, CallPushBack(t, x) PROVE RingInv'
  <2> SUFFICES UNCHANGED <<sharedVars, writes>> /\ pc[t] = "Idle" /\ pc'[t] = "LoadWrite"
               /\ \A u \in Threads \ {t} :
                     pc'[u] = pc[u] /\ counter'[u] = counter[u] /\ item'[u] = item[u]
    BY <1>0, LocalStep DEF TypeOK, Holding
  <2> QED
    BY <1>1 DEF CallPushBack, Go, TypeOK
<1>2. ASSUME NEW t \in Threads, CallPopFront(t) PROVE RingInv'
  <2> SUFFICES UNCHANGED <<sharedVars, writes>> /\ pc[t] = "Idle" /\ pc'[t] = "LoadRead"
               /\ \A u \in Threads \ {t} :
                     pc'[u] = pc[u] /\ counter'[u] = counter[u] /\ item'[u] = item[u]
    BY <1>0, LocalStep DEF TypeOK, Holding
  <2> QED
    BY <1>2 DEF CallPopFront, Go, TypeOK
<1>3. ASSUME NEW t \in Threads, LoadWrite(t) PROVE RingInv'
  <2>1. /\ UNCHANGED <<sharedVars, writes>>
        /\ pc[t] = "LoadWrite" /\ pc'[t] = "CheckFull" /\ counter'[t] = m_writeCounter
        /\ \A u \in Threads \ {t} :
              pc'[u] = pc[u] /\ counter'[u] = counter[u] /\ item'[u] = item[u]
    BY <1>3 DEF LoadWrite, Go, TypeOK
  <2> QED
    BY <1>0, <2>1, LocalStep DEF TypeOK, Holding
<1>4. ASSUME NEW t \in Threads, CheckFull(t) PROVE RingInv'
  \* The write counter was below read counter + Size, and the read counter only grows.
  <2>1. /\ UNCHANGED <<sharedVars, writes>>
        /\ pc[t] = "CheckFull" /\ pc'[t] = "Reserve" /\ counter'[t] = counter[t]
        /\ \A u \in Threads \ {t} :
              pc'[u] = pc[u] /\ counter'[u] = counter[u] /\ item'[u] = item[u]
    BY <1>4 DEF CheckFull, Go, TypeOK
  <2>2. Add(m_readCounter, Size) = m_readCounter + Size
    BY AddIsPlus DEF RingInv, CountersInOrder, NoWrap
  <2>3. counter[t] < m_readCounter + Size
    BY <1>4, <2>2 DEF CheckFull, LooksFull
  <2> QED
    BY <1>0, <2>1, <2>3, LocalStep DEF TypeOK, Holding
<1>5. ASSUME NEW t \in Threads, RefusePush(t) \/ ReturnEmpty(t) PROVE RingInv'
  <2>1. /\ UNCHANGED <<sharedVars, writes>>
        /\ pc[t] \in {"CheckFull", "CheckEmpty"} /\ pc'[t] = "Idle"
        /\ \A u \in Threads \ {t} :
              pc'[u] = pc[u] /\ counter'[u] = counter[u] /\ item'[u] = item[u]
    BY <1>5 DEF RefusePush, ReturnEmpty, Return, Go, TypeOK
  <2> QED
    BY <1>0, <2>1, LocalStep DEF TypeOK, Holding
<1>6. ASSUME NEW t \in Threads, Reserve(t) PROVE RingInv'
  <2>1. CASE m_writeCounter = counter[t]
    BY <1>6, <2>1, ReserveStep DEF Reserve
  <2>2. CASE m_writeCounter # counter[t]
    <3>1. /\ UNCHANGED <<sharedVars, writes>>
          /\ pc[t] = "Reserve" /\ pc'[t] = "LoadWrite"
          /\ \A u \in Threads \ {t} :
                pc'[u] = pc[u] /\ counter'[u] = counter[u] /\ item'[u] = item[u]
      BY <1>6, <2>2 DEF Reserve, Go, TypeOK
    <3> QED
      BY <1>0, <3>1, LocalStep DEF TypeOK, Holding
  <2> QED
    BY <2>1, <2>2
<1>7. ASSUME NEW t \in Threads, LoadRead(t) PROVE RingInv'
  <2>1. /\ UNCHANGED <<sharedVars, writes>>
        /\ pc[t] = "LoadRead" /\ pc'[t] = "CheckEmpty" /\ counter'[t] = m_readCounter
        /\ \A u \in Threads \ {t} :
              pc'[u] = pc[u] /\ counter'[u] = counter[u] /\ item'[u] = item[u]
    BY <1>7 DEF LoadRead, Go, TypeOK
  <2> QED
    BY <1>0, <2>1, LocalStep DEF TypeOK, Holding
<1>8. ASSUME NEW t \in Threads, CheckEmpty(t) PROVE RingInv'
  <2>1. /\ UNCHANGED <<sharedVars, writes>>
        /\ pc[t] = "CheckEmpty" /\ pc'[t] = "ReadSlot" /\ counter'[t] = counter[t]
        /\ counter[t] < m_committedWriteCounter
        /\ \A u \in Threads \ {t} :
              pc'[u] = pc[u] /\ counter'[u] = counter[u] /\ item'[u] = item[u]
    BY <1>8 DEF CheckEmpty, LooksEmpty, Go, TypeOK
  <2>2. counter[t] <= m_readCounter
    BY <2>1 DEF RingInv, PopsAreBehind
  <2> QED
    BY <1>0, <2>1, <2>2, LocalStep DEF TypeOK, Holding
<1>9. ASSUME NEW t \in Threads, ReadSlot(t) PROVE RingInv'
  <2>1. /\ UNCHANGED <<sharedVars, writes>>
        /\ pc[t] = "ReadSlot" /\ pc'[t] = "Claim" /\ counter'[t] = counter[t]
        /\ item'[t] = m_queue[CounterToIndex(counter[t])]
        /\ \A u \in Threads \ {t} :
              pc'[u] = pc[u] /\ counter'[u] = counter[u] /\ item'[u] = item[u]
    BY <1>9 DEF ReadSlot, Go, TypeOK
  <2>2. counter[t] <= m_readCounter /\ counter[t] < m_committedWriteCounter
    BY <2>1 DEF RingInv, PopsAreBehind
  <2> QED
    BY <1>0, <2>1, <2>2, LocalStep DEF TypeOK, Holding
<1>10. ASSUME NEW t \in Threads, Claim(t) PROVE RingInv'
  <2>1. CASE m_readCounter = counter[t]
    BY <1>10, <2>1, ClaimStep DEF Claim
  <2>2. CASE m_readCounter # counter[t]
    <3>1. /\ UNCHANGED <<sharedVars, writes>>
          /\ pc[t] = "Claim" /\ pc'[t] = "LoadRead"
          /\ \A u \in Threads \ {t} :
                pc'[u] = pc[u] /\ counter'[u] = counter[u] /\ item'[u] = item[u]
      BY <1>10, <2>2 DEF Claim, Go, TypeOK
    <3> QED
      BY <1>0, <3>1, LocalStep DEF TypeOK, Holding
  <2> QED
    BY <2>1, <2>2
<1>11. CASE UNCHANGED vars
  BY <1>11
     DEF vars, sharedVars, localVars, RingInv, CountersInOrder, EverySlotHasOnePush,
         PopsAreBehind, SlotsKeepTheirItems
<1> QED
  BY <1>1, <1>2, <1>3, <1>4, <1>5, <1>6, <1>7, <1>8, <1>9, <1>10, <1>11, StoreStep, CommitStep
     DEF Next, Continue

\* The number of reserved slots only grows.
LEMMA NoWrapBefore ==
    ASSUME TypeOK, NoWrap', [Next]_vars PROVE NoWrap
<1> USE CountersAreNumbers
<1>1. writes' = writes \/ writes' = writes + 1
  BY DEF Next, Continue, CallPushBack, CallPopFront, LoadWrite, RefusePush, CheckFull, Reserve,
         Store, Commit, LoadRead, ReturnEmpty, CheckEmpty, ReadSlot, Claim, vars
<1> QED
  BY <1>1 DEF NoWrap

\* The invariant is inductive; as writes only grows, NoWrap held before if it holds now.
LEMMA QueueInvInductive == QueueInv /\ [Next]_vars => QueueInv'
BY TypeInductive, RingInductive, NoWrapBefore DEF QueueInv

\* An empty queue satisfies the invariant.
LEMMA QueueInvInitial == Init => QueueInv
<1> SUFFICES ASSUME Init PROVE QueueInv
  OBVIOUS
<1>1. TypeOK
  BY CounterModulusAssumption DEF Init, TypeOK, Counters, PushSteps, PopSteps
<1>2. RingInv
  BY SizeAssumption
     DEF Init, RingInv, CountersInOrder, EverySlotHasOnePush, PopsAreBehind,
         SlotsKeepTheirItems, Holding
<1> QED
  BY <1>1, <1>2 DEF QueueInv

\* The types always, the order of the counters and the ownership of the slots until a
\* counter wraps (LockFreePtrQueue).
THEOREM QueueInvCorrect == Spec => []QueueInv
BY QueueInvInitial, QueueInvInductive, PTL DEF Spec

\* Two reserved counters are less than Size apart, so their slots differ.
LEMMA SlotsAreExclusiveInRing ==
    ASSUME TypeOK, RingInv PROVE SlotsAreExclusive
<1> USE CountersAreNumbers
<1>1. ASSUME NEW t \in Threads, NEW u \in Threads, t # u, pc[t] \in Holding, pc[u] \in Holding
      PROVE  CounterToIndex(counter[t]) # CounterToIndex(counter[u])
  <2>1. counter[t] # counter[u]
    BY <1>1 DEF RingInv, EverySlotHasOnePush
  <2>2. /\ m_readCounter <= counter[t] /\ counter[t] < m_readCounter + Size
        /\ m_readCounter <= counter[u] /\ counter[u] < m_readCounter + Size
    BY <1>1 DEF RingInv, CountersInOrder, EverySlotHasOnePush
  <2> QED
    BY <2>1, <2>2, SlotsDiffer
<1>2. \A t \in Threads : pc[t] = "Commit" => m_committedWriteCounter <= counter[t]
  BY DEF RingInv, EverySlotHasOnePush, Holding
<1> QED
  BY <1>1, <1>2 DEF SlotsAreExclusive, Holding

\* Two pushes never hold the same slot, and no push finds that slots behind its own have
\* been committed, before a counter wraps (ASSERT( expected <= write_counter )).
THEOREM SlotsAreExclusiveCorrect == Spec => [](NoWrap => SlotsAreExclusive)
<1>1. QueueInv => (NoWrap => SlotsAreExclusive)
  BY SlotsAreExclusiveInRing DEF QueueInv
<1> QED
  BY <1>1, QueueInvCorrect, PTL
=============================================================================
