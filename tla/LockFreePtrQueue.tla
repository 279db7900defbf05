-------------------------- MODULE LockFreePtrQueue --------------------------
(***************************************************************************)
(* The lock-free multi-producer multi-consumer ring buffer behind the free *)
(* lists of the task pool and of the task fiber pool: one step per access  *)
(* to a shared counter or slot.  A push reserves a slot by advancing the   *)
(* write counter, fills it, and commits in the order of reservation; a pop *)
(* reads a committed slot and claims it by advancing the read counter.     *)
(*                                                                         *)
(* The counters are unsigned and of fixed width (CounterModulus = 2^32 in  *)
(* the code), and so are the sums the code compares.  Every atomic access  *)
(* is sequentially consistent here, as the interlocked operations of the   *)
(* Windows build are.                                                      *)
(***************************************************************************)
EXTENDS Integers, Sequences, FiniteSets

CONSTANTS
    Threads, Items, NoItem,
    Size,             \* SIZE, a power of two.
    CounterModulus,   \* Number of values of a counter, a multiple of Size.
    MaxWrites         \* Bound of the model: no push starts once so many slots
                      \* have been reserved.

ASSUME NoItemAssumption == NoItem \notin Items
ASSUME SizeAssumption == Size \in Nat \ {0}
ASSUME CounterModulusAssumption ==
    CounterModulus \in Nat \ {0} /\ CounterModulus % Size = 0
ASSUME MaxWritesAssumption == MaxWrites \in Nat

VARIABLES
    m_readCounter, m_writeCounter, m_committedWriteCounter,
    m_queue,
    pc,        \* The next step of a thread.
    counter,   \* write_counter of a push, current_read_counter of a pop.
    item,      \* item of a push, return_item of a pop.
    result,    \* What the last operation of a thread returned.
    writes     \* How many slots have been reserved (bounds the model).

sharedVars == <<m_readCounter, m_writeCounter, m_committedWriteCounter, m_queue>>
localVars == <<pc, counter, item, result>>
vars == <<sharedVars, localVars, writes>>

Add(a, b) == (a + b) % CounterModulus
CounterToIndex(c) == c % Size
Counters == 0 .. CounterModulus - 1
Indices == 0 .. Size - 1

Init ==
    /\ m_readCounter = 0
    /\ m_writeCounter = 0
    /\ m_committedWriteCounter = 0
    /\ m_queue = [i \in Indices |-> NoItem]
    /\ pc = [t \in Threads |-> "Idle"]
    /\ counter = [t \in Threads |-> 0]
    /\ item = [t \in Threads |-> NoItem]
    /\ result = [t \in Threads |-> NoItem]
    /\ writes = 0

Go(t, from, to) == pc[t] = from /\ pc' = [pc EXCEPT ![t] = to]

Return(t, from, value) ==
    /\ Go(t, from, "Idle")
    /\ result' = [result EXCEPT ![t] = value]
    /\ item' = [item EXCEPT ![t] = NoItem]
    /\ counter' = [counter EXCEPT ![t] = 0]

-----------------------------------------------------------------------------
(***************************************************************************)
(* PushBack.                                                               *)
(***************************************************************************)

CallPushBack(t, x) ==
    /\ writes < MaxWrites
    /\ Go(t, "Idle", "LoadWrite")
    /\ item' = [item EXCEPT ![t] = x]
    /\ result' = [result EXCEPT ![t] = NoItem]
    /\ UNCHANGED <<sharedVars, counter, writes>>

LoadWrite(t) ==
    /\ Go(t, "LoadWrite", "CheckFull")
    /\ counter' = [counter EXCEPT ![t] = m_writeCounter]
    /\ UNCHANGED <<sharedVars, item, result, writes>>

\* Mutant: off by one, a push may reserve one slot too many.
LooksFullTooLate(t) == Add(m_readCounter, Size) < counter[t]

\* Loads the read counter and compares.
LooksFull(t) == Add(m_readCounter, Size) <= counter[t]

RefusePush(t) ==
    /\ LooksFull(t)
    /\ Return(t, "CheckFull", FALSE)
    /\ UNCHANGED <<sharedVars, writes>>

CheckFull(t) ==
    /\ ~LooksFull(t)
    /\ Go(t, "CheckFull", "Reserve")
    /\ UNCHANGED <<sharedVars, counter, item, result, writes>>

\* Mutant: a failed CompareExchange is retried without a reload.
ReserveWithoutReload(t) ==
    /\ m_writeCounter = counter[t]
    /\ Go(t, "Reserve", "Store")
    /\ m_writeCounter' = Add(m_writeCounter, 1)
    /\ writes' = writes + 1
    /\ UNCHANGED <<m_readCounter, m_committedWriteCounter, m_queue, counter, item, result>>

\* CompareExchange on the write counter; a failed one starts the loop again.
Reserve(t) ==
    \/ /\ m_writeCounter = counter[t]
       /\ Go(t, "Reserve", "Store")
       /\ m_writeCounter' = Add(m_writeCounter, 1)
       /\ writes' = writes + 1
       /\ UNCHANGED <<m_readCounter, m_committedWriteCounter, m_queue, counter, item, result>>
    \/ /\ m_writeCounter # counter[t]
       /\ Go(t, "Reserve", "LoadWrite")
       /\ UNCHANGED <<sharedVars, counter, item, result, writes>>

Store(t) ==
    /\ Go(t, "Store", "Commit")
    /\ m_queue' = [m_queue EXCEPT ![CounterToIndex(counter[t])] = item[t]]
    /\ UNCHANGED <<m_readCounter, m_writeCounter, m_committedWriteCounter,
                   counter, item, result, writes>>

\* CompareExchange on the committed counter succeeds when it is this push's turn;
\* until then the thread yields and tries again.
Commit(t) ==
    /\ m_committedWriteCounter = counter[t]
    /\ Return(t, "Commit", TRUE)
    /\ m_committedWriteCounter' = Add(counter[t], 1)
    /\ UNCHANGED <<m_readCounter, m_writeCounter, m_queue, writes>>

-----------------------------------------------------------------------------
(***************************************************************************)
(* PopFront.                                                               *)
(***************************************************************************)

CallPopFront(t) ==
    /\ Go(t, "Idle", "LoadRead")
    /\ result' = [result EXCEPT ![t] = NoItem]
    /\ UNCHANGED <<sharedVars, counter, item, writes>>

LoadRead(t) ==
    /\ Go(t, "LoadRead", "CheckEmpty")
    /\ counter' = [counter EXCEPT ![t] = m_readCounter]
    /\ UNCHANGED <<sharedVars, item, result, writes>>

\* Mutant: a pop looks at the write counter and finds slots nobody has filled.
LooksEmptyByWriteCounter(t) == counter[t] >= m_writeCounter

\* Mutant: off by one, the last item is not seen.
LooksEmptyTooEarly(t) == Add(counter[t], 1) >= m_committedWriteCounter

\* Loads the committed counter and compares.
LooksEmpty(t) == counter[t] >= m_committedWriteCounter

ReturnEmpty(t) ==
    /\ LooksEmpty(t)
    /\ Return(t, "CheckEmpty", NoItem)
    /\ UNCHANGED <<sharedVars, writes>>

CheckEmpty(t) ==
    /\ ~LooksEmpty(t)
    /\ Go(t, "CheckEmpty", "ReadSlot")
    /\ UNCHANGED <<sharedVars, counter, item, result, writes>>

ReadSlot(t) ==
    /\ Go(t, "ReadSlot", "Claim")
    /\ item' = [item EXCEPT ![t] = m_queue[CounterToIndex(counter[t])]]
    /\ UNCHANGED <<sharedVars, counter, result, writes>>

\* Mutant: the claim moves the read counter the wrong way.
ClaimBackwards(t) ==
    /\ m_readCounter = counter[t]
    /\ Return(t, "Claim", item[t])
    /\ m_readCounter' = m_readCounter - 1
    /\ UNCHANGED <<m_writeCounter, m_committedWriteCounter, m_queue, writes>>

\* CompareExchange on the read counter; a failed one starts the loop again.
Claim(t) ==
    \/ /\ m_readCounter = counter[t]
       /\ Return(t, "Claim", item[t])
       /\ m_readCounter' = Add(m_readCounter, 1)
       /\ UNCHANGED <<m_writeCounter, m_committedWriteCounter, m_queue, writes>>
    \/ /\ m_readCounter # counter[t]
       /\ Go(t, "Claim", "LoadRead")
       /\ UNCHANGED <<sharedVars, counter, item, result, writes>>

-----------------------------------------------------------------------------
Continue(t) ==
    \/ LoadWrite(t) \/ RefusePush(t) \/ CheckFull(t) \/ Reserve(t) \/ Store(t) \/ Commit(t)
    \/ LoadRead(t) \/ ReturnEmpty(t) \/ CheckEmpty(t) \/ ReadSlot(t) \/ Claim(t)

Next ==
    \E t \in Threads :
        \/ \E x \in Items : CallPushBack(t, x)
        \/ CallPopFront(t)
        \/ Continue(t)

Spec == Init /\ [][Next]_vars

-----------------------------------------------------------------------------
(***************************************************************************)
(* Properties.                                                             *)
(***************************************************************************)

PushSteps == {"LoadWrite", "CheckFull", "Reserve", "Store", "Commit"}
PopSteps  == {"LoadRead", "CheckEmpty", "ReadSlot", "Claim"}

TypeOK ==
    /\ m_readCounter \in Counters
    /\ m_writeCounter \in Counters
    /\ m_committedWriteCounter \in Counters
    /\ m_queue \in [Indices -> Items \cup {NoItem}]
    /\ pc \in [Threads -> {"Idle"} \cup PushSteps \cup PopSteps]
    /\ counter \in [Threads -> Counters]
    /\ item \in [Threads -> Items \cup {NoItem}]
    /\ \A t \in Threads : pc[t] \in PushSteps => item[t] \in Items
    /\ result \in [Threads -> Items \cup {NoItem} \cup BOOLEAN]
    /\ writes \in Nat

\* Number of steps from counter value a up to counter value b.
Distance(a, b) == (b - a) % CounterModulus

\* GetCurrentSize: reserved slots count, filled or not.
GetCurrentSize == Distance(m_readCounter, m_writeCounter)

\* The queue's contents: the committed slots from the read counter on.
Contents ==
    [k \in 1 .. Distance(m_readCounter, m_committedWriteCounter) |->
        m_queue[CounterToIndex(m_readCounter + k - 1)]]

\* What a thread is doing, as a user of the queue sees it.
CallOf(t) ==
    CASE pc[t] \in {"LoadWrite", "CheckFull", "Reserve"} -> "Push"
      [] pc[t] \in {"Store", "Commit"} -> "Reserved"
      [] pc[t] \in PopSteps -> "PopFront"
      [] OTHER -> "None"

ArgumentOf(t) == IF pc[t] \in PushSteps THEN item[t] ELSE NoItem

Calls == [t \in Threads |-> CallOf(t)]
Arguments == [t \in Threads |-> ArgumentOf(t)]

\* Reserved slots are filled and published one by one: two pushes that hold a
\* reservation never hold the same slot, and, ASSERT( expected <= write_counter ), a
\* committing push finds the committed counter at its own slot or at an earlier one.
SlotsAreExclusive ==
    /\ \A t, u \in Threads :
          (t # u /\ pc[t] \in {"Store", "Commit"} /\ pc[u] \in {"Store", "Commit"})
              => CounterToIndex(counter[t]) # CounterToIndex(counter[u])
    /\ \A t \in Threads : pc[t] = "Commit" => m_committedWriteCounter <= counter[t]

\* An operation that is under way ends: a push that waits for the pushes before it
\* to commit is not left waiting, and two CompareExchange loops cannot keep
\* defeating each other while the number of pushes is bounded.
EveryCallReturns == \A t \in Threads : pc[t] # "Idle" ~> pc[t] = "Idle"
=============================================================================
