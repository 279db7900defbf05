-------------------------- MODULE LockBasedPtrQueue --------------------------
(***************************************************************************)
(* The ring buffer under a spin lock that holds the pending tasks and the  *)
(* suspended fibers of a worker instance: its owner pushes and pops at the *)
(* back, and other instances steal from the front.                         *)
(*                                                                         *)
(* An operation takes the lock with an Exchange, looks at the counters,    *)
(* moves one of them together with its slot, and stores 0 into the lock    *)
(* when its guard is destroyed.  The counters are unsigned and of fixed    *)
(* width (CounterModulus = 2^32 in the code), and so is the sum that a     *)
(* push compares.                                                          *)
(***************************************************************************)
EXTENDS Integers, Sequences, FiniteSets

CONSTANTS
    Threads, Items, NoItem,
    Size,             \* SIZE, a power of two.
    CounterModulus,   \* Number of values of a counter, a multiple of Size.
    MaxWrites         \* Bound of the model: no push starts once so many have
                      \* succeeded.

VARIABLES
    m_lock,
    m_readCounter, m_writeCounter,
    m_queue,
    operation,     \* The operation a thread is in.
    pc,            \* The next step of a thread.
    item,          \* The item that is pushed.
    result,        \* What the last push or pop of a thread returned.
    currentSize,   \* What the GetCurrentSize of a thread is about to return.
    writes         \* How many pushes have succeeded (bounds the model).

counterVars == <<m_readCounter, m_writeCounter>>
vars == <<m_lock, counterVars, m_queue, operation, pc, item, result, currentSize, writes>>

Pops == {"PopFront", "PopBack"}
Indices == 0 .. Size - 1
Add(a, b) == (a + b) % CounterModulus
CounterToIndex(c) == c % Size

\* GetCurrentSize_NotThreadSafe.
SizeNow == (m_writeCounter - m_readCounter) % CounterModulus

Init ==
    /\ m_lock = 0
    /\ m_readCounter = 0
    /\ m_writeCounter = 0
    /\ m_queue = [i \in Indices |-> NoItem]
    /\ operation = [t \in Threads |-> "None"]
    /\ pc = [t \in Threads |-> "Idle"]
    /\ item = [t \in Threads |-> NoItem]
    /\ result = [t \in Threads |-> NoItem]
    /\ currentSize = [t \in Threads |-> 0]
    /\ writes = 0

GoTo(t, step) == pc' = [pc EXCEPT ![t] = step]
Result(t, value) == result' = [result EXCEPT ![t] = value]

CallPushBack(t, x) ==
    /\ pc[t] = "Idle"
    /\ writes < MaxWrites
    /\ GoTo(t, "Lock")
    /\ operation' = [operation EXCEPT ![t] = "PushBack"]
    /\ item' = [item EXCEPT ![t] = x]
    /\ Result(t, NoItem)
    /\ UNCHANGED <<m_lock, counterVars, m_queue, currentSize, writes>>

CallPop(t, end) ==
    /\ pc[t] = "Idle"
    /\ GoTo(t, "Lock")
    /\ operation' = [operation EXCEPT ![t] = end]
    /\ Result(t, NoItem)
    /\ UNCHANGED <<m_lock, counterVars, m_queue, item, currentSize, writes>>

CallGetCurrentSize(t) ==
    /\ pc[t] = "Idle"
    /\ GoTo(t, "Lock")
    /\ operation' = [operation EXCEPT ![t] = "GetCurrentSize"]
    /\ UNCHANGED <<m_lock, counterVars, m_queue, item, result, currentSize, writes>>

\* Mutant: the lock is loaded, and stored afterwards.
IsFreeAtSomeTime == TRUE

IsFree == m_lock = 0

\* The Exchange of the loop finds 0.  One that finds 1 leaves it 1, and the thread
\* yields and tries again.
Lock(t) ==
    /\ pc[t] = "Lock"
    /\ IsFree
    /\ GoTo(t, "Check")
    /\ m_lock' = 1
    /\ UNCHANGED <<counterVars, m_queue, operation, item, result, currentSize, writes>>

HasRoom == Add(m_readCounter, Size) > m_writeCounter

CheckRoom(t) ==
    /\ pc[t] = "Check" /\ operation[t] = "PushBack"
    /\ \/ HasRoom /\ GoTo(t, "Access") /\ UNCHANGED result
       \/ ~HasRoom /\ GoTo(t, "Unlock") /\ Result(t, FALSE)
    /\ UNCHANGED <<m_lock, counterVars, m_queue, operation, item, currentSize, writes>>

StoreItem(t) ==
    /\ pc[t] = "Access" /\ operation[t] = "PushBack"
    /\ GoTo(t, "Unlock")
    /\ m_queue' = [m_queue EXCEPT ![CounterToIndex(m_writeCounter)] = item[t]]
    /\ m_writeCounter' = Add(m_writeCounter, 1)
    /\ Result(t, TRUE)
    /\ writes' = writes + 1
    /\ UNCHANGED <<m_lock, m_readCounter, operation, item, currentSize>>

CheckItems(t) ==
    /\ pc[t] = "Check" /\ operation[t] \in Pops
    /\ \/ SizeNow > 0 /\ GoTo(t, "Access")
       \/ SizeNow = 0 /\ GoTo(t, "Unlock")
    /\ UNCHANGED <<m_lock, counterVars, m_queue, operation, item, result, currentSize, writes>>

TakeFront(t) ==
    /\ pc[t] = "Access" /\ operation[t] = "PopFront"
    /\ GoTo(t, "Unlock")
    /\ Result(t, m_queue[CounterToIndex(m_readCounter)])
    /\ m_readCounter' = Add(m_readCounter, 1)
    /\ UNCHANGED <<m_lock, m_writeCounter, m_queue, operation, item, currentSize, writes>>

\* Mutant: post-decrement instead of pre-decrement.
TakeBackPostDecrement(t) ==
    /\ pc[t] = "Access" /\ operation[t] = "PopBack"
    /\ GoTo(t, "Unlock")
    /\ Result(t, m_queue[CounterToIndex(m_writeCounter)])
    /\ m_writeCounter' = Add(m_writeCounter, CounterModulus - 1)
    /\ UNCHANGED <<m_lock, m_readCounter, m_queue, operation, item, currentSize, writes>>

TakeBack(t) ==
    /\ pc[t] = "Access" /\ operation[t] = "PopBack"
    /\ GoTo(t, "Unlock")
    /\ Result(t, m_queue[CounterToIndex(m_writeCounter - 1)])
    /\ m_writeCounter' = Add(m_writeCounter, CounterModulus - 1)
    /\ UNCHANGED <<m_lock, m_readCounter, m_queue, operation, item, currentSize, writes>>

ReadSize(t) ==
    /\ pc[t] = "Check" /\ operation[t] = "GetCurrentSize"
    /\ GoTo(t, "Unlock")
    /\ currentSize' = [currentSize EXCEPT ![t] = SizeNow]
    /\ UNCHANGED <<m_lock, counterVars, m_queue, operation, item, result, writes>>

\* The destructor of the guard.
Unlock(t) ==
    /\ pc[t] = "Unlock"
    /\ GoTo(t, "Idle")
    /\ m_lock' = 0
    /\ operation' = [operation EXCEPT ![t] = "None"]
    /\ item' = [item EXCEPT ![t] = NoItem]
    /\ currentSize' = [currentSize EXCEPT ![t] = 0]
    /\ UNCHANGED <<counterVars, m_queue, result, writes>>

Next ==
    \E t \in Threads :
        \/ \E x \in Items : CallPushBack(t, x)
        \/ \E end \in Pops : CallPop(t, end)
        \/ CallGetCurrentSize(t)
        \/ Lock(t) \/ CheckRoom(t) \/ StoreItem(t)
        \/ CheckItems(t) \/ TakeFront(t) \/ TakeBack(t) \/ ReadSize(t)
        \/ Unlock(t)

Spec == Init /\ [][Next]_vars

-----------------------------------------------------------------------------
(***************************************************************************)
(* Properties.                                                             *)
(***************************************************************************)

Steps == {"Idle", "Lock", "Check", "Access", "Unlock"}
Operations == {"None", "PushBack", "GetCurrentSize"} \cup Pops

TypeOK ==
    /\ m_lock \in {0, 1}
    /\ m_readCounter \in 0 .. CounterModulus - 1
    /\ m_writeCounter \in 0 .. CounterModulus - 1
    /\ m_queue \in [Indices -> Items \cup {NoItem}]
    /\ operation \in [Threads -> Operations]
    /\ pc \in [Threads -> Steps]
    /\ item \in [Threads -> Items \cup {NoItem}]
    /\ result \in [Threads -> Items \cup {NoItem} \cup BOOLEAN]
    /\ currentSize \in [Threads -> 0 .. CounterModulus - 1]
    /\ writes \in Nat

HasLock(t) == pc[t] \in {"Check", "Access", "Unlock"}

Contents == [k \in 1 .. SizeNow |-> m_queue[CounterToIndex(m_readCounter + k - 1)]]

\* What a thread is doing, as a user of the queue sees it.
CallOf(t) ==
    CASE operation[t] = "PushBack" /\ pc[t] \in {"Lock", "Check"} -> "Push"
      [] operation[t] = "PushBack" /\ pc[t] = "Access" -> "Reserved"
      [] operation[t] \in Pops /\ pc[t] \in {"Lock", "Check", "Access"} -> operation[t]
      [] OTHER -> "None"

ArgumentOf(t) == IF CallOf(t) \in {"Push", "Reserved"} THEN item[t] ELSE NoItem

Calls == [t \in Threads |-> CallOf(t)]
Arguments == [t \in Threads |-> ArgumentOf(t)]

\* The size is still right when the lock is given back: nobody else has moved a
\* counter since, so the loop over the suspended fibers starts with their number.
SizeIsExact ==
    \A t \in Threads :
        pc[t] = "Unlock" /\ operation[t] = "GetCurrentSize" => currentSize[t] = SizeNow
=============================================================================
