------------------------------- MODULE PtrQueue -------------------------------
(***************************************************************************)
(* What a bounded queue of pointers promises to the threads that use it,   *)
(* whatever it is built from: a push that succeeds appends its item at one *)
(* instant of the call, a pop takes the oldest (PopFront) or the newest    *)
(* item (PopBack) or finds the queue empty, and a push is refused only     *)
(* when every slot holds an item or is promised to a push that is under    *)
(* way.                                                                    *)
(***************************************************************************)
EXTENDS Integers, Sequences, FiniteSets

CONSTANTS Threads, Items, NoItem, Size

VARIABLES
    items,     \* The items in the queue, oldest first.
    call,      \* The operation each thread is in.
    argument,  \* The item a thread is pushing.
    result     \* What the last operation of a thread returned.

queueVars == <<items, call, argument, result>>

Reserved == {t \in Threads : call[t] = "Reserved"}

QueueInit ==
    /\ items = <<>>
    /\ call = [t \in Threads |-> "None"]
    /\ argument = [t \in Threads |-> NoItem]
    /\ result = [t \in Threads |-> NoItem]

Return(t, value) ==
    /\ call' = [call EXCEPT ![t] = "None"]
    /\ argument' = [argument EXCEPT ![t] = NoItem]
    /\ result' = [result EXCEPT ![t] = value]

CallPush(t, x) ==
    /\ call[t] = "None"
    /\ call' = [call EXCEPT ![t] = "Push"]
    /\ argument' = [argument EXCEPT ![t] = x]
    /\ result' = [result EXCEPT ![t] = NoItem]
    /\ UNCHANGED items

Reserve(t) ==
    /\ call[t] = "Push"
    /\ Len(items) + Cardinality(Reserved) < Size
    /\ call' = [call EXCEPT ![t] = "Reserved"]
    /\ UNCHANGED <<items, argument, result>>

Insert(t) ==
    /\ call[t] = "Reserved"
    /\ items' = Append(items, argument[t])
    /\ Return(t, TRUE)

Refuse(t) ==
    /\ call[t] = "Push"
    /\ Len(items) + Cardinality(Reserved) = Size
    /\ Return(t, FALSE)
    /\ UNCHANGED items

CallPop(t, end) ==
    /\ call[t] = "None"
    /\ call' = [call EXCEPT ![t] = end]
    /\ result' = [result EXCEPT ![t] = NoItem]
    /\ UNCHANGED <<items, argument>>

TakeFront(t) ==
    /\ call[t] = "PopFront"
    /\ items # <<>>
    /\ items' = Tail(items)
    /\ Return(t, Head(items))

TakeBack(t) ==
    /\ call[t] = "PopBack"
    /\ items # <<>>
    /\ items' = SubSeq(items, 1, Len(items) - 1)
    /\ Return(t, items[Len(items)])

FindEmpty(t) ==
    /\ call[t] \in {"PopFront", "PopBack"}
    /\ items = <<>>
    /\ Return(t, NoItem)
    /\ UNCHANGED items

QueueNext ==
    \E t \in Threads :
        \/ \E x \in Items : CallPush(t, x)
        \/ Reserve(t) \/ Insert(t) \/ Refuse(t)
        \/ \E end \in {"PopFront", "PopBack"} : CallPop(t, end)
        \/ TakeFront(t) \/ TakeBack(t) \/ FindEmpty(t)

QueueSpec == QueueInit /\ [][QueueNext]_queueVars
=============================================================================
