--------------------------- MODULE LockFreeQueue ---------------------------
(***************************************************************************)
(* lockfreequeue_sptr<T>: a ring of unique_ptr slots with two atomic       *)
(* indices, head_ (next slot to take) and tail_ (next slot to fill).       *)
(*                                                                         *)
(* Every access of a thread to shared memory is a step of its own, so any  *)
(* two calls interleave as the threads of the program do.  Accesses are    *)
(* sequentially consistent here; LockFreeQueueRA gives the atomics the     *)
(* memory orders that the code asks for.                                   *)
(*                                                                         *)
(* The class has two names for each operation with the same body:          *)
(* enqueue = push and dequeue = pop.  One set of actions stands for both.  *)
(***************************************************************************)
EXTENDS Integers, Sequences

CONSTANTS
    Capacity,   \* capacity_, the number of slots allocated
    Producers,  \* threads that call enqueue/push
    Consumers,  \* threads that call dequeue/pop
    Observers,  \* threads that only call count() and is_empty()
    Values,     \* the values of type T
    NoValue     \* nullptr, and an out-parameter that was not assigned

ASSUME CapacityAssumption == Capacity \in Nat \ {0}

ASSUME ValueAssumption == NoValue \notin Values

ASSUME ThreadAssumption ==
    /\ Producers \cap Consumers = {}
    /\ Producers \cap Observers = {}
    /\ Consumers \cap Observers = {}

VARIABLES
    buffer,  \* buffer_: slot -> the value it owns, or NoValue
    head,    \* head_
    tail,    \* tail_
    op,      \* thread -> the member function it is executing
    pc,      \* thread -> the next access of that function
    idx,     \* thread -> current_tail / current_head, its local copy
    val,     \* thread -> its argument (enqueue) or out-parameter (dequeue)
    res,     \* thread -> what the call returns, once decided
    num      \* thread -> the number that count() returns

vars == <<buffer, head, tail, op, pc, idx, val, res, num>>
shared == <<buffer, head, tail>>

Threads == Producers \cup Consumers \cup Observers
Slots == 0 .. Capacity - 1

Ops == {"none", "enqueue", "dequeue", "count", "is_empty"}
Results == {"none", "true", "false", "number", "threw"}

QueryLabels == {"cnt_load_head", "cnt_load_tail", "emp_load",
                "emp_load_head", "emp_load_tail"}
EnqLabels == {"enq_load_tail", "enq_load_head", "enq_write", "enq_store_tail"}
DeqLabels == {"deq_load_head", "deq_load_tail", "deq_check", "deq_copy",
              "deq_reset", "deq_store_head"}
Labels == {"idle", "done", "trap"} \cup QueryLabels \cup EnqLabels \cup DeqLabels

\* mutant: the index is not wrapped
SuccNoWrap(i) == i + 1

\* The slot after i: (i + 1) % capacity_.
Succ(i) == (i + 1) % Capacity

\* mutant: equal indices are taken for a full ring
CountOfStrict(h, t) == IF t > h THEN t - h ELSE Capacity - (h - t)

\* What count() computes from the two indices it has read.
CountOf(h, t) == IF t >= h THEN t - h ELSE Capacity - (h - t)

Init ==
    /\ buffer = [i \in Slots |-> NoValue]
    /\ head = 0
    /\ tail = 0
    /\ op = [t \in Threads |-> "none"]
    /\ pc = [t \in Threads |-> "idle"]
    /\ idx = [t \in Threads |-> 0]
    /\ val = [t \in Threads |-> NoValue]
    /\ res = [t \in Threads |-> "none"]
    /\ num = [t \in Threads |-> 0]

-----------------------------------------------------------------------------
(* Calls and returns.                                                      *)

\* Thread t enters function f with argument v.
Call(t, f, label, v) ==
    /\ pc[t] = "idle"
    /\ op' = [op EXCEPT ![t] = f]
    /\ pc' = [pc EXCEPT ![t] = label]
    /\ val' = [val EXCEPT ![t] = v]
    /\ UNCHANGED <<shared, idx, res, num>>

CallEnqueue(p, v) == Call(p, "enqueue", "enq_load_tail", v)
CallDequeue(c) == Call(c, "dequeue", "deq_load_head", NoValue)
CallCount(t) == Call(t, "count", "cnt_load_head", NoValue)
CallIsEmpty(t) == Call(t, "is_empty", "emp_load", NoValue)

\* The function returns and its locals go out of scope.
Return(t) ==
    /\ pc[t] = "done"
    /\ op' = [op EXCEPT ![t] = "none"]
    /\ pc' = [pc EXCEPT ![t] = "idle"]
    /\ idx' = [idx EXCEPT ![t] = 0]
    /\ val' = [val EXCEPT ![t] = NoValue]
    /\ res' = [res EXCEPT ![t] = "none"]
    /\ num' = [num EXCEPT ![t] = 0]
    /\ UNCHANGED shared

\* Thread t moves from one access of its function to the next.
Goto(t, from, to) ==
    /\ pc[t] = from
    /\ pc' = [pc EXCEPT ![t] = to]

\* Thread t has decided what its call returns.
Decide(t, from, r) ==
    /\ Goto(t, from, "done")
    /\ res' = [res EXCEPT ![t] = r]

-----------------------------------------------------------------------------
(* enqueue(value) and push(value).                                         *)

EnqLoadTail(p) ==
    /\ Goto(p, "enq_load_tail", "enq_load_head")
    /\ idx' = [idx EXCEPT ![p] = tail]
    /\ UNCHANGED <<shared, op, val, res, num>>

\* mutant: head_ is not looked at, so the ring is never full
EnqLoadHeadUnchecked(p) ==
    /\ Goto(p, "enq_load_head", "enq_write")
    /\ UNCHANGED <<shared, op, idx, val, res, num>>

\* mutant: enqueue tries again while the ring is full
EnqLoadHeadRetry(p) ==
    /\ Goto(p, "enq_load_head", IF Succ(idx[p]) = head THEN "enq_load_tail" ELSE "enq_write")
    /\ UNCHANGED <<shared, op, idx, val, res, num>>

\* The queue is full when one more element would make the indices equal.
EnqLoadHead(p) ==
    /\ IF Succ(idx[p]) = head
       THEN Decide(p, "enq_load_head", "false")
       ELSE Goto(p, "enq_load_head", "enq_write") /\ UNCHANGED res
    /\ UNCHANGED <<shared, op, idx, val, num>>

EnqWrite(p) ==
    /\ Goto(p, "enq_write", "enq_store_tail")
    /\ buffer' = [buffer EXCEPT ![idx[p]] = val[p]]
    /\ UNCHANGED <<head, tail, op, idx, val, res, num>>

\* make_unique<T>(value) throws before the slot is touched.
EnqThrow(p) ==
    /\ Decide(p, "enq_write", "threw")
    /\ UNCHANGED <<shared, op, idx, val, num>>

EnqStoreTail(p) ==
    /\ Decide(p, "enq_store_tail", "true")
    /\ tail' = Succ(idx[p])
    /\ UNCHANGED <<buffer, head, op, idx, val, num>>

-----------------------------------------------------------------------------
(* dequeue(value) and pop(value).                                          *)

DeqLoadHead(c) ==
    /\ Goto(c, "deq_load_head", "deq_load_tail")
    /\ idx' = [idx EXCEPT ![c] = head]
    /\ UNCHANGED <<shared, op, val, res, num>>

\* mutant: a queue of one element passes for empty, an empty one does not
DeqLoadTailOffByOne(c) ==
    /\ IF Succ(idx[c]) = tail
       THEN Decide(c, "deq_load_tail", "false")
       ELSE Goto(c, "deq_load_tail", "deq_check") /\ UNCHANGED res
    /\ UNCHANGED <<shared, op, idx, val, num>>

DeqLoadTail(c) ==
    /\ IF idx[c] = tail
       THEN Decide(c, "deq_load_tail", "false")
       ELSE Goto(c, "deq_load_tail", "deq_check") /\ UNCHANGED res
    /\ UNCHANGED <<shared, op, idx, val, num>>

DeqCheck(c) ==
    /\ IF buffer[idx[c]] = NoValue
       THEN Decide(c, "deq_check", "false")
       ELSE Goto(c, "deq_check", "deq_copy") /\ UNCHANGED res
    /\ UNCHANGED <<shared, op, idx, val, num>>

\* value = *buffer_[current_head].  Dereferencing an empty slot is undefined;
\* the thread traps.
DeqCopy(c) ==
    /\ IF buffer[idx[c]] = NoValue
       THEN Goto(c, "deq_copy", "trap") /\ UNCHANGED val
       ELSE /\ Goto(c, "deq_copy", "deq_reset")
            /\ val' = [val EXCEPT ![c] = buffer[idx[c]]]
    /\ UNCHANGED <<shared, op, idx, res, num>>

\* The assignment of T throws before the slot is released.
DeqThrow(c) ==
    /\ buffer[idx[c]] # NoValue
    /\ Decide(c, "deq_copy", "threw")
    /\ UNCHANGED <<shared, op, idx, val, num>>

\* mutant: the slot keeps its element
DeqNoReset(c) ==
    /\ Goto(c, "deq_reset", "deq_store_head")
    /\ UNCHANGED <<shared, op, idx, val, res, num>>

DeqReset(c) ==
    /\ Goto(c, "deq_reset", "deq_store_head")
    /\ buffer' = [buffer EXCEPT ![idx[c]] = NoValue]
    /\ UNCHANGED <<head, tail, op, idx, val, res, num>>

DeqStoreHead(c) ==
    /\ Decide(c, "deq_store_head", "true")
    /\ head' = Succ(idx[c])
    /\ UNCHANGED <<buffer, tail, op, idx, val, num>>

-----------------------------------------------------------------------------
(* count() and is_empty(): two loads that are not one atomic access.       *)

CntLoadHead(t) ==
    /\ Goto(t, "cnt_load_head", "cnt_load_tail")
    /\ idx' = [idx EXCEPT ![t] = head]
    /\ UNCHANGED <<shared, op, val, res, num>>

CntLoadTail(t) ==
    /\ Decide(t, "cnt_load_tail", "number")
    /\ num' = [num EXCEPT ![t] = CountOf(idx[t], tail)]
    /\ UNCHANGED <<shared, op, idx, val>>

\* C++ leaves open which operand of head_.load() == tail_.load() is
\* evaluated first.
EmpLoadFirst(t) ==
    /\ \/ Goto(t, "emp_load", "emp_load_tail") /\ idx' = [idx EXCEPT ![t] = head]
       \/ Goto(t, "emp_load", "emp_load_head") /\ idx' = [idx EXCEPT ![t] = tail]
    /\ UNCHANGED <<shared, op, val, res, num>>

EmpLoadSecond(t) ==
    /\ \/ Decide(t, "emp_load_tail", IF idx[t] = tail THEN "true" ELSE "false")
       \/ Decide(t, "emp_load_head", IF idx[t] = head THEN "true" ELSE "false")
    /\ UNCHANGED <<shared, op, idx, val, num>>

-----------------------------------------------------------------------------
Enqueue(p) ==
    \/ EnqLoadTail(p)
    \/ EnqLoadHead(p)
    \/ EnqWrite(p)
    \/ EnqThrow(p)
    \/ EnqStoreTail(p)

Dequeue(c) ==
    \/ DeqLoadHead(c)
    \/ DeqLoadTail(c)
    \/ DeqCheck(c)
    \/ DeqCopy(c)
    \/ DeqThrow(c)
    \/ DeqReset(c)
    \/ DeqStoreHead(c)

Query(t) ==
    \/ CntLoadHead(t)
    \/ CntLoadTail(t)
    \/ EmpLoadFirst(t)
    \/ EmpLoadSecond(t)

\* One step of a call that is under way.
Step(t) ==
    \/ t \in Producers /\ Enqueue(t)
    \/ t \in Consumers /\ Dequeue(t)
    \/ Query(t)
    \/ Return(t)

\* A thread makes a call that its role allows.
Invoke(t) ==
    \/ t \in Producers /\ \E v \in Values : CallEnqueue(t, v)
    \/ t \in Consumers /\ CallDequeue(t)
    \/ CallCount(t)
    \/ CallIsEmpty(t)

Next == \E t \in Threads : Invoke(t) \/ Step(t)

Spec == Init /\ [][Next]_vars

\* Every index that a thread holds or that is shared is one of a slot: the
\* arithmetic modulo capacity_ never leaves the ring, and count() is always
\* the size of a queue that fits in it.
TypeOK ==
    /\ buffer \in [Slots -> Values \cup {NoValue}]
    /\ head \in Slots
    /\ tail \in Slots
    /\ op \in [Threads -> Ops]
    /\ pc \in [Threads -> Labels]
    /\ idx \in [Threads -> Slots]
    /\ val \in [Threads -> Values \cup {NoValue}]
    /\ res \in [Threads -> Results]
    /\ num \in [Threads -> Slots]
=============================================================================
