-------------------------- MODULE LockFreeQueueRA --------------------------
(***************************************************************************)
(* lockfreequeue_sptr<T> under the C++ memory model, for one producer and  *)
(* one consumer, with the memory orders the code asks for.                 *)
(*                                                                         *)
(* An atomic is the sequence of the stores made to it (its modification    *)
(* order; each atomic here has a single writer, so stores only append).    *)
(* A thread's view says which prefix of that order, and which writes to    *)
(* each slot, happen before its next step.  A load may return any store    *)
(* that is not older than the view.  A release store carries the view of   *)
(* its thread, and an acquire load of it joins that view to the reader's;  *)
(* a relaxed load learns the position of the store and nothing else.       *)
(*                                                                         *)
(* The slots are plain memory.  Only what a thread's view covers has       *)
(* happened before, so an access to a slot whose last write is not covered *)
(* is a data race.                                                         *)
(***************************************************************************)
EXTENDS Integers, Sequences

CONSTANTS
    Capacity,   \* capacity_
    Producer,   \* the thread that calls enqueue/push
    Consumer,   \* the thread that calls dequeue/pop
    Observers,  \* threads that only call count() and is_empty()
    MaxItems    \* bound: how many elements are enqueued

ASSUME CapacityAssumption == Capacity \in Nat \ {0}

ASSUME ThreadAssumption == Producer # Consumer /\ {Producer, Consumer} \cap Observers = {}

ASSUME MaxItemsAssumption == MaxItems \in Nat

VARIABLES
    mem,     \* "head", "tail" -> its stores, oldest first
    buffer,  \* slot -> the item it owns; 0 is nullptr
    writes,  \* slot -> how many times the slot was written
    view,    \* thread -> what happens before its next step
    pc,      \* thread -> the next access of the function it is executing
    idx,     \* thread -> its local copy of an index
    seen,    \* thread -> which store idx was loaded from
    val,     \* the consumer's out-parameter
    ans      \* thread -> result of its count() or is_empty() (1 is true)

vars == <<mem, buffer, writes, view, pc, idx, seen, val, ans>>

Threads == {Producer, Consumer} \cup Observers
Slots == 0 .. Capacity - 1
Atomics == {"head", "tail"}
Views == [head : Nat, tail : Nat, slot : [Slots -> Nat]]
Stores == [index : Slots, view : Views]

Labels == {"idle", "enq_load_head", "enq_write", "enq_store_tail",
           "deq_load_tail", "deq_check", "deq_copy", "deq_reset", "deq_store_head",
           "cnt_load_tail", "cnt_done", "emp_load_head", "emp_load_tail", "emp_done"}

Succ(i) == (i + 1) % Capacity

\* mutant: equal indices are taken for a full ring
CountOfStrict(h, t) == IF t > h THEN t - h ELSE Capacity - (h - t)

CountOf(h, t) == IF t >= h THEN t - h ELSE Capacity - (h - t)

\* Stores made so far to tail_ and head_ count the elements ever enqueued and
\* dequeued; the first store is the constructor's.
Enqueued == Len(mem["tail"]) - 1
Dequeued == Len(mem["head"]) - 1

NoView == [head |-> 1, tail |-> 1, slot |-> [i \in Slots |-> 0]]

Init ==
    /\ mem = [x \in Atomics |-> <<[index |-> 0, view |-> NoView]>>]
    /\ buffer = [i \in Slots |-> 0]
    /\ writes = [i \in Slots |-> 0]
    /\ view = [t \in Threads |-> NoView]
    /\ pc = [t \in Threads |-> "idle"]
    /\ idx = [t \in Threads |-> 0]
    /\ seen = [t \in Threads |-> 0]
    /\ val = 0
    /\ ans = [t \in Threads |-> 0]

-----------------------------------------------------------------------------
(* The memory orders.                                                      *)

Larger(m, n) == IF m >= n THEN m ELSE n

Join(v, w) ==
    [head |-> Larger(v.head, w.head),
     tail |-> Larger(v.tail, w.tail),
     slot |-> [i \in Slots |-> Larger(v.slot[i], w.slot[i])]]

\* The stores of atomic x that a load by t may return.
Readable(t, x) == view[t][x] .. Len(mem[x])

\* x.load(memory_order_relaxed) returned store k.
RelaxedLoad(t, x, k) ==
    /\ k \in Readable(t, x)
    /\ view' = [view EXCEPT ![t][x] = k]

\* x.load(memory_order_acquire) returned store k.
AcquireLoad(t, x, k) ==
    /\ k \in Readable(t, x)
    /\ view' = [view EXCEPT ![t] = Join(@, mem[x][k].view)]

\* x.store(i, memory_order_relaxed): the store carries no view.
RelaxedStore(t, x, i) ==
    LET k == Len(mem[x]) + 1
    IN  /\ view' = [view EXCEPT ![t][x] = k]
        /\ mem' = [mem EXCEPT ![x] =
               Append(@, [index |-> i, view |-> [NoView EXCEPT ![x] = k]])]

\* x.store(i, memory_order_release)
ReleaseStore(t, x, i) ==
    LET published == [view[t] EXCEPT ![x] = Len(mem[x]) + 1]
    IN  /\ view' = [view EXCEPT ![t] = published]
        /\ mem' = [mem EXCEPT ![x] =
               Append(@, [index |-> i, view |-> published])]

\* A write of v to slot i, by unique_ptr's assignment or reset.
WriteSlot(t, i, v) ==
    /\ buffer' = [buffer EXCEPT ![i] = v]
    /\ writes' = [writes EXCEPT ![i] = @ + 1]
    /\ view' = [view EXCEPT ![t].slot[i] = writes[i] + 1]

Goto(t, from, to) ==
    /\ pc[t] = from
    /\ pc' = [pc EXCEPT ![t] = to]

\* t's local copy is the index that store k of x wrote.
Keep(t, x, k) ==
    /\ idx' = [idx EXCEPT ![t] = mem[x][k].index]
    /\ seen' = [seen EXCEPT ![t] = k]

memory == <<mem, buffer, writes>>

-----------------------------------------------------------------------------
(* enqueue/push, by the producer.                                          *)

EnqLoadTail ==
    /\ Enqueued < MaxItems
    /\ Goto(Producer, "idle", "enq_load_head")
    /\ \E k \in 1 .. Len(mem["tail"]) :
           RelaxedLoad(Producer, "tail", k) /\ Keep(Producer, "tail", k)
    /\ UNCHANGED <<memory, val, ans>>

\* mutant: head_ is read with memory_order_relaxed
EnqLoadHeadRelaxed ==
    \E k \in 1 .. Len(mem["head"]) :
        /\ RelaxedLoad(Producer, "head", k)
        /\ IF Succ(idx[Producer]) = mem["head"][k].index
           THEN Goto(Producer, "enq_load_head", "idle")
           ELSE Goto(Producer, "enq_load_head", "enq_write")
        /\ UNCHANGED <<memory, idx, seen, val, ans>>

\* mutant: head_ is not looked at, so the ring is never full
EnqLoadHeadUnchecked ==
    /\ Goto(Producer, "enq_load_head", "enq_write")
    /\ UNCHANGED <<memory, view, idx, seen, val, ans>>

EnqLoadHead ==
    \E k \in 1 .. Len(mem["head"]) :
        /\ AcquireLoad(Producer, "head", k)
        /\ IF Succ(idx[Producer]) = mem["head"][k].index
           THEN Goto(Producer, "enq_load_head", "idle")
           ELSE Goto(Producer, "enq_load_head", "enq_write")
        /\ UNCHANGED <<memory, idx, seen, val, ans>>

\* Items are numbered in the order in which they are enqueued.
EnqWrite ==
    /\ Goto(Producer, "enq_write", "enq_store_tail")
    /\ WriteSlot(Producer, idx[Producer], Enqueued + 1)
    /\ UNCHANGED <<mem, idx, seen, val, ans>>

\* make_unique throws; the caller gets the exception.
EnqThrow ==
    /\ Goto(Producer, "enq_write", "idle")
    /\ UNCHANGED <<memory, view, idx, seen, val, ans>>

\* mutant: tail_ is stored with memory_order_relaxed
EnqStoreTailRelaxed ==
    /\ Goto(Producer, "enq_store_tail", "idle")
    /\ RelaxedStore(Producer, "tail", Succ(idx[Producer]))
    /\ UNCHANGED <<buffer, writes, idx, seen, val, ans>>

EnqStoreTail ==
    /\ Goto(Producer, "enq_store_tail", "idle")
    /\ ReleaseStore(Producer, "tail", Succ(idx[Producer]))
    /\ UNCHANGED <<buffer, writes, idx, seen, val, ans>>

-----------------------------------------------------------------------------
(* dequeue/pop, by the consumer.                                           *)

DeqLoadHead ==
    /\ Goto(Consumer, "idle", "deq_load_tail")
    /\ \E k \in 1 .. Len(mem["head"]) :
           RelaxedLoad(Consumer, "head", k) /\ Keep(Consumer, "head", k)
    /\ UNCHANGED <<memory, val, ans>>

DeqLoadTail ==
    \E k \in 1 .. Len(mem["tail"]) :
        /\ AcquireLoad(Consumer, "tail", k)
        /\ IF idx[Consumer] = mem["tail"][k].index
           THEN Goto(Consumer, "deq_load_tail", "idle")
           ELSE Goto(Consumer, "deq_load_tail", "deq_check")
        /\ UNCHANGED <<memory, idx, seen, val, ans>>

DeqCheck ==
    /\ IF buffer[idx[Consumer]] = 0
       THEN Goto(Consumer, "deq_check", "idle")
       ELSE Goto(Consumer, "deq_check", "deq_copy")
    /\ UNCHANGED <<memory, view, idx, seen, val, ans>>

DeqCopy ==
    /\ Goto(Consumer, "deq_copy", "deq_reset")
    /\ val' = buffer[idx[Consumer]]
    /\ UNCHANGED <<memory, view, idx, seen, ans>>

\* The assignment of T throws; the slot keeps its element.
DeqThrow ==
    /\ Goto(Consumer, "deq_copy", "idle")
    /\ UNCHANGED <<memory, view, idx, seen, val, ans>>

DeqReset ==
    /\ Goto(Consumer, "deq_reset", "deq_store_head")
    /\ WriteSlot(Consumer, idx[Consumer], 0)
    /\ UNCHANGED <<mem, idx, seen, val, ans>>

DeqStoreHead ==
    /\ Goto(Consumer, "deq_store_head", "idle")
    /\ ReleaseStore(Consumer, "head", Succ(idx[Consumer]))
    /\ UNCHANGED <<buffer, writes, idx, seen, val, ans>>

-----------------------------------------------------------------------------
(* count() and is_empty(), by any thread.                                  *)

\* mutant: head_ is read with memory_order_relaxed
CntLoadHeadRelaxed(t) ==
    /\ Goto(t, "idle", "cnt_load_tail")
    /\ \E k \in 1 .. Len(mem["head"]) :
           RelaxedLoad(t, "head", k) /\ Keep(t, "head", k)
    /\ UNCHANGED <<memory, val, ans>>

CntLoadHead(t) ==
    /\ Goto(t, "idle", "cnt_load_tail")
    /\ \E k \in 1 .. Len(mem["head"]) :
           AcquireLoad(t, "head", k) /\ Keep(t, "head", k)
    /\ UNCHANGED <<memory, val, ans>>

CntLoadTail(t) ==
    \E k \in 1 .. Len(mem["tail"]) :
        /\ Goto(t, "cnt_load_tail", "cnt_done")
        /\ AcquireLoad(t, "tail", k)
        /\ ans' = [ans EXCEPT ![t] = CountOf(idx[t], mem["tail"][k].index)]
        /\ UNCHANGED <<memory, idx, seen, val>>

\* The operands of == may be evaluated in either order; head_ is read
\* relaxed, tail_ acquire.
EmpLoadFirst(t) ==
    /\ \/ /\ Goto(t, "idle", "emp_load_tail")
          /\ \E k \in 1 .. Len(mem["head"]) :
                 RelaxedLoad(t, "head", k) /\ Keep(t, "head", k)
       \/ /\ Goto(t, "idle", "emp_load_head")
          /\ \E k \in 1 .. Len(mem["tail"]) :
                 AcquireLoad(t, "tail", k) /\ Keep(t, "tail", k)
    /\ UNCHANGED <<memory, val, ans>>

SameIndex(t, x, k) == IF idx[t] = mem[x][k].index THEN 1 ELSE 0

EmpLoadSecond(t) ==
    /\ \/ /\ Goto(t, "emp_load_tail", "emp_done")
          /\ \E k \in 1 .. Len(mem["tail"]) :
                 /\ AcquireLoad(t, "tail", k)
                 /\ ans' = [ans EXCEPT ![t] = SameIndex(t, "tail", k)]
       \/ /\ Goto(t, "emp_load_head", "emp_done")
          /\ \E k \in 1 .. Len(mem["head"]) :
                 /\ RelaxedLoad(t, "head", k)
                 /\ ans' = [ans EXCEPT ![t] = SameIndex(t, "head", k)]
    /\ UNCHANGED <<memory, idx, seen, val>>

\* The caller has the answer; the locals go out of scope.
Return(t) ==
    /\ pc[t] \in {"cnt_done", "emp_done"}
    /\ pc' = [pc EXCEPT ![t] = "idle"]
    /\ idx' = [idx EXCEPT ![t] = 0]
    /\ seen' = [seen EXCEPT ![t] = 0]
    /\ ans' = [ans EXCEPT ![t] = 0]
    /\ UNCHANGED <<memory, view, val>>

Enqueue == EnqLoadTail \/ EnqLoadHead \/ EnqWrite \/ EnqThrow \/ EnqStoreTail

Dequeue ==
    \/ DeqLoadHead
    \/ DeqLoadTail
    \/ DeqCheck
    \/ DeqCopy
    \/ DeqThrow
    \/ DeqReset
    \/ DeqStoreHead

Query(t) ==
    \/ CntLoadHead(t)
    \/ CntLoadTail(t)
    \/ EmpLoadFirst(t)
    \/ EmpLoadSecond(t)
    \/ Return(t)

Next == Enqueue \/ Dequeue \/ \E t \in Threads : Query(t)

Spec == Init /\ [][Next]_vars

-----------------------------------------------------------------------------
\* Every index that a thread holds or that was ever stored is one of a slot,
\* and every number that count() returns is less than the capacity.
TypeOK ==
    /\ mem \in [Atomics -> Seq(Stores)]
    /\ buffer \in [Slots -> 0 .. MaxItems]
    /\ writes \in [Slots -> Nat]
    /\ view \in [Threads -> Views]
    /\ pc \in [Threads -> Labels]
    /\ idx \in [Threads -> Slots]
    /\ seen \in [Threads -> Nat]
    /\ val \in 0 .. MaxItems
    /\ ans \in [Threads -> Slots \cup {1}]

\* No data race on a slot: whenever a side is about to touch the slot at its
\* index (assign it, test it, dereference it, release it), every earlier write
\* to that slot happens before.  The acquire loads of enqueue and dequeue and
\* the release stores they read from are what makes this true.
RaceFree ==
    /\ pc[Producer] = "enq_write" =>
           view[Producer].slot[idx[Producer]] = writes[idx[Producer]]
    /\ pc[Consumer] \in {"deq_check", "deq_copy", "deq_reset"} =>
           view[Consumer].slot[idx[Consumer]] = writes[idx[Consumer]]

\* Elements come out in the order they went in, each exactly once, however
\* stale the indices are that either side has read.
FifoOrder ==
    pc[Consumer] \in {"deq_reset", "deq_store_head"} => val = Dequeued + 1

\* enqueue never drops an element that nobody has taken.
NoOverwrite ==
    pc[Producer] = "enq_write" => buffer[idx[Producer]] = 0

\* count() in any thread: the tail it is about to read is not older than the
\* head it has read, so the difference it computes is not that of a queue with
\* more elements taken than put.
CountReadsForward ==
    \A t \in Threads : pc[t] = "cnt_load_tail" => view[t].tail >= seen[t]

\* For the owner of an end, count() and is_empty() err on the safe side: the
\* producer never sees fewer elements than there are, the consumer never more.
OwnerQueries ==
    LET present == Enqueued - Dequeued
    IN  /\ pc[Producer] = "cnt_done" => ans[Producer] >= present
        /\ pc[Consumer] = "cnt_done" => ans[Consumer] <= present
        /\ pc[Producer] = "emp_done" /\ ans[Producer] = 1 => present = 0
        /\ pc[Consumer] = "emp_done" /\ ans[Consumer] = 0 => present > 0
-----------------------------------------------------------------------------
(* Why: the inductive invariant.  Element m, counted from 1, goes through  *)
(* slot (m - 1) % capacity_.                                               *)

SlotOf(m) == (m - 1) % Capacity

\* The elements that are in their slot; the producer may have filled a slot
\* that it has not published, the consumer emptied one that it has not released.
Present ==
    (IF pc[Consumer] = "deq_store_head" THEN Dequeued + 2 ELSE Dequeued + 1) ..
    (IF pc[Producer] = "enq_store_tail" THEN Enqueued + 1 ELSE Enqueued)

\* The elements that the slots which are free are for.
Vacant ==
    (IF pc[Producer] = "enq_store_tail" THEN Enqueued + 2 ELSE Enqueued + 1) ..
    (IF pc[Consumer] = "deq_store_head" THEN Dequeued + 1 ELSE Dequeued) + Capacity

SlotsHoldPresent ==
    /\ \A m \in Present : buffer[SlotOf(m)] = m
    /\ \A m \in Vacant : buffer[SlotOf(m)] = 0

\* Every access to the slot of element m so far happens before view v.
Covers(v, m) == v.slot[SlotOf(m)] = writes[SlotOf(m)]

\* What a view says has happened.
Past(v) ==
    /\ v.head \in 1 .. Len(mem["head"])
    /\ v.tail \in 1 .. Len(mem["tail"])
    /\ \A i \in Slots : v.slot[i] <= writes[i]

\* Store k of tail_ carries the k - 1 elements put before it, those of them that
\* are still there; store k of head_ carries the slots of the k - 1 elements
\* taken before it, and the positions of their stores.
StoresCarry ==
    /\ \A x \in Atomics : \A k \in DOMAIN mem[x] :
           mem[x][k].index = SlotOf(k) /\ Past(mem[x][k].view)
    /\ \A k \in DOMAIN mem["tail"] :
           /\ \A m \in Present : m < k => Covers(mem["tail"][k].view, m)
           /\ mem["tail"][k].view.tail = k
    /\ \A k \in DOMAIN mem["head"] :
           /\ \A m \in Vacant : m < k + Capacity => Covers(mem["head"][k].view, m)
           /\ mem["head"][k].view.head = k
           /\ mem["head"][k].view.tail >= k

\* The producer knows its own stores and elements, and of enough releases for
\* the ring not to hold more than it can.
ProducerInv ==
    LET v == view[Producer]
    IN  /\ v.tail = Len(mem["tail"])
        /\ \A m \in Present : Covers(v, m)
        /\ Enqueued + 2 <= v.head + Capacity
        /\ pc[Producer] \in {"enq_load_head", "enq_write", "enq_store_tail"} =>
               idx[Producer] = SlotOf(Enqueued + 1) /\ Enqueued < MaxItems
        /\ pc[Producer] \in {"enq_write", "enq_store_tail"} =>
               Enqueued + 3 <= v.head + Capacity
        /\ pc[Producer] = "enq_write" => Covers(v, Enqueued + 1)

\* The consumer knows its own stores and releases, and of the elements it has
\* taken and is about to take.
ConsumerInv ==
    LET v == view[Consumer]
    IN  /\ v.head = Len(mem["head"])
        /\ \A m \in Vacant : Covers(v, m)
        /\ v.tail > Dequeued
        /\ pc[Consumer] \in {"deq_load_tail", "deq_check", "deq_copy", "deq_reset",
                             "deq_store_head"} => idx[Consumer] = SlotOf(Dequeued + 1)
        /\ pc[Consumer] \in {"deq_check", "deq_copy", "deq_reset", "deq_store_head"} =>
               v.tail > Dequeued + 1
        /\ pc[Consumer] \in {"deq_check", "deq_copy", "deq_reset"} =>
               Covers(v, Dequeued + 1)
        /\ pc[Consumer] \in {"deq_reset", "deq_store_head"} => val = Dequeued + 1

\* What a thread in the middle of count() or is_empty() has read.
ReadInv(t) ==
    /\ pc[t] \in {"cnt_load_tail", "emp_load_tail"} =>
           /\ seen[t] \in 1 .. view[t].head
           /\ idx[t] = SlotOf(seen[t])
           /\ t = Producer => Enqueued + 2 <= seen[t] + Capacity
           /\ t = Consumer => seen[t] = Len(mem["head"])
    /\ pc[t] = "cnt_load_tail" => view[t].tail >= seen[t]
    /\ pc[t] = "emp_load_head" =>
           /\ seen[t] \in 1 .. view[t].tail
           /\ idx[t] = SlotOf(seen[t])
           /\ t = Producer => seen[t] = Len(mem["tail"])
           /\ t = Consumer => seen[t] > Dequeued

IInv ==
    /\ TypeOK
    /\ Dequeued \in 0 .. Enqueued /\ Enqueued < Dequeued + Capacity
    /\ \A t \in Threads : Past(view[t])
    /\ SlotsHoldPresent
    /\ StoresCarry
    /\ ProducerInv
    /\ ConsumerInv
    /\ \A t \in Threads : ReadInv(t)
    /\ OwnerQueries
=============================================================================
